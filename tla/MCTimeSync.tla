----------------------------- MODULE MCTimeSync -----------------------------
(* Small instances of TimeSync for TLC. *)
EXTENDS TimeSync, TLC

Manual == "Manual UTC"
NtpUtc == "NTP UTC"
NtpEast == "NTP EAST-4"
LabelSet == {Manual, NtpUtc}

\* A good body, Go's zero time, a body that asks for no time, a prefixed body.
Noon == [utc |-> TRUE, date |-> TRUE, base |-> 50, label |-> Manual]
YearOne == [utc |-> TRUE, date |-> TRUE, base |-> 0, label |-> NtpUtc]
NoDay == [utc |-> TRUE, date |-> FALSE, base |-> NoTime, label |-> Manual]
Prefixed == [utc |-> FALSE, date |-> FALSE, base |-> 50, label |-> Manual]

PlainBodies == {Noon, YearOne, NoDay}
Symmetry == Permutations(Clients)
PrefixedBodies == {Noon, Prefixed}
ZeroBodies == {Noon, YearOne}

NoSteps == {}
Backwards == {-1}
=============================================================================
