---------------------------- MODULE MCOnboarding ----------------------------
(* Two cameras that want one port and one that has its own; a machine with a *)
(* name, an IPv4 address and an IPv6 literal.                                *)
EXTENDS Onboarding

ThreePorts == <<8081, 8082, 8082>>
Machine == {"nas.local", "10.0.0.5", "[fd00::5]"}
ColonCut == [h \in Machine |-> IF h = "[fd00::5]" THEN "[fd00" ELSE h]

\* With a substream that has a path, that has none, and without one.
Switches ==
  <<[SubstreamEnabled |-> TRUE, SubstreamPath |-> FALSE],
    [SubstreamEnabled |-> TRUE, SubstreamPath |-> TRUE],
    [SubstreamEnabled |-> FALSE, SubstreamPath |-> FALSE]>>

Added(i, h, sends) == [camera |-> i, host |-> h, sendsHost |-> sends]

\* By name, by the address that is also the outbound one, with and without a
\* Host header, and by the literal.
AllKinds == {Added(1, "nas.local", TRUE), Added(2, "10.0.0.5", FALSE),
             Added(3, "10.0.0.5", TRUE), Added(1, "[fd00::5]", TRUE)}

ByName == {Added(1, "nas.local", TRUE)}
=============================================================================
