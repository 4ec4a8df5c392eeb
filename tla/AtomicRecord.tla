--------------------------- MODULE AtomicRecord ---------------------------
(***************************************************************************)
(* What Detection takes for granted of a stream's record: a merge replaces *)
(* the fields its answer has, all at one instant, and merges happen one    *)
(* after the other.  A field is the number of the merge that wrote it.     *)
(***************************************************************************)
EXTENDS Naturals

CONSTANTS Fields, MaxMerges

VARIABLES record, last

Init == record = [f \in Fields |-> 0] /\ last = 0

MergeFields(F) ==
  /\ last < MaxMerges
  /\ last' = last + 1
  /\ record' = [f \in Fields |-> IF f \in F THEN last + 1 ELSE record[f]]

Next == \E F \in SUBSET Fields : MergeFields(F)

Spec == Init /\ [][Next]_<<record, last>>
=============================================================================
