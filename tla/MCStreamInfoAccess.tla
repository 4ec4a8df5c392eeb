------------------------- MODULE MCStreamInfoAccess -------------------------
(* Small instances of StreamInfoAccess for TLC. *)
EXTENDS StreamInfoAccess, TLC

\* Detections are interchangeable, and so are handlers.
Symmetry == Permutations(Detectors) \cup Permutations(Handlers)
=============================================================================
