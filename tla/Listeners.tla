----------------------------- MODULE Listeners -----------------------------
(***************************************************************************)
(* What the process is to those who call it over the network: for every     *)
(* camera a server that at some time begins to listen on its port, at most  *)
(* once, and at some time is gone for good.  Lifecycle implements this      *)
(* specification, and Onboarding builds on it.                              *)
(***************************************************************************)
CONSTANTS
  Cameras, \* the entries of the configuration
  Port,    \* Port[i] is http_port of the i-th
  AnyPort  \* that of a camera which takes whichever is free

VARIABLE listening \* "down" before, "up" while it listens, "over" after

Init == listening = [i \in Cameras |-> "down"]

\* A port has one listener.
ComeUp(i) ==
  /\ listening[i] = "down"
  /\ \A j \in Cameras : Port[j] = Port[i] /\ Port[i] # AnyPort => listening[j] # "up"
  /\ listening' = [listening EXCEPT ![i] = "up"]

\* A server fails, or the process ends with all that are left.
GoDown(S) ==
  /\ S # {} /\ \A i \in S : listening[i] # "over"
  /\ listening' = [i \in Cameras |-> IF i \in S THEN "over" ELSE listening[i]]

Next == \/ \E i \in Cameras : ComeUp(i)
        \/ \E S \in SUBSET Cameras : GoDown(S)

Spec == Init /\ [][Next]_listening

=============================================================================
