-------------------------- MODULE Refreshing_proof --------------------------
(***************************************************************************)
(* What the promise of Refreshing comes to, for any streams and answers:    *)
(* its rule for kicks alone keeps detections from piling up and records     *)
(* from falling back.  Detection implements Refreshing, so both hold of it. *)
(***************************************************************************)
EXTENDS Refreshing, TLAPS

TypeOK ==
  /\ last \in [Streams -> Int] /\ writer \in [Streams -> Int]
  /\ open \in [Streams -> SUBSET Int]

\* What is under way for a stream is of its last two kicks, and nothing younger
\* than the last kick was merged.
LastTwo == \A s \in Streams :
  /\ open[s] \subseteq {last[s] - 1, last[s]}
  /\ writer[s] <= last[s]

LEMMA NextLastTwo == TypeOK /\ LastTwo /\ [Next]_vars => TypeOK' /\ LastTwo'
<1> SUFFICES ASSUME TypeOK, LastTwo, [Next]_vars PROVE TypeOK' /\ LastTwo'
  OBVIOUS
<1>1. ASSUME NEW S \in SUBSET Streams, Kick(S) PROVE TypeOK' /\ LastTwo'
  <2>1. TypeOK'
    BY <1>1 DEF Kick, TypeOK
  <2>2. LastTwo'
    BY <1>1 DEF Kick, TypeOK, LastTwo
  <2> QED BY <2>1, <2>2
<1>2. ASSUME NEW s \in Streams, NEW k \in open[s], Close(s, k),
             writer' \in {writer, [writer EXCEPT ![s] = k]}
      PROVE  TypeOK' /\ LastTwo'
  <2>1. k \in Int /\ k <= last[s]
    BY <1>2 DEF TypeOK, LastTwo
  <2>2. open' = [open EXCEPT ![s] = @ \ {k}] /\ last' = last
    BY <1>2 DEF Close
  <2>3. TypeOK'
    BY <1>2, <2>1, <2>2 DEF TypeOK
  <2>4. LastTwo'
    BY <1>2, <2>1, <2>2 DEF TypeOK, LastTwo
  <2> QED BY <2>3, <2>4
<1>3. ASSUME NEW s \in Streams, NEW k \in open[s], GiveUp(s, k) PROVE TypeOK' /\ LastTwo'
  BY <1>2, <1>3 DEF GiveUp, TypeOK
<1>4. ASSUME NEW s \in Streams, NEW k \in open[s], NEW answer, Refresh(s, k, answer)
      PROVE  TypeOK' /\ LastTwo'
  BY <1>2, <1>4 DEF Refresh, TypeOK
<1>5. CASE Stop
  BY <1>5 DEF Stop, TypeOK, LastTwo
<1>6. CASE UNCHANGED vars
  BY <1>6 DEF vars, TypeOK, LastTwo
<1> QED BY <1>1, <1>3, <1>4, <1>5, <1>6 DEF Next

LEMMA Inductive == Spec => [](TypeOK /\ LastTwo)
<1>1. Init => TypeOK /\ LastTwo
  BY DEF Init, TypeOK, LastTwo
<1> QED BY <1>1, NextLastTwo, PTL DEF Spec

\* A stream has at most two detections under way, those of its last two kicks:
\* the rule that a kick finds at most the last one under way is enough.
THEOREM TwoAtATime == Spec => [](\A s \in Streams : open[s] \subseteq {last[s] - 1, last[s]})
<1>1. LastTwo => \A s \in Streams : open[s] \subseteq {last[s] - 1, last[s]}
  BY DEF LastTwo
<1> QED BY <1>1, Inductive, PTL

\* An answer replaces at most the answer of the kick right after its own.
THEOREM OneKickBack == Spec => [][\A s \in Streams : writer'[s] >= writer[s] - 1]_vars
<1>1. TypeOK /\ LastTwo /\ [Next]_vars => [\A s \in Streams : writer'[s] >= writer[s] - 1]_vars
  <2> SUFFICES ASSUME TypeOK, LastTwo, Next, NEW t \in Streams
               PROVE  writer'[t] >= writer[t] - 1
    OBVIOUS
  <2>1. writer[t] \in Int
    BY DEF TypeOK
  <2>2. CASE writer' = writer
    BY <2>1, <2>2
  <2>3. ASSUME NEW s \in Streams, NEW k \in open[s], NEW answer, Refresh(s, k, answer)
        PROVE  writer'[t] >= writer[t] - 1
    <3>1. k \in Int /\ last[s] \in Int /\ k >= last[s] - 1 /\ writer[s] <= last[s]
      BY DEF TypeOK, LastTwo
    <3>2. writer'[t] = IF t = s THEN k ELSE writer[t]
      BY <2>3 DEF Refresh, TypeOK
    <3> QED BY <2>1, <3>1, <3>2
  <2> QED BY <2>2, <2>3 DEF Next, Kick, GiveUp, Stop
<1> QED BY <1>1, Inductive, PTL DEF Spec

=============================================================================
