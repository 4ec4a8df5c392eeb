-------------------------- MODULE Detection_proof --------------------------
(***************************************************************************)
(* Theorems about Detection, for any number of cameras, any set of probe   *)
(* answers, any bounds, and any timing that satisfies TimingAssumption.    *)
(***************************************************************************)
EXTENDS Detection, StreamInfo_proof, FiniteSetTheorems, TLAPS

USE CamerasAssumption, ProbeAssumption, BoundsAssumption, TimingAssumption

LEMMA DetectionType == \A d \in Detections : KickOf(d) \in Kicks /\ StreamOf(d) \in Streams
  BY DEF Detections, KickOf, StreamOf

LEMMA KickType == \A k \in Kicks : k \in Int
  BY DEF Kicks

LEMMA LifetimeType == Lifetime \in Nat
  BY DEF Lifetime

-----------------------------------------------------------------------------
(* Type correctness *)

LEMMA InitType == Init => TypeOK
<1> SUFFICES ASSUME Init PROVE TypeOK
  OBVIOUS
<1> USE DEF Init
<1>1. \A s \in Streams : Default(s) \in StreamInfoType
  BY DEF Default, MainDefault, SubDefault, StreamInfoType, EncodingNames, ProfileNames
<1>2. 0 \in Kicks /\ -1 \in Kicks \cup {-1} /\ 0 \in 0..Horizon /\ 0 \in 0..NCameras
  BY DEF Kicks
<1>3. tickC \in Seq(Nat) /\ Len(tickC) <= 1
  OBVIOUS
<1>4. streamInfo \in [Streams -> StreamInfoType] /\ writer \in [Streams -> Kicks \cup {-1}]
  BY <1>1, <1>2
<1>5. \A d \in Detections : pc[d] = "merging" => probe[d] \in ProbeResults
  OBVIOUS
<1> QED BY <1>2, <1>3, <1>4, <1>5 DEF TypeOK

\* What any kick leaves well typed.
LEMMA SpawnType == ASSUME TypeOK, NEW k, NEW C, Spawn(k, C)
                   PROVE  /\ pc' \in [Detections -> {"unborn", "spawned", "probing", "merging", "done"}]
                          /\ due' \in [Detections -> Nat]
                          /\ probe' \in [Detections -> ProbeResults \cup {NoProbe}]
                          /\ \A d \in Detections : pc'[d] = "merging" => probe'[d] \in ProbeResults
                          /\ streamInfo' \in [Streams -> StreamInfoType]
                          /\ writer' \in [Streams -> Kicks \cup {-1}]
<1>1. now + SchedDelay \in Nat
  BY DEF TypeOK
<1> QED BY <1>1 DEF TypeOK, Spawn

LEMMA MergeStepType == ASSUME TypeOK, NEW d \in Detections, Merge(d)
                       PROVE  /\ streamInfo' \in [Streams -> StreamInfoType]
                              /\ writer' \in [Streams -> Kicks \cup {-1}]
<1>1. Target(d) \in Streams /\ KickOf(d) \in Kicks
  BY DetectionType DEF Target
<1>2. probe[d] \in ProbeStream /\ streamInfo[Target(d)] \in StreamInfoType
  BY <1>1 DEF TypeOK, Merge
<1>3. MergeProbe(streamInfo[Target(d)], probe[d]) \in StreamInfoType
  BY <1>2, MergeType
<1> QED BY <1>1, <1>3 DEF TypeOK, Merge

LEMMA NextType == TypeOK /\ [Next]_vars => TypeOK'
<1> SUFFICES ASSUME TypeOK, [Next]_vars PROVE TypeOK'
  OBVIOUS
<1>1. CASE NewServer
  <2>1. constructed' \in 0..NCameras
    BY <1>1 DEF TypeOK, NewServer
  <2> QED BY <1>1, <2>1, SpawnType DEF TypeOK, NewServer
<1>2. CASE FirstKick
  <2>1. Spawn(1, Cameras) /\ kicks' \in Kicks
    BY <1>2 DEF FirstKick, KickAllDetections, Kicks
  <2> QED BY <1>2, <2>1, SpawnType DEF TypeOK, FirstKick
<1>3. CASE NewTicker
  BY <1>3 DEF TypeOK, NewTicker, detectVars
<1>4. CASE ReceiveTick
  BY <1>4 DEF TypeOK, ReceiveTick, detectVars
<1>5. CASE TickKick
  <2>1. Spawn(kicks + 1, Cameras) /\ kicks' \in Kicks
    BY <1>5 DEF TypeOK, TickKick, KickAllDetections, Spawn, Kicks
  <2> QED BY <1>5, <2>1, SpawnType DEF TypeOK, TickKick
<1>6. CASE RoutineReturn
  BY <1>6 DEF TypeOK, RoutineReturn, detectVars
<1>7. CASE Cancel
  BY <1>7 DEF TypeOK, Cancel, detectVars
<1>8. ASSUME NEW d \in Detections, Detect(d) PROVE TypeOK'
  <2>1. CASE Begin(d)
    BY <2>1 DEF TypeOK, Begin, Leave, routineVars
  <2>2. CASE ProbeFails(d)
    BY <2>2 DEF TypeOK, ProbeFails, Leave, routineVars
  <2>3. CASE ProbeTimesOut(d)
    BY <2>3 DEF TypeOK, ProbeTimesOut, Leave, routineVars
  <2>4. ASSUME NEW st \in ProbeResults, ProbeReturns(d, st) PROVE TypeOK'
    <3>1. now + SchedDelay \in Nat
      BY DEF TypeOK
    <3>2. /\ pc' \in [Detections -> {"unborn", "spawned", "probing", "merging", "done"}]
          /\ due' \in [Detections -> Nat]
          /\ probe' \in [Detections -> ProbeResults \cup {NoProbe}]
      BY <2>4, <3>1 DEF TypeOK, ProbeReturns, Leave
    <3>3. \A e \in Detections : pc'[e] = "merging" => probe'[e] \in ProbeResults
      BY <2>4 DEF TypeOK, ProbeReturns, Leave
    <3> QED BY <2>4, <3>2, <3>3 DEF TypeOK, ProbeReturns, Leave, routineVars
  <2>5. CASE Merge(d)
    BY <2>5, MergeStepType DEF TypeOK, Merge, Leave, routineVars
  <2> QED BY <1>8, <2>1, <2>2, <2>3, <2>4, <2>5 DEF Detect
<1>9. CASE Advance
  <2>1. tickC' \in Seq(Nat) /\ Len(tickC') <= 1 /\ nextTick' \in Nat
    <3>1. <<nextTick>> \in Seq(Nat) /\ Len(<<nextTick>>) = 1
      BY DEF TypeOK
    <3>2. tickC' \in {tickC, <<nextTick>>} /\ nextTick' \in {nextTick, nextTick + DetectionInterval}
      BY <1>9 DEF Advance, Fire
    <3>3. tickC \in Seq(Nat) /\ Len(tickC) <= 1 /\ nextTick \in Nat
      BY DEF TypeOK
    <3>4. CASE tickC' = tickC
      BY <3>2, <3>3, <3>4
    <3>5. CASE tickC' = <<nextTick>>
      BY <3>1, <3>2, <3>3, <3>5
    <3> QED BY <3>2, <3>4, <3>5
  <2> QED BY <1>9, <2>1 DEF TypeOK, Advance, detectVars
<1>10. CASE UNCHANGED vars
  BY <1>10 DEF TypeOK, vars, routineVars, detectVars
<1> QED BY <1>1, <1>2, <1>3, <1>4, <1>5, <1>6, <1>7, <1>8, <1>9, <1>10
        DEF Next, Routine, AtHorizon

\* Type correctness: every variable keeps its type, a detection that merges
\* has an answer to merge, and the ticker's channel holds at most one tick.
THEOREM TypeCorrect == Spec => []TypeOK
  BY InitType, NextType, PTL DEF Spec

-----------------------------------------------------------------------------
(* The inductive invariant *)

LEMMA LatestType == TypeOK => \A d \in Detections : Latest(d) \in Nat
<1> SUFFICES ASSUME TypeOK, NEW d \in Detections PROVE Latest(d) \in Nat
  OBVIOUS
<1>1. due[d] \in Nat
  BY DEF TypeOK
<1>2. Latest(d) \in {due[d] + (ProbeTimeout + SchedDelay), due[d] + SchedDelay, due[d] + 0}
  BY DEF Latest
<1> QED BY <1>1, <1>2

LEMMA LatestTypeNext == TypeOK' => \A d \in Detections : Latest(d)' \in Nat
<1> SUFFICES ASSUME TypeOK', NEW d \in Detections PROVE Latest(d)' \in Nat
  OBVIOUS
<1>1. due'[d] \in Nat
  BY DEF TypeOK
<1>2. Latest(d)' \in {due'[d] + (ProbeTimeout + SchedDelay), due'[d] + SchedDelay, due'[d] + 0}
  BY DEF Latest
<1> QED BY <1>1, <1>2

LEMMA UpcomingType == TypeOK => Upcoming \in Nat
<1> SUFFICES ASSUME TypeOK PROVE Upcoming \in Nat
  OBVIOUS
<1>1. CASE tickC = <<>>
  BY <1>1 DEF TypeOK, Upcoming
<1>2. CASE tickC # <<>>
  <2>1. tickC[1] \in Nat
    BY <1>2 DEF TypeOK
  <2> QED BY <1>2, <2>1 DEF Upcoming
<1> QED BY <1>1, <1>2

\* A kick adds young detections and leaves the others alone.
LEMMA SpawnStep ==
  ASSUME TypeOK, NEW k, NEW C, Spawn(k, C), NEW d \in Detections, Live(d)'
  PROVE  \/ /\ KickOf(d) = k
            /\ now <= due'[d] /\ Latest(d)' = now + Lifetime
         \/ /\ Live(d) /\ due'[d] = due[d] /\ Latest(d)' = Latest(d)
<1>1. CASE KickOf(d) = k /\ StreamOf(d)[1] \in C /\ HasDetection(StreamOf(d))
  <2>1. pc'[d] = "spawned" /\ due'[d] = now + SchedDelay
    BY <1>1 DEF TypeOK, Spawn
  <2>2. now \in Nat
    BY DEF TypeOK
  <2>3. Latest(d)' = now + SchedDelay + (ProbeTimeout + SchedDelay)
    BY <2>1 DEF Latest
  <2> QED BY <1>1, <2>1, <2>2, <2>3 DEF Lifetime
<1>2. CASE ~(KickOf(d) = k /\ StreamOf(d)[1] \in C /\ HasDetection(StreamOf(d)))
  <2>1. pc'[d] = pc[d] /\ due'[d] = due[d]
    BY <1>2 DEF TypeOK, Spawn
  <2> QED BY <2>1 DEF Live, Latest
<1> QED BY <1>1, <1>2

\* A step of a detection never postpones its end, nor any other's.
LEMMA DetectStep ==
  ASSUME TypeOK, LifetimeInv, NEW d \in Detections, Detect(d),
         NEW e \in Detections, Live(e)'
  PROVE  Live(e) /\ now <= due'[e] /\ Latest(e)' <= Latest(e)
<1>1. /\ now \in Nat /\ due[e] \in Nat
      /\ pc[e] \in {"unborn", "spawned", "probing", "merging", "done"}
  BY DEF TypeOK
<1>2. CASE e # d
  <2>1. pc'[e] = pc[e] /\ due'[e] = due[e]
    BY <1>2 DEF TypeOK, Detect, Begin, ProbeFails, ProbeTimesOut, ProbeReturns, Merge, Leave
  <2>2. Live(e) /\ Latest(e)' = Latest(e)
    BY <2>1 DEF Live, Latest
  <2> QED BY <2>1, <2>2, LatestType DEF LifetimeInv
<1>3. CASE e = d
  <2>1. CASE Begin(d)
    <3>1. pc[e] = "spawned" /\ pc'[e] = "probing" /\ due'[e] = now + ProbeTimeout
      BY <1>3, <2>1 DEF TypeOK, Begin, Leave
    <3>2. Live(e) /\ now <= due[e]
      BY <3>1 DEF Live, LifetimeInv
    <3>3. Latest(e) = due[e] + (ProbeTimeout + SchedDelay) /\ Latest(e)' = now + ProbeTimeout + SchedDelay
      BY <3>1 DEF Latest
    <3> QED BY <1>1, <3>1, <3>2, <3>3
  <2>2. CASE ProbeFails(d) \/ ProbeTimesOut(d) \/ Merge(d)
    <3>1. pc'[e] = "done"
      BY <1>3, <2>2 DEF TypeOK, ProbeFails, ProbeTimesOut, Merge, Leave
    <3> QED BY <3>1 DEF Live
  <2>3. ASSUME NEW st \in ProbeResults, ProbeReturns(d, st)
        PROVE  Live(e) /\ now <= due'[e] /\ Latest(e)' <= Latest(e)
    <3>1. pc[e] = "probing" /\ pc'[e] = "merging" /\ due'[e] = now + SchedDelay
      BY <1>3, <2>3 DEF TypeOK, ProbeReturns, Leave
    <3>2. Live(e) /\ now <= due[e]
      BY <3>1 DEF Live, LifetimeInv
    <3>3. Latest(e) = due[e] + SchedDelay /\ Latest(e)' = now + SchedDelay + 0
      BY <3>1 DEF Latest
    <3> QED BY <1>1, <3>1, <3>2, <3>3
  <2> QED BY <2>1, <2>2, <2>3 DEF Detect
<1> QED BY <1>2, <1>3

LEMMA InitInv == Init => IInv
<1> SUFFICES ASSUME Init PROVE IInv
  OBVIOUS
<1>1. \A d \in Detections : ~Live(d)
  BY DEF Init, Live
<1> QED BY <1>1 DEF Init, IInv, LifetimeInv, WriterInv, TickerInv, PaceInv

\* The steps that leave the clock, the ticker and the routine alone.
LEMMA DetectInv ==
  ASSUME TypeOK, IInv, NEW d \in Detections, Detect(d)
  PROVE  IInv'
<1>1. UNCHANGED <<now, routineVars>>
  BY DEF Detect, Begin, ProbeFails, ProbeTimesOut, ProbeReturns, Merge, Leave
<1>2. Upcoming' = Upcoming
  BY <1>1 DEF Upcoming, routineVars
<1>3. \A e \in Detections : Live(e)' => Live(e) /\ now <= due'[e] /\ Latest(e)' <= Latest(e)
  BY DetectStep DEF IInv
<1>4. /\ now \in Nat /\ Upcoming \in Nat /\ kicks \in Int
      /\ \A e \in Detections : Latest(e) \in Nat
  BY LatestType, UpcomingType, KickType DEF TypeOK
<1>5. \A e \in Detections : Latest(e)' \in Nat
  <2>1. TypeOK'
    BY NextType DEF Next
  <2> QED BY <2>1, LatestTypeNext
<1>6. LifetimeInv'
  BY <1>1, <1>3, <1>4, <1>5, LifetimeType DEF IInv, LifetimeInv, routineVars
<1>7. WriterInv'
  <2>1. CASE Merge(d)
    <3>1. Live(d)
      BY <2>1 DEF Merge, Live
    <3>2. KickOf(d) <= kicks
      BY <1>4, <3>1 DEF IInv, LifetimeInv
    <3> QED BY <1>1, <2>1, <3>2 DEF TypeOK, IInv, WriterInv, Merge, routineVars
  <2>2. CASE writer' = writer
    BY <1>1, <2>2 DEF IInv, WriterInv, routineVars
  <2> QED BY <2>1, <2>2 DEF Detect, Begin, ProbeFails, ProbeTimesOut, ProbeReturns
<1>8. TickerInv'
  BY <1>1 DEF IInv, TickerInv, routineVars
<1>9. PaceInv'
  BY <1>1, <1>2, <1>3, <1>4, <1>5, LifetimeType DEF IInv, PaceInv, routineVars
<1> QED BY <1>6, <1>7, <1>8, <1>9 DEF IInv

LEMMA NewServerInv == ASSUME TypeOK, IInv, NewServer PROVE IInv'
<1>1. PICK C : Spawn(0, C)
  BY DEF NewServer
<1>2. /\ UNCHANGED <<now, routine, routineDue, kicks, tickC, nextTick, ctxDone, writer>>
      /\ routine = "off" /\ kicks = 0
  BY DEF TypeOK, NewServer, Spawn, IInv, TickerInv
<1>3. now \in Nat /\ \A d \in Detections : KickOf(d) \in Int
  BY DetectionType, KickType DEF TypeOK
<1>4. \A d \in Detections : Live(d)' =>
        \/ KickOf(d) = 0 /\ now <= due'[d] /\ Latest(d)' = now + Lifetime
        \/ Live(d) /\ due'[d] = due[d] /\ Latest(d)' = Latest(d)
  BY <1>1, SpawnStep
<1>5. LifetimeInv'
  BY <1>2, <1>3, <1>4, LifetimeType DEF IInv, LifetimeInv
<1>6. WriterInv' /\ TickerInv' /\ PaceInv'
  BY <1>2 DEF IInv, WriterInv, TickerInv, PaceInv, NewServer
<1> QED BY <1>5, <1>6 DEF IInv

LEMMA FirstKickInv == ASSUME TypeOK, IInv, FirstKick PROVE IInv'
<1>1. /\ UNCHANGED <<now, constructed, tickC, nextTick, writer>>
      /\ routine = "off" /\ kicks = 0 /\ kicks' = 1 /\ routine' = "kicked"
      /\ constructed = NCameras
  BY DEF FirstKick, KickAllDetections, Spawn, IInv, TickerInv
<1>2. now \in Nat /\ (\A d \in Detections : KickOf(d) \in Int) /\ (\A s \in Streams : writer[s] \in Int)
  BY DetectionType, KickType DEF TypeOK
<1>3. \A d \in Detections : Live(d)' =>
        \/ KickOf(d) = 1 /\ now <= due'[d] /\ Latest(d)' = now + Lifetime
        \/ Live(d) /\ due'[d] = due[d] /\ Latest(d)' = Latest(d)
  BY SpawnStep DEF FirstKick, KickAllDetections
<1>4. \A d \in Detections : KickOf(d) >= 0
  BY DetectionType DEF Kicks
<1>5. LifetimeInv'
  BY <1>1, <1>2, <1>3, <1>4, LifetimeType DEF IInv, LifetimeInv
<1>6. WriterInv'
  BY <1>1, <1>2 DEF IInv, WriterInv
<1>7. TickerInv' /\ PaceInv'
  BY <1>1 DEF IInv, TickerInv, PaceInv
<1> QED BY <1>5, <1>6, <1>7 DEF IInv

\* The first tick is a whole period after the kick of the constructors and the
\* first kick of the routine, both of which may still be live.
LEMMA NewTickerInv == ASSUME TypeOK, IInv, NewTicker PROVE IInv'
<1>1. /\ UNCHANGED <<now, constructed, kicks, tickC, detectVars>>
      /\ tickC = <<>> /\ kicks = 1 /\ routine = "kicked" /\ routine' = "waiting"
      /\ nextTick' = now + DetectionInterval
  BY DEF NewTicker, IInv, TickerInv
<1>2. now \in Nat /\ Upcoming' = now + DetectionInterval
  BY <1>1 DEF TypeOK, Upcoming
<1>3. \A d \in Detections : Live(d)' = Live(d) /\ Latest(d)' = Latest(d) /\ Latest(d) \in Nat
  BY <1>1, LatestType DEF detectVars, Live, Latest
<1>4. LifetimeInv' /\ WriterInv'
  BY <1>1, <1>3 DEF IInv, LifetimeInv, WriterInv, detectVars
<1>5. TickerInv'
  BY <1>1, <1>2 DEF IInv, TickerInv
<1>6. PaceInv'
  BY <1>1, <1>2, <1>3, LifetimeType DEF IInv, PaceInv, LifetimeInv
<1> QED BY <1>4, <1>5, <1>6 DEF IInv

\* A tick is received after its time: by then the detections of the kicks
\* before the last one are over.  The next tick is at least a period later.
LEMMA ReceiveTickInv == ASSUME TypeOK, IInv, ReceiveTick PROVE IInv'
<1>1. /\ UNCHANGED <<now, constructed, kicks, nextTick, detectVars>>
      /\ tickC # <<>> /\ tickC' = <<>> /\ routine = "waiting" /\ routine' = "kicking"
      /\ routineDue' = now + SchedDelay
  BY DEF ReceiveTick
<1>2. /\ Upcoming = tickC[1] /\ Upcoming' = nextTick
      /\ Upcoming <= now /\ Upcoming + DetectionInterval <= nextTick /\ now < nextTick
  BY <1>1 DEF Upcoming, IInv, TickerInv
<1>3. now \in Nat /\ nextTick \in Nat /\ Upcoming \in Nat /\ kicks \in Int
  BY UpcomingType, KickType DEF TypeOK
<1>4. \A d \in Detections : Live(d)' = Live(d) /\ Latest(d)' = Latest(d) /\ Latest(d) \in Nat
  BY <1>1, LatestType DEF detectVars, Live, Latest
<1>5. ASSUME NEW d \in Detections, Live(d) PROVE KickOf(d) = kicks
  <2>1. KickOf(d) \in {kicks - 1, kicks} /\ now <= due[d]
    BY <1>5 DEF IInv, LifetimeInv
  <2>2. due[d] <= Latest(d) /\ due[d] \in Nat
    <3>1. due[d] \in Nat
      BY DEF TypeOK
    <3>2. Latest(d) \in {due[d] + (ProbeTimeout + SchedDelay), due[d] + SchedDelay, due[d] + 0}
      BY DEF Latest
    <3> QED BY <3>1, <3>2
  <2>3. KickOf(d) < kicks => Latest(d) <= Upcoming - DetectionInterval + SchedDelay + Lifetime
    BY <1>1, <1>5 DEF IInv, PaceInv
  <2> QED BY <1>2, <1>3, <1>4, <2>1, <2>2, <2>3 DEF Lifetime
<1>6. LifetimeInv' /\ WriterInv'
  BY <1>1, <1>4 DEF IInv, LifetimeInv, WriterInv, detectVars
<1>7. TickerInv'
  BY <1>1 DEF IInv, TickerInv
<1>8. PaceInv'
  <2>1. \A d \in Detections : Live(d) => Latest(d) <= Upcoming + SchedDelay + Lifetime
    BY <1>1 DEF IInv, PaceInv
  <2> QED BY <1>1, <1>2, <1>3, <1>4, <1>5, <2>1, LifetimeType DEF PaceInv
<1> QED BY <1>6, <1>7, <1>8 DEF IInv

LEMMA TickKickInv == ASSUME TypeOK, IInv, TickKick PROVE IInv'
<1>1. /\ UNCHANGED <<now, constructed, tickC, nextTick, writer>>
      /\ routine = "kicking" /\ routine' = "waiting" /\ kicks' = kicks + 1
      /\ Upcoming' = Upcoming
  BY DEF TickKick, KickAllDetections, Spawn, Upcoming
<1>2. /\ now \in Nat /\ Upcoming \in Nat /\ kicks \in Int /\ routineDue \in Nat
      /\ \A d \in Detections : KickOf(d) \in Int /\ Latest(d) \in Nat
      /\ \A s \in Streams : writer[s] \in Int
  BY DetectionType, KickType, LatestType, UpcomingType DEF TypeOK
<1>3. \A d \in Detections : Live(d)' =>
        \/ KickOf(d) = kicks + 1 /\ now <= due'[d] /\ Latest(d)' = now + Lifetime
        \/ Live(d) /\ due'[d] = due[d] /\ Latest(d)' = Latest(d)
  BY SpawnStep DEF TickKick, KickAllDetections
<1>4. /\ now <= Upcoming + SchedDelay
      /\ \A d \in Detections : Live(d) =>
           /\ KickOf(d) = kicks
           /\ Latest(d) <= Upcoming - DetectionInterval + SchedDelay + Lifetime
  BY <1>1, <1>2 DEF IInv, PaceInv
<1>5. LifetimeInv'
  BY <1>1, <1>2, <1>3, <1>4, LifetimeType DEF IInv, LifetimeInv
<1>6. WriterInv' /\ TickerInv'
  BY <1>1, <1>2 DEF IInv, WriterInv, TickerInv
<1>7. PaceInv'
  BY <1>1, <1>2, <1>3, <1>4, LifetimeType DEF PaceInv
<1> QED BY <1>5, <1>6, <1>7 DEF IInv

LEMMA AdvanceInv == ASSUME TypeOK, IInv, Advance PROVE IInv'
<1>1. /\ UNCHANGED <<constructed, routine, routineDue, kicks, detectVars>>
      /\ now' = now + 1
      /\ routine = "kicking" => now < routineDue
      /\ \A d \in Detections : Live(d) => now < due[d]
  BY DEF Advance
<1>2. now \in Nat /\ nextTick \in Nat /\ Upcoming \in Nat /\ routineDue \in Nat
  BY UpcomingType DEF TypeOK
<1>3. \A d \in Detections : /\ Live(d)' = Live(d) /\ Latest(d)' = Latest(d)
                            /\ Latest(d) \in Nat /\ due[d] \in Nat
  BY <1>1, LatestType DEF TypeOK, detectVars, Live, Latest
<1>4. LifetimeInv' /\ WriterInv'
  BY <1>1, <1>2, <1>3, LifetimeType DEF IInv, LifetimeInv, WriterInv, detectVars
<1>5. TickerInv' /\ Upcoming' = Upcoming
  <2>1. CASE routine \in {"waiting", "kicking"} /\ now + 1 = nextTick
    <3>1. nextTick' = nextTick + DetectionInterval /\ (tickC # <<>> => tickC' = tickC)
      BY <2>1 DEF Advance, Fire
    <3>2. tickC = <<>> => tickC' = <<nextTick>>
      BY <2>1 DEF Advance, Fire
    <3>3. CASE tickC = <<>>
      <4>1. tickC' # <<>> /\ tickC'[1] = nextTick
        BY <3>2, <3>3
      <4> QED BY <1>1, <1>2, <2>1, <3>1, <3>3, <4>1 DEF IInv, TickerInv, Upcoming
    <3>4. CASE tickC # <<>>
      <4>1. tickC[1] \in Nat
        BY <3>4 DEF TypeOK
      <4> QED BY <1>1, <1>2, <2>1, <3>1, <3>4, <4>1 DEF IInv, TickerInv, Upcoming
    <3> QED BY <3>3, <3>4
  <2>2. CASE ~(routine \in {"waiting", "kicking"} /\ now + 1 = nextTick)
    <3>1. UNCHANGED <<tickC, nextTick>>
      BY <2>2 DEF Advance, Fire
    <3>2. tickC # <<>> => tickC[1] \in Nat
      BY DEF TypeOK
    <3> QED BY <1>1, <1>2, <2>2, <3>1, <3>2 DEF IInv, TickerInv, Upcoming
  <2> QED BY <2>1, <2>2
<1>6. PaceInv'
  BY <1>1, <1>2, <1>3, <1>5 DEF IInv, PaceInv, detectVars
<1> QED BY <1>4, <1>5, <1>6 DEF IInv

LEMMA QuietInv == ASSUME TypeOK, IInv, RoutineReturn \/ Cancel \/ UNCHANGED vars PROVE IInv'
<1>1. /\ UNCHANGED <<now, constructed, kicks, routineDue, tickC, nextTick, detectVars>>
      /\ routine' = routine \/ (routine' = "stopped" /\ routine # "off")
  BY DEF RoutineReturn, Cancel, vars, routineVars
<1>2. /\ Upcoming' = Upcoming
      /\ \A d \in Detections : Live(d)' = Live(d) /\ Latest(d)' = Latest(d)
  BY <1>1 DEF detectVars, Live, Latest, Upcoming
<1> QED BY <1>1, <1>2 DEF IInv, LifetimeInv, WriterInv, TickerInv, PaceInv, detectVars

\* Goroutines keep to their deadlines, the ticker to its period, and at most
\* the last two kicks have live detections, always.
THEOREM Pacing == Spec => []IInv
<1>1. Init => IInv
  BY InitInv
<1>2. TypeOK /\ IInv /\ [Next]_vars => IInv'
  BY DetectInv, NewServerInv, FirstKickInv, NewTickerInv, ReceiveTickInv, TickKickInv,
     AdvanceInv, QuietInv DEF Next, Routine, AtHorizon
<1> QED BY <1>1, <1>2, TypeCorrect, PTL DEF Spec

-----------------------------------------------------------------------------
(* What follows from it *)

\* At most two detections, hence at most two ffprobe processes, of any stream
\* at a time.
THEOREM NoPileUp == Spec => []AtMostTwoDetections
<1>1. TypeOK /\ IInv => AtMostTwoDetections
  <2> SUFFICES ASSUME TypeOK, IInv, NEW s \in Streams
               PROVE  Cardinality(LiveKicks(s)) <= 2
    BY DEF AtMostTwoDetections
  <2>1. kicks \in Int
    BY KickType DEF TypeOK
  <2>2. LiveKicks(s) \subseteq (kicks - 1)..kicks
    <3> SUFFICES ASSUME NEW k \in Kicks, Live(<<k, s>>) PROVE k \in (kicks - 1)..kicks
      BY DEF LiveKicks
    <3>1. <<k, s>> \in Detections /\ KickOf(<<k, s>>) = k
      BY DEF Detections, KickOf
    <3>2. k \in {kicks - 1, kicks}
      BY <3>1 DEF IInv, LifetimeInv
    <3> QED BY <2>1, <3>2
  <2>3. IsFiniteSet((kicks - 1)..kicks) /\ Cardinality((kicks - 1)..kicks) = 2
    <3>1. /\ IsFiniteSet((kicks - 1)..kicks)
          /\ Cardinality((kicks - 1)..kicks)
               = IF kicks - 1 > kicks THEN 0 ELSE kicks - (kicks - 1) + 1
      BY <2>1, FS_Interval
    <3> QED BY <2>1, <3>1
  <2>4. Cardinality(LiveKicks(s)) <= Cardinality((kicks - 1)..kicks)
    BY <2>2, <2>3, FS_Subset
  <2> QED BY <2>3, <2>4
<1> QED BY <1>1, TypeCorrect, Pacing, PTL

\* A record is overwritten with an older answer only by the kick right before
\* the one that wrote it.
THEOREM BoundedStaleness == Spec => NoOldOverwrite
<1>1. TypeOK /\ IInv /\ [Next]_vars => [\A s \in Streams : writer'[s] >= writer[s] - 1]_vars
  <2> SUFFICES ASSUME TypeOK, IInv, Next, NEW s \in Streams
               PROVE  writer'[s] >= writer[s] - 1
    OBVIOUS
  <2>1. writer[s] \in Int /\ writer[s] <= kicks /\ kicks \in Int
    BY KickType DEF TypeOK, IInv, WriterInv
  <2>2. CASE writer' = writer
    BY <2>1, <2>2
  <2>3. ASSUME NEW d \in Detections, Merge(d) PROVE writer'[s] >= writer[s] - 1
    <3>1. KickOf(d) \in {kicks - 1, kicks}
      BY <2>3 DEF IInv, LifetimeInv, Live, Merge
    <3>2. writer'[s] \in {writer[s], KickOf(d)}
      BY <2>3 DEF TypeOK, Merge
    <3> QED BY <2>1, <3>1, <3>2
  <2> QED BY <2>2, <2>3
       DEF Next, NewServer, Routine, FirstKick, NewTicker, ReceiveTick, TickKick, RoutineReturn,
           Cancel, KickAllDetections, Spawn, Detect, Begin, ProbeFails, ProbeTimesOut,
           ProbeReturns, Advance, AtHorizon, vars, detectVars
<1> QED BY <1>1, TypeCorrect, Pacing, PTL DEF Spec, NoOldOverwrite

\* The record of a stream always describes a picture with a size and a codec
\* under its ONVIF name.
THEOREM SaneInfo == Spec => []InfoSane
<1>1. Init => InfoSane
  BY DEF Init, InfoSane, Default, MainDefault, SubDefault
<1>2. TypeOK /\ InfoSane /\ [Next]_vars => InfoSane'
  <2> SUFFICES ASSUME TypeOK, InfoSane, [Next]_vars PROVE InfoSane'
    OBVIOUS
  <2>1. CASE streamInfo' = streamInfo
    BY <2>1 DEF InfoSane
  <2>2. ASSUME NEW d \in Detections, Merge(d) PROVE InfoSane'
    <3> DEFINE info == streamInfo[Target(d)]
               st == probe[d]
               new == MergeProbe(info, st)
    <3>1. Target(d) \in Streams /\ st \in ProbeStream
      BY <2>2, DetectionType DEF Target, TypeOK, Merge
    <3>2. new.Width > 0 /\ new.Height > 0
      BY <3>1 DEF InfoSane, MergeProbe
    <3>3. new.Codec \notin {"", "HEVC"}
      <4>1. st.CodecName # "" => ONVIFCodec(st.CodecName) \notin {"", "HEVC"}
        BY <3>1, CodecNamed DEF ProbeStream
      <4> QED BY <3>1, <4>1 DEF InfoSane, MergeProbe
    <3>4. new.Profile # ""
      BY <3>1 DEF InfoSane, MergeProbe
    <3> QED BY <2>2, <3>1, <3>2, <3>3, <3>4 DEF InfoSane, Merge, TypeOK
  <2> QED BY <2>1, <2>2
       DEF Next, NewServer, Routine, FirstKick, NewTicker, ReceiveTick, TickKick, RoutineReturn,
           Cancel, KickAllDetections, Spawn, Detect, Begin, ProbeFails, ProbeTimesOut,
           ProbeReturns, Advance, AtHorizon, vars, detectVars
<1> QED BY <1>1, <1>2, TypeCorrect, PTL DEF Spec

\* No step of a detection puts off its own end or another's.
LEMMA DetectLatest ==
  ASSUME TypeOK, IInv, NEW e \in Detections, Detect(e), NEW d \in Detections, Live(d)'
  PROVE  Live(d) /\ Latest(d)' <= Latest(d) /\ Latest(d)' \in Int
<1>1. CASE e # d
  <2>1. PICK to, t : Leave(e, to, t)
    BY DEF Detect, Begin, ProbeFails, ProbeTimesOut, ProbeReturns, Merge
  <2>2. pc'[d] = pc[d] /\ due'[d] = due[d]
    BY <1>1, <2>1 DEF Leave, TypeOK
  <2>3. Latest(d) \in Int /\ Latest(d)' = Latest(d) /\ (Live(d)' <=> Live(d))
    BY <2>2, LatestType DEF Latest, Live
  <2> QED BY <2>3
<1>2. CASE e = d
  <2>1. now <= due[d] /\ now \in Int /\ due[d] \in Int
    BY <1>2 DEF Detect, Begin, ProbeFails, ProbeTimesOut, ProbeReturns, Merge,
                Live, IInv, LifetimeInv, TypeOK
  <2>2. CASE Begin(d)
    <3>1. pc[d] = "spawned" /\ pc'[d] = "probing" /\ due'[d] = now + ProbeTimeout
      BY <2>2 DEF Begin, Leave, TypeOK
    <3>2. Latest(d) = due[d] + (ProbeTimeout + SchedDelay)
      BY <3>1 DEF Latest
    <3>3. Latest(d)' = now + ProbeTimeout + SchedDelay
      BY <3>1 DEF Latest
    <3> QED BY <2>1, <3>1, <3>2, <3>3 DEF Live
  <2>3. ASSUME NEW st \in ProbeResults, ProbeReturns(d, st)
        PROVE  Live(d) /\ Latest(d)' <= Latest(d) /\ Latest(d)' \in Int
    BY <2>1, <2>3 DEF ProbeReturns, Leave, Live, Latest, TypeOK
  <2>4. ~(ProbeFails(d) \/ ProbeTimesOut(d) \/ Merge(d))
    BY DEF ProbeFails, ProbeTimesOut, Merge, Leave, Live, TypeOK
  <2> QED BY <1>2, <2>2, <2>3, <2>4 DEF Detect
<1> QED BY <1>1, <1>2

\* What is under way is over before the clock's bound, and a tick that was
\* received finds room for its kick.
Room ==
  /\ \A d \in Detections : Live(d) => Latest(d) <= Horizon
  /\ routine = "kicking" => kicks < MaxKicks /\ routineDue + Lifetime <= Horizon

\* The bounds of the clock and of the kicks stop no detection and no kick half
\* way: whatever they cut off has not begun.
THEOREM BoundsCutNothingShort == Spec => []Room
<1>1. Init => Room
  BY DEF Init, Room, Live
<1>2. TypeOK /\ IInv /\ Room /\ [Next]_vars => Room'
  <2> SUFFICES ASSUME TypeOK, IInv, Room, [Next]_vars PROVE Room'
    OBVIOUS
  <2>1. ASSUME NEW k, NEW C, Spawn(k, C), NEW d \in Detections, Live(d)'
        PROVE  Latest(d)' <= Horizon
    <3>1. CASE pc'[d] = pc[d] /\ due'[d] = due[d]
      BY <2>1, <3>1 DEF Room, Live, Latest
    <3>2. CASE pc'[d] = "spawned" /\ due'[d] = now + SchedDelay
      <4>1. Latest(d)' = now + SchedDelay + (ProbeTimeout + SchedDelay)
        BY <3>2 DEF Latest
      <4>2. now + Lifetime <= Horizon /\ now \in Int
        BY <2>1 DEF Spawn, TypeOK
      <4> QED BY <4>1, <4>2 DEF Lifetime
    <3> QED BY <2>1, <3>1, <3>2 DEF Spawn
  <2>2. CASE NewServer \/ FirstKick \/ TickKick
    <3>1. \E k, C : Spawn(k, C)
      BY <2>2 DEF NewServer, FirstKick, TickKick, KickAllDetections
    <3>2. routine' # "kicking"
      BY <2>2 DEF NewServer, FirstKick, TickKick, IInv, TickerInv, TypeOK
    <3> QED BY <2>1, <3>1, <3>2 DEF Room
  <2>3. ASSUME NEW e \in Detections, Detect(e), NEW d \in Detections, Live(d)'
        PROVE  Latest(d)' <= Horizon
    <3>1. Live(d) /\ Latest(d)' <= Latest(d) /\ Latest(d)' \in Int
      BY <2>3, DetectLatest
    <3>2. Latest(d) \in Int /\ Latest(d) <= Horizon
      BY <3>1, LatestType DEF Room
    <3> QED BY <3>1, <3>2
  <2>4. CASE \E e \in Detections : Detect(e)
    <3>1. UNCHANGED routineVars
      BY <2>4 DEF Detect, Begin, ProbeFails, ProbeTimesOut, ProbeReturns, Merge, Leave
    <3> QED BY <2>3, <2>4, <3>1 DEF Room, routineVars
  <2>5. CASE UNCHANGED <<pc, due>> /\ UNCHANGED <<routine, routineDue, kicks>>
    BY <2>5 DEF Room, Live, Latest
  <2>6. CASE NewTicker \/ ReceiveTick \/ RoutineReturn
    <3>1. UNCHANGED <<pc, due, kicks>>
      BY <2>6 DEF NewTicker, ReceiveTick, RoutineReturn, detectVars
    <3>2. routine' = "kicking" => kicks < MaxKicks /\ routineDue' + Lifetime <= Horizon
      BY <2>6 DEF NewTicker, ReceiveTick, RoutineReturn
    <3> QED BY <3>1, <3>2 DEF Room, Live, Latest
  <2> QED BY <2>2, <2>4, <2>5, <2>6
       DEF Next, Routine, Cancel, Advance, AtHorizon, vars, routineVars, detectVars
<1> QED BY <1>1, <1>2, TypeCorrect, Pacing, PTL DEF Spec

\* Only streams that are enabled have detections.
OwnStreams == \A d \in Detections : pc[d] # "unborn" => HasDetection(StreamOf(d))

LEMMA NextOwnStreams == TypeOK /\ OwnStreams /\ [Next]_vars => OwnStreams'
<1> SUFFICES ASSUME TypeOK, OwnStreams, [Next]_vars PROVE OwnStreams'
  OBVIOUS
<1>1. CASE pc' = pc
  BY <1>1 DEF OwnStreams, HasDetection
<1>2. ASSUME NEW k, NEW C, Spawn(k, C) PROVE OwnStreams'
  BY <1>2 DEF OwnStreams, HasDetection, Spawn
<1>3. ASSUME NEW d \in Detections, NEW to, NEW t, pc[d] # "unborn", Leave(d, to, t)
      PROVE  OwnStreams'
  BY <1>3 DEF OwnStreams, HasDetection, Leave, TypeOK
<1>4. ASSUME NEW d \in Detections, Detect(d) PROVE OwnStreams'
  BY <1>3, <1>4 DEF Detect, Begin, ProbeFails, ProbeTimesOut, ProbeReturns, Merge
<1> QED BY <1>1, <1>2, <1>4
     DEF Next, NewServer, Routine, FirstKick, NewTicker, ReceiveTick, TickKick, RoutineReturn,
         Cancel, KickAllDetections, Advance, AtHorizon, vars, detectVars

\* A record changes only by an answer to a detection of its own stream.
THEOREM OwnAnswers == Spec => OnlyOwnAnswersMerged
<1>1. Init => OwnStreams
  BY DEF Init, OwnStreams
<1>2. TypeOK /\ OwnStreams /\ [Next]_vars =>
        [\A s \in Streams : streamInfo'[s] # streamInfo[s] =>
           /\ HasDetection(s)
           /\ \E k \in Kicks : pc[<<k, s>>] = "merging" /\ pc'[<<k, s>>] = "done"]_vars
  <2> SUFFICES ASSUME TypeOK, OwnStreams, Next,
                      NEW s \in Streams, streamInfo'[s] # streamInfo[s]
               PROVE  /\ HasDetection(s)
                      /\ \E k \in Kicks : pc[<<k, s>>] = "merging" /\ pc'[<<k, s>>] = "done"
    OBVIOUS
  <2>1. PICK d \in Detections : Merge(d)
    BY DEF Next, NewServer, Routine, FirstKick, NewTicker, ReceiveTick, TickKick, RoutineReturn,
           Cancel, KickAllDetections, Spawn, Detect, Begin, ProbeFails, ProbeTimesOut,
           ProbeReturns, Advance, AtHorizon, vars, detectVars
  <2>2. StreamOf(d) = s
    BY <2>1 DEF Merge, Target, TypeOK
  <2>3. d = <<KickOf(d), s>> /\ KickOf(d) \in Kicks
    BY <2>2 DEF Detections, KickOf, StreamOf
  <2>4. pc[d] = "merging" /\ pc'[d] = "done"
    BY <2>1 DEF Merge, Leave, TypeOK
  <2> QED BY <2>2, <2>3, <2>4 DEF OwnStreams
<1> QED BY <1>1, <1>2, NextOwnStreams, TypeCorrect, PTL DEF Spec, OnlyOwnAnswersMerged

-----------------------------------------------------------------------------
(* Each detection once, and detection without time *)

\* Detections are of kicks that have come and of cameras that are constructed.
Born == \A d \in Detections : pc[d] # "unborn" =>
  KickOf(d) <= kicks /\ StreamOf(d)[1] <= constructed

LEMMA BornType == TypeOK => /\ constructed \in Int /\ kicks \in Int /\ NCameras \in Int
                            /\ \A d \in Detections : /\ KickOf(d) \in Int
                                                      /\ StreamOf(d)[1] \in 1..NCameras
  BY DetectionType, KickType DEF TypeOK, Streams, Cameras

\* What a kick starts was not started before.
LEMMA SpawnFresh == ASSUME TypeOK, IInv, Born
                    PROVE  /\ NewServer => \A d \in Detections :
                                KickOf(d) = 0 /\ StreamOf(d)[1] = constructed + 1 => pc[d] = "unborn"
                           /\ \A d \in Detections : KickOf(d) = kicks + 1 => pc[d] = "unborn"
<1>1. CASE NewServer
  BY <1>1, BornType DEF Born
<1>2. \A d \in Detections : KickOf(d) = kicks + 1 => pc[d] = "unborn"
  BY BornType DEF Born
<1> QED BY <1>1, <1>2

LEMMA NextBorn == TypeOK /\ IInv /\ Born /\ [Next]_vars => Born'
<1> SUFFICES ASSUME TypeOK, IInv, Born, [Next]_vars PROVE Born'
  OBVIOUS
<1>1. CASE pc' = pc /\ constructed' = constructed /\ kicks' = kicks
  BY <1>1 DEF Born
<1>2. CASE NewServer
  <2>1. constructed' = constructed + 1 /\ kicks' = kicks /\ kicks = 0
    BY <1>2 DEF NewServer, IInv, TickerInv
  <2> QED BY <1>2, <2>1, BornType DEF Born, NewServer, Spawn
<1>3. CASE FirstKick \/ TickKick
  <2>1. constructed = NCameras /\ constructed' = constructed /\ kicks' = kicks + 1
    BY <1>3, BornType DEF FirstKick, TickKick, IInv, TickerInv, TypeOK
  <2>2. \A d \in Detections : pc'[d] # "unborn" => pc[d] # "unborn" \/ KickOf(d) = kicks + 1
    BY <1>3 DEF FirstKick, TickKick, KickAllDetections, Spawn, IInv, TickerInv
  <2> QED BY <2>1, <2>2, BornType DEF Born
<1>4. ASSUME NEW d \in Detections, Detect(d) PROVE Born'
  <2>1. PICK to, t : pc[d] # "unborn" /\ Leave(d, to, t)
    BY <1>4 DEF Detect, Begin, ProbeFails, ProbeTimesOut, ProbeReturns, Merge
  <2> QED BY <2>1 DEF Born, Leave, TypeOK, routineVars
<1> QED BY <1>1, <1>2, <1>3, <1>4
     DEF Next, Routine, NewTicker, ReceiveTick, RoutineReturn, Cancel, Advance, AtHorizon,
         vars, routineVars, detectVars

LEMMA InitBorn == Init => Born
  BY DEF Init, Born

\* A detection is started once and ends when its start, the timeout and the
\* scheduler say at the latest, however the others fare.
THEOREM FirmDeadlines == Spec => DeadlinesFirm
<1>1. TypeOK /\ IInv /\ Born /\ [Next]_vars =>
        [\A d \in Detections : pc[d] # "unborn" /\ Live(d)' =>
           Live(d) /\ Latest(d)' <= Latest(d)]_vars
  <2> SUFFICES ASSUME TypeOK, IInv, Born, Next,
                      NEW d \in Detections, pc[d] # "unborn", Live(d)'
               PROVE  Live(d) /\ Latest(d)' <= Latest(d)
    OBVIOUS
  <2>1. Latest(d) \in Int
    BY LatestType
  <2>2. CASE pc'[d] = pc[d] /\ due'[d] = due[d]
    BY <2>1, <2>2 DEF Live, Latest
  <2>3. CASE NewServer
    <3>1. ~(KickOf(d) = 0 /\ StreamOf(d)[1] \in {constructed + 1})
      BY <2>3, SpawnFresh
    <3> QED BY <2>2, <2>3, <3>1 DEF NewServer, Spawn
  <2>4. CASE FirstKick \/ TickKick
    <3>1. KickOf(d) # kicks + 1
      BY SpawnFresh
    <3>2. Spawn(kicks + 1, Cameras)
      BY <2>4 DEF FirstKick, TickKick, KickAllDetections, IInv, TickerInv
    <3> QED BY <2>2, <3>1, <3>2 DEF Spawn
  <2>5. ASSUME NEW e \in Detections, Detect(e) PROVE Live(d) /\ Latest(d)' <= Latest(d)
    BY <2>5, DetectLatest
  <2> QED BY <2>2, <2>3, <2>4, <2>5
       DEF Next, Routine, NewTicker, ReceiveTick, RoutineReturn, Cancel, Advance, AtHorizon,
           vars, detectVars
<1> QED BY <1>1, InitBorn, NextBorn, TypeCorrect, Pacing, PTL DEF Spec, DeadlinesFirm

\* What a kick does to the detections under way.
LEMMA SpawnOpens ==
  ASSUME TypeOK, NEW k \in Kicks, NEW C, Spawn(k, C), NEW s \in Streams
  PROVE  LiveKicks(s)' = IF s[1] \in C /\ HasDetection(s) THEN LiveKicks(s) \cup {k}
                         ELSE LiveKicks(s)
<1>1. \A j \in Kicks : /\ <<j, s>> \in Detections
                       /\ KickOf(<<j, s>>) = j /\ StreamOf(<<j, s>>) = s
  BY DEF Detections, KickOf, StreamOf
<1>2. \A j \in Kicks :
        Live(<<j, s>>)' <=> Live(<<j, s>>) \/ (j = k /\ s[1] \in C /\ HasDetection(s))
  BY <1>1 DEF Spawn, Live
<1>3. \A j : j \in LiveKicks(s)' <=> j \in Kicks /\ Live(<<j, s>>)'
  BY DEF LiveKicks
<1>4. \A j : j \in LiveKicks(s) <=> j \in Kicks /\ Live(<<j, s>>)
  BY DEF LiveKicks
<1> QED BY <1>2, <1>3, <1>4

\* What a step of one does to them: it is the detection of KickOf(d) for
\* StreamOf(d), and it is over once it is done.
LEMMA LeaveCloses ==
  ASSUME TypeOK, NEW d \in Detections, NEW to \in {"probing", "merging", "done"}, NEW t,
         Live(d), Leave(d, to, t)
  PROVE  /\ KickOf(d) \in LiveKicks(StreamOf(d))
         /\ [s \in Streams |-> LiveKicks(s)]' =
              IF to = "done"
              THEN [[s \in Streams |-> LiveKicks(s)] EXCEPT ![StreamOf(d)] = @ \ {KickOf(d)}]
              ELSE [s \in Streams |-> LiveKicks(s)]
<1>1. d = <<KickOf(d), StreamOf(d)>> /\ KickOf(d) \in Kicks /\ StreamOf(d) \in Streams
  BY DEF Detections, KickOf, StreamOf
<1>2. \A j \in Kicks, s \in Streams :
        /\ <<j, s>> \in Detections
        /\ <<j, s>> = d <=> j = KickOf(d) /\ s = StreamOf(d)
  BY <1>1 DEF Detections
<1>3. \A j \in Kicks, s \in Streams :
        Live(<<j, s>>)' <=> Live(<<j, s>>) /\ (<<j, s>> = d => to # "done")
  BY <1>2 DEF Leave, Live, TypeOK
<1>4. \A s \in Streams : LiveKicks(s)' =
        IF to = "done" /\ s = StreamOf(d) THEN LiveKicks(s) \ {KickOf(d)} ELSE LiveKicks(s)
  <2> SUFFICES ASSUME NEW s \in Streams, NEW j
               PROVE  j \in LiveKicks(s)' <=>
                        j \in LiveKicks(s) /\ ~(to = "done" /\ s = StreamOf(d) /\ j = KickOf(d))
    OBVIOUS
  <2> QED BY <1>2, <1>3 DEF LiveKicks
<1>5. KickOf(d) \in LiveKicks(StreamOf(d))
  BY <1>1 DEF LiveKicks
<1> QED BY <1>1, <1>4, <1>5

\* The merge of the abstract specification is the code's.
LEMMA SameMerge == \A info, st : Untimed!MergeProbe(info, st) = MergeProbe(info, st)
  BY DEF Untimed!MergeProbe, Untimed!ONVIFCodec, Untimed!Upper, Untimed!MergeFrameRate,
         Untimed!MergeBitRate, MergeProbe, ONVIFCodec, Upper, MergeFrameRate, MergeBitRate

\* A kick of the code is a kick of the abstract specification for the streams
\* of the cameras it is for.
LEMMA SpawnKicks ==
  ASSUME TypeOK, NEW k \in Kicks, NEW C \in SUBSET Cameras, Spawn(k, C),
         routine # "stopped", (routine = "stopped")' = (routine = "stopped"),
         \A s \in Streams : s[1] \in C => LiveKicks(s) \subseteq {LastKick[s]},
         \A s \in Streams : LastKick'[s] = IF s[1] \in C THEN LastKick[s] + 1 ELSE LastKick[s],
         \A s \in Streams : s[1] \in C => LastKick'[s] = k
  PROVE  Untimed!Next
<1> DEFINE S == {s \in Streams : s[1] \in C}
           Started == {s \in Streams : HasDetection(s)}
<1>1. S \in SUBSET Streams
  OBVIOUS
<1>2. \A s \in S : [t \in Streams |-> LiveKicks(t)][s] \subseteq {LastKick[s]}
  OBVIOUS
<1>3. LastKick' = [s \in Streams |-> IF s \in S THEN LastKick[s] + 1 ELSE LastKick[s]]
  BY DEF LastKick
<1>4. \A s \in Streams : LiveKicks(s)' = IF s \in S \cap Started
                                        THEN LiveKicks(s) \cup {LastKick[s] + 1}
                                        ELSE LiveKicks(s)
  BY SpawnOpens
<1>5. [s \in Streams |-> LiveKicks(s)]' =
        [s \in Streams |-> IF s \in S \cap Started
                           THEN [t \in Streams |-> LiveKicks(t)][s] \cup {LastKick[s] + 1}
                           ELSE [t \in Streams |-> LiveKicks(t)][s]]
  BY <1>4
<1>6. UNCHANGED <<streamInfo, writer>>
  BY DEF Spawn
<1>7. Untimed!Kick(S)
  BY <1>2, <1>3, <1>5, <1>6 DEF Untimed!Kick
<1> QED BY <1>1, <1>7 DEF Untimed!Next

\* A step of a detection that does not answer yet, gives up, or merges.
LEMMA DetectRefreshes ==
  ASSUME TypeOK, NEW d \in Detections, Detect(d)
  PROVE  [Untimed!Next]_Untimed!vars
<1> DEFINE open == [s \in Streams |-> LiveKicks(s)]
<1>1. StreamOf(d) \in Streams
  BY DetectionType
<1>2. LastKick' = LastKick /\ (routine = "stopped")' = (routine = "stopped")
  BY DEF Detect, Begin, ProbeFails, ProbeTimesOut, ProbeReturns, Merge, Leave, routineVars, LastKick
<1>3. ASSUME NEW to \in {"probing", "merging"}, NEW t, Live(d), Leave(d, to, t),
             UNCHANGED <<streamInfo, writer>>
      PROVE  UNCHANGED Untimed!vars
  <2>1. open' = open
    BY <1>3, LeaveCloses
  <2> QED BY <1>2, <1>3, <2>1 DEF Untimed!vars
<1>4. ASSUME NEW t, Live(d), Leave(d, "done", t)
      PROVE  /\ KickOf(d) \in open[StreamOf(d)]
             /\ Untimed!Close(StreamOf(d), KickOf(d))
  <2>1. /\ KickOf(d) \in LiveKicks(StreamOf(d))
        /\ open' = [open EXCEPT ![StreamOf(d)] = @ \ {KickOf(d)}]
    BY <1>4, LeaveCloses
  <2> QED BY <1>1, <1>2, <2>1 DEF Untimed!Close
<1>5. CASE Begin(d)
  BY <1>3, <1>5 DEF Begin, Live
<1>6. CASE ProbeFails(d) \/ ProbeTimesOut(d)
  <2>1. Live(d) /\ Leave(d, "done", 0) /\ UNCHANGED <<streamInfo, writer>>
    BY <1>6 DEF ProbeFails, ProbeTimesOut, Live
  <2>2. KickOf(d) \in open[StreamOf(d)] /\ Untimed!Close(StreamOf(d), KickOf(d))
    BY <1>4, <2>1
  <2>3. Untimed!GiveUp(StreamOf(d), KickOf(d))
    BY <2>1, <2>2 DEF Untimed!GiveUp
  <2> QED BY <1>1, <2>2, <2>3 DEF Untimed!Next
<1>7. ASSUME NEW st \in ProbeResults, ProbeReturns(d, st) PROVE UNCHANGED Untimed!vars
  BY <1>3, <1>7 DEF ProbeReturns, Live
<1>8. CASE Merge(d)
  <2>1. Live(d) /\ Leave(d, "done", 0) /\ probe[d] \in ProbeResults
    BY <1>8 DEF Merge, Live, TypeOK
  <2>2. streamInfo' = [streamInfo EXCEPT ![StreamOf(d)] = Untimed!MergeProbe(@, probe[d])]
    BY <1>8, SameMerge DEF Merge, Target
  <2>3. writer' = [writer EXCEPT ![StreamOf(d)] = KickOf(d)]
    BY <1>8 DEF Merge, Target
  <2>4. Untimed!Refresh(StreamOf(d), KickOf(d), probe[d])
    BY <1>4, <2>1, <2>2, <2>3 DEF Untimed!Refresh
  <2>5. KickOf(d) \in open[StreamOf(d)]
    BY <1>4, <2>1
  <2> QED BY <1>1, <2>1, <2>4, <2>5 DEF Untimed!Next
<1> QED BY <1>5, <1>6, <1>7, <1>8 DEF Detect

\* Detection implements Refreshing: although nothing in the code waits for a
\* detection, a kick begins only once what is older than the last one is over.
THEOREM KicksInOrder == Spec => ImplementsRefreshing
<1>1. Init => Untimed!Init
  <2> SUFFICES ASSUME Init PROVE Untimed!Init
    OBVIOUS
  <2>1. LastKick = [s \in Streams |-> -1]
    BY DEF Init, LastKick, Streams, Cameras
  <2>2. [s \in Streams |-> LiveKicks(s)] = [s \in Streams |-> {}]
    BY DEF Init, LiveKicks, Live, Detections
  <2> QED BY <2>1, <2>2 DEF Init, Untimed!Init
<1>2. TypeOK /\ IInv /\ Born /\ [Next]_vars => [Untimed!Next]_Untimed!vars
  <2> SUFFICES ASSUME TypeOK, IInv, Born, [Next]_vars PROVE [Untimed!Next]_Untimed!vars
    OBVIOUS
  <2>1. /\ constructed \in Int /\ kicks \in Int
        /\ \A s \in Streams : s[1] \in Cameras
        /\ \A k \in Kicks, s \in Streams : /\ <<k, s>> \in Detections
                                            /\ KickOf(<<k, s>>) = k /\ StreamOf(<<k, s>>) = s
    BY KickType DEF TypeOK, Streams, Detections, KickOf, StreamOf
  <2>2. CASE NewServer
    <3>1. kicks = 0 /\ routine = "off" /\ constructed' = constructed + 1 /\ kicks' = kicks
      BY <2>2 DEF NewServer, IInv, TickerInv
    <3>2. ASSUME NEW s \in Streams, s[1] = constructed + 1
          PROVE  LiveKicks(s) = {}
      BY <2>1, <3>2 DEF LiveKicks, Born, Live
    <3>3. \A s \in Streams : LastKick[s] = IF constructed < s[1] THEN -1 ELSE 0
      BY <3>1 DEF LastKick
    <3>4. \A s \in Streams : LastKick'[s] = IF constructed + 1 < s[1] THEN -1 ELSE 0
      BY <3>1 DEF LastKick
    <3>5. Spawn(0, {constructed + 1}) /\ routine' = routine
      BY <2>2 DEF NewServer
    <3>6. 0 \in Kicks /\ {constructed + 1} \in SUBSET Cameras
      BY <2>2 DEF NewServer, Kicks, Cameras, TypeOK
    <3>7. \A s \in Streams : s[1] \in Int
      BY <2>1 DEF Cameras
    <3>8. \A s \in Streams : LastKick'[s] = IF s[1] \in {constructed + 1} THEN LastKick[s] + 1
                                           ELSE LastKick[s]
      BY <2>1, <3>3, <3>4, <3>7
    <3>9. \A s \in Streams : s[1] \in {constructed + 1} => LastKick'[s] = 0
      BY <2>1, <3>4
    <3> QED BY <3>1, <3>2, <3>5, <3>6, <3>8, <3>9, SpawnKicks
  <2>3. CASE FirstKick \/ TickKick
    <3>1. /\ constructed = NCameras /\ constructed' = constructed
          /\ kicks' = kicks + 1 /\ Spawn(kicks + 1, Cameras)
          /\ routine # "stopped" /\ routine' # "stopped"
      BY <2>3 DEF FirstKick, TickKick, KickAllDetections, IInv, TickerInv, TypeOK
    <3>2. \A d \in Detections : Live(d) => KickOf(d) = kicks
      BY <2>1, <2>3, DetectionType DEF FirstKick, TickKick, IInv, LifetimeInv, TickerInv, PaceInv, Kicks
    <3>3. \A s \in Streams : LastKick[s] = kicks /\ LastKick'[s] = kicks + 1
      BY <2>1, <3>1 DEF LastKick, Cameras
    <3>4. \A s \in Streams : LiveKicks(s) \subseteq {LastKick[s]}
      BY <2>1, <3>2, <3>3 DEF LiveKicks
    <3>5. kicks + 1 \in Kicks
      BY <3>1 DEF Spawn, Kicks, TypeOK
    <3>6. Cameras \in SUBSET Cameras
      OBVIOUS
    <3> QED BY <2>1, <3>1, <3>3, <3>4, <3>5, <3>6, SpawnKicks
  <2>4. CASE RoutineReturn
    <3>1. [s \in Streams |-> LiveKicks(s)]' = [s \in Streams |-> LiveKicks(s)] /\ LastKick' = LastKick
      BY <2>4 DEF RoutineReturn, detectVars, LiveKicks, Live, LastKick
    <3>2. Untimed!Stop
      BY <2>4, <3>1 DEF RoutineReturn, detectVars, Untimed!Stop
    <3> QED BY <3>2 DEF Untimed!Next
  <2>5. CASE NewTicker \/ ReceiveTick \/ Cancel \/ Advance \/ UNCHANGED vars
    <3>1. UNCHANGED <<constructed, kicks, pc, streamInfo, writer>>
      BY <2>5 DEF NewTicker, ReceiveTick, Cancel, Advance, vars, routineVars, detectVars
    <3>2. (routine = "stopped")' = (routine = "stopped")
      BY <2>5 DEF NewTicker, ReceiveTick, Cancel, Advance, vars, routineVars
    <3>3. [s \in Streams |-> LiveKicks(s)]' = [s \in Streams |-> LiveKicks(s)] /\ LastKick' = LastKick
      BY <3>1 DEF LiveKicks, Live, LastKick
    <3> QED BY <3>1, <3>2, <3>3 DEF Untimed!vars
  <2> QED BY <2>2, <2>3, <2>4, <2>5, DetectRefreshes DEF Next, Routine, AtHorizon
<1> QED BY <1>1, <1>2, InitBorn, NextBorn, TypeCorrect, Pacing, PTL
     DEF Spec, ImplementsRefreshing, Untimed!Spec

=============================================================================
