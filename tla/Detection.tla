----------------------------- MODULE Detection -----------------------------
(***************************************************************************)
(* Stream detection of internal/onvif/stream.go, with the part of          *)
(* cmd/onvif-server/main.go that starts it.                                *)
(*                                                                         *)
(* main constructs the servers one by one; each NewServer starts one       *)
(* detection goroutine for the main stream and, if the camera has its      *)
(* substream enabled, one for the substream (kick 0).  StartDetection-     *)
(* Routine then starts one goroutine for every stream of every camera      *)
(* (kick 1), creates a ticker and starts all of them again at every tick   *)
(* it receives (kicks 2, 3, ...), until its context is done.  A detection  *)
(* is a goroutine that runs ffprobe under a timeout and merges the answer  *)
(* into the stream's record under a mutex.  Nothing waits for a detection, *)
(* so those of different kicks may run side by side.                       *)
(*                                                                         *)
(* Time is discrete.  A goroutine that can run does so within SchedDelay:  *)
(* the clock may not pass the `due' time of a detection.  How long the     *)
(* routine takes to receive a tick that is ready is not bounded.           *)
(***************************************************************************)
EXTENDS Integers, Sequences, FiniteSets, StreamInfo

CONSTANTS
  NCameras,          \* number of entries of the cameras list of the config
  SubEnabled,        \* the cameras with substream_enabled
  ProbeTimeout,      \* the timeout of the ffprobe context (10 s)
  SchedDelay,        \* longest time a runnable goroutine waits to run
  DetectionInterval, \* the ticker's period (10 min)
  ProbeResults,      \* answers of ffprobe: the first stream of its JSON
  MaxKicks,          \* bound: kicks of the routine
  Horizon            \* bound: last instant of the clock

Cameras == 1..NCameras

ASSUME CamerasAssumption ==
  /\ NCameras \in Nat
  /\ SubEnabled \subseteq Cameras

ASSUME ProbeAssumption == ProbeResults \subseteq ProbeStream

ASSUME BoundsAssumption ==
  /\ MaxKicks \in Nat \ {0}
  /\ Horizon \in Nat

\* The code's 10 s against 10 min; nothing in it depends on more than this.
ASSUME TimingAssumption ==
  /\ ProbeTimeout \in Nat
  /\ SchedDelay \in Nat
  /\ DetectionInterval \in Nat
  /\ 3 * SchedDelay + ProbeTimeout < DetectionInterval

Streams == Cameras \X {"main", "sub"}
Kicks == 0..MaxKicks

\* The detection that kick d[1] starts for stream d[2].
Detections == Kicks \X Streams
KickOf(d) == d[1]
StreamOf(d) == d[2]

Default(s) == IF s[2] = "main" THEN MainDefault ELSE SubDefault

VARIABLES
  now,         \* the clock
  constructed, \* servers constructed so far
  routine,     \* control state of StartDetectionRoutine
  routineDue,  \* when the routine will have started a tick's detections
  kicks,       \* last kick started; 0 is the one of the constructors
  tickC,       \* the ticker's channel: at most one tick, here its time
  nextTick,    \* when the ticker fires next
  ctxDone,     \* the routine's context is cancelled
  pc,          \* control state of every detection
  due,         \* when a live detection will have left its control state
  probe,       \* the answer a detection is about to merge
  streamInfo,  \* the record of every stream
  writer       \* history: the last kick merged into it, -1 for none

routineVars == <<constructed, routine, routineDue, kicks, tickC, nextTick, ctxDone>>
detectVars == <<pc, due, probe, streamInfo, writer>>
vars == <<now, routineVars, detectVars>>

NoProbe == [Width |-> 0]

Live(d) == pc[d] \in {"spawned", "probing", "merging"}

\* From `go' to the end of the merge.
Lifetime == 2 * SchedDelay + ProbeTimeout

TypeOK ==
  /\ now \in 0..Horizon
  /\ constructed \in 0..NCameras
  /\ routine \in {"off", "kicked", "waiting", "kicking", "stopped"}
  /\ routineDue \in Nat
  /\ kicks \in Kicks
  /\ tickC \in Seq(Nat) /\ Len(tickC) <= 1
  /\ nextTick \in Nat
  /\ ctxDone \in BOOLEAN
  /\ pc \in [Detections -> {"unborn", "spawned", "probing", "merging", "done"}]
  /\ due \in [Detections -> Nat]
  /\ probe \in [Detections -> ProbeResults \cup {NoProbe}]
  /\ \A d \in Detections : pc[d] = "merging" => probe[d] \in ProbeResults
  /\ streamInfo \in [Streams -> StreamInfoType]
  /\ writer \in [Streams -> Kicks \cup {-1}]

Init ==
  /\ now = 0
  /\ constructed = 0
  /\ routine = "off" /\ routineDue = 0 /\ kicks = 0
  /\ tickC = <<>> /\ nextTick = 0
  /\ ctxDone = FALSE
  /\ pc = [d \in Detections |-> "unborn"]
  /\ due = [d \in Detections |-> 0]
  /\ probe = [d \in Detections |-> NoProbe]
  /\ streamInfo = [s \in Streams |-> Default(s)]
  /\ writer = [s \in Streams |-> -1]

-----------------------------------------------------------------------------
(* Starting detections *)

\* A camera's detections: the main stream's, and the substream's if enabled.
HasDetection(s) == s[2] = "main" \/ s[1] \in SubEnabled

\* go server.detectStreamInfo(...) for kick k and every camera in C.
Spawn(k, C) ==
  LET started == {d \in Detections : /\ KickOf(d) = k
                                     /\ StreamOf(d)[1] \in C
                                     /\ HasDetection(StreamOf(d))}
  IN /\ k <= MaxKicks /\ now + Lifetime <= Horizon
     /\ pc' = [d \in Detections |-> IF d \in started THEN "spawned" ELSE pc[d]]
     /\ due' = [d \in Detections |-> IF d \in started THEN now + SchedDelay ELSE due[d]]
     /\ UNCHANGED <<probe, streamInfo, writer>>

\* main appends the servers in the order of the config.
NewServer ==
  /\ constructed < NCameras
  /\ constructed' = constructed + 1
  /\ Spawn(0, {constructed + 1})
  /\ UNCHANGED <<now, routine, routineDue, kicks, tickC, nextTick, ctxDone>>

KickAllDetections(k) == Spawn(k, Cameras)

\* The routine is started once every server is constructed; it kicks at once.
FirstKick ==
  /\ routine = "off" /\ constructed = NCameras
  /\ KickAllDetections(1)
  /\ kicks' = 1
  /\ routine' = "kicked"
  /\ UNCHANGED <<now, constructed, routineDue, tickC, nextTick, ctxDone>>

\* Fault: the ticker gets the timeout of a probe as its period.
FaultShortTicker ==
  /\ routine = "kicked"
  /\ nextTick' = now + ProbeTimeout
  /\ routine' = "waiting"
  /\ UNCHANGED <<now, constructed, routineDue, kicks, tickC, ctxDone, detectVars>>

NewTicker ==
  /\ routine = "kicked"
  /\ nextTick' = now + DetectionInterval
  /\ routine' = "waiting"
  /\ UNCHANGED <<now, constructed, routineDue, kicks, tickC, ctxDone, detectVars>>

\* The select takes any of its ready cases: here the tick ...
ReceiveTick ==
  /\ routine = "waiting" /\ tickC # <<>>
  /\ kicks < MaxKicks /\ now + SchedDelay + Lifetime <= Horizon
  /\ tickC' = <<>>
  /\ routine' = "kicking"
  /\ routineDue' = now + SchedDelay
  /\ UNCHANGED <<now, constructed, kicks, nextTick, ctxDone, detectVars>>

TickKick ==
  /\ routine = "kicking"
  /\ KickAllDetections(kicks + 1)
  /\ kicks' = kicks + 1
  /\ routine' = "waiting"
  /\ routineDue' = 0
  /\ UNCHANGED <<now, constructed, tickC, nextTick, ctxDone>>

\* ... and here the context.
\* Fault: `break' in the select's case, which leaves the select and not the loop.
FaultBreakInSelect ==
  /\ routine = "waiting" /\ ctxDone
  /\ UNCHANGED vars

RoutineReturn ==
  /\ routine = "waiting" /\ ctxDone
  /\ routine' = "stopped"
  /\ UNCHANGED <<now, constructed, routineDue, kicks, tickC, nextTick, ctxDone, detectVars>>

Cancel ==
  /\ ~ctxDone
  /\ ctxDone' = TRUE
  /\ UNCHANGED <<now, constructed, routine, routineDue, kicks, tickC, nextTick, detectVars>>

-----------------------------------------------------------------------------
(* One detection *)

Leave(d, to, deadline) ==
  /\ pc' = [pc EXCEPT ![d] = to]
  /\ due' = [due EXCEPT ![d] = deadline]
  /\ UNCHANGED <<now, routineVars>>

\* Fault: ffprobe is run without a timeout of its own.
FaultNoTimeout(d) ==
  /\ pc[d] = "spawned"
  /\ Leave(d, "probing", now + 2 * DetectionInterval)
  /\ UNCHANGED <<probe, streamInfo, writer>>

\* The timeout's clock starts when the goroutine runs, not when it is started.
Begin(d) ==
  /\ pc[d] = "spawned"
  /\ Leave(d, "probing", now + ProbeTimeout)
  /\ UNCHANGED <<probe, streamInfo, writer>>

\* ffprobe exits with an error, prints no JSON or finds no video stream.
ProbeFails(d) ==
  /\ pc[d] = "probing"
  /\ Leave(d, "done", 0)
  /\ UNCHANGED <<probe, streamInfo, writer>>

\* Fault: a detection that timed out tries again.
FaultRetryForever(d) ==
  /\ pc[d] = "probing" /\ now = due[d]
  /\ Leave(d, "probing", now + ProbeTimeout)
  /\ UNCHANGED <<probe, streamInfo, writer>>

\* The context's deadline kills ffprobe.
ProbeTimesOut(d) ==
  /\ pc[d] = "probing" /\ now = due[d]
  /\ Leave(d, "done", 0)
  /\ UNCHANGED <<probe, streamInfo, writer>>

ProbeReturns(d, st) ==
  /\ pc[d] = "probing"
  /\ Leave(d, "merging", now + SchedDelay)
  /\ probe' = [probe EXCEPT ![d] = st]
  /\ UNCHANGED <<streamInfo, writer>>

\* Fault: isSubstream is forgotten when the record is chosen again.
FaultMainTarget(d) == <<StreamOf(d)[1], "main">>

\* The record is chosen again under the write lock: isSubstream decides.
Target(d) == StreamOf(d)

Merge(d) ==
  /\ pc[d] = "merging"
  /\ Leave(d, "done", 0)
  /\ streamInfo' = [streamInfo EXCEPT ![Target(d)] = MergeProbe(@, probe[d])]
  /\ writer' = [writer EXCEPT ![Target(d)] = KickOf(d)]
  /\ probe' = [probe EXCEPT ![d] = NoProbe]

-----------------------------------------------------------------------------
(* Time *)

\* Fault: ticks queue up behind a slow routine.
FaultQueueTicks ==
  IF routine \in {"waiting", "kicking"} /\ now + 1 = nextTick
  THEN /\ tickC' = Append(tickC, nextTick)
       /\ nextTick' = nextTick + DetectionInterval
  ELSE UNCHANGED <<tickC, nextTick>>

\* A tick that finds the channel full is dropped; the period stays fixed.
Fire ==
  IF routine \in {"waiting", "kicking"} /\ now + 1 = nextTick
  THEN /\ tickC' = IF tickC = <<>> THEN <<nextTick>> ELSE tickC
       /\ nextTick' = nextTick + DetectionInterval
  ELSE UNCHANGED <<tickC, nextTick>>

Advance ==
  /\ now < Horizon
  /\ \A d \in Detections : Live(d) => now < due[d]
  /\ routine = "kicking" => now < routineDue
  /\ now' = now + 1
  /\ Fire
  /\ UNCHANGED <<constructed, routine, routineDue, kicks, ctxDone, detectVars>>

\* The bound of the clock is not a deadlock of the program.
AtHorizon == now = Horizon /\ UNCHANGED vars

Detect(d) ==
  \/ Begin(d) \/ ProbeFails(d) \/ ProbeTimesOut(d)
  \/ \E st \in ProbeResults : ProbeReturns(d, st)
  \/ Merge(d)

Routine == FirstKick \/ NewTicker \/ ReceiveTick \/ TickKick \/ RoutineReturn

Next ==
  \/ NewServer \/ Routine \/ Cancel
  \/ \E d \in Detections : Detect(d)
  \/ Advance \/ AtHorizon

Spec == Init /\ [][Next]_vars

(***************************************************************************)
(* Goroutines that can run do run, time passes and a timeout fires.  Not   *)
(* assumed: that ffprobe answers, and that anybody cancels.  The select    *)
(* chooses uniformly among its ready cases, so a context that is done is   *)
(* not passed over for ever: strong fairness.                              *)
(***************************************************************************)
Fairness ==
  /\ WF_vars(NewServer) /\ WF_vars(Advance)
  /\ WF_vars(FirstKick) /\ WF_vars(NewTicker) /\ WF_vars(TickKick) /\ WF_vars(ReceiveTick)
  /\ SF_vars(RoutineReturn)
  /\ \A d \in Detections : WF_vars(Begin(d)) /\ WF_vars(ProbeTimesOut(d)) /\ WF_vars(Merge(d))

FairSpec == Spec /\ Fairness

-----------------------------------------------------------------------------
(* Properties *)

LiveKicks(s) == {k \in Kicks : Live(<<k, s>>)}

\* The latest time at which a live detection is over.
Latest(d) == due[d] + (CASE pc[d] = "spawned" -> ProbeTimeout + SchedDelay
                         [] pc[d] = "probing" -> SchedDelay
                         [] OTHER -> 0)

\* Detections never pile up: although nothing waits for the detections of a
\* kick before the next one starts, and although a late tick may come right
\* before the next, a stream never has more than two of them (two ffprobe
\* processes) at a time.
AtMostTwoDetections == \A s \in Streams : Cardinality(LiveKicks(s)) <= 2

\* Bounded staleness: a slow detection may overwrite what a faster one of a
\* later kick wrote, but only of the kick right after its own.
NoOldOverwrite == [][\A s \in Streams : writer'[s] >= writer[s] - 1]_vars

\* Whatever the probes answer and in whatever order they are merged, what the
\* media service describes stays describable: a picture with a size, a codec
\* and a profile that are known, and HEVC under ONVIF's name for it, H265.  The
\* rates may be 0, and other codecs keep ffprobe's names in capitals, although
\* ONVIF's name for MJPEG is JPEG.
InfoSane == \A s \in Streams :
  /\ streamInfo[s].Width > 0 /\ streamInfo[s].Height > 0
  /\ streamInfo[s].Codec \notin {"", "HEVC"}
  /\ streamInfo[s].Profile # ""

\* A record changes only by a detection of that very stream finishing with an
\* answer: a failed or timed-out probe, a detection of the other stream and a
\* substream that is not enabled leave it as it was.
OnlyOwnAnswersMerged ==
  [][\A s \in Streams : streamInfo'[s] # streamInfo[s] =>
       /\ HasDetection(s)
       /\ \E k \in Kicks : pc[<<k, s>>] = "merging" /\ pc'[<<k, s>>] = "done"]_vars

\* Every detection that is started ends, whether or not ffprobe ever answers.
DetectionsFinish == \A d \in Detections : Live(d) ~> ~Live(d)

\* A detection is started once, and while time passes and whatever the others do,
\* the instant by which it is over never recedes.
DeadlinesFirm ==
  [][\A d \in Detections : pc[d] # "unborn" /\ Live(d)' =>
       Live(d) /\ Latest(d)' <= Latest(d)]_vars

\* Once the context is cancelled the routine stops and the detections it
\* started drain; none is started after that.
CancelQuiesces ==
  ctxDone ~> [](\/ kicks = 0
                \/ routine = "stopped" /\ \A d \in Detections : ~Live(d))

-----------------------------------------------------------------------------
(* The inductive invariant behind the first two properties *)

\* The time of the tick the routine receives next.
Upcoming == IF tickC = <<>> THEN nextTick ELSE tickC[1]

LifetimeInv == \A d \in Detections :
  Live(d) => /\ now <= due[d]
             /\ Latest(d) <= now + Lifetime
             /\ KickOf(d) \in {kicks - 1, kicks}

WriterInv == \A s \in Streams : writer[s] <= kicks

TickerInv ==
  /\ constructed < NCameras => routine = "off"
  /\ routine = "off" => kicks = 0
  /\ routine = "kicked" => kicks = 1
  /\ routine \in {"off", "kicked"} => tickC = <<>>
  /\ routine \in {"waiting", "kicking"} =>
       /\ now < nextTick
       /\ tickC # <<>> => tickC[1] <= now /\ tickC[1] + DetectionInterval <= nextTick

\* While the routine waits, detections older than the last kick are over when
\* the tick it waits for comes; while it handles a tick, they are over.
PaceInv ==
  /\ routine = "waiting" => \A d \in Detections : Live(d) =>
       /\ Latest(d) <= Upcoming + SchedDelay + Lifetime
       /\ KickOf(d) < kicks =>
            Latest(d) <= Upcoming - DetectionInterval + SchedDelay + Lifetime
  /\ routine = "kicking" =>
       /\ now <= routineDue /\ routineDue <= Upcoming + SchedDelay
       /\ \A d \in Detections : Live(d) =>
            /\ KickOf(d) = kicks
            /\ Latest(d) <= Upcoming - DetectionInterval + SchedDelay + Lifetime

\* Goroutines keep to their deadlines, the ticker to its period, and the
\* detections of one kick are over before the kick after the next: the
\* invariant from which the two properties about overlapping kicks follow.
IInv == LifetimeInv /\ WriterInv /\ TickerInv /\ PaceInv

-----------------------------------------------------------------------------
(* What it implements *)

\* The last kick for a stream: kick 0 is that of its camera's construction.
LastKick == [s \in Streams |-> IF constructed < s[1] THEN -1 ELSE kicks]

Untimed == INSTANCE Refreshing
  WITH Enabled <- {s \in Streams : HasDetection(s)},
       Initial <- [s \in Streams |-> Default(s)],
       Answers <- ProbeResults,
       last <- LastKick,
       open <- [s \in Streams |-> LiveKicks(s)],
       stopped <- routine = "stopped",
       record <- streamInfo

\* Although the code only ever starts detections and waits for none, a reader of
\* the records may rely on kicks that come one after the other and overlap with
\* the next at most, on records that change by an answer to a detection of
\* theirs, and on no kick after the routine has returned.
ImplementsRefreshing == Untimed!Spec

=============================================================================
