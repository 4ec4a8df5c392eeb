------------------------------ MODULE TimeSync ------------------------------
(***************************************************************************)
(* The virtual clock of one server: handleSetSystemDateAndTime and         *)
(* handleGetSystemDateAndTime of internal/onvif/device.go, run by the      *)
(* goroutines of concurrent requests.                                      *)
(*                                                                         *)
(* A Set stores the requested time together with the system time at which  *)
(* it was read, behind one pointer; a Get copies the pointer under the     *)
(* read lock and adds the time elapsed since.  Both read the system clock  *)
(* outside the lock, and both call UTC() on what they read, which drops    *)
(* Go's monotonic reading: the elapsed time is a difference of two wall    *)
(* clock readings, and the wall clock may be stepped.                      *)
(***************************************************************************)
EXTENDS Integers

CONSTANTS
  Clients,  \* goroutines serving requests
  Requests, \* bodies of SetSystemDateAndTime
  Labels,   \* values of the DateTimeType and TimeZone pair
  DefaultLabel, \* that of a clock that was never set: NTP, EAST-4
  Epoch,    \* UTC time at which the system's wall clock reads 0
  Steps,    \* by how much the wall clock may be stepped
  MaxSteps, \* bound: steps of the wall clock
  Horizon   \* bound: last instant of time

\* A body asks for the time base, 0 standing for Go's zero time, or for none.
\* The string search finds the tag <UTCDateTime> or not, and in it a year, a
\* month and a day that are positive or not: only tags without a namespace
\* prefix count.
NoTime == -1
BodyType == [utc: BOOLEAN, date: BOOLEAN, base: Nat \cup {NoTime}, label: Labels]

Understood(body) == body.utc /\ body.date

ASSUME BodiesAssumption ==
  Requests \subseteq BodyType /\ \A body \in Requests : Understood(body) => body.base # NoTime
ASSUME ClockAssumption ==
  Epoch \in Nat \ {0} /\ Steps \subseteq Int /\ MaxSteps \in Nat /\ Horizon \in Nat

ZeroTime == 0

\* The pointer timeSettings: nil, or one immutable record.
NilSettings == [base |-> ZeroTime, sysBase |-> 0, label |-> DefaultLabel]
Settings == [base: Nat, sysBase: Int, label: Labels]
AnySettings == Settings \cup {NilSettings}

VARIABLES
  now,      \* time that passed since the program was started
  offset,   \* by how much the wall clock was stepped meanwhile
  steps,    \* number of those steps
  settings, \* s.timeSettings
  pc,       \* control state of every goroutine
  local,    \* the record a Set has built, or the one a Get has copied
  body,     \* the body of a Set
  reply,    \* the time and label of a Get's response
  begun,    \* history: when the request arrived
  stepped,  \* history: the goroutines during whose request the clock was stepped
  seen,     \* history: the settings there were since a Get arrived
  latest,   \* history: the Set being served that was the last to store
  synced,   \* history: what the Set in place asked for, and between which
            \* readings of the wall clock; nothing until it is acknowledged, or
            \* if the clock was stepped while it was served
  acked     \* history: what the last acknowledged Set asked for, and when, be
            \* it stored or not, unless another was stored since

historyVars == <<begun, stepped, seen, latest, synced, acked>>
clockVars == <<now, offset, steps>>
vars == <<clockVars, settings, pc, local, body, reply, historyVars>>

Wall == now + offset

\* Fault: the elapsed time is not added.
FaultFrozenClock(v, t) == IF v.base # ZeroTime THEN v.base ELSE Epoch + t

\* What the clock shows when the wall clock reads t.
Shown(v, t) == IF v.base # ZeroTime THEN v.base + (t - v.sysBase) ELSE Epoch + t
ShownLabel(v) == IF v.base # ZeroTime THEN v.label ELSE DefaultLabel

NoReply == [time |-> 0, label |-> DefaultLabel]
NoBody == [utc |-> FALSE, date |-> FALSE, base |-> NoTime, label |-> DefaultLabel]

TypeOK ==
  /\ now \in 0..Horizon /\ offset \in Int /\ steps \in 0..MaxSteps
  /\ settings \in AnySettings
  /\ pc \in [Clients -> {"idle", "parsing", "storing", "acking",
                         "reading", "computing", "replying"}]
  /\ local \in [Clients -> AnySettings]
  /\ body \in [Clients -> Requests \cup {NoBody}]
  /\ reply \in [Clients -> [time: Int, label: Labels \cup {DefaultLabel}]]
  /\ begun \in [Clients -> 0..Horizon]
  /\ stepped \subseteq Clients
  /\ seen \in [Clients -> SUBSET AnySettings]
  /\ latest \subseteq Clients
  /\ synced \subseteq [base: Nat, label: Labels, from: Int, until: Int]
  /\ acked \subseteq [base: Nat, begun: 0..Horizon, ended: 0..Horizon]

Init ==
  /\ now = 0 /\ offset = 0 /\ steps = 0
  /\ settings = NilSettings
  /\ pc = [c \in Clients |-> "idle"]
  /\ local = [c \in Clients |-> NilSettings]
  /\ body = [c \in Clients |-> NoBody]
  /\ reply = [c \in Clients |-> NoReply]
  /\ begun = [c \in Clients |-> 0]
  /\ stepped = {}
  /\ seen = [c \in Clients |-> {}]
  /\ latest = {} /\ synced = {} /\ acked = {}

Goto(c, to) == pc' = [pc EXCEPT ![c] = to]

-----------------------------------------------------------------------------
(* SetSystemDateAndTime *)

\* The request arrives; its goroutine gets to the body at some later time.
ReceiveSet(c, request) ==
  /\ pc[c] = "idle"
  /\ Goto(c, "parsing")
  /\ body' = [body EXCEPT ![c] = request]
  /\ begun' = [begun EXCEPT ![c] = now]
  /\ UNCHANGED <<clockVars, settings, local, reply, stepped, seen, latest, synced, acked>>

\* Fault: the body's type and time zone are not stored.
FaultLabelLost(c) ==
  /\ pc[c] = "parsing"
  /\ IF Understood(body[c])
     THEN /\ Goto(c, "storing")
          /\ local' = [local EXCEPT ![c] =
               [base |-> body[c].base, sysBase |-> Wall, label |-> DefaultLabel]]
     ELSE Goto(c, "acking") /\ UNCHANGED local
  /\ UNCHANGED <<clockVars, settings, body, reply, historyVars>>

\* Fault: the clock is read once, when the program starts.
FaultEarlyStamp(c) ==
  /\ pc[c] = "parsing"
  /\ IF Understood(body[c])
     THEN /\ Goto(c, "storing")
          /\ local' = [local EXCEPT ![c] =
               [base |-> body[c].base, sysBase |-> 0, label |-> body[c].label]]
     ELSE Goto(c, "acking") /\ UNCHANGED local
  /\ UNCHANGED <<clockVars, settings, body, reply, historyVars>>

\* Looks for a date in the body and, if there is one, reads the clock.
ParseSet(c) ==
  /\ pc[c] = "parsing"
  /\ IF Understood(body[c])
     THEN /\ Goto(c, "storing")
          /\ local' = [local EXCEPT ![c] =
               [base |-> body[c].base, sysBase |-> Wall, label |-> body[c].label]]
     ELSE Goto(c, "acking") /\ UNCHANGED local
  /\ UNCHANGED <<clockVars, settings, body, reply, historyVars>>

StoreSettings(c) ==
  /\ pc[c] = "storing"
  /\ Goto(c, "acking")
  /\ settings' = local[c]
  /\ seen' = [g \in Clients |-> IF seen[g] = {} THEN {} ELSE seen[g] \cup {local[c]}]
  /\ latest' = {c} /\ synced' = {} /\ acked' = {}
  /\ UNCHANGED <<clockVars, local, body, reply, begun, stepped>>

\* Every Set is answered with success.
AckSet(c) ==
  /\ pc[c] = "acking"
  /\ Goto(c, "idle")
  /\ synced' = IF c \in latest \ stepped
               THEN {[base |-> body[c].base, label |-> body[c].label,
                      from |-> begun[c] + offset, until |-> Wall]}
               ELSE synced
  /\ acked' = IF c \in latest \/ (~Understood(body[c]) /\ body[c].base # NoTime)
              THEN {[base |-> body[c].base, begun |-> begun[c], ended |-> now]}
              ELSE acked
  /\ latest' = latest \ {c}
  /\ local' = [local EXCEPT ![c] = NilSettings]
  /\ body' = [body EXCEPT ![c] = NoBody]
  /\ begun' = [begun EXCEPT ![c] = 0]
  /\ stepped' = stepped \ {c}
  /\ UNCHANGED <<clockVars, settings, reply, seen>>

-----------------------------------------------------------------------------
(* GetSystemDateAndTime *)

\* The request arrives and its goroutine copies the pointer at some later time.
ReceiveGet(c) ==
  /\ pc[c] = "idle"
  /\ Goto(c, "reading")
  /\ begun' = [begun EXCEPT ![c] = now]
  /\ seen' = [seen EXCEPT ![c] = {settings}]
  /\ UNCHANGED <<clockVars, settings, local, body, reply, stepped, latest, synced, acked>>

CopySettings(c) ==
  /\ pc[c] = "reading"
  /\ Goto(c, "computing")
  /\ local' = [local EXCEPT ![c] = settings]
  /\ UNCHANGED <<clockVars, settings, body, reply, historyVars>>

\* Fault: the pointer is not copied but read again for the label.
FaultRereadPointer(c) ==
  /\ pc[c] = "computing"
  /\ Goto(c, "replying")
  /\ reply' = [reply EXCEPT ![c] = [time |-> Shown(local[c], Wall), label |-> ShownLabel(settings)]]
  /\ UNCHANGED <<clockVars, settings, local, body, historyVars>>

\* Reads the clock and adds what elapsed since the Set read it.
ComputeReply(c) ==
  /\ pc[c] = "computing"
  /\ Goto(c, "replying")
  /\ reply' = [reply EXCEPT ![c] = [time |-> Shown(local[c], Wall), label |-> ShownLabel(local[c])]]
  /\ UNCHANGED <<clockVars, settings, local, body, historyVars>>

SendReply(c) ==
  /\ pc[c] = "replying"
  /\ Goto(c, "idle")
  /\ local' = [local EXCEPT ![c] = NilSettings]
  /\ reply' = [reply EXCEPT ![c] = NoReply]
  /\ begun' = [begun EXCEPT ![c] = 0]
  /\ seen' = [seen EXCEPT ![c] = {}]
  /\ stepped' = stepped \ {c}
  /\ UNCHANGED <<clockVars, settings, body, latest, synced, acked>>

-----------------------------------------------------------------------------
Tick ==
  /\ now < Horizon
  /\ now' = now + 1
  /\ UNCHANGED <<offset, steps, settings, pc, local, body, reply, historyVars>>

\* An operator or a time daemon steps the host's clock, forwards or backwards.
StepWallClock(by) ==
  /\ steps < MaxSteps
  /\ steps' = steps + 1
  /\ offset' = offset + by
  /\ stepped' = {c \in Clients : pc[c] # "idle"}
  /\ UNCHANGED <<now, settings, pc, local, body, reply, begun, seen, latest, synced, acked>>

Serve(c) ==
  \/ \E request \in Requests : ReceiveSet(c, request)
  \/ ParseSet(c) \/ StoreSettings(c) \/ AckSet(c)
  \/ ReceiveGet(c) \/ CopySettings(c) \/ ComputeReply(c) \/ SendReply(c)

Next == (\E c \in Clients : Serve(c)) \/ Tick \/ (\E by \in Steps : StepWallClock(by))

Spec == Init /\ [][Next]_vars

-----------------------------------------------------------------------------
(* The inductive invariant *)

Getting(c) == pc[c] \in {"reading", "computing", "replying"}

\* The settings seen by a Get include those in place and those it copied.
GetInv == \A c \in Clients :
  /\ begun[c] <= now
  /\ IF Getting(c) THEN settings \in seen[c] ELSE seen[c] = {}
  /\ pc[c] = "computing" => local[c] \in seen[c]

\* A Set's record is what its body asks for, stamped while it was served.
SetInv == \A c \in Clients :
  /\ pc[c] = "storing" => Understood(body[c])
  /\ pc[c] \in {"storing", "acking"} /\ Understood(body[c]) =>
       /\ local[c].base = body[c].base /\ local[c].label = body[c].label
       /\ c \notin stepped =>
            begun[c] + offset <= local[c].sysBase /\ local[c].sysBase <= Wall

\* The Set that was the last to store has its record in place.
LatestInv == \A c \in latest :
  pc[c] = "acking" /\ Understood(body[c]) /\ settings = local[c]

\* And so has an acknowledged one, until another is stored.
SyncedInv == \A s \in synced :
  /\ settings.base = s.base /\ settings.label = s.label
  /\ s.from <= settings.sysBase /\ settings.sysBase <= s.until

-----------------------------------------------------------------------------
(* Properties *)

\* Unless the host's clock was stepped meanwhile, a Get answers with a time the
\* clock really showed while the request was being served: the settings, time
\* and label together, are some that were in place, and the time is theirs at
\* an instant of the request.
ReplyInWindow == \A c \in Clients : pc[c] = "replying" /\ c \notin stepped =>
  \E v \in seen[c] :
    /\ Shown(v, begun[c] + offset) <= reply[c].time /\ reply[c].time <= Shown(v, Wall)
    /\ reply[c].label = ShownLabel(v)

\* The settings of a request, of a Set and of the clock belong together: the
\* invariant the two properties about replies follow from.
IInv == GetInv /\ SetInv /\ LatestInv /\ SyncedInv /\ ReplyInWindow

\* Round trip: once a Set whose body was understood is acknowledged, and until
\* another is stored, every Get answers with the label and the time asked for
\* plus what the host's clock went on since, to within what it went on during
\* the two requests: a step between them shifts the answer by just its amount.
\* A Set to Go's zero time is the exception: although it is acknowledged, the
\* Get shows the host's time with the default label, as if none was ever stored.
\* Nothing is said of a request during which the clock is stepped.
RoundTrip == \A c \in Clients, s \in synced :
  pc[c] = "replying" /\ c \notin stepped /\ seen[c] = {settings} =>
    IF s.base # ZeroTime
    THEN /\ s.base + (begun[c] + offset - s.until) <= reply[c].time
         /\ reply[c].time <= s.base + (Wall - s.from)
         /\ reply[c].label = s.label
    ELSE /\ Epoch + begun[c] + offset <= reply[c].time /\ reply[c].time <= Epoch + Wall
         /\ reply[c].label = DefaultLabel

\* "Accepts SetSystemDateAndTime from NVRs and reports back the synced clock",
\* "stores the offset so subsequent GetSystemDateAndTime calls return synced
\* time": the same for every acknowledged Set that asks for a time.
SyncedClockReported == \A c \in Clients, s \in acked :
  pc[c] = "replying" /\ s.ended <= begun[c] /\ seen[c] = {settings} =>
    /\ s.base + (begun[c] - s.ended) <= reply[c].time
    /\ reply[c].time <= s.base + (now - s.begun)

=============================================================================
