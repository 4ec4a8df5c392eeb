--------------------------- MODULE TimeSync_proof ---------------------------
(***************************************************************************)
(* Theorems about TimeSync, for any number of concurrent requests, any     *)
(* bodies and any length of time.                                          *)
(***************************************************************************)
EXTENDS TimeSync, TLAPS

USE BodiesAssumption, ClockAssumption DEF clockVars, historyVars, Wall

ControlStates == {"idle", "parsing", "storing", "acking", "reading", "computing", "replying"}

-----------------------------------------------------------------------------
(* Type correctness *)

LEMMA NilType == NilSettings \in AnySettings
  BY DEF AnySettings

LEMMA InitType == Init => TypeOK
<1> SUFFICES ASSUME Init PROVE TypeOK
  OBVIOUS
<1>1. 0 \in 0..Horizon
  BY DEF ZeroTime
<1>2. NoReply \in [time: Int, label: Labels \cup {DefaultLabel}]
  BY DEF NoReply
<1> QED BY <1>1, <1>2, NilType DEF Init, TypeOK

LEMMA SettingsFields == ASSUME NEW v \in AnySettings
                        PROVE  /\ v.base \in Nat /\ v.sysBase \in Int
                               /\ v.label \in Labels \cup {DefaultLabel}
  BY DEF AnySettings, Settings, NilSettings, ZeroTime

LEMMA ShownType == ASSUME NEW v \in AnySettings, NEW t \in Int
                   PROVE  Shown(v, t) \in Int /\ ShownLabel(v) \in Labels \cup {DefaultLabel}
  BY SettingsFields DEF Shown, ShownLabel

LEMMA BodyFacts == ASSUME TypeOK, NEW c \in Clients
                   PROVE  /\ Understood(body[c]) => body[c].base \in Nat /\ body[c].label \in Labels
                          /\ body[c].base # NoTime => body[c].base \in Nat
<1>1. CASE body[c] \in Requests
  BY <1>1 DEF BodyType, NoTime
<1>2. CASE body[c] = NoBody
  BY <1>2 DEF NoBody, Understood
<1> QED BY <1>1, <1>2 DEF TypeOK

\* What is promised of a Set is of its body, so LatestInv is needed as well.
LEMMA NextType == TypeOK /\ IInv /\ [Next]_vars => TypeOK'
<1> SUFFICES ASSUME TypeOK, IInv, [Next]_vars PROVE TypeOK'
  OBVIOUS
<1> USE NilType
<1>1. ASSUME NEW c \in Clients, NEW request \in Requests, ReceiveSet(c, request) PROVE TypeOK'
  BY <1>1 DEF TypeOK, ReceiveSet, Goto
<1>2. ASSUME NEW c \in Clients, ParseSet(c) PROVE TypeOK'
  <2>1. Understood(body[c]) =>
          [base |-> body[c].base, sysBase |-> Wall, label |-> body[c].label] \in AnySettings
    <3>1. ASSUME Understood(body[c]) PROVE body[c].base \in Nat /\ body[c].label \in Labels
      BY <3>1, BodyFacts
    <3> QED BY <3>1 DEF TypeOK, AnySettings, Settings
  <2>2. local' \in [Clients -> AnySettings]
    BY <1>2, <2>1 DEF TypeOK, ParseSet
  <2>3. pc' \in [Clients -> ControlStates]
    BY <1>2 DEF TypeOK, ParseSet, Goto, ControlStates
  <2> QED BY <1>2, <2>2, <2>3 DEF TypeOK, ParseSet, ControlStates
<1>11. ASSUME NEW c \in Clients, StoreSettings(c) PROVE TypeOK'
  <2>1. seen' \in [Clients -> SUBSET AnySettings]
    BY <1>11 DEF TypeOK, StoreSettings
  <2> QED BY <1>11, <2>1 DEF TypeOK, StoreSettings, Goto
<1>3. ASSUME NEW c \in Clients, AckSet(c) PROVE TypeOK'
  <2>1. synced' \subseteq [base: Nat, label: Labels, from: Int, until: Int]
    <3>1. CASE c \in latest \ stepped
      <4>1. body[c].base \in Nat /\ body[c].label \in Labels
        BY <3>1, BodyFacts DEF IInv, LatestInv
      <4>2. begun[c] + offset \in Int /\ Wall \in Int
        BY DEF TypeOK
      <4>3. synced' = {[base |-> body[c].base, label |-> body[c].label,
                        from |-> begun[c] + offset, until |-> Wall]}
        BY <1>3, <3>1 DEF AckSet
      <4> QED BY <4>1, <4>2, <4>3
    <3>2. CASE c \notin latest \ stepped
      BY <1>3, <3>2 DEF AckSet, TypeOK
    <3> QED BY <3>1, <3>2
  <2>2. acked' \subseteq [base: Nat, begun: 0..Horizon, ended: 0..Horizon]
    <3>1. CASE c \in latest \/ (~Understood(body[c]) /\ body[c].base # NoTime)
      <4>1. body[c].base \in Nat
        BY <3>1, BodyFacts DEF IInv, LatestInv
      <4>2. acked' = {[base |-> body[c].base, begun |-> begun[c], ended |-> now]}
        BY <1>3, <3>1 DEF AckSet
      <4> QED BY <4>1, <4>2 DEF TypeOK
    <3>2. CASE ~(c \in latest \/ (~Understood(body[c]) /\ body[c].base # NoTime))
      BY <1>3, <3>2 DEF AckSet, TypeOK
    <3> QED BY <3>1, <3>2
  <2> QED BY <1>3, <2>1, <2>2 DEF TypeOK, AckSet, Goto
<1>4. ASSUME NEW c \in Clients, ReceiveGet(c) PROVE TypeOK'
  BY <1>4 DEF TypeOK, ReceiveGet, Goto
<1>5. ASSUME NEW c \in Clients, CopySettings(c) PROVE TypeOK'
  BY <1>5 DEF TypeOK, CopySettings, Goto
<1>6. ASSUME NEW c \in Clients, ComputeReply(c) PROVE TypeOK'
  <2>1. [time |-> Shown(local[c], Wall), label |-> ShownLabel(local[c])]
          \in [time: Int, label: Labels \cup {DefaultLabel}]
    BY ShownType DEF TypeOK, Wall
  <2> QED BY <1>6, <2>1 DEF TypeOK, ComputeReply, Goto
<1>7. ASSUME NEW c \in Clients, SendReply(c) PROVE TypeOK'
  <2>1. NoReply \in [time: Int, label: Labels \cup {DefaultLabel}]
    BY DEF NoReply
  <2> QED BY <1>7, <2>1 DEF TypeOK, SendReply, Goto
<1>8. CASE Tick
  BY <1>8 DEF TypeOK, Tick
<1>9. ASSUME NEW by \in Steps, StepWallClock(by) PROVE TypeOK'
  BY <1>9 DEF TypeOK, StepWallClock
<1>10. CASE UNCHANGED vars
  BY <1>10 DEF TypeOK, vars
<1> QED BY <1>1, <1>2, <1>3, <1>4, <1>5, <1>6, <1>7, <1>8, <1>9, <1>10, <1>11
    DEF Next, Serve

-----------------------------------------------------------------------------
(* The inductive invariant *)

LEMMA InitInv == Init => IInv
<1> SUFFICES ASSUME Init PROVE IInv
  OBVIOUS
<1>1. now = 0 /\ \A c \in Clients : pc[c] = "idle" /\ seen[c] = {} /\ begun[c] = 0
  BY DEF Init
<1>2. GetInv
  <2> SUFFICES ASSUME NEW c \in Clients
               PROVE  begun[c] <= now /\ ~Getting(c) /\ seen[c] = {} /\ pc[c] # "computing"
    BY DEF GetInv
  <2>1. ~Getting(c) /\ pc[c] # "computing"
    BY <1>1 DEF Getting
  <2>2. begun[c] <= now /\ seen[c] = {}
    BY <1>1
  <2> QED BY <2>1, <2>2
<1>3. SetInv /\ ReplyInWindow
  BY <1>1 DEF SetInv, ReplyInWindow
<1>4. LatestInv /\ SyncedInv
  BY DEF Init, LatestInv, SyncedInv
<1> QED BY <1>2, <1>3, <1>4 DEF IInv

\* The clock shown never runs backwards.
LEMMA ShownMonotone == ASSUME NEW v \in AnySettings, NEW t \in Int, NEW u \in Int, t <= u
                       PROVE  Shown(v, t) <= Shown(v, u)
  BY SettingsFields DEF Shown

LEMMA ReceiveSetInv ==
  ASSUME TypeOK, IInv, NEW c \in Clients, NEW request \in Requests, ReceiveSet(c, request)
  PROVE  IInv'
<1>1. /\ UNCHANGED <<clockVars, settings, local, reply, stepped, seen, latest, synced>>
      /\ pc[c] = "idle" /\ now \in Nat
  BY DEF ReceiveSet, TypeOK
<1>2. /\ pc'[c] = "parsing" /\ begun'[c] = now
      /\ \A g \in Clients : g # c => pc'[g] = pc[g] /\ begun'[g] = begun[g] /\ body'[g] = body[g]
  BY DEF TypeOK, ReceiveSet, Goto
<1>3. GetInv'
  BY <1>1, <1>2 DEF IInv, GetInv, Getting
<1>4. SetInv'
  BY <1>1, <1>2 DEF IInv, SetInv
<1>5. LatestInv'
  <2>1. c \notin latest
    BY <1>1 DEF IInv, LatestInv
  <2> QED BY <1>1, <1>2, <2>1 DEF IInv, LatestInv, TypeOK
<1>6. SyncedInv' /\ ReplyInWindow'
  BY <1>1, <1>2 DEF IInv, SyncedInv, ReplyInWindow
<1> QED BY <1>3, <1>4, <1>5, <1>6 DEF IInv

LEMMA ParseSetInv == ASSUME TypeOK, IInv, NEW c \in Clients, ParseSet(c) PROVE IInv'
<1>1. UNCHANGED <<clockVars, settings, body, reply, historyVars>> /\ pc[c] = "parsing"
  BY DEF ParseSet
<1>2. /\ pc'[c] = IF Understood(body[c]) THEN "storing" ELSE "acking"
      /\ Understood(body[c]) =>
           local'[c] = [base |-> body[c].base, sysBase |-> Wall, label |-> body[c].label]
      /\ \A g \in Clients : g # c => pc'[g] = pc[g] /\ local'[g] = local[g]
  BY DEF TypeOK, ParseSet, Goto
<1>3. GetInv'
  BY <1>1, <1>2 DEF IInv, GetInv, Getting
<1>4. SetInv'
  <2>1. begun[c] <= now /\ begun[c] \in Nat /\ now \in Nat /\ offset \in Int
    BY DEF IInv, GetInv, TypeOK
  <2>2. Understood(body[c]) => /\ local'[c].base = body[c].base /\ local'[c].label = body[c].label
                               /\ local'[c].sysBase = now + offset
    BY <1>2
  <2> QED BY <1>1, <1>2, <2>1, <2>2 DEF IInv, SetInv
<1>5. LatestInv'
  <2>1. c \notin latest
    BY <1>1 DEF IInv, LatestInv
  <2> QED BY <1>1, <1>2, <2>1 DEF IInv, LatestInv, TypeOK
<1>6. SyncedInv' /\ ReplyInWindow'
  BY <1>1, <1>2 DEF IInv, SyncedInv, ReplyInWindow
<1> QED BY <1>3, <1>4, <1>5, <1>6 DEF IInv

LEMMA StoreSettingsInv == ASSUME TypeOK, IInv, NEW c \in Clients, StoreSettings(c) PROVE IInv'
<1>1. /\ UNCHANGED <<clockVars, local, body, reply, begun, stepped>> /\ pc[c] = "storing"
      /\ settings' = local[c] /\ latest' = {c} /\ synced' = {}
  BY DEF StoreSettings
<1>2. \A g \in Clients : pc'[g] = IF g = c THEN "acking" ELSE pc[g]
  BY DEF TypeOK, StoreSettings, Goto
<1>3. \A g \in Clients : seen'[g] = IF seen[g] = {} THEN {} ELSE seen[g] \cup {local[c]}
  BY DEF StoreSettings
<1>4. GetInv'
  <2> SUFFICES ASSUME NEW g \in Clients
               PROVE  /\ begun'[g] <= now'
                      /\ Getting(g)' => settings' \in seen'[g]
                      /\ ~Getting(g)' => seen'[g] = {}
                      /\ pc'[g] = "computing" => local'[g] \in seen'[g]
    BY DEF GetInv
  <2>1. Getting(g)' = Getting(g)
    BY <1>1, <1>2 DEF Getting
  <2>2. /\ begun[g] <= now
        /\ Getting(g) => settings \in seen[g]
        /\ ~Getting(g) => seen[g] = {}
        /\ pc[g] = "computing" => local[g] \in seen[g]
    BY DEF IInv, GetInv
  <2> QED BY <1>1, <1>2, <1>3, <2>1, <2>2
<1>5. SetInv'
  BY <1>1, <1>2 DEF IInv, SetInv
<1>6. LatestInv' /\ SyncedInv'
  BY <1>1, <1>2 DEF IInv, SetInv, LatestInv, SyncedInv
<1>7. ReplyInWindow'
  <2>1. \A g \in Clients : seen[g] \subseteq seen'[g]
    BY <1>3
  <2> QED BY <1>1, <1>2, <2>1 DEF IInv, ReplyInWindow
<1> QED BY <1>4, <1>5, <1>6, <1>7 DEF IInv

LEMMA AckSetInv == ASSUME TypeOK, IInv, NEW c \in Clients, AckSet(c) PROVE IInv'
<1>1. /\ UNCHANGED <<clockVars, settings, reply, seen>> /\ stepped' = stepped \ {c}
      /\ latest' = latest \ {c} /\ pc[c] = "acking" /\ now \in Nat /\ offset \in Int
  BY DEF AckSet, TypeOK
<1>2. /\ pc'[c] = "idle" /\ begun'[c] = 0 /\ local'[c] = NilSettings
      /\ \A g \in Clients : g # c => /\ pc'[g] = pc[g] /\ begun'[g] = begun[g]
                                     /\ body'[g] = body[g] /\ local'[g] = local[g]
  BY DEF TypeOK, AckSet, Goto
<1>3. GetInv'
  BY <1>1, <1>2 DEF IInv, GetInv, Getting
<1>4. SetInv' /\ LatestInv'
  BY <1>1, <1>2 DEF IInv, SetInv, LatestInv, TypeOK
<1>5. SyncedInv'
  <2>1. CASE c \in latest \ stepped
    <3>1. synced' = {[base |-> body[c].base, label |-> body[c].label,
                      from |-> begun[c] + offset, until |-> Wall]}
      BY <2>1 DEF AckSet
    <3>2. settings = local[c] /\ Understood(body[c])
      BY <2>1 DEF IInv, LatestInv
    <3>3. /\ local[c].base = body[c].base /\ local[c].label = body[c].label
          /\ begun[c] + offset <= local[c].sysBase /\ local[c].sysBase <= Wall
      BY <1>1, <2>1, <3>2 DEF IInv, SetInv
    <3> QED BY <1>1, <3>1, <3>2, <3>3 DEF SyncedInv
  <2>2. CASE c \notin latest \ stepped
    <3>1. synced' = synced
      BY <2>2 DEF AckSet
    <3> QED BY <1>1, <3>1 DEF IInv, SyncedInv
  <2> QED BY <2>1, <2>2
<1>6. ReplyInWindow'
  BY <1>1, <1>2 DEF IInv, ReplyInWindow
<1> QED BY <1>3, <1>4, <1>5, <1>6 DEF IInv

LEMMA ReceiveGetInv == ASSUME TypeOK, IInv, NEW c \in Clients, ReceiveGet(c) PROVE IInv'
<1>1. /\ UNCHANGED <<clockVars, settings, local, body, reply, stepped, latest, synced>>
      /\ pc[c] = "idle" /\ now \in Nat
  BY DEF ReceiveGet, TypeOK
<1>2. /\ pc'[c] = "reading" /\ begun'[c] = now /\ seen'[c] = {settings}
      /\ \A g \in Clients : g # c => pc'[g] = pc[g] /\ begun'[g] = begun[g] /\ seen'[g] = seen[g]
  BY DEF TypeOK, ReceiveGet, Goto
<1>3. GetInv' /\ SetInv'
  BY <1>1, <1>2 DEF IInv, GetInv, SetInv, Getting
<1>4. LatestInv' /\ SyncedInv' /\ ReplyInWindow'
  BY <1>1, <1>2 DEF IInv, LatestInv, SyncedInv, ReplyInWindow, TypeOK
<1> QED BY <1>3, <1>4 DEF IInv

LEMMA CopySettingsInv == ASSUME TypeOK, IInv, NEW c \in Clients, CopySettings(c) PROVE IInv'
<1>1. UNCHANGED <<clockVars, settings, body, reply, historyVars>> /\ pc[c] = "reading"
  BY DEF CopySettings
<1>2. /\ pc'[c] = "computing" /\ local'[c] = settings
      /\ \A g \in Clients : g # c => pc'[g] = pc[g] /\ local'[g] = local[g]
  BY DEF TypeOK, CopySettings, Goto
<1>3. GetInv'
  <2>1. Getting(c) /\ Getting(c)'
    BY <1>1, <1>2 DEF Getting
  <2>2. \A g \in Clients : Getting(g)' = Getting(g)
    BY <1>2, <2>1 DEF Getting
  <2> QED BY <1>1, <1>2, <2>1, <2>2 DEF IInv, GetInv
<1>4. SetInv' /\ LatestInv' /\ SyncedInv' /\ ReplyInWindow'
  BY <1>1, <1>2 DEF IInv, SetInv, LatestInv, SyncedInv, ReplyInWindow, TypeOK
<1> QED BY <1>3, <1>4 DEF IInv

LEMMA ComputeReplyInv == ASSUME TypeOK, IInv, NEW c \in Clients, ComputeReply(c) PROVE IInv'
<1>1. UNCHANGED <<clockVars, settings, local, body, historyVars>> /\ pc[c] = "computing"
  BY DEF ComputeReply
<1>2. /\ pc'[c] = "replying"
      /\ reply'[c] = [time |-> Shown(local[c], Wall), label |-> ShownLabel(local[c])]
      /\ \A g \in Clients : g # c => pc'[g] = pc[g] /\ reply'[g] = reply[g]
  BY DEF TypeOK, ComputeReply, Goto
<1>3. GetInv'
  <2>1. \A g \in Clients : Getting(g)' = Getting(g)
    BY <1>1, <1>2 DEF Getting
  <2> QED BY <1>1, <1>2, <2>1 DEF IInv, GetInv
<1>4. SetInv' /\ LatestInv' /\ SyncedInv'
  BY <1>1, <1>2 DEF IInv, SetInv, LatestInv, SyncedInv, TypeOK
<1>5. ReplyInWindow'
  <2>1. local[c] \in seen[c] /\ begun[c] <= now /\ local[c] \in AnySettings
    BY <1>1 DEF IInv, GetInv, TypeOK
  <2>2. /\ begun[c] + offset \in Int /\ Wall \in Int /\ begun[c] + offset <= Wall
        /\ Shown(local[c], Wall) \in Int
    BY <2>1, ShownType DEF TypeOK
  <2>3. Shown(local[c], begun[c] + offset) <= Shown(local[c], Wall)
    BY <2>1, <2>2, ShownMonotone
  <2>4. Shown(local[c], Wall) <= Shown(local[c], Wall)
    BY <2>2
  <2>5. \E v \in seen'[c] :
          /\ Shown(v, begun'[c] + offset') <= reply'[c].time /\ reply'[c].time <= Shown(v, Wall')
          /\ reply'[c].label = ShownLabel(v)
    BY <1>1, <1>2, <2>1, <2>3, <2>4
  <2> QED BY <1>1, <1>2, <2>5 DEF IInv, ReplyInWindow
<1> QED BY <1>3, <1>4, <1>5 DEF IInv

LEMMA SendReplyInv == ASSUME TypeOK, IInv, NEW c \in Clients, SendReply(c) PROVE IInv'
<1>1. /\ UNCHANGED <<clockVars, settings, body, latest, synced>> /\ stepped' = stepped \ {c}
      /\ pc[c] = "replying" /\ now \in Nat
  BY DEF SendReply, TypeOK
<1>2. /\ pc'[c] = "idle" /\ begun'[c] = 0 /\ seen'[c] = {}
      /\ \A g \in Clients : g # c => /\ pc'[g] = pc[g] /\ begun'[g] = begun[g] /\ seen'[g] = seen[g]
                                     /\ local'[g] = local[g] /\ reply'[g] = reply[g]
  BY DEF TypeOK, SendReply, Goto
<1>3. GetInv' /\ SetInv'
  BY <1>1, <1>2 DEF IInv, GetInv, SetInv, Getting
<1>4. LatestInv' /\ SyncedInv' /\ ReplyInWindow'
  BY <1>1, <1>2 DEF IInv, LatestInv, SyncedInv, ReplyInWindow, TypeOK
<1> QED BY <1>3, <1>4 DEF IInv

\* The clock advances: what it shows only grows.
LEMMA TickInv == ASSUME TypeOK, IInv, Tick PROVE IInv'
<1>1. /\ UNCHANGED <<offset, settings, pc, local, body, reply, historyVars>>
      /\ now' = now + 1 /\ now \in Nat /\ offset \in Int
  BY DEF Tick, TypeOK
<1>2. GetInv'
  <2>1. \A c \in Clients : begun[c] \in Nat
    BY DEF TypeOK
  <2> QED BY <1>1, <2>1 DEF IInv, GetInv, Getting
<1>3. SetInv' /\ LatestInv' /\ SyncedInv'
  <2>1. \A c \in Clients : pc[c] \in {"storing", "acking"} /\ Understood(body[c]) =>
          local[c].sysBase \in Int
    BY SettingsFields DEF TypeOK
  <2> QED BY <1>1, <2>1 DEF IInv, SetInv, LatestInv, SyncedInv
<1>4. ReplyInWindow'
  <2> SUFFICES ASSUME NEW c \in Clients, pc[c] = "replying", c \notin stepped
               PROVE  \E v \in seen[c] :
                        /\ Shown(v, begun[c] + offset) <= reply[c].time
                        /\ reply[c].time <= Shown(v, Wall')
                        /\ reply[c].label = ShownLabel(v)
    BY <1>1 DEF ReplyInWindow
  <2>1. PICK v \in seen[c] :
          /\ Shown(v, begun[c] + offset) <= reply[c].time /\ reply[c].time <= Shown(v, Wall)
          /\ reply[c].label = ShownLabel(v)
    BY DEF IInv, ReplyInWindow
  <2>2. v \in AnySettings /\ reply[c].time \in Int
    BY DEF TypeOK
  <2>3. Wall \in Int /\ Wall' \in Int /\ Wall <= Wall'
    BY <1>1
  <2>4. Shown(v, Wall) <= Shown(v, Wall') /\ Shown(v, Wall) \in Int /\ Shown(v, Wall') \in Int
    BY <2>2, <2>3, ShownMonotone, ShownType
  <2> QED BY <2>1, <2>2, <2>4
<1> QED BY <1>2, <1>3, <1>4 DEF IInv

\* A step of the host's clock touches no settings, and what is promised of them
\* is in readings of that clock.
LEMMA StepWallClockInv ==
  ASSUME TypeOK, IInv, NEW by \in Steps, StepWallClock(by) PROVE IInv'
<1>1. /\ UNCHANGED <<now, settings, pc, local, body, reply, begun, seen, latest, synced>>
      /\ stepped' = {c \in Clients : pc[c] # "idle"}
  BY DEF StepWallClock
<1>2. GetInv'
  BY <1>1 DEF IInv, GetInv, Getting
<1>3. SetInv' /\ LatestInv' /\ SyncedInv' /\ ReplyInWindow'
  BY <1>1 DEF IInv, SetInv, LatestInv, SyncedInv, ReplyInWindow
<1> QED BY <1>2, <1>3 DEF IInv

LEMMA NextInv == TypeOK /\ IInv /\ [Next]_vars => IInv'
<1> SUFFICES ASSUME TypeOK, IInv, [Next]_vars PROVE IInv'
  OBVIOUS
<1>1. CASE UNCHANGED vars
  BY <1>1 DEF vars, IInv, GetInv, SetInv, LatestInv, SyncedInv, ReplyInWindow, Getting
<1> QED BY <1>1, ReceiveSetInv, ParseSetInv, StoreSettingsInv, AckSetInv, ReceiveGetInv,
           CopySettingsInv, ComputeReplyInv, SendReplyInv, TickInv, StepWallClockInv DEF Next, Serve

LEMMA Inductive == Spec => [](TypeOK /\ IInv)
  BY InitType, InitInv, NextType, NextInv, PTL DEF Spec

\* Type correctness: stored settings carry an instant of the clock and the
\* label of a request, and replies the label of one or the default.
THEOREM TypeCorrect == Spec => []TypeOK
  BY Inductive, PTL

\* The settings a Get copies, a Set builds and the clock has belong together.
THEOREM Consistency == Spec => []IInv
  BY Inductive, PTL

-----------------------------------------------------------------------------
(* What follows from it *)

\* A Get's time and label are those of settings in place during the request,
\* read at an instant of the request, if the host's clock was not stepped in it.
THEOREM CurrentReplies == Spec => []ReplyInWindow
<1>1. IInv => ReplyInWindow
  BY DEF IInv
<1> QED BY <1>1, Consistency, PTL

\* An acknowledged Set is read back: with its label, and to within what the
\* host's clock went on during the two requests, however many requests run beside
\* them and whatever steps the clock makes between them; or, if it asked for Go's
\* zero time, as the host's time with the default label.
THEOREM SyncAccuracy == Spec => []RoundTrip
<1>1. TypeOK /\ IInv => RoundTrip
  <2> SUFFICES ASSUME TypeOK, IInv, NEW c \in Clients, NEW s \in synced,
                      pc[c] = "replying", c \notin stepped, seen[c] = {settings}
               PROVE  IF s.base # ZeroTime
                      THEN /\ s.base + (begun[c] + offset - s.until) <= reply[c].time
                           /\ reply[c].time <= s.base + (Wall - s.from)
                           /\ reply[c].label = s.label
                      ELSE /\ Epoch + begun[c] + offset <= reply[c].time
                           /\ reply[c].time <= Epoch + Wall
                           /\ reply[c].label = DefaultLabel
    BY DEF RoundTrip
  <2>1. /\ Shown(settings, begun[c] + offset) <= reply[c].time
        /\ reply[c].time <= Shown(settings, Wall)
        /\ reply[c].label = ShownLabel(settings)
    BY DEF IInv, ReplyInWindow
  <2>2. /\ settings.base = s.base /\ settings.label = s.label
        /\ s.from <= settings.sysBase /\ settings.sysBase <= s.until
    BY DEF IInv, SyncedInv
  <2>3. /\ now \in Int /\ offset \in Int /\ begun[c] \in Int /\ reply[c].time \in Int
        /\ s.base \in Int /\ s.from \in Int /\ s.until \in Int
    BY DEF TypeOK
  <2>4. settings.sysBase \in Int
    BY SettingsFields DEF TypeOK
  <2> DEFINE from == begun[c] + offset
             to == now + offset
  <2>5. from \in Int /\ to \in Int
    BY <2>3
  <2>6. Shown(settings, from) <= reply[c].time /\ reply[c].time <= Shown(settings, to)
    BY <2>1
  <2>7. from = begun[c] + offset /\ to = now + offset
    OBVIOUS
  <2> HIDE DEF from, to
  <2>8. CASE s.base # ZeroTime
    <3>1. /\ Shown(settings, from) = s.base + (from - settings.sysBase)
          /\ Shown(settings, to) = s.base + (to - settings.sysBase)
      BY <2>2, <2>8 DEF Shown
    <3>2. reply[c].label = s.label
      BY <2>1, <2>2, <2>8 DEF ShownLabel
    <3> QED BY <2>2, <2>3, <2>4, <2>5, <2>6, <2>7, <2>8, <3>1, <3>2
  <2>9. CASE s.base = ZeroTime
    <3>1. Shown(settings, from) = Epoch + from /\ Shown(settings, to) = Epoch + to
      BY <2>2, <2>9 DEF Shown
    <3>2. reply[c].label = DefaultLabel
      BY <2>1, <2>2, <2>9 DEF ShownLabel
    <3> QED BY <2>3, <2>5, <2>6, <2>7, <2>9, <3>1, <3>2
  <2> QED BY <2>8, <2>9
<1> QED BY <1>1, TypeCorrect, Consistency, PTL

=============================================================================
