--------------------------- MODULE Lifecycle_proof ---------------------------
(***************************************************************************)
(* Theorems about Lifecycle, for any number of cameras, any ports and any  *)
(* configuration files.                                                    *)
(***************************************************************************)
EXTENDS Lifecycle, TLAPS

USE CamerasAreNumbered, FilesAreRecords

LEMMA CameraFacts == /\ \A i \in Cameras : i \in 0..NCameras /\ i # 0 /\ PortsFor(i) \subseteq Ports
                     /\ 0 \in 0..NCameras
  BY DEF Cameras, Ports

-----------------------------------------------------------------------------
(* Type correctness *)

LEMMA InitType == Init => TypeOK
  BY CameraFacts DEF Init, TypeOK

LEMMA NextType == TypeOK /\ [Next]_vars => TypeOK'
<1> SUFFICES ASSUME TypeOK, [Next]_vars PROVE TypeOK'
  OBVIOUS
<1> USE DEF goVars, envVars
<1>1. CASE LoadConfig
  BY <1>1 DEF LoadConfig, TypeOK
<1>2. ASSUME NEW works \in BOOLEAN, InitMetrics(works) PROVE TypeOK'
  BY <1>2 DEF InitMetrics, TypeOK
<1>3. CASE StartDiscovery
  BY <1>3 DEF StartDiscovery, TypeOK
<1>4. CASE ConstructServer
  <2>1. constructed + 1 \in 0..NCameras
    BY <1>4 DEF ConstructServer, TypeOK
  <2> QED BY <1>4, <2>1 DEF ConstructServer, TypeOK
<1>5. CASE StartRoutine
  BY <1>5 DEF StartRoutine, TypeOK
<1>6. ASSUME NEW i \in Cameras, StartServer(i) PROVE TypeOK'
  <2>1. server' \in [Cameras -> {"none", "started", "serving", "failed"}]
    BY <1>6 DEF StartServer, TypeOK
  <2> QED BY <1>6, <2>1 DEF StartServer, TypeOK
<1>7. CASE Notify
  BY <1>7 DEF Notify, TypeOK
<1>8. CASE ReceiveSignal
  BY <1>8 DEF ReceiveSignal, TypeOK
<1>9. ASSUME NEW result \in {"done", "failed"}, Flush(result) PROVE TypeOK'
  BY <1>9 DEF Flush, TypeOK
<1>10. ASSUME NEW i \in Cameras, Listen(i) PROVE TypeOK'
  <2>1. server' \in [Cameras -> {"none", "started", "serving", "failed"}]
    BY <1>10 DEF Listen, TypeOK
  <2>2. owner' \in [Ports -> 0..NCameras]
    BY <1>10, CameraFacts DEF Listen, Free, TypeOK
  <2> QED BY <1>10, <2>1, <2>2 DEF Listen, TypeOK
<1>11. ASSUME NEW i \in Cameras, ServeFails(i) PROVE TypeOK'
  <2>1. server' \in [Cameras -> {"none", "started", "serving", "failed"}]
    BY <1>11 DEF ServeFails, TypeOK
  <2>2. owner' \in [Ports -> 0..NCameras]
    BY <1>11, CameraFacts DEF ServeFails, Released, TypeOK
  <2> QED BY <1>11, <2>1, <2>2 DEF ServeFails, TypeOK
<1>12. ASSUME NEW to \in {"listening", "returned"}, Discover(to) PROVE TypeOK'
  BY <1>12 DEF Discover, TypeOK
<1>13. CASE Signal
  BY <1>13 DEF Signal, TypeOK
<1>14. CASE UNCHANGED vars
  BY <1>14 DEF vars, TypeOK
<1> QED BY <1>1, <1>2, <1>3, <1>4, <1>5, <1>6, <1>7, <1>8, <1>9, <1>10, <1>11, <1>12, <1>13,
           <1>14 DEF Next, Main, FlushEnds, Exited

\* The variables keep their types: in particular main has a function to defer
\* when metrics.Init fails (main.go:49-58).
THEOREM TypeCorrect == Spec => []TypeOK
  BY InitType, NextType, PTL DEF Spec

-----------------------------------------------------------------------------
(* The invariant *)

LEMMA InitInv == Init => IInv
  BY DEF Init, IInv, MainInv, PortInv, Alive

\* Steps that leave the servers and their ports alone keep the ports' part.
LEMMA PortFrame == PortInv /\ UNCHANGED <<server, owner>> => PortInv'
  BY DEF PortInv

LEMMA OwnerIsCamera == TypeOK => \A p \in Ports : owner[p] # 0 => owner[p] \in Cameras
  BY DEF TypeOK, Cameras

LEMMA NextInv == TypeOK /\ IInv /\ [Next]_vars => IInv'
<1> SUFFICES ASSUME TypeOK, IInv, [Next]_vars PROVE IInv'
  OBVIOUS
<1> USE DEF goVars, envVars, Alive, IInv
<1>1. CASE LoadConfig
  BY <1>1, PortFrame DEF LoadConfig, MainInv, Loads
<1>2. ASSUME NEW works \in BOOLEAN, InitMetrics(works) PROVE IInv'
  BY <1>2, PortFrame DEF InitMetrics, MainInv, Loads
<1>3. CASE StartDiscovery
  BY <1>3, PortFrame DEF StartDiscovery, MainInv, Loads
<1>4. CASE ConstructServer
  BY <1>4, PortFrame DEF ConstructServer, MainInv, Loads
<1>5. CASE StartRoutine
  BY <1>5, PortFrame DEF StartRoutine, MainInv, Loads
<1>6. ASSUME NEW i \in Cameras, StartServer(i) PROVE IInv'
  <2>1. \A j \in Cameras : server'[j] = IF j = i THEN "started" ELSE server[j]
    BY <1>6 DEF StartServer, TypeOK
  <2>2. PortInv'
    <3>1. server[i] = "none" /\ owner' = owner
      BY <1>6 DEF StartServer
    <3> QED BY <2>1, <3>1, OwnerIsCamera DEF PortInv
  <2>3. MainInv'
    BY <1>6, <2>1 DEF StartServer, MainInv, Loads
  <2> QED BY <2>2, <2>3
<1>7. CASE Notify
  BY <1>7, PortFrame DEF Notify, MainInv, Loads
<1>8. CASE ReceiveSignal
  BY <1>8, PortFrame DEF ReceiveSignal, MainInv, Loads
<1>9. ASSUME NEW result \in {"done", "failed"}, Flush(result) PROVE IInv'
  BY <1>9, PortFrame DEF Flush, MainInv, Loads
<1>10. ASSUME NEW i \in Cameras, Listen(i) PROVE IInv'
  <2>1. MainInv'
    BY <1>10 DEF Listen, MainInv, Loads
  <2>2. ASSUME NEW q \in Free(i), owner' = [owner EXCEPT ![q] = i],
               server' = [server EXCEPT ![i] = "serving"]
        PROVE  IInv'
    <3>1. \A j \in Cameras : server'[j] = IF j = i THEN "serving" ELSE server[j]
      BY <2>2 DEF TypeOK
    <3>2. q \in Ports /\ q \in PortsFor(i) \ DeniedPorts /\ owner[q] = 0
      BY CameraFacts DEF Free
    <3>3. \A p \in Ports : owner'[p] = IF p = q THEN i ELSE owner[p]
      BY <2>2 DEF TypeOK
    <3>4. ASSUME NEW p \in Ports, owner'[p] # 0
          PROVE  p \in PortsFor(owner'[p]) \ DeniedPorts /\ server'[owner'[p]] = "serving"
      BY <3>1, <3>2, <3>3, <3>4, OwnerIsCamera DEF PortInv
    <3>5. ASSUME NEW j \in Cameras, server'[j] = "serving"
          PROVE  \E p \in PortsFor(j) : owner'[p] = j
      <4>1. CASE j = i
        BY <3>2, <3>3, <4>1
      <4>2. CASE j # i
        <5>1. PICK p \in PortsFor(j) : owner[p] = j
          BY <3>1, <3>5, <4>2 DEF PortInv
        <5>2. p \in Ports /\ p # q
          BY <3>2, <5>1, CameraFacts
        <5> QED BY <3>3, <5>1, <5>2
      <4> QED BY <4>1, <4>2
    <3> QED BY <2>1, <3>4, <3>5 DEF PortInv
  <2>3. ASSUME server' = [server EXCEPT ![i] = "failed"], owner' = owner PROVE IInv'
    <3>1. \A j \in Cameras : server'[j] = IF j = i THEN "failed" ELSE server[j]
      BY <2>3 DEF TypeOK
    <3>2. server[i] = "started"
      BY <1>10 DEF Listen
    <3>3. PortInv'
      BY <2>3, <3>1, <3>2, OwnerIsCamera DEF PortInv
    <3> QED BY <2>1, <3>3
  <2> QED BY <1>10, <2>2, <2>3 DEF Listen
<1>11. ASSUME NEW i \in Cameras, ServeFails(i) PROVE IInv'
  <2>1. MainInv'
    BY <1>11 DEF ServeFails, MainInv, Loads, TypeOK
  <2>2. \A j \in Cameras : server'[j] = IF j = i THEN "failed" ELSE server[j]
    BY <1>11 DEF ServeFails, TypeOK
  <2>3. \A p \in Ports : owner'[p] = IF owner[p] = i THEN 0 ELSE owner[p]
    BY <1>11 DEF ServeFails, Released
  <2>4. ASSUME NEW p \in Ports, owner'[p] # 0
        PROVE  p \in PortsFor(owner'[p]) \ DeniedPorts /\ server'[owner'[p]] = "serving"
    BY <2>2, <2>3, <2>4, OwnerIsCamera DEF PortInv
  <2>5. ASSUME NEW j \in Cameras, server'[j] = "serving"
        PROVE  \E p \in PortsFor(j) : owner'[p] = j
    <3>1. j # i /\ server[j] = "serving"
      BY <2>2, <2>5
    <3>2. PICK p \in PortsFor(j) : owner[p] = j
      BY <3>1 DEF PortInv
    <3> QED BY <2>3, <3>1, <3>2, CameraFacts
  <2> QED BY <2>1, <2>4, <2>5 DEF PortInv
<1>12. ASSUME NEW to \in {"listening", "returned"}, Discover(to) PROVE IInv'
  BY <1>12, PortFrame DEF Discover, MainInv, Loads
<1>13. CASE Signal
  BY <1>13, PortFrame DEF Signal, MainInv, Loads
<1>14. CASE UNCHANGED vars
  BY <1>14, PortFrame DEF vars, MainInv, Loads
<1> QED BY <1>1, <1>2, <1>3, <1>4, <1>5, <1>6, <1>7, <1>8, <1>9, <1>10, <1>11, <1>12, <1>13,
           <1>14 DEF Next, Main, FlushEnds, Exited

\* The control state of main tells what is started, and a port belongs to the
\* server that listens on it (main.go:36-95, server.go:82-116).
THEOREM Consistency == Spec => []IInv
  BY InitInv, NextInv, TypeCorrect, PTL DEF Spec

-----------------------------------------------------------------------------
(* What follows *)

\* Nothing but a bad configuration file or a signal ends the process.
THEOREM FailuresAreContained == Spec => []EndsOnlyOnRequest
<1>1. TypeOK /\ IInv => EndsOnlyOnRequest
  BY DEF TypeOK, IInv, MainInv, EndsOnlyOnRequest
<1> QED BY <1>1, TypeCorrect, Consistency, PTL

\* A port has one server, after detection of every camera was started.
THEOREM OnePortOneServer == Spec => []PortsExclusive
<1>1. TypeOK /\ IInv => PortsExclusive
  <2> SUFFICES ASSUME TypeOK, IInv, NEW i \in Cameras, server[i] = "serving"
               PROVE  /\ \E p \in PortsFor(i) \ DeniedPorts : owner[p] = i
                      /\ routine /\ constructed = NCameras
    BY DEF PortsExclusive
  <2>1. PICK p \in PortsFor(i) : owner[p] = i
    BY DEF IInv, PortInv
  <2>2. p \in PortsFor(i) \ DeniedPorts
    BY <2>1, CameraFacts DEF IInv, PortInv
  <2> QED BY <2>1, <2>2 DEF IInv, MainInv
<1> QED BY <1>1, TypeCorrect, Consistency, PTL

\* Signals are asked for last, and only a signal that was asked for is kept.
NotifyInv ==
  /\ asked => notified
  /\ notified => main \in {"wait", "flush", "exited"}

\* A signal after signal.Notify is not lost before main has returned: the
\* channel's one place is enough, because main needs one signal only
\* (main.go:86-90).
THEOREM SignalIsKept == Spec => []SignalNeverLost
<1>1. Init => NotifyInv /\ SignalNeverLost
  BY DEF Init, NotifyInv, SignalNeverLost
<1>2. TypeOK /\ IInv /\ NotifyInv /\ SignalNeverLost /\ [Next]_vars
        => NotifyInv' /\ SignalNeverLost'
  <2> SUFFICES ASSUME TypeOK, IInv, NotifyInv, SignalNeverLost, [Next]_vars
               PROVE  NotifyInv' /\ SignalNeverLost'
    OBVIOUS
  <2> USE DEF NotifyInv, SignalNeverLost, Alive, envVars
  <2>1. CASE UNCHANGED <<main, ended, notified, sigCh, asked>>
    BY <2>1
  <2>2. CASE LoadConfig
    BY <2>2 DEF LoadConfig
  <2>3. ASSUME NEW works, InitMetrics(works) PROVE NotifyInv' /\ SignalNeverLost'
    BY <2>3 DEF InitMetrics
  <2>4. CASE StartDiscovery \/ StartRoutine \/ Notify
    BY <2>4 DEF StartDiscovery, StartRoutine, Notify
  <2>5. CASE ReceiveSignal
    BY <2>5 DEF ReceiveSignal
  <2>6. ASSUME NEW result, Flush(result) PROVE NotifyInv' /\ SignalNeverLost'
    BY <2>6 DEF Flush
  <2>7. CASE Signal
    BY <2>7 DEF Signal, TypeOK
  <2> QED BY <2>1, <2>2, <2>3, <2>4, <2>5, <2>6, <2>7
          DEF Next, Main, ConstructServer, StartServer, FlushEnds, Listen, ServeFails, Discover,
              Exited, vars
<1> QED BY <1>1, <1>2, TypeCorrect, Consistency, PTL DEF Spec

\* A camera with a port of its own is not kept from listening by the others:
\* whoever owned the port would be a server that wants it (main.go:72-84).
THEOREM OwnPortIsFree == Spec => OwnPortListens
<1>1. TypeOK /\ IInv /\ [Next]_vars =>
        [\A i \in Cameras : OwnPort(i) /\ server[i] = "started" =>
           server'[i] \in {"started", "serving"}]_vars
  <2> SUFFICES ASSUME TypeOK, IInv, Next,
                      NEW i \in Cameras, OwnPort(i), server[i] = "started"
               PROVE  server'[i] \in {"started", "serving"}
    OBVIOUS
  <2>1. Port[i] \in Free(i) /\ PortsFor(i) = {Port[i]}
    <3>1. PortsFor(i) = {Port[i]} /\ Port[i] \in Ports /\ Port[i] \notin DeniedPorts
      BY CameraFacts DEF OwnPort, PortsFor
    <3>2. owner[Port[i]] # 0 => /\ owner[Port[i]] \in Cameras
                                /\ Port[i] \in PortsFor(owner[Port[i]])
                                /\ server[owner[Port[i]]] = "serving"
      BY <3>1, OwnerIsCamera DEF IInv, PortInv
    <3> QED BY <3>1, <3>2 DEF OwnPort, Free
  <2>2. ASSUME NEW j \in Cameras, Listen(j) PROVE server'[i] \in {"started", "serving"}
    <3>1. j = i => server' = [server EXCEPT ![j] = "serving"]
      BY <2>1, <2>2 DEF Listen
    <3>2. j # i => server'[i] = server[i]
      BY <2>2 DEF Listen, TypeOK
    <3> QED BY <3>1, <3>2 DEF TypeOK
  <2>3. ASSUME NEW j \in Cameras, StartServer(j) \/ ServeFails(j)
        PROVE  server'[i] = server[i]
    BY <2>3 DEF StartServer, ServeFails, TypeOK
  <2>4. CASE UNCHANGED server
    BY <2>4
  <2> QED BY <2>2, <2>3, <2>4
          DEF Next, Main, LoadConfig, InitMetrics, StartDiscovery, ConstructServer, StartRoutine,
              Notify, ReceiveSignal, Flush, FlushEnds, Discover, Signal, Exited, vars, goVars
<1> QED BY <1>1, TypeCorrect, Consistency, PTL DEF Spec, OwnPortListens

-----------------------------------------------------------------------------
(* Refinement *)

LEMMA ListeningValue == \A i \in Cameras :
  Listening[i] = IF ~Alive \/ server[i] = "failed" THEN "over"
                 ELSE IF server[i] = "serving" THEN "up" ELSE "down"
  BY DEF Listening

\* The end of the process takes down every server that is left.
LEMMA ExitGoesDown == ASSUME TypeOK, main' = "exited", UNCHANGED server
                      PROVE  L!Next \/ UNCHANGED Listening
<1> DEFINE S == {i \in Cameras : Listening[i] # "over"}
<1>1. Listening' = [i \in Cameras |-> "over"]
  BY DEF Listening, Alive
<1>2. Listening' = [i \in Cameras |-> IF i \in S THEN "over" ELSE Listening[i]]
  BY <1>1
<1>3. CASE S = {}
  <2>1. Listening = [i \in Cameras |-> Listening[i]]
    BY DEF Listening
  <2> QED BY <1>2, <1>3, <2>1
<1>4. CASE S # {}
  <2>1. L!GoDown(S)
    BY <1>2, <1>4 DEF L!GoDown
  <2> QED BY <2>1 DEF L!Next
<1> QED BY <1>3, <1>4

\* A server that fails goes down alone.
LEMMA FailGoesDown == ASSUME NEW i \in Cameras, TypeOK, Alive, UNCHANGED main,
                             server[i] # "failed",
                             server' = [server EXCEPT ![i] = "failed"]
                      PROVE  L!Next
<1>1. \A j \in Cameras : server'[j] = IF j = i THEN "failed" ELSE server[j]
  BY DEF TypeOK
<1>2. Listening' = [j \in Cameras |-> IF j \in {i} THEN "over" ELSE Listening[j]]
  BY <1>1 DEF Listening, Alive
<1>3. Listening[i] # "over"
  BY DEF Listening
<1>4. L!GoDown({i})
  BY <1>2, <1>3 DEF L!GoDown
<1> QED BY <1>4 DEF L!Next

\* Every step of the process is one of the listeners' or invisible to a caller:
\* servers come up once, one to a port, and go down for good.
THEOREM ServersAreListeners == Spec => ImplementsListeners
<1>1. Init => L!Init
  BY DEF Init, L!Init, Listening, Alive
<1>2. TypeOK /\ IInv /\ [Next]_vars => [L!Next]_Listening
  <2> SUFFICES ASSUME TypeOK, IInv, [Next]_vars
               PROVE  L!Next \/ UNCHANGED Listening
    OBVIOUS
  <2>1. ASSUME NEW i \in Cameras, Listen(i) PROVE L!Next
    <3>1. ASSUME NEW q \in Free(i), server' = [server EXCEPT ![i] = "serving"] PROVE L!Next
      <4>1. main' = main /\ Alive /\ server[i] = "started"
        BY <2>1 DEF Listen
      <4>2. ASSUME NEW j \in Cameras, Port[j] = Port[i], Port[i] # AnyPort
            PROVE  server[j] # "serving"
        <5>1. PortsFor(j) = {Port[i]} /\ q = Port[i]
          BY <4>2 DEF PortsFor, Free
        <5> QED BY <4>2, <5>1, CameraFacts DEF IInv, PortInv, Free
      <4>3. Listening' = [Listening EXCEPT ![i] = "up"]
        BY <3>1, <4>1 DEF Listening, Alive, TypeOK
      <4>4. /\ Listening[i] = "down"
            /\ \A j \in Cameras : Port[j] = Port[i] /\ Port[i] # AnyPort => Listening[j] # "up"
        BY <4>1, <4>2, ListeningValue
      <4>5. L!ComeUp(i)
        BY <4>3, <4>4 DEF L!ComeUp
      <4> QED BY <4>5 DEF L!Next
    <3>2. ASSUME server' = [server EXCEPT ![i] = "failed"] PROVE L!Next
      BY <2>1, <3>2, FailGoesDown DEF Listen
    <3> QED BY <2>1, <3>1, <3>2 DEF Listen
  <2>2. ASSUME NEW i \in Cameras, ServeFails(i) PROVE L!Next
    BY <2>2, FailGoesDown DEF ServeFails
  <2>3. ASSUME NEW i \in Cameras, StartServer(i) PROVE UNCHANGED Listening
    <3>1. \A j \in Cameras : server'[j] = IF j = i THEN "started" ELSE server[j]
      BY <2>3 DEF StartServer, TypeOK
    <3>2. server[i] = "none" /\ main' = main
      BY <2>3 DEF StartServer
    <3> QED BY <3>1, <3>2 DEF Listening, Alive
  <2>4. CASE main' = "exited" /\ UNCHANGED server
    BY <2>4, ExitGoesDown
  <2>5. CASE (Alive <=> Alive') /\ UNCHANGED server
    BY <2>5 DEF Listening
  <2>6. CASE LoadConfig
    BY <2>4, <2>5, <2>6 DEF LoadConfig, Alive, goVars
  <2>7. ASSUME NEW works \in BOOLEAN, InitMetrics(works) PROVE UNCHANGED Listening
    BY <2>5, <2>7 DEF InitMetrics, Alive, goVars, Listening
  <2>8. CASE StartDiscovery \/ ConstructServer \/ StartRoutine \/ Notify \/ ReceiveSignal
    BY <2>5, <2>8 DEF StartDiscovery, ConstructServer, StartRoutine, Notify, ReceiveSignal,
                      Alive, goVars
  <2>9. ASSUME NEW result \in {"done", "failed"}, Flush(result)
        PROVE  L!Next \/ UNCHANGED Listening
    BY <2>4, <2>9 DEF Flush, goVars
  <2>10. ASSUME NEW to \in {"listening", "returned"}, Discover(to) PROVE UNCHANGED Listening
    BY <2>10 DEF Discover, Listening, Alive
  <2>11. CASE Signal
    BY <2>4, <2>5, <2>11 DEF Signal, Alive, goVars
  <2>12. CASE UNCHANGED vars
    BY <2>12 DEF vars, Listening, Alive
  <2> QED BY <2>1, <2>2, <2>3, <2>6, <2>7, <2>8, <2>9, <2>10, <2>11, <2>12
          DEF Next, Main, FlushEnds, Exited
<1> QED BY <1>1, <1>2, TypeCorrect, Consistency, PTL DEF Spec, ImplementsListeners, L!Spec

=============================================================================
