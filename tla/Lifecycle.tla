----------------------------- MODULE Lifecycle -----------------------------
(***************************************************************************)
(* The process, from its start to its end: main of cmd/onvif-server, with  *)
(* config.Load, metrics.Init, the listeners it starts (Server.Start and    *)
(* discovery.Start) and the signals that end it.                           *)
(*                                                                         *)
(* main runs from top to bottom, sleeping in between; the goroutines it    *)
(* starts run when the scheduler lets them.  It does not wait for any of   *)
(* them, and a server that cannot listen only logs.  What the servers and  *)
(* the detection routine do once they run is in the other modules.         *)
(***************************************************************************)
EXTENDS Integers, FiniteSets

CONSTANTS
  NCameras,       \* entries of the config's camera list
  Port,           \* Port[i] is http_port of the i-th
  EphemeralPorts, \* ports the kernel chooses from for a listener that names none
  DeniedPorts,    \* ports the host does not let the process listen on: others
                  \* do, they are privileged, or they are no port numbers
  Files           \* configuration files the program may find

Cameras == 1..NCameras

ASSUME CamerasAreNumbered == NCameras \in Nat /\ DOMAIN Port = Cameras

\* http_port where the file leaves it out: whichever port is free.
AnyPort == 0

PortsFor(i) == IF Port[i] = AnyPort THEN EphemeralPorts ELSE {Port[i]}

\* What of the file matters here: whether it can be read and parsed, and the
\* switches of metrics and discovery.
FileType == [readable: BOOLEAN, wellFormed: BOOLEAN, enabled: BOOLEAN,
             endpoint: BOOLEAN, EnableDiscovery: BOOLEAN]
ASSUME FilesAreRecords == Files \subseteq FileType

VARIABLES
  file,        \* the configuration file
  main,        \* control state of main
  ended,       \* how the process ended: "no", "fatal", "killed", "returned"
  shutdown,    \* shutdownMetrics: "unset", the "noop" or the "provider"'s
  flush,       \* "no", or what came of the last export: "done", "failed"
  discovery,   \* the goroutine of discovery.Start
  constructed, \* servers constructed
  routine,     \* the detection routine is started
  server,      \* the goroutine of every server
  owner,       \* the server that listens on a port, 0 for none of ours
  notified,    \* signal.Notify has been called
  sigCh,       \* the channel holds a signal (its buffer is 1)
  signalled,   \* history: a signal was sent
  asked        \* history: one was sent after signal.Notify

vars == <<file, main, ended, shutdown, flush, discovery, constructed, routine,
          server, owner, notified, sigCh, signalled, asked>>

Ports == UNION {PortsFor(i) : i \in Cameras}

TypeOK ==
  /\ file \in Files
  /\ main \in {"load", "metrics", "discovery", "construct", "start",
               "wait", "flush", "exited"}
  /\ ended \in {"no", "fatal", "killed", "returned"}
  /\ shutdown \in {"unset", "noop", "provider"}
  /\ flush \in {"no", "done", "failed"}
  /\ discovery \in {"none", "started", "listening", "returned"}
  /\ constructed \in 0..NCameras
  /\ routine \in BOOLEAN
  /\ server \in [Cameras -> {"none", "started", "serving", "failed"}]
  /\ owner \in [Ports -> 0..NCameras]
  /\ {notified, sigCh, signalled, asked} \subseteq BOOLEAN

Init ==
  /\ file \in Files
  /\ main = "load" /\ ended = "no"
  /\ shutdown = "unset" /\ flush = "no"
  /\ discovery = "none" /\ routine = FALSE
  /\ constructed = 0
  /\ server = [i \in Cameras |-> "none"]
  /\ owner = [p \in Ports |-> 0]
  /\ notified = FALSE
  /\ sigCh = FALSE /\ signalled = FALSE /\ asked = FALSE

envVars == <<sigCh, signalled, asked>>
goVars == <<discovery, server, owner>>

-----------------------------------------------------------------------------
(* main *)

\* config.Load; the default values it fills in are not a part of the model.
Loads == /\ file.readable /\ file.wellFormed
         /\ file.enabled => file.endpoint

LoadConfig ==
  /\ main = "load"
  /\ IF Loads THEN main' = "metrics" /\ UNCHANGED ended
     ELSE main' = "exited" /\ ended' = "fatal"
  /\ UNCHANGED <<file, shutdown, flush, constructed, routine, notified,
                 goVars, envVars>>

\* Fault: with the error comes a nil function.
FaultNilShutdown(works) ==
  /\ main = "metrics"
  /\ main' = "discovery"
  /\ shutdown' = IF ~file.enabled THEN "noop" ELSE IF works THEN "provider" ELSE "nil"
  /\ UNCHANGED <<file, ended, flush, constructed, routine, notified,
                 goVars, envVars>>

\* metrics.Init: the resource or the exporter may fail, and main goes on with
\* the no-op that Init returns besides the error.  The flush is deferred.
InitMetrics(works) ==
  /\ main = "metrics"
  /\ main' = "discovery"
  /\ shutdown' = IF file.enabled /\ works THEN "provider" ELSE "noop"
  /\ UNCHANGED <<file, ended, flush, constructed, routine, notified,
                 goVars, envVars>>

StartDiscovery ==
  /\ main = "discovery"
  /\ main' = "construct"
  /\ discovery' = IF file.EnableDiscovery THEN "started" ELSE "none"
  /\ UNCHANGED <<file, ended, shutdown, flush, constructed, routine, server, owner,
                 notified, envVars>>

\* NewServer, which starts the first detections: NewServer of Detection.
ConstructServer ==
  /\ main = "construct" /\ constructed < NCameras
  /\ constructed' = constructed + 1
  /\ UNCHANGED <<file, main, ended, shutdown, flush, routine, notified,
                 goVars, envVars>>

StartRoutine ==
  /\ main = "construct" /\ constructed = NCameras
  /\ routine' = TRUE
  /\ main' = "start"
  /\ UNCHANGED <<file, ended, shutdown, flush, constructed, notified,
                 goVars, envVars>>

\* Fault: the loop that constructs the servers starts them, too.
FaultStartInLoop(i) ==
  /\ main \in {"construct", "start"} /\ i <= constructed /\ server[i] = "none"
  /\ server' = [server EXCEPT ![i] = "started"]
  /\ UNCHANGED <<file, main, ended, shutdown, flush, constructed, routine, discovery,
                 owner, notified, envVars>>

\* Fault: Start is called with no goroutine, and returns when it fails.
FaultBlockingStart(i) ==
  /\ main = "start" /\ server[i] = "none"
  /\ \A j \in 1..(i - 1) : server[j] = "failed"
  /\ server' = [server EXCEPT ![i] = "started"]
  /\ UNCHANGED <<file, main, ended, shutdown, flush, constructed, routine, discovery,
                 owner, notified, envVars>>

\* The loop over the servers starts a goroutine for each, in their order.
StartServer(i) ==
  /\ main = "start" /\ server[i] = "none"
  /\ \A j \in 1..(i - 1) : server[j] # "none"
  /\ server' = [server EXCEPT ![i] = "started"]
  /\ UNCHANGED <<file, main, ended, shutdown, flush, constructed, routine, discovery,
                 owner, notified, envVars>>

\* Once every goroutine is started, success is logged and signals are asked for.
Notify ==
  /\ main = "start" /\ \A i \in Cameras : server[i] # "none"
  /\ notified' = TRUE
  /\ main' = "wait"
  /\ UNCHANGED <<file, ended, shutdown, flush, constructed, routine,
                 goVars, envVars>>

ReceiveSignal ==
  /\ main = "wait" /\ sigCh
  /\ sigCh' = FALSE
  /\ main' = "flush"
  /\ UNCHANGED <<file, ended, shutdown, flush, constructed, routine,
                 notified, goVars, signalled, asked>>

\* The deferred call ends: at once if it is the no-op, else with the collector's
\* answer or an error.  The process ends with main, whatever still runs.
Flush(result) ==
  /\ main = "flush"
  /\ main' = "exited" /\ ended' = "returned"
  /\ flush' = IF shutdown = "provider" THEN result ELSE "no"
  /\ UNCHANGED <<file, shutdown, constructed, routine, notified,
                 goVars, envVars>>

\* Fault: the flush gets a context without a deadline.
FaultNoDeadline ==
  /\ main = "flush" /\ shutdown = "noop"
  /\ Flush("failed")

\* The context's deadline, 5 s; a no-op needs none.
FlushEnds == Flush("failed")

-----------------------------------------------------------------------------
(* The goroutines *)

Alive == main # "exited"

\* The ports that are free for a server.
Free(i) == {p \in PortsFor(i) : owner[p] = 0 /\ p \notin DeniedPorts}

\* Fault: the goroutine of a server that cannot listen ends the process.
FaultFatalListen(i) ==
  /\ Alive /\ server[i] = "started"
  /\ \/ /\ server' = [server EXCEPT ![i] = "serving"]
        /\ \E p \in Free(i) : owner' = [owner EXCEPT ![p] = i]
        /\ UNCHANGED <<main, ended>>
     \/ /\ Free(i) = {}
        /\ main' = "exited" /\ ended' = "fatal"
        /\ UNCHANGED <<server, owner>>
  /\ UNCHANGED <<file, shutdown, flush, discovery, constructed, routine,
                 notified, envVars>>

\* Fault: the goroutines share the loop's variable, which names the last server.
FaultLoopVariable(i) ==
  /\ Alive /\ server[i] = "started"
  /\ \/ /\ server' = [server EXCEPT ![i] = "serving"]
        /\ \E p \in Free(NCameras) : owner' = [owner EXCEPT ![p] = i]
     \/ /\ Free(NCameras) = {}
        /\ server' = [server EXCEPT ![i] = "failed"]
        /\ UNCHANGED owner
  /\ UNCHANGED <<file, main, ended, shutdown, flush, discovery, constructed, routine,
                 notified, envVars>>

\* Start: if it cannot listen it returns, and the goroutine logs that.
Listen(i) ==
  /\ Alive /\ server[i] = "started"
  /\ \/ /\ server' = [server EXCEPT ![i] = "serving"]
        /\ \E p \in Free(i) : owner' = [owner EXCEPT ![p] = i]
     \/ /\ Free(i) = {}
        /\ server' = [server EXCEPT ![i] = "failed"]
        /\ UNCHANGED owner
  /\ UNCHANGED <<file, main, ended, shutdown, flush, discovery, constructed, routine,
                 notified, envVars>>

\* The port of a listener that is closed is nobody's.
Released(i) == [p \in Ports |-> IF owner[p] = i THEN 0 ELSE owner[p]]

\* Fault: a server whose listener broke tries again.
FaultRelisten(i) ==
  /\ Alive /\ server[i] = "serving"
  /\ server' = [server EXCEPT ![i] = "started"]
  /\ owner' = Released(i)
  /\ UNCHANGED <<file, main, ended, shutdown, flush, discovery, constructed, routine,
                 notified, envVars>>

\* Fault: the broken listener is not closed, and keeps the port.
FaultKeepPort(i) ==
  /\ Alive /\ server[i] = "serving"
  /\ server' = [server EXCEPT ![i] = "failed"]
  /\ UNCHANGED <<file, main, ended, shutdown, flush, discovery, constructed, routine,
                 owner, notified, envVars>>

\* http.Server.Serve returns when its listener breaks, and closes it.
ServeFails(i) ==
  /\ Alive /\ server[i] = "serving"
  /\ server' = [server EXCEPT ![i] = "failed"]
  /\ owner' = Released(i)
  /\ UNCHANGED <<file, main, ended, shutdown, flush, discovery, constructed, routine,
                 notified, envVars>>

\* discovery.Start joins the multicast group, or logs and returns.  Read errors
\* do not end it, and a probe it recognises is only logged.
Discover(to) ==
  /\ Alive /\ discovery = "started"
  /\ discovery' = to
  /\ UNCHANGED <<file, main, ended, shutdown, flush, constructed, routine, server,
                 owner, notified, envVars>>

-----------------------------------------------------------------------------
(* Signals: SIGINT and SIGTERM *)

\* Fault: the channel has no buffer, and main may not receive from it yet.
FaultUnbuffered ==
  /\ Alive
  /\ signalled' = TRUE
  /\ IF notified
     THEN /\ asked' = TRUE
          /\ sigCh' \in {sigCh, TRUE}
          /\ UNCHANGED <<main, ended>>
     ELSE /\ main' = "exited" /\ ended' = "killed"
          /\ UNCHANGED <<asked, sigCh>>
  /\ UNCHANGED <<file, shutdown, flush, constructed, routine, notified, goVars>>

\* Before signal.Notify the default action ends the process.  After it the
\* runtime puts the signal into the channel, and drops it if that is full.
Signal ==
  /\ Alive
  /\ signalled' = TRUE
  /\ IF notified
     THEN /\ asked' = TRUE
          /\ sigCh' = TRUE
          /\ UNCHANGED <<main, ended>>
     ELSE /\ main' = "exited" /\ ended' = "killed"
          /\ UNCHANGED <<asked, sigCh>>
  /\ UNCHANGED <<file, shutdown, flush, constructed, routine, notified, goVars>>

\* The end of the process is not a deadlock.
Exited == ~Alive /\ UNCHANGED vars

Main ==
  \/ LoadConfig \/ (\E works \in BOOLEAN : InitMetrics(works)) \/ StartDiscovery
  \/ ConstructServer \/ StartRoutine \/ (\E i \in Cameras : StartServer(i))
  \/ Notify \/ ReceiveSignal

Next ==
  \/ Main \/ Flush("done") \/ FlushEnds
  \/ \E i \in Cameras : Listen(i) \/ ServeFails(i)
  \/ \E to \in {"listening", "returned"} : Discover(to)
  \/ Signal
  \/ Exited

Spec == Init /\ [][Next]_vars

(***************************************************************************)
(* main and the goroutines run; sleeps end and the flush's deadline comes. *)
(* Not assumed: that anybody sends a signal or that the collector answers. *)
(***************************************************************************)
Fairness ==
  /\ WF_vars(Main) /\ WF_vars(FlushEnds)
  /\ \A i \in Cameras : WF_vars(Listen(i))

FairSpec == Spec /\ Fairness

-----------------------------------------------------------------------------
(* Properties *)

\* A camera has a port of its own: the file names it, the host lets the process
\* have it, and no other camera may get it.
OwnPort(i) == /\ Port[i] \notin DeniedPorts \cup {AnyPort}
              /\ \A j \in Cameras : Port[i] \in PortsFor(j) => j = i

\* Nothing but a bad configuration file or a signal ends the process: a camera
\* whose port is taken, a broken listener, a metrics exporter or a discovery
\* socket that fails take no other camera with them.
EndsOnlyOnRequest ==
  ended # "no" => \/ ended = "fatal" /\ ~Loads
                  \/ ended \in {"killed", "returned"} /\ signalled

\* Cameras whose ports clash do not share one: exactly the owner of a port
\* serves, and only after the detection of every camera was started.
PortsExclusive == \A i \in Cameras :
  server[i] = "serving" => /\ \E p \in PortsFor(i) \ DeniedPorts : owner[p] = i
                           /\ routine /\ constructed = NCameras

\* Every camera with a port of its own gets to serve, whatever becomes of the
\* others, unless the process is ended first.
CamerasComeUp == \A i \in Cameras :
  main = "load" /\ Loads /\ OwnPort(i) ~> server[i] = "serving" \/ signalled

\* A signal that comes after signal.Notify ends the process, even if main does
\* not wait for it yet and if the collector never answers the flush.
SignalEnds == asked ~> ended = "returned"

\* Such a signal is kept until main has received it, however many follow it and
\* whatever main and the goroutines do in between; then main flushes and returns.
SignalNeverLost ==
  asked => IF Alive THEN sigCh \/ main = "flush" ELSE ended = "returned"

\* A server with a port of its own never finds it taken: no order in which the
\* goroutines run, and no server that fails, lets another one have it.
OwnPortListens ==
  [][\A i \in Cameras : OwnPort(i) /\ server[i] = "started" =>
       server'[i] \in {"started", "serving"}]_vars

\* The rest of the inductive invariant.  The control state of main tells what is
\* started and what was asked for.
MainInv ==
  /\ ended = "no" <=> Alive
  /\ ended = "fatal" => ~Loads
  /\ ended \in {"killed", "returned"} => signalled
  /\ sigCh \/ asked \/ main = "flush" => signalled
  /\ main \in {"load", "metrics", "discovery", "construct"} =>
       ~routine /\ \A i \in Cameras : server[i] = "none"
  /\ main = "start" \/ (\E i \in Cameras : server[i] # "none") =>
       routine /\ constructed = NCameras

\* A port is the server's that listens on it, and a server that serves has one.
PortInv ==
  /\ \A p \in Ports : owner[p] # 0 =>
       p \in PortsFor(owner[p]) \ DeniedPorts /\ server[owner[p]] = "serving"
  /\ \A i \in Cameras : server[i] = "serving" => \E p \in PortsFor(i) : owner[p] = i

IInv == MainInv /\ PortInv

\* What the network sees of the servers.
Listening == [i \in Cameras |->
  IF ~Alive \/ server[i] = "failed" THEN "over"
  ELSE IF server[i] = "serving" THEN "up" ELSE "down"]

L == INSTANCE Listeners WITH listening <- Listening

\* To a caller the process is servers that come up once, one to a port, and go
\* down for good, one by one or all at its end; a clash of ports shows as a
\* server that never came up.
ImplementsListeners == L!Spec

=============================================================================
