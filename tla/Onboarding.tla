----------------------------- MODULE Onboarding -----------------------------
(***************************************************************************)
(* NVRs that add a camera by the address a user enters and follow the       *)
(* references they are given: the service addresses of GetCapabilities and  *)
(* GetServices, the profiles, the stream and snapshot URIs, and the         *)
(* subscriptions of the event service.  The servers come and go as          *)
(* Listeners says; Router answers.                                          *)
(*                                                                         *)
(* A request and its answer are one step: the handlers modelled here read   *)
(* the request and the configuration, which never changes, and nothing      *)
(* else.  A request or an answer that is lost is no step, nor is one whose  *)
(* body breaks, and one that is repeated adds nothing.  A camera's clock    *)
(* and its bitrates, which requests do change, are in TimeSync and          *)
(* MediaService.                                                            *)
(***************************************************************************)
EXTENDS Router, StreamPaths

CONSTANTS
  Nvrs,
  Cameras,        \* the entries of the configuration
  Port,           \* Port[i] is http_port of the i-th
  Config,         \* Config[i] has its stream switches
  Hosts,          \* names and addresses of the machine the process runs on
  Cut,            \* Cut[h] is h up to its first colon; IPv6 literals have one
  ConfiguredHost, \* rtsp_host, or NoHost
  OutboundHost,   \* what GetOutboundIP returned when the process started
  RtspPort,       \* rtsp_port
  NvrKinds        \* what an NVR may be like: a set of NvrType

NoHost == ""

\* http_port where the configuration leaves it out.
AnyPort == 0

\* Cameras are added by a port that the configuration names: one that listens on
\* whichever was free refers to port 0 all the same, so it refers nobody back.
NvrType ==
  [camera: {i \in Cameras : Port[i] # AnyPort}, host: Hosts, sendsHost: BOOLEAN]

ASSUME ConfigurationIsWhole ==
  /\ DOMAIN Port = Cameras /\ Config \in [Cameras -> CameraConfig]
  /\ DOMAIN Cut = Hosts /\ NoHost \notin Hosts
  /\ NvrKinds \subseteq NvrType

VARIABLES
  listening, \* the servers, see Listeners
  nvr,       \* nvr[n]: the camera and the host its user entered
  addresses, \* addresses[n]: the references it knows, each with its kind
  profiles,  \* profiles[n]: the profiles it knows
  streams    \* streams[n]: the stream URIs it was given, each with its profile

knowledge == <<addresses, profiles, streams>>
vars == <<listening, nvr, knowledge>>

Process == INSTANCE Listeners

-----------------------------------------------------------------------------
(* The references in answers *)

RtspHost == IF ConfiguredHost = NoHost THEN OutboundHost ELSE ConfiguredHost

\* Fault: the process always names the address it found for itself.
FaultOwnAddress(header) == RtspHost

\* getHostIP: the Host header up to its first colon, where a port begins.
GetHostIP(header) == IF header = NoHost THEN RtspHost ELSE Cut[header]

At(kind, path) == [kind |-> kind, path |-> path]

CapabilityXAddrs ==
  {At("analytics", "/onvif/analytics_service"), At("device", "/onvif/device_service"),
   At("events", "/onvif/event_service"), At("imaging", "/onvif/imaging_service"),
   At("media", "/onvif/media_service"), At("media2", "/onvif/media2_service"),
   At("ptz", "/onvif/ptz_service")}

\* Fault: one of the paths differs between the two copies.
FaultOtherCopy ==
  {At("device", "/onvif/device_service"), At("media", "/onvif/media_service"),
   At("media2", "/onvif/media2_service"), At("events", "/onvif/events_service"),
   At("imaging", "/onvif/imaging_service"), At("ptz", "/onvif/ptz_service"),
   At("analytics", "/onvif/analytics_service")}

ServiceXAddrs ==
  {At("device", "/onvif/device_service"), At("media", "/onvif/media_service"),
   At("media2", "/onvif/media2_service"), At("events", "/onvif/event_service"),
   At("imaging", "/onvif/imaging_service"), At("ptz", "/onvif/ptz_service"),
   At("analytics", "/onvif/analytics_service")}

SnapshotUri == At("snapshot", "/snapshot")
SubscriptionReference == At("subscription", "/onvif/subscription/events")
PullPointReference == At("pullpoint", "/onvif/subscription/pullpoint")

\* The references in the answer to an operation.
Referred(content) ==
  CASE content = "GetCapabilities" -> CapabilityXAddrs
    [] content = "GetServices" -> ServiceXAddrs
    [] content = "GetSnapshotUri" -> {SnapshotUri}
    [] content = "Subscribe" -> {SubscriptionReference}
    [] content = "CreatePullPointSubscription" -> {PullPointReference}
    [] OTHER -> {}

\* Fault: the port comes from the Host header, too, where it may be left out.
FaultHeaderPort(r, header, i) ==
  [kind |-> r.kind, host |-> GetHostIP(header), port |-> 0, path |-> r.path]

\* getBaseURL puts the host and the configured port of the server before each.
Reference(r, header, i) ==
  [kind |-> r.kind, host |-> GetHostIP(header), port |-> Port[i], path |-> r.path]

StreamUri(header, i, p) ==
  [profile |-> p, host |-> GetHostIP(header), port |-> RtspPort, camera |-> i,
   path |-> UriPath(Config[i], [substreamType |-> FALSE, mentions |-> {p}])]

-----------------------------------------------------------------------------
(* NVRs *)

Services == {"analytics", "device", "events", "imaging", "media", "media2", "ptz"}
Kinds == Services \cup {"snapshot", "subscription", "pullpoint"}

\* Every service has this operation, and the server knows it for none.
Unsupported == {"GetServiceCapabilities"}

\* What is asked at an address, by the service it belongs to.
Asked(kind) ==
  CASE kind = "device" -> DeviceOperations \cup Unsupported
    [] kind \in {"media", "media2"} -> MediaOperations \cup Unsupported
    [] kind = "events" -> EventOperations \cup Unsupported
    [] kind \in {"analytics", "imaging", "ptz"} -> Unsupported
    [] kind = "snapshot" -> {"GetSnapshot"}
    [] kind = "subscription" -> {"Renew"}
    [] kind = "pullpoint" -> {"PullMessages"}

\* HTTP 1.0 allows a request without a Host header.
Header(n, a) == IF nvr[n].sendsHost THEN a.host ELSE NoHost

\* The server that a request to an address arrives at, if the address is one
\* of the machine's.
Reaches(a, i) ==
  a.host \in Hosts /\ a.port = Port[i] /\ Port[i] # AnyPort /\ listening[i] = "up"

Init ==
  /\ Process!Init
  /\ nvr \in [Nvrs -> NvrKinds]
  /\ addresses = [n \in Nvrs |->
       {[kind |-> "device", host |-> nvr[n].host, port |-> Port[nvr[n].camera],
         path |-> "/onvif/device_service"]}]
  /\ profiles = [n \in Nvrs |-> {}]
  /\ streams = [n \in Nvrs |-> {}]

ServersChange == Process!Next /\ UNCHANGED <<nvr, knowledge>>

\* The answer to a request that arrives whole.
AnswerTo(a, op) == Answer(a.path, "whole", NamesIn(op))

\* A request and what its answer teaches.
Ask(n, a, i, op) ==
  /\ a \in addresses[n] /\ Reaches(a, i)
  /\ op \in Asked(a.kind) /\ op # "GetStreamUri"
  /\ LET reply == AnswerTo(a, op) IN
       /\ addresses' = [addresses EXCEPT ![n] =
            @ \cup {Reference(r, Header(n, a), i) : r \in Referred(reply.content)}]
       /\ profiles' = [profiles EXCEPT ![n] =
            IF reply.content = "GetProfiles" THEN Profiles ELSE @]
  /\ UNCHANGED <<listening, nvr, streams>>

\* GetStreamUri for a profile the NVR was told of.
AskStreamUri(n, a, i, p) ==
  /\ a \in addresses[n] /\ Reaches(a, i)
  /\ a.kind \in {"media", "media2"} /\ p \in profiles[n]
  /\ AnswerTo(a, "GetStreamUri").content = "GetStreamUri"
  /\ streams' = [streams EXCEPT ![n] = @ \cup {StreamUri(Header(n, a), i, p)}]
  /\ UNCHANGED <<listening, nvr, addresses, profiles>>

Next ==
  \/ ServersChange
  \/ \E n \in Nvrs : \E a \in addresses[n], i \in Cameras :
       \/ \E op \in Asked(a.kind) : Ask(n, a, i, op)
       \/ \E p \in profiles[n] : AskStreamUri(n, a, i, p)

Spec == Init /\ [][Next]_vars

AskOne(n, ops) ==
  \E a \in addresses[n], i \in Cameras, op \in ops : Ask(n, a, i, op)

AskMain(n) ==
  \E a \in addresses[n], i \in Cameras : AskStreamUri(n, a, i, "Profile000")

(***************************************************************************)
(* An assumption about NVRs and the network: whoever adds a camera repeats  *)
(* each of these requests until some attempt gets through, using either way *)
(* to the services and either media service.  No server need come up or     *)
(* stay.                                                                    *)
(***************************************************************************)
Fairness == \A n \in Nvrs :
  /\ WF_vars(AskOne(n, {"GetCapabilities", "GetServices"}))
  /\ WF_vars(AskOne(n, {"GetProfiles"}))
  /\ WF_vars(AskMain(n))

FairSpec == Spec /\ Fairness

-----------------------------------------------------------------------------
(* Properties *)

HostNames == Hosts \cup {Cut[h] : h \in Hosts} \cup {RtspHost}
Ports == {Port[i] : i \in Cameras}
AddressPaths == SoapPaths \cup
  {SnapshotUri.path, SubscriptionReference.path, PullPointReference.path}

AddressType == [kind: Kinds, host: HostNames, port: Ports, path: AddressPaths]
UriType == [profile: Profiles, host: HostNames, port: {RtspPort}, camera: Cameras, path: Paths]

TypeOK ==
  /\ listening \in [Cameras -> {"down", "up", "over"}]
  /\ nvr \in [Nvrs -> NvrKinds]
  /\ addresses \in [Nvrs -> SUBSET AddressType]
  /\ profiles \in [Nvrs -> SUBSET Profiles]
  /\ streams \in [Nvrs -> SUBSET UriType]

\* The address its user entered survives the way of n's host through a request,
\* or n sends no host and the process takes itself to be where n found it.
Kept(n) ==
  IF nvr[n].sendsHost THEN Cut[nvr[n].host] = nvr[n].host ELSE RtspHost = nvr[n].host

\* The paths at which a service or the snapshot is served.
ServedAt(kind) == IF kind = "snapshot" THEN SnapshotPaths ELSE SoapPaths

\* Along whatever chain of answers, an NVR is referred to the port it was added
\* with and, if that is kept, to the host its user entered; and where a service
\* or the snapshot is said to be, it is served.  Nothing of the kind holds for
\* the addresses of subscriptions: see SubscriptionsServed.
ReferencesLeadBack == \A n \in Nvrs : \A a \in addresses[n] :
  /\ a.port = Port[nvr[n].camera]
  /\ Kept(n) => a.host = nvr[n].host
  /\ a.kind \in Services \cup {"snapshot"} => a.path \in ServedAt(a.kind)

\* Whatever an NVR asks at a service it was referred to is answered by the
\* handler of just the operation it names, although handlers are looked for by
\* names that may be parts of others; an operation unknown to the server is
\* refused, and a body that arrives broken is never mistaken for another.
AnsweredAsAsked == \A n \in Nvrs : \A a \in addresses[n] :
  a.kind \in Services => \A op \in Asked(a.kind) :
    /\ AnswerTo(a, op) = IF op \in Operations THEN Response(op) ELSE Fault("ActionNotSupported")
    /\ \A body \in {"cut", "garbled"} : Answer(a.path, body, NamesIn(op)).status # 200

\* What an NVR plays are streams of a camera on the port it was added with: on
\* the path that detection measures, and the main one for the main profile.
StreamsOfCamera == \A n \in Nvrs : \A u \in streams[n] :
  /\ Port[u.camera] = Port[nvr[n].camera]
  /\ Kept(n) => u.host = nvr[n].host
  /\ \E st \in Streams :
       /\ u.path = ProbedPath(Config[u.camera], st)
       /\ st = "sub" <=> u.profile # "Profile000" /\ Config[u.camera].SubstreamEnabled

\* An NVR whose host is kept gets to record the main stream of the very camera
\* it was added with, if the server stays up for long enough.
NvrRecords == \A n \in Nvrs :
  LET i == nvr[n].camera IN
    Kept(n) /\ listening[i] = "up" ~>
      \/ listening[i] = "over"
      \/ \E u \in streams[n] : u.camera = i /\ u.profile = "Profile000" /\ u.host = nvr[n].host

-----------------------------------------------------------------------------
(* What the documentation says *)

\* README.md:115: PullPoint is a part of the event service; the address of a
\* subscription, at which messages are pulled, should then be served.
SubscriptionsServed == \A n \in Nvrs : \A a \in addresses[n] :
  a.kind \in {"subscription", "pullpoint"} => \A op \in Asked(a.kind) : AnswerTo(a, op) # NotFound

\* README.md:118: an NVR connects directly to rtsp_host.
PlaysFromRtspHost == \A n \in Nvrs : \A u \in streams[n] :
  ConfiguredHost # NoHost => u.host = ConfiguredHost

=============================================================================
