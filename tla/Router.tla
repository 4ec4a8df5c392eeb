------------------------------- MODULE Router -------------------------------
(***************************************************************************)
(* From a request to its answer, as far as no state of the server has a     *)
(* part in it: the paths that are served (Start of server.go), the parsing  *)
(* of the envelope and the choice of a handler by its name (handleRequest,  *)
(* routeRequest), and the status of the answer (soap.go).                   *)
(*                                                                         *)
(* A body is reduced to the operation names that occur in its text.  The    *)
(* name of one operation may be a part of another's, and the handler is     *)
(* that of the first case whose name occurs anywhere.                       *)
(***************************************************************************)
EXTENDS Naturals, Sequences

DeviceOperations == {"GetSystemDateAndTime", "GetDeviceInformation", "GetCapabilities",
  "GetServices", "GetScopes", "GetHostname", "GetDNS", "GetNetworkInterfaces",
  "GetNetworkProtocols", "SystemReboot", "SetSystemDateAndTime"}

MediaOperations == {"GetProfiles", "GetStreamUri", "GetSnapshotUri", "GetVideoSources",
  "GetAudioSources", "GetVideoEncoderConfigurationOptions", "GetVideoEncoderConfigurations",
  "GetVideoEncoderConfiguration", "SetVideoEncoderConfiguration"}

EventOperations == {"Subscribe", "GetEventProperties", "CreatePullPointSubscription"}

Operations == DeviceOperations \cup MediaOperations \cup EventOperations

\* Fault: the shortest of the names that share a beginning is tried first.
FaultShortestFirst ==
  <<"GetSystemDateAndTime", "GetDeviceInformation", "GetCapabilities", "GetServices",
    "GetScopes", "GetHostname", "GetDNS", "GetNetworkInterfaces", "GetNetworkProtocols",
    "SystemReboot", "SetSystemDateAndTime",
    "GetProfiles", "GetStreamUri", "GetSnapshotUri", "GetVideoSources", "GetAudioSources",
    "GetVideoEncoderConfiguration", "GetVideoEncoderConfigurations",
    "GetVideoEncoderConfigurationOptions", "SetVideoEncoderConfiguration",
    "Subscribe", "GetEventProperties", "CreatePullPointSubscription">>

\* The cases of the switch, in their order.
Cases ==
  <<"GetSystemDateAndTime", "GetDeviceInformation", "GetCapabilities", "GetServices",
    "GetScopes", "GetHostname", "GetDNS", "GetNetworkInterfaces", "GetNetworkProtocols",
    "SystemReboot", "SetSystemDateAndTime",
    "GetProfiles", "GetStreamUri", "GetSnapshotUri", "GetVideoSources", "GetAudioSources",
    "GetVideoEncoderConfigurationOptions", "GetVideoEncoderConfigurations",
    "GetVideoEncoderConfiguration", "SetVideoEncoderConfiguration",
    "Subscribe", "GetEventProperties", "CreatePullPointSubscription">>

\* The names of cases that occur in the name of an operation, its own included.
\* No name of an operation that has no case contains one of a case.
NamesIn(op) ==
  (Operations \cap {op}) \cup
  (IF op \in {"GetVideoEncoderConfigurationOptions", "GetVideoEncoderConfigurations"}
   THEN {"GetVideoEncoderConfiguration"} ELSE {})

\* The first of a sequence of names that occurs in a text.
IsFirst(i, names, text) == names[i] \in text /\ \A j \in 1..(i - 1) : names[j] \notin text

\* sendSOAPResponse and sendSOAPFault
Response(content) == [status |-> 200, content |-> content]
Fault(subcode) == [status |-> 500, content |-> subcode]

\* routeRequest: the handler of the first case, or a fault.
RouteRequest(text) ==
  IF \E i \in DOMAIN Cases : Cases[i] \in text
  THEN Response(Cases[CHOOSE i \in DOMAIN Cases : IsFirst(i, Cases, text)])
  ELSE Fault("ActionNotSupported")

\* handleRequest: a body that breaks off is answered by plain text.  A body is
\* "whole", "cut" short by the connection, or "garbled": no XML envelope.  The
\* security check that comes between the parsing and the routing is not a part
\* of the model: the requests here are those it lets through.
HandleRequest(body, text) ==
  IF body = "cut" THEN [status |-> 400, content |-> "Failed to read body"]
  ELSE IF body = "garbled" THEN Fault("InvalidArgVal")
  ELSE RouteRequest(text)

\* A picture, whatever the request.
HandleSnapshot == Response("jpeg")

NotFound == [status |-> 404, content |-> "404 page not found"]

SoapPaths == {"/onvif/device_service", "/onvif/media_service", "/onvif/media2_service",
  "/onvif/event_service", "/onvif/imaging_service", "/onvif/ptz_service",
  "/onvif/analytics_service", "/onvif/service"}

SnapshotPaths == {"/snapshot", "/onvif/snapshot"}

\* The answer to a request, by the path of its URL.
Answer(path, body, text) ==
  IF path \in SoapPaths THEN HandleRequest(body, text)
  ELSE IF path \in SnapshotPaths THEN HandleSnapshot
  ELSE NotFound

=============================================================================
