---------------------------- MODULE StreamPaths ----------------------------
(***************************************************************************)
(* Which path of the RTSP source belongs to a profile: what detection       *)
(* measures (stream.go) and what the URIs of GetStreamUri name (media.go).  *)
(* A camera is a record of the switches of its configuration; a path is     *)
(* named for the setting it comes from.                                     *)
(***************************************************************************)
EXTENDS Integers

Profiles == {"Profile000", "Profile001", "Profile002"}
Streams == {"main", "sub"}
Paths == {"rtsp_stream", "substream_path", "rtsp_stream_sub"}

\* Whether the substream is enabled, and whether it has a path of its own.
CameraConfig == [SubstreamEnabled: BOOLEAN, SubstreamPath: BOOLEAN]

\* A body of GetStreamUri has a substream's StreamType or not, and some profile
\* names occur in it.
UriBodyType == [substreamType: BOOLEAN, mentions: SUBSET Profiles]

SubstreamPath(cam) == IF cam.SubstreamPath THEN "substream_path" ELSE "rtsp_stream_sub"

\* The path that detectStreamInfo measures for the record of a stream.
ProbedPath(cam, st) == IF st = "sub" THEN SubstreamPath(cam) ELSE "rtsp_stream"

Subtype(body) ==
  IF body.substreamType \/ "Profile001" \in body.mentions THEN 1
  ELSE IF "Profile002" \in body.mentions THEN 2 ELSE 0

\* Fault: the fallback to the suffixed path was left out of this copy.
FaultNoFallback(cam, body) ==
  IF Subtype(body) # 0 /\ cam.SubstreamEnabled THEN "substream_path" ELSE "rtsp_stream"

UriPath(cam, body) ==
  IF Subtype(body) # 0 /\ cam.SubstreamEnabled THEN SubstreamPath(cam) ELSE "rtsp_stream"

=============================================================================
