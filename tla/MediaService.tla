---------------------------- MODULE MediaService ----------------------------
(***************************************************************************)
(* The media service of one server, as the goroutines of concurrent        *)
(* requests run it: internal/onvif/media.go, with getStreamInfoForToken    *)
(* and the URI helpers it calls in stream.go and server.go.                *)
(*                                                                         *)
(* A client is told of a stream twice: by the encoder configuration of a   *)
(* profile, filled from the record that detection measures on some path,   *)
(* and by the stream URI of the profile, the path it is to play.  Which    *)
(* record fills a configuration depends on the token and on the bitrate    *)
(* last set for it; the URI depends on the profile's name only.            *)
(*                                                                         *)
(* A critical section of bitrateMu is one step: StreamInfoAccess has the   *)
(* words of a lock and of the records.                                     *)
(***************************************************************************)
EXTENDS StreamPaths

CONSTANTS
  Clients,     \* goroutines serving the requests of as many NVRs
  Cameras,     \* configurations a server may be started with
  OtherTokens, \* encoder tokens the server does not know
  Bitrates,    \* limits a SetVideoEncoderConfiguration may carry
  UriBodies,   \* bodies of GetStreamUri
  MaxSets      \* bound: Sets that are received

ASSUME CamerasAreRecords == Cameras \subseteq CameraConfig
ASSUME BitratesAreNatural == Bitrates \subseteq Nat
ASSUME UriBodiesAreRecords == UriBodies \subseteq UriBodyType

ASSUME MaxSetsIsNatural == MaxSets \in Nat

EncoderTokens == {"V_ENC_CFG_000", "V_ENC_CFG_001", "V_ENC_CFG_002"}
MainToken == "V_ENC_CFG_000"

\* The key under which a Set that names no token is stored: the empty string.
NoToken == ""
ASSUME OtherTokensAreOther == OtherTokens \cap (EncoderTokens \cup {NoToken}) = {}

Tokens == EncoderTokens \cup OtherTokens

\* No entry in the map, and no number in a body: the field is missing, or
\* strconv.Atoi refuses it because it does not fit an int.
Unset == -1

VARIABLES
  camera,       \* the server's configuration
  bitrateCache, \* s.bitrateCache
  pc,           \* control state of every goroutine
  token,        \* the token of the request, as the handler found it
  bitrate,      \* the limit a Set carries
  stream,       \* the record a Get is answered from
  heard,        \* what every client was last told, of one profile
  sets,         \* number of Sets received
  current,      \* history: the Sets being served that were the last to store
                \* for their token
  settled,      \* history: the limit of an acknowledged Set of a token,
                \* until another of that token is stored
  promised,     \* history: the same when a Get arrived, for its token
  lowered       \* history: a low limit was stored for the main token

vars == <<camera, bitrateCache, pc, token, bitrate, stream, heard, sets,
          current, settled, promised, lowered>>

-----------------------------------------------------------------------------
(* Which stream, which path *)

LowBitrate == 1024

SubTokens == {"V_ENC_CFG_001", "V_ENC_CFG_002"}

\* Fault: a missing entry reads as 0.
FaultZeroEntry(b) == IF b <= LowBitrate THEN "sub" ELSE "main"

\* The record for a token the server does not list as a substream's.
StreamForBitrate(b) == IF b # Unset /\ b <= LowBitrate THEN "sub" ELSE "main"

StreamForToken(t, b) == IF t \in SubTokens THEN "sub" ELSE StreamForBitrate(b)

Nothing == "nothing"
Heard == [profile: Profiles, described: Paths \cup {Nothing}, played: Paths \cup {Nothing}]

\* The token of a profile's encoder, as GetProfiles lists it.
EncoderOf(p) == CASE p = "Profile000" -> "V_ENC_CFG_000"
                  [] p = "Profile001" -> "V_ENC_CFG_001"
                  [] p = "Profile002" -> "V_ENC_CFG_002"

-----------------------------------------------------------------------------
TypeOK ==
  /\ camera \in Cameras
  /\ bitrateCache \in [Tokens \cup {NoToken} -> Bitrates \cup {Unset}]
  /\ pc \in [Clients -> {"idle", "storing", "acking", "looking", "answering"}]
  /\ token \in [Clients -> Tokens \cup {NoToken}]
  /\ bitrate \in [Clients -> Bitrates \cup {Unset}]
  /\ stream \in [Clients -> Streams]
  /\ heard \in [Clients -> Heard]
  /\ sets \in 0..MaxSets
  /\ current \subseteq Clients
  /\ settled \in [Tokens \cup {NoToken} -> Bitrates \cup {Unset}]
  /\ promised \in [Clients -> Bitrates \cup {Unset}]
  /\ lowered \in BOOLEAN

NotHeard(p) == [profile |-> p, described |-> Nothing, played |-> Nothing]

Init ==
  /\ camera \in Cameras
  /\ bitrateCache = [t \in Tokens \cup {NoToken} |-> Unset]
  /\ pc = [c \in Clients |-> "idle"]
  /\ token = [c \in Clients |-> NoToken]
  /\ bitrate = [c \in Clients |-> Unset]
  /\ stream = [c \in Clients |-> "main"]
  /\ heard = [c \in Clients |-> NotHeard("Profile000")]
  /\ sets = 0
  /\ current = {}
  /\ settled = [t \in Tokens \cup {NoToken} |-> Unset]
  /\ promised = [c \in Clients |-> Unset]
  /\ lowered = FALSE

Goto(c, to) == pc' = [pc EXCEPT ![c] = to]

\* What a client holds of profile p.
HeardOf(c, p) == IF heard[c].profile = p THEN heard[c] ELSE NotHeard(p)

-----------------------------------------------------------------------------
(* SetVideoEncoderConfiguration *)

\* Fault: the error of strconv.Atoi is ignored, and a 0 stored.
FaultAtoiIgnored(c, t, b) ==
  /\ pc[c] = "idle"
  /\ sets < MaxSets
  /\ sets' = sets + 1
  /\ Goto(c, "storing")
  /\ token' = [token EXCEPT ![c] = t]
  /\ bitrate' = [bitrate EXCEPT ![c] = IF b = Unset THEN 0 ELSE b]
  /\ UNCHANGED <<camera, bitrateCache, stream, heard, current, settled, promised, lowered>>

\* Parses the body: its token if it has one, and its bitrate limit.
ReceiveSet(c, t, b) ==
  /\ pc[c] = "idle"
  /\ sets < MaxSets
  /\ sets' = sets + 1
  /\ Goto(c, IF b = Unset THEN "acking" ELSE "storing")
  /\ token' = [token EXCEPT ![c] = t]
  /\ bitrate' = [bitrate EXCEPT ![c] = b]
  /\ UNCHANGED <<camera, bitrateCache, stream, heard, current, settled, promised, lowered>>

\* Fault: the limit is stored for the main encoder whatever the token.
FaultMainEntry(c) ==
  /\ pc[c] = "storing"
  /\ Goto(c, "acking")
  /\ bitrateCache' = [bitrateCache EXCEPT ![MainToken] = bitrate[c]]
  /\ current' = {g \in current : token[g] # token[c]} \cup {c}
  /\ settled' = [settled EXCEPT ![token[c]] = Unset]
  /\ promised' = [g \in Clients |-> IF token[g] = token[c] THEN Unset ELSE promised[g]]
  /\ lowered' = (lowered \/ (token[c] = MainToken /\ bitrate[c] <= LowBitrate))
  /\ UNCHANGED <<camera, token, bitrate, stream, heard, sets>>

\* s.bitrateCache[token] = bitrate, under bitrateMu.
StoreBitrate(c) ==
  /\ pc[c] = "storing"
  /\ Goto(c, "acking")
  /\ bitrateCache' = [bitrateCache EXCEPT ![token[c]] = bitrate[c]]
  /\ current' = {g \in current : token[g] # token[c]} \cup {c}
  /\ settled' = [settled EXCEPT ![token[c]] = Unset]
  /\ promised' = [g \in Clients |-> IF token[g] = token[c] THEN Unset ELSE promised[g]]
  /\ lowered' = (lowered \/ (token[c] = MainToken /\ bitrate[c] <= LowBitrate))
  /\ UNCHANGED <<camera, token, bitrate, stream, heard, sets>>

\* Every Set is answered with success.
AckSet(c) ==
  /\ pc[c] = "acking"
  /\ Goto(c, "idle")
  /\ token' = [token EXCEPT ![c] = NoToken]
  /\ bitrate' = [bitrate EXCEPT ![c] = Unset]
  /\ settled' = IF c \in current
                THEN [settled EXCEPT ![token[c]] = bitrate[c]] ELSE settled
  /\ current' = current \ {c}
  /\ UNCHANGED <<camera, bitrateCache, stream, heard, sets,
                 promised, lowered>>

-----------------------------------------------------------------------------
(* GetVideoEncoderConfiguration *)

\* A body without a token asks for the main encoder: see Next.  The tokens of
\* the substream need no look at the map.
ReceiveGet(c, t) ==
  /\ pc[c] = "idle"
  /\ token' = [token EXCEPT ![c] = t]
  /\ promised' = [promised EXCEPT ![c] = settled[t]]
  /\ IF t \in SubTokens
     THEN Goto(c, "answering") /\ stream' = [stream EXCEPT ![c] = "sub"]
     ELSE Goto(c, "looking") /\ UNCHANGED stream
  /\ UNCHANGED <<camera, bitrateCache, bitrate, heard, sets, current, settled, lowered>>

\* The token's entry, under bitrateMu.
LookUpBitrate(c) ==
  /\ pc[c] = "looking"
  /\ Goto(c, "answering")
  /\ stream' = [stream EXCEPT ![c] = StreamForBitrate(bitrateCache[token[c]])]
  /\ UNCHANGED <<camera, bitrateCache, token, bitrate, heard, sets,
                 current, settled, promised, lowered>>

\* The configuration, filled from the record of the stream.
AnswerGet(c) ==
  /\ pc[c] = "answering"
  /\ Goto(c, "idle")
  /\ heard' = [heard EXCEPT ![c] =
       IF \E p \in Profiles : EncoderOf(p) = token[c]
       THEN LET p == CHOOSE p \in Profiles : EncoderOf(p) = token[c]
            IN [HeardOf(c, p) EXCEPT !.described = ProbedPath(camera, stream[c])]
       ELSE heard[c]]
  /\ token' = [token EXCEPT ![c] = NoToken]
  /\ stream' = [stream EXCEPT ![c] = "main"]
  /\ promised' = [promised EXCEPT ![c] = Unset]
  /\ UNCHANGED <<camera, bitrateCache, bitrate, sets, current, settled, lowered>>

-----------------------------------------------------------------------------
(* GetStreamUri, which reads nothing that changes *)

\* The client takes the URI for that of the profile it named, if it named one
\* and asked for no stream type.
GetStreamUri(c, body) ==
  /\ pc[c] = "idle"
  /\ heard' = [heard EXCEPT ![c] =
       IF ~body.substreamType /\ \E p \in Profiles : body.mentions = {p}
       THEN LET p == CHOOSE p \in Profiles : body.mentions = {p}
            IN [HeardOf(c, p) EXCEPT !.played = UriPath(camera, body)]
       ELSE heard[c]]
  /\ UNCHANGED <<camera, bitrateCache, pc, token, bitrate, stream, sets,
                 current, settled, promised, lowered>>

Serve(c) ==
  \/ \E t \in Tokens \cup {NoToken}, b \in Bitrates \cup {Unset} : ReceiveSet(c, t, b)
  \/ StoreBitrate(c) \/ AckSet(c)
  \/ \E t \in Tokens : ReceiveGet(c, t)
  \/ LookUpBitrate(c) \/ AnswerGet(c)
  \/ \E body \in UriBodies : GetStreamUri(c, body)

Next == \E c \in Clients : Serve(c)

Spec == Init /\ [][Next]_vars

-----------------------------------------------------------------------------
(* Properties *)

\* A configuration describes the stream that is played: when a client holds
\* both the encoder configuration and the URI of a profile of a camera with a
\* substream, the record that filled the first is measured on the path of the
\* second, whatever was set meanwhile; only a low limit for the main encoder
\* breaks the rule.  The path is computed by two handlers and by detection.
DescribedIsPlayed == \A c \in Clients :
  /\ heard[c].described # Nothing /\ heard[c].played # Nothing
  /\ camera.SubstreamEnabled
  => \/ heard[c].described = heard[c].played
     \/ heard[c].profile = "Profile000" /\ lowered

\* Read your writes: once a Set is acknowledged, and until another Set of that
\* token is stored, a Get of the token is answered as its limit tells: from the
\* substream up to 1024 kbps, that rate included, and from the main stream above
\* it, unless the token is a substream's whatever its limit.
SetsDecideGets == \A c \in Clients :
  pc[c] = "answering" /\ promised[c] # Unset =>
    stream[c] = IF token[c] \in SubTokens \/ promised[c] <= 1024 THEN "sub" ELSE "main"

\* The limits last stored and acknowledged are those in the map.
MapInv ==
  /\ \A c \in current :
       pc[c] = "acking" /\ bitrate[c] # Unset /\ bitrateCache[token[c]] = bitrate[c]
  /\ \A t \in Tokens \cup {NoToken} : settled[t] # Unset => settled[t] = bitrateCache[t]
  /\ ~lowered => StreamForBitrate(bitrateCache[MainToken]) = "main"

\* The goroutine of a Set has a limit to store, and that of a Get the stream of
\* its token.
RequestInv == \A c \in Clients :
  /\ pc[c] = "storing" => bitrate[c] # Unset
  /\ pc[c] = "looking" =>
       /\ token[c] \notin SubTokens
       /\ promised[c] # Unset => promised[c] = bitrateCache[token[c]]
  /\ pc[c] = "answering" =>
       /\ token[c] \in SubTokens => stream[c] = "sub"
       /\ token[c] = MainToken /\ ~lowered => stream[c] = "main"

\* The stream that fills a profile's configuration when nothing was set.
ProfileStream(p) == StreamForToken(EncoderOf(p), Unset)

HeardInv == \A c \in Clients :
  /\ heard[c].described # Nothing =>
       \/ heard[c].described = ProbedPath(camera, ProfileStream(heard[c].profile))
       \/ heard[c].profile = "Profile000" /\ lowered
  /\ heard[c].played # Nothing =>
       heard[c].played = UriPath(camera, [substreamType |-> FALSE, mentions |-> {heard[c].profile}])

\* The inductive invariant: what a client was told is what the server would
\* tell it now, but for a low limit of the main encoder.
IInv == MapInv /\ RequestInv /\ HeardInv /\ SetsDecideGets

=============================================================================
