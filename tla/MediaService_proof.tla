------------------------- MODULE MediaService_proof -------------------------
(* Type correctness of MediaService, its inductive invariant, and the two   *)
(* properties that follow from it, for any clients, tokens and limits.      *)
EXTENDS MediaService, TLAPS

LEMMA StreamTypes ==
  /\ \A b \in Bitrates \cup {Unset} : StreamForBitrate(b) \in Streams
  /\ \A cam \in Cameras, st \in Streams : ProbedPath(cam, st) \in Paths
  /\ \A cam \in Cameras, body \in UriBodyType : UriPath(cam, body) \in Paths
  BY DEF StreamForBitrate, Streams, ProbedPath, UriPath, SubstreamPath, Paths

\* What the CHOOSE of AnswerGet and of GetStreamUri return.
LEMMA ProfileOfToken ==
  ASSUME NEW t, \E p \in Profiles : EncoderOf(p) = t
  PROVE  LET p == CHOOSE p \in Profiles : EncoderOf(p) = t
         IN p \in Profiles /\ EncoderOf(p) = t
  OBVIOUS

LEMMA ProfileOfBody ==
  ASSUME NEW m, \E p \in Profiles : m = {p}
  PROVE  LET p == CHOOSE p \in Profiles : m = {p}
         IN p \in Profiles /\ m = {p}
  OBVIOUS

LEMMA HeardOfType ==
  ASSUME TypeOK, NEW c \in Clients, NEW p \in Profiles
  PROVE  HeardOf(c, p) \in Heard /\ HeardOf(c, p).profile = p
  BY DEF TypeOK, HeardOf, NotHeard, Heard

LEMMA InitType == Init => TypeOK
<1>1. NoToken \in Tokens \cup {NoToken} /\ "main" \in Streams /\ "Profile000" \in Profiles
  BY DEF Streams, Profiles
<1>3. NotHeard("Profile000") \in Heard
  BY <1>1 DEF NotHeard, Heard
<1>4. 0 \in 0..MaxSets
  BY MaxSetsIsNatural
<1> SUFFICES ASSUME Init PROVE TypeOK
  OBVIOUS
<1>5. heard \in [Clients -> Heard]
  BY <1>3 DEF Init
<1>6. /\ stream \in [Clients -> Streams] /\ token \in [Clients -> Tokens \cup {NoToken}]
      /\ pc \in [Clients -> {"idle", "storing", "acking", "looking", "answering"}]
  BY <1>1 DEF Init
<1>7. sets \in 0..MaxSets /\ current \subseteq Clients /\ lowered \in BOOLEAN /\ camera \in Cameras
  BY <1>4 DEF Init
<1>8. /\ bitrateCache \in [Tokens \cup {NoToken} -> Bitrates \cup {Unset}]
      /\ settled \in [Tokens \cup {NoToken} -> Bitrates \cup {Unset}]
      /\ bitrate \in [Clients -> Bitrates \cup {Unset}]
      /\ promised \in [Clients -> Bitrates \cup {Unset}]
  BY DEF Init
<1> QED BY <1>5, <1>6, <1>7, <1>8 DEF TypeOK

LEMMA NextType == TypeOK /\ [Next]_vars => TypeOK'
<1> SUFFICES ASSUME TypeOK, [Next]_vars PROVE TypeOK'
  OBVIOUS
<1>1. ASSUME NEW c \in Clients, NEW t \in Tokens \cup {NoToken},
             NEW b \in Bitrates \cup {Unset}, ReceiveSet(c, t, b)
      PROVE  TypeOK'
  <2>1. sets + 1 \in 0..MaxSets
    BY <1>1, MaxSetsIsNatural DEF ReceiveSet, TypeOK
  <2> QED BY <1>1, <2>1 DEF TypeOK, ReceiveSet, Goto
<1>2. ASSUME NEW c \in Clients, StoreBitrate(c) PROVE TypeOK'
  BY <1>2 DEF TypeOK, StoreBitrate, Goto
<1>3. ASSUME NEW c \in Clients, AckSet(c) PROVE TypeOK'
  BY <1>3 DEF TypeOK, AckSet, Goto
<1>4. ASSUME NEW c \in Clients, NEW t \in Tokens, ReceiveGet(c, t) PROVE TypeOK'
  <2>1. stream' \in [Clients -> Streams] /\ pc' \in [Clients -> {"idle", "storing", "acking", "looking", "answering"}]
    BY <1>4 DEF TypeOK, ReceiveGet, Goto, Streams
  <2> QED BY <1>4, <2>1 DEF TypeOK, ReceiveGet
<1>5. ASSUME NEW c \in Clients, LookUpBitrate(c) PROVE TypeOK'
  <2>1. StreamForBitrate(bitrateCache[token[c]]) \in Streams
    BY StreamTypes DEF TypeOK
  <2> QED BY <1>5, <2>1 DEF TypeOK, LookUpBitrate, Goto
<1>6. ASSUME NEW c \in Clients, AnswerGet(c) PROVE TypeOK'
  <2>1. ProbedPath(camera, stream[c]) \in Paths
    BY StreamTypes DEF TypeOK
  <2>2. \A p \in Profiles : [HeardOf(c, p) EXCEPT !.described = ProbedPath(camera, stream[c])] \in Heard
    BY <2>1, HeardOfType DEF Heard
  <2>3. heard' \in [Clients -> Heard]
    BY <1>6, <2>2, ProfileOfToken DEF TypeOK, AnswerGet
  <2> QED BY <1>6, <2>3 DEF TypeOK, AnswerGet, Goto, Streams
<1>7. ASSUME NEW c \in Clients, NEW body \in UriBodies, GetStreamUri(c, body)
      PROVE  TypeOK'
  <2>1. UriPath(camera, body) \in Paths
    BY StreamTypes, UriBodiesAreRecords DEF TypeOK
  <2>2. \A p \in Profiles : [HeardOf(c, p) EXCEPT !.played = UriPath(camera, body)] \in Heard
    BY <2>1, HeardOfType DEF Heard
  <2>3. heard' \in [Clients -> Heard]
    BY <1>7, <2>2, ProfileOfBody DEF TypeOK, GetStreamUri
  <2> QED BY <1>7, <2>3 DEF TypeOK, GetStreamUri
<1>8. CASE UNCHANGED vars
  BY <1>8 DEF TypeOK, vars
<1> QED BY <1>1, <1>2, <1>3, <1>4, <1>5, <1>6, <1>7, <1>8 DEF Next, Serve

\* Type correctness: a request's token, the map's entries and the paths told
\* to clients are those the server knows.
THEOREM TypeCorrect == Spec => []TypeOK
  BY InitType, NextType, PTL DEF Spec

-----------------------------------------------------------------------------
LEMMA InitInv == Init => IInv
<1> SUFFICES ASSUME Init PROVE IInv
  OBVIOUS
<1>1. MapInv
  <2>1. /\ current = {} /\ bitrateCache[MainToken] = Unset
        /\ \A t \in Tokens \cup {NoToken} : settled[t] = Unset
    BY DEF Init, MainToken, Tokens, EncoderTokens
  <2> QED BY <2>1 DEF MapInv, StreamForBitrate
<1>2. \A c \in Clients : /\ pc[c] = "idle"
                         /\ heard[c].described = Nothing /\ heard[c].played = Nothing
  BY DEF Init, NotHeard
<1>3. RequestInv /\ SetsDecideGets
  BY <1>2 DEF RequestInv, SetsDecideGets
<1>4. HeardInv
  BY <1>2 DEF HeardInv
<1> QED BY <1>1, <1>3, <1>4 DEF IInv

LEMMA ReceiveSetInv ==
  ASSUME TypeOK, IInv, NEW c \in Clients, NEW t \in Tokens \cup {NoToken},
         NEW b \in Bitrates \cup {Unset}, ReceiveSet(c, t, b)
  PROVE  IInv'
<1>1. UNCHANGED <<camera, bitrateCache, stream, heard, current, settled, promised, lowered>>
      /\ pc[c] = "idle"
  BY DEF ReceiveSet
<1>2. /\ pc'[c] \in {"storing", "acking"} /\ (pc'[c] = "storing" => bitrate'[c] # Unset)
      /\ \A g \in Clients : g # c => pc'[g] = pc[g] /\ token'[g] = token[g] /\ bitrate'[g] = bitrate[g]
  BY DEF TypeOK, ReceiveSet, Goto
<1>3. MapInv' /\ HeardInv'
  <2>1. c \notin current /\ current \subseteq Clients
    BY <1>1 DEF IInv, MapInv, TypeOK
  <2> QED BY <1>1, <1>2, <2>1 DEF IInv, MapInv, HeardInv
<1>4. RequestInv'
  BY <1>1, <1>2 DEF IInv, RequestInv
<1>5. SetsDecideGets'
  BY <1>1, <1>2 DEF IInv, SetsDecideGets
<1> QED BY <1>3, <1>4, <1>5 DEF IInv

LEMMA StoreBitrateInv ==
  ASSUME TypeOK, IInv, NEW c \in Clients, StoreBitrate(c) PROVE IInv'
<1>1. UNCHANGED <<camera, token, bitrate, stream, heard>> /\ pc[c] = "storing"
  BY DEF StoreBitrate
<1>2. \A g \in Clients : pc'[g] = IF g = c THEN "acking" ELSE pc[g]
  BY DEF TypeOK, StoreBitrate, Goto
<1>3. \A t \in Tokens \cup {NoToken} :
        /\ bitrateCache'[t] = IF t = token[c] THEN bitrate[c] ELSE bitrateCache[t]
        /\ settled'[t] = IF t = token[c] THEN Unset ELSE settled[t]
  BY DEF TypeOK, StoreBitrate
<1>4. \A g \in Clients : promised'[g] = IF token[g] = token[c] THEN Unset ELSE promised[g]
  BY DEF StoreBitrate
<1>5. lowered' = (lowered \/ (token[c] = MainToken /\ bitrate[c] <= LowBitrate))
  BY DEF StoreBitrate
<1>6. MainToken \in Tokens \cup {NoToken} /\ \A g \in Clients : token[g] \in Tokens \cup {NoToken}
  BY DEF MainToken, Tokens, EncoderTokens, TypeOK
<1>7. MapInv'
  <2>1. \A t \in Tokens \cup {NoToken} : settled'[t] # Unset => settled'[t] = bitrateCache'[t]
    BY <1>3 DEF IInv, MapInv
  <2>2. \A g \in current' :
          pc'[g] = "acking" /\ bitrate'[g] # Unset /\ bitrateCache'[token'[g]] = bitrate'[g]
    <3>1. current' = {g \in current : token[g] # token[c]} \cup {c} /\ current \subseteq Clients
      BY DEF StoreBitrate, TypeOK
    <3>2. bitrate[c] # Unset
      BY <1>1 DEF IInv, RequestInv
    <3> QED BY <1>1, <1>2, <1>3, <1>6, <3>1, <3>2 DEF IInv, MapInv
  <2>3. ASSUME ~lowered' PROVE StreamForBitrate(bitrateCache'[MainToken]) = "main"
    BY <1>3, <1>5, <1>6, <2>3 DEF IInv, MapInv, StreamForBitrate
  <2> QED BY <2>1, <2>2, <2>3 DEF MapInv
<1>8. RequestInv'
  BY <1>1, <1>2, <1>3, <1>4, <1>5, <1>6 DEF IInv, RequestInv
<1>9. HeardInv'
  BY <1>1, <1>5 DEF IInv, HeardInv
<1>10. SetsDecideGets'
  <2> SUFFICES ASSUME NEW g \in Clients, pc'[g] = "answering", promised'[g] # Unset
               PROVE  stream'[g] =
                        IF token'[g] \in SubTokens \/ promised'[g] <= 1024 THEN "sub" ELSE "main"
    BY DEF SetsDecideGets
  <2>1. pc[g] = "answering" /\ promised[g] = promised'[g]
    BY <1>1, <1>2, <1>4
  <2> QED BY <1>1, <2>1 DEF IInv, SetsDecideGets
<1> QED BY <1>7, <1>8, <1>9, <1>10 DEF IInv

LEMMA AckSetInv == ASSUME TypeOK, IInv, NEW c \in Clients, AckSet(c) PROVE IInv'
<1>1. UNCHANGED <<camera, bitrateCache, stream, heard, promised, lowered>> /\ pc[c] = "acking"
  BY DEF AckSet
<1>2. /\ pc'[c] = "idle"
      /\ \A g \in Clients : g # c => pc'[g] = pc[g] /\ token'[g] = token[g] /\ bitrate'[g] = bitrate[g]
  BY DEF TypeOK, AckSet, Goto
<1>3. \A t \in Tokens \cup {NoToken} : settled'[t] # Unset => settled'[t] = bitrateCache[t]
  BY DEF TypeOK, AckSet, IInv, MapInv
<1>4. MapInv'
  <2>1. current' = current \ {c} /\ current \subseteq Clients
    BY DEF AckSet, TypeOK
  <2> QED BY <1>1, <1>2, <1>3, <2>1 DEF IInv, MapInv
<1>5. RequestInv'
  BY <1>1, <1>2 DEF IInv, RequestInv
<1>6. HeardInv' /\ SetsDecideGets'
  BY <1>1, <1>2 DEF IInv, HeardInv, SetsDecideGets
<1> QED BY <1>4, <1>5, <1>6 DEF IInv

LEMMA ReceiveGetInv ==
  ASSUME TypeOK, IInv, NEW c \in Clients, NEW t \in Tokens, ReceiveGet(c, t) PROVE IInv'
<1>1. UNCHANGED <<camera, bitrateCache, bitrate, heard, current, settled, lowered>> /\ pc[c] = "idle"
  BY DEF ReceiveGet
<1>2. /\ pc'[c] = (IF t \in SubTokens THEN "answering" ELSE "looking") /\ token'[c] = t
      /\ promised'[c] = settled[t] /\ (t \in SubTokens => stream'[c] = "sub")
  BY DEF TypeOK, ReceiveGet, Goto
<1>3. \A g \in Clients : g # c => /\ pc'[g] = pc[g] /\ token'[g] = token[g]
                                  /\ promised'[g] = promised[g] /\ stream'[g] = stream[g]
  BY DEF TypeOK, ReceiveGet, Goto
<1>4. MapInv' /\ HeardInv'
  <2>1. c \notin current /\ current \subseteq Clients
    BY <1>1 DEF IInv, MapInv, TypeOK
  <2> QED BY <1>1, <1>3, <2>1 DEF IInv, MapInv, HeardInv
<1>5. MainToken \notin SubTokens
  BY DEF MainToken, SubTokens
<1>6. RequestInv'
  BY <1>1, <1>2, <1>3, <1>5 DEF IInv, RequestInv, MapInv
<1>7. SetsDecideGets'
  BY <1>1, <1>2, <1>3 DEF IInv, SetsDecideGets
<1> QED BY <1>4, <1>6, <1>7 DEF IInv

LEMMA LookUpBitrateInv ==
  ASSUME TypeOK, IInv, NEW c \in Clients, LookUpBitrate(c) PROVE IInv'
<1>1. /\ UNCHANGED <<camera, bitrateCache, token, bitrate, heard, current, settled, promised, lowered>>
      /\ pc[c] = "looking"
  BY DEF LookUpBitrate
<1>2. /\ pc'[c] = "answering" /\ stream'[c] = StreamForBitrate(bitrateCache[token[c]])
      /\ \A g \in Clients : g # c => pc'[g] = pc[g] /\ stream'[g] = stream[g]
  BY DEF TypeOK, LookUpBitrate, Goto
<1>3. MapInv' /\ HeardInv'
  <2>1. c \notin current /\ current \subseteq Clients
    BY <1>1 DEF IInv, MapInv, TypeOK
  <2> QED BY <1>1, <1>2, <2>1 DEF IInv, MapInv, HeardInv
<1>4. /\ token[c] \notin SubTokens
      /\ promised[c] # Unset => promised[c] = bitrateCache[token[c]]
      /\ token[c] = MainToken /\ ~lowered => stream'[c] = "main"
  BY <1>1, <1>2 DEF IInv, RequestInv, MapInv
<1>5. RequestInv'
  BY <1>1, <1>2, <1>4 DEF IInv, RequestInv
<1>6. SetsDecideGets'
  <2>1. promised[c] # Unset => stream'[c] = IF promised[c] <= 1024 THEN "sub" ELSE "main"
    BY <1>2, <1>4 DEF StreamForBitrate, LowBitrate
  <2> QED BY <1>1, <1>2, <1>4, <2>1 DEF IInv, SetsDecideGets
<1> QED BY <1>3, <1>5, <1>6 DEF IInv

LEMMA AnswerGetInv == ASSUME TypeOK, IInv, NEW c \in Clients, AnswerGet(c) PROVE IInv'
<1>1. /\ UNCHANGED <<camera, bitrateCache, bitrate, current, settled, lowered>>
      /\ pc[c] = "answering"
  BY DEF AnswerGet
<1>2. /\ pc'[c] = "idle"
      /\ \A g \in Clients : g # c => /\ pc'[g] = pc[g] /\ token'[g] = token[g]
                                     /\ promised'[g] = promised[g] /\ stream'[g] = stream[g]
                                     /\ heard'[g] = heard[g]
  BY DEF TypeOK, AnswerGet, Goto
<1>3. MapInv'
  <2>1. c \notin current /\ current \subseteq Clients
    BY <1>1 DEF IInv, MapInv, TypeOK
  <2> QED BY <1>1, <1>2, <2>1 DEF IInv, MapInv
<1>4. RequestInv' /\ SetsDecideGets'
  BY <1>1, <1>2 DEF IInv, RequestInv, SetsDecideGets
<1>5. HeardInv'
  <2>1. CASE \E p \in Profiles : EncoderOf(p) = token[c]
    <3>1. PICK p \in Profiles :
            /\ EncoderOf(p) = token[c]
            /\ heard'[c] = [HeardOf(c, p) EXCEPT !.described = ProbedPath(camera, stream[c])]
      BY <2>1, ProfileOfToken DEF AnswerGet, TypeOK
    <3>2. /\ heard'[c].profile = p /\ heard'[c].described = ProbedPath(camera, stream[c])
          /\ heard'[c].played = HeardOf(c, p).played
      BY <3>1, HeardOfType DEF Heard
    <3>3. stream[c] = ProfileStream(p) \/ (p = "Profile000" /\ lowered)
      BY <1>1, <3>1 DEF IInv, RequestInv, Profiles, EncoderOf, MainToken, SubTokens,
                        ProfileStream, StreamForToken, StreamForBitrate
    <3>4. HeardOf(c, p).played # Nothing => HeardOf(c, p) = heard[c] /\ heard[c].profile = p
      BY DEF HeardOf, NotHeard
    <3> QED BY <1>1, <1>2, <3>2, <3>3, <3>4 DEF IInv, HeardInv
  <2>2. CASE ~ \E p \in Profiles : EncoderOf(p) = token[c]
    <3>1. heard' = heard
      BY <2>2 DEF AnswerGet, TypeOK
    <3> QED BY <1>1, <3>1 DEF IInv, HeardInv
  <2> QED BY <2>1, <2>2
<1> QED BY <1>3, <1>4, <1>5 DEF IInv

LEMMA GetStreamUriInv ==
  ASSUME TypeOK, IInv, NEW c \in Clients, NEW body \in UriBodies, GetStreamUri(c, body)
  PROVE  IInv'
<1>1. UNCHANGED <<camera, bitrateCache, pc, token, bitrate, stream, current, settled, promised, lowered>>
  BY DEF GetStreamUri
<1>2. MapInv' /\ RequestInv' /\ SetsDecideGets'
  BY <1>1 DEF IInv, MapInv, RequestInv, SetsDecideGets
<1>3. \A g \in Clients : g # c => heard'[g] = heard[g]
  BY DEF TypeOK, GetStreamUri
<1>4. HeardInv'
  <2>1. CASE ~body.substreamType /\ \E p \in Profiles : body.mentions = {p}
    <3>1. PICK p \in Profiles :
            /\ body.mentions = {p}
            /\ heard'[c] = [HeardOf(c, p) EXCEPT !.played = UriPath(camera, body)]
      BY <2>1, ProfileOfBody DEF GetStreamUri, TypeOK
    <3>2. /\ heard'[c].profile = p /\ heard'[c].played = UriPath(camera, body)
          /\ heard'[c].described = HeardOf(c, p).described
      BY <3>1, HeardOfType DEF Heard
    <3>3. UriPath(camera, body) = UriPath(camera, [substreamType |-> FALSE, mentions |-> {p}])
      BY <2>1, <3>1 DEF UriPath, Subtype
    <3>4. HeardOf(c, p).described # Nothing => HeardOf(c, p) = heard[c] /\ heard[c].profile = p
      BY DEF HeardOf, NotHeard
    <3> QED BY <1>1, <1>3, <3>2, <3>3, <3>4 DEF IInv, HeardInv
  <2>2. CASE ~(~body.substreamType /\ \E p \in Profiles : body.mentions = {p})
    <3>1. heard' = heard
      BY <2>2 DEF GetStreamUri, TypeOK
    <3> QED BY <1>1, <3>1 DEF IInv, HeardInv
  <2> QED BY <2>1, <2>2
<1> QED BY <1>2, <1>4 DEF IInv

LEMMA NextInv == TypeOK /\ IInv /\ [Next]_vars => IInv'
<1> SUFFICES ASSUME TypeOK, IInv, [Next]_vars PROVE IInv'
  OBVIOUS
<1>1. ASSUME NEW c \in Clients, Serve(c) PROVE IInv'
  BY <1>1, ReceiveSetInv, StoreBitrateInv, AckSetInv, ReceiveGetInv,
     LookUpBitrateInv, AnswerGetInv, GetStreamUriInv DEF Serve
<1>2. CASE UNCHANGED vars
  BY <1>2 DEF vars, IInv, MapInv, RequestInv, HeardInv, SetsDecideGets
<1> QED BY <1>1, <1>2 DEF Next

-----------------------------------------------------------------------------
\* Acknowledged limits stay in the map, requests carry the stream of their
\* token, and clients hold what the server would tell them again.
THEOREM Consistency == Spec => []IInv
  BY InitType, NextType, InitInv, NextInv, PTL DEF Spec

\* Read your writes: an acknowledged SetVideoEncoderConfiguration decides
\* which record answers the Gets of its token, until another is stored.
THEOREM ReadYourWrites == Spec => []SetsDecideGets
<1>1. IInv => SetsDecideGets
  BY DEF IInv
<1> QED BY <1>1, Consistency, PTL

\* With a substream, the record that describes a profile is measured on the
\* path that the profile's URI plays, but for a low limit of the main encoder.
THEOREM DescriptionsMatchUris == Spec => []DescribedIsPlayed
<1>1. TypeOK /\ IInv => DescribedIsPlayed
  <2> SUFFICES ASSUME TypeOK, IInv, NEW c \in Clients, camera.SubstreamEnabled,
                      heard[c].described # Nothing, heard[c].played # Nothing
               PROVE  \/ heard[c].described = heard[c].played
                      \/ heard[c].profile = "Profile000" /\ lowered
    BY DEF DescribedIsPlayed
  <2>1. \A p \in Profiles :
          ProbedPath(camera, ProfileStream(p)) = UriPath(camera, [substreamType |-> FALSE, mentions |-> {p}])
    BY DEF Profiles, ProbedPath, ProfileStream, StreamForToken, StreamForBitrate,
           EncoderOf, SubTokens, UriPath, Subtype
  <2>2. heard[c].profile \in Profiles
    BY DEF TypeOK, Heard
  <2> QED BY <2>1, <2>2 DEF IInv, HeardInv
<1> QED BY <1>1, TypeCorrect, Consistency, PTL

=============================================================================
