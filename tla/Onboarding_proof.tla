-------------------------- MODULE Onboarding_proof --------------------------
(***************************************************************************)
(* Proofs about Onboarding, for any NVRs, cameras and hosts: types, where   *)
(* references lead, which handler answers and what is played.               *)
(***************************************************************************)
EXTENDS Onboarding, TLAPS

(* Lemmas about the operators of Router and StreamPaths. *)

\* A path of a stream URI is one of the configured paths.
LEMMA UriPathType == ASSUME NEW c \in CameraConfig, NEW b \in UriBodyType
                     PROVE UriPath(c, b) \in Paths
  BY DEF UriPath, SubstreamPath, Paths

\* The path of a URI for one profile is the path of a stream that detection
\* measures, the main one for the main profile.
LEMMA UriPathIsProbed ==
  ASSUME NEW c \in CameraConfig, NEW p \in Profiles
  PROVE  \E st \in Streams :
           /\ UriPath(c, [substreamType |-> FALSE, mentions |-> {p}]) = ProbedPath(c, st)
           /\ st = "sub" <=> p # "Profile000" /\ c.SubstreamEnabled
<1> DEFINE b == [substreamType |-> FALSE, mentions |-> {p}]
<1>1. Subtype(b) # 0 <=> p # "Profile000"
  BY DEF Subtype, Profiles
<1>2. CASE p # "Profile000" /\ c.SubstreamEnabled
  <2>1. UriPath(c, b) = ProbedPath(c, "sub")
    BY <1>1, <1>2 DEF UriPath, ProbedPath
  <2> QED BY <1>2, <2>1 DEF Streams
<1>3. CASE ~(p # "Profile000" /\ c.SubstreamEnabled)
  <2>1. UriPath(c, b) = ProbedPath(c, "main")
    BY <1>1, <1>3 DEF UriPath, ProbedPath
  <2> QED BY <1>3, <2>1 DEF Streams
<1> QED BY <1>2, <1>3

\* Every operation has a case.
LEMMA CasesComplete == \A op \in Operations : \E i \in DOMAIN Cases : Cases[i] = op
  BY DEF Operations, DeviceOperations, MediaOperations, EventOperations, Cases

\* No name has two cases, and the longer of two names comes first.
LEMMA CasesOrdered ==
  /\ DOMAIN Cases = 1..23
  /\ \A i, j \in 1..23 : Cases[i] = Cases[j] => i = j
  /\ Cases[17] = "GetVideoEncoderConfigurationOptions"
  /\ Cases[18] = "GetVideoEncoderConfigurations"
  /\ Cases[19] = "GetVideoEncoderConfiguration"
  BY DEF Cases

\* A text with just the names in an operation's own name has a first case, which
\* is that operation's.
LEMMA FirstIsNamed ==
  ASSUME NEW op \in Operations
  PROVE  /\ \E i \in DOMAIN Cases : IsFirst(i, Cases, NamesIn(op))
         /\ \A i \in DOMAIN Cases : IsFirst(i, Cases, NamesIn(op)) => Cases[i] = op
<1> DEFINE short == "GetVideoEncoderConfiguration"
           long == {"GetVideoEncoderConfigurationOptions", "GetVideoEncoderConfigurations"}
<1>1. PICK k \in 1..23 : Cases[k] = op
  BY CasesComplete, CasesOrdered
<1>2. CASE op \notin long
  <2>1. NamesIn(op) = {op}
    BY <1>2 DEF NamesIn
  <2>2. \A i \in DOMAIN Cases : IsFirst(i, Cases, NamesIn(op)) => Cases[i] = op
    BY <2>1 DEF IsFirst
  <2>3. IsFirst(k, Cases, NamesIn(op))
    BY <1>1, <2>1, CasesOrdered DEF IsFirst
  <2> QED BY <1>1, <2>2, <2>3, CasesOrdered
<1>3. CASE op \in long
  <2>1. NamesIn(op) = {op, short}
    BY <1>3 DEF NamesIn
  <2>2. k \in {17, 18}
    BY <1>1, <1>3, CasesOrdered
  <2>3. ASSUME NEW i \in 1..23, IsFirst(i, Cases, NamesIn(op))
        PROVE  Cases[i] = op
    <3>1. Cases[i] # short
      <4>1. SUFFICES ASSUME i = 19 PROVE FALSE
        BY CasesOrdered
      <4>2. k \in 1..(i - 1)
        BY <2>2, <4>1
      <4> QED BY <1>1, <2>1, <2>3, <4>2 DEF IsFirst
    <3> QED BY <2>1, <2>3, <3>1 DEF IsFirst
  <2>4. IsFirst(k, Cases, NamesIn(op))
    <3>1. \A j \in 1..(k - 1) : j \in 1..23 /\ j # k /\ j # 19
      BY <2>2
    <3>2. \A j \in 1..(k - 1) : Cases[j] # op /\ Cases[j] # short
      BY <1>1, <3>1, CasesOrdered
    <3> QED BY <1>1, <2>1, <3>2 DEF IsFirst
  <2> QED BY <1>1, <2>3, <2>4, CasesOrdered
<1> QED BY <1>2, <1>3

\* The answer to an operation with a case is that of its own handler, and one
\* without is refused.
LEMMA RouteIsNamed == ASSUME NEW op \in Operations
                      PROVE RouteRequest(NamesIn(op)) = Response(op)
<1>1. \E i \in DOMAIN Cases : Cases[i] \in NamesIn(op)
  BY FirstIsNamed DEF IsFirst
<1>2. Cases[CHOOSE i \in DOMAIN Cases : IsFirst(i, Cases, NamesIn(op))] = op
  BY FirstIsNamed
<1> QED BY <1>1, <1>2 DEF RouteRequest

LEMMA UnknownIsRefused ==
  ASSUME NEW op, op \notin Operations,
         op \notin {"GetVideoEncoderConfigurationOptions", "GetVideoEncoderConfigurations"}
  PROVE  RouteRequest(NamesIn(op)) = Fault("ActionNotSupported")
<1>1. NamesIn(op) = {}
  BY DEF NamesIn
<1> QED BY <1>1 DEF RouteRequest

-----------------------------------------------------------------------------
(* Lemmas about references. *)

\* A reference to a service or to the snapshot is to a path it is served at.
LEMMA ReferredFit ==
  ASSUME NEW content, NEW r \in Referred(content)
  PROVE  /\ r.kind \in Kinds /\ r.path \in AddressPaths
         /\ r.kind \in Services \cup {"snapshot"} => r.path \in ServedAt(r.kind)
<1>1. \A x \in CapabilityXAddrs \cup ServiceXAddrs : x.kind \in Services /\ x.path \in SoapPaths
  BY DEF CapabilityXAddrs, ServiceXAddrs, At, Services, SoapPaths
<1>2. {"snapshot", "subscription", "pullpoint"} \cap Services = {}
  BY DEF Services
<1>3. SnapshotUri.kind = "snapshot" /\ SnapshotUri.path \in SnapshotPaths
  BY DEF SnapshotUri, At, SnapshotPaths
<1>4. /\ SubscriptionReference.kind = "subscription"
      /\ PullPointReference.kind = "pullpoint"
  BY DEF SubscriptionReference, PullPointReference, At
<1>5. r \in CapabilityXAddrs \cup ServiceXAddrs
        \/ r \in {SnapshotUri, SubscriptionReference, PullPointReference}
  BY DEF Referred
<1>6. r.kind \in Kinds /\ r.path \in AddressPaths
  BY <1>1, <1>3, <1>4, <1>5 DEF Kinds, AddressPaths
<1>7. CASE r \in CapabilityXAddrs \cup ServiceXAddrs
  BY <1>1, <1>2, <1>6, <1>7 DEF ServedAt
<1>8. CASE r \in {SnapshotUri, SubscriptionReference, PullPointReference}
  BY <1>2, <1>3, <1>4, <1>6, <1>8 DEF ServedAt
<1> QED BY <1>5, <1>7, <1>8

\* What a server puts before a path, when n asks it at a.
LEMMA ReferenceHost ==
  ASSUME TypeOK, NEW n \in Nvrs, NEW a \in addresses[n], a.host \in Hosts
  PROVE  /\ GetHostIP(Header(n, a)) \in HostNames
         /\ Kept(n) /\ a.host = nvr[n].host => GetHostIP(Header(n, a)) = nvr[n].host
<1>1. CASE nvr[n].sendsHost
  <2>1. GetHostIP(Header(n, a)) = Cut[a.host]
    BY <1>1, ConfigurationIsWhole DEF Header, GetHostIP
  <2> QED BY <1>1, <2>1 DEF HostNames, Kept
<1>2. CASE ~nvr[n].sendsHost
  BY <1>2 DEF Header, GetHostIP, HostNames, Kept
<1> QED BY <1>1, <1>2

\* The new references are well formed.
LEMMA ReferenceType ==
  ASSUME TypeOK, NEW n \in Nvrs, NEW a \in addresses[n], a.host \in Hosts,
         NEW i \in Cameras, NEW content, NEW r \in Referred(content)
  PROVE  Reference(r, Header(n, a), i) \in AddressType
<1>1. r.kind \in Kinds /\ r.path \in AddressPaths
  BY ReferredFit
<1>2. GetHostIP(Header(n, a)) \in HostNames /\ Port[i] \in Ports
  BY ReferenceHost DEF Ports
<1> QED BY <1>1, <1>2 DEF Reference, AddressType

LEMMA StreamUriType ==
  ASSUME TypeOK, NEW n \in Nvrs, NEW a \in addresses[n], a.host \in Hosts,
         NEW i \in Cameras, NEW p \in Profiles
  PROVE  StreamUri(Header(n, a), i, p) \in UriType
<1>1. UriPath(Config[i], [substreamType |-> FALSE, mentions |-> {p}]) \in Paths
  <2>1. Config[i] \in CameraConfig /\ [substreamType |-> FALSE, mentions |-> {p}] \in UriBodyType
    BY ConfigurationIsWhole DEF UriBodyType
  <2> QED BY <2>1, UriPathType
<1> QED BY <1>1, ReferenceHost DEF StreamUri, UriType

-----------------------------------------------------------------------------
(* Type correctness *)

LEMMA InitType == Init => TypeOK
<1> SUFFICES ASSUME Init PROVE TypeOK
  OBVIOUS
<1>1. listening \in [Cameras -> {"down", "up", "over"}]
  BY DEF Init, Process!Init
<1>2. nvr \in [Nvrs -> NvrKinds]
  BY DEF Init
<1>3. ASSUME NEW n \in Nvrs PROVE addresses[n] \in SUBSET AddressType
  <2>1. nvr[n].host \in HostNames /\ Port[nvr[n].camera] \in Ports
    BY <1>2, ConfigurationIsWhole DEF NvrType, HostNames, Ports
  <2>2. "device" \in Kinds /\ "/onvif/device_service" \in AddressPaths
    BY DEF Kinds, Services, AddressPaths, SoapPaths
  <2> QED BY <2>1, <2>2 DEF Init, AddressType
<1> QED BY <1>1, <1>2, <1>3 DEF Init, TypeOK

LEMMA NextType == TypeOK /\ [Next]_vars => TypeOK'
<1> SUFFICES ASSUME TypeOK, [Next]_vars PROVE TypeOK'
  OBVIOUS
<1>1. CASE ServersChange
  <2>1. listening' \in [Cameras -> {"down", "up", "over"}]
    BY <1>1 DEF ServersChange, TypeOK, Process!Next, Process!ComeUp, Process!GoDown
  <2> QED BY <1>1, <2>1 DEF ServersChange, knowledge, TypeOK
<1>2. ASSUME NEW n \in Nvrs, NEW a \in addresses[n], NEW i \in Cameras,
             NEW op \in Asked(a.kind), Ask(n, a, i, op)
      PROVE  TypeOK'
  <2>1. a.host \in Hosts
    BY <1>2 DEF Ask, Reaches
  <2>2. \A r \in Referred(AnswerTo(a, op).content) : Reference(r, Header(n, a), i) \in AddressType
    BY <2>1, ReferenceType
  <2>3. addresses' \in [Nvrs -> SUBSET AddressType]
    BY <1>2, <2>2 DEF Ask, TypeOK
  <2>4. profiles' \in [Nvrs -> SUBSET Profiles]
    BY <1>2 DEF Ask, TypeOK
  <2> QED BY <1>2, <2>3, <2>4 DEF Ask, TypeOK
<1>3. ASSUME NEW n \in Nvrs, NEW a \in addresses[n], NEW i \in Cameras,
             NEW p \in profiles[n], AskStreamUri(n, a, i, p)
      PROVE  TypeOK'
  <2>1. a.host \in Hosts /\ p \in Profiles
    BY <1>3 DEF AskStreamUri, Reaches, TypeOK
  <2>2. StreamUri(Header(n, a), i, p) \in UriType
    BY <2>1, StreamUriType
  <2>3. streams' \in [Nvrs -> SUBSET UriType]
    BY <1>3, <2>2 DEF AskStreamUri, TypeOK
  <2> QED BY <1>3, <2>3 DEF AskStreamUri, TypeOK
<1>4. CASE UNCHANGED vars
  BY <1>4 DEF vars, knowledge, TypeOK
<1> QED BY <1>1, <1>2, <1>3, <1>4 DEF Next

\* The variables of Onboarding keep their types.
THEOREM TypeCorrect == Spec => []TypeOK
<1> QED BY InitType, NextType, PTL DEF Spec

-----------------------------------------------------------------------------
(* Where references lead *)

LEMMA InitReferences == Init => ReferencesLeadBack
<1> SUFFICES ASSUME Init, NEW n \in Nvrs, NEW a \in addresses[n]
             PROVE  /\ a.port = Port[nvr[n].camera] /\ a.host = nvr[n].host
                    /\ a.path \in ServedAt(a.kind)
  BY DEF ReferencesLeadBack
<1>1. a = [kind |-> "device", host |-> nvr[n].host, port |-> Port[nvr[n].camera],
           path |-> "/onvif/device_service"]
  BY DEF Init
<1> QED BY <1>1 DEF ServedAt, SoapPaths

LEMMA NextReferences ==
  TypeOK /\ ReferencesLeadBack /\ [Next]_vars => ReferencesLeadBack'
<1> SUFFICES ASSUME TypeOK, ReferencesLeadBack, [Next]_vars PROVE ReferencesLeadBack'
  OBVIOUS
<1>1. nvr' = nvr
  BY DEF Next, ServersChange, Ask, AskStreamUri, vars
<1>2. CASE UNCHANGED addresses
  BY <1>1, <1>2 DEF ReferencesLeadBack, Kept
<1>3. ASSUME NEW n \in Nvrs, NEW a \in addresses[n], NEW i \in Cameras,
             NEW op \in Asked(a.kind), Ask(n, a, i, op)
      PROVE  ReferencesLeadBack'
  <2>1. a.host \in Hosts /\ Port[i] = a.port
    BY <1>3 DEF Ask, Reaches
  <2>2. SUFFICES ASSUME NEW r \in Referred(AnswerTo(a, op).content),
                        NEW b, b = Reference(r, Header(n, a), i)
                 PROVE  /\ b.port = Port[nvr[n].camera]
                        /\ Kept(n) => b.host = nvr[n].host
                        /\ b.kind \in Services \cup {"snapshot"} => b.path \in ServedAt(b.kind)
    BY <1>1, <1>3 DEF Ask, TypeOK, ReferencesLeadBack, Kept
  <2>3. b.port = Port[nvr[n].camera]
    BY <2>1, <2>2 DEF Reference, ReferencesLeadBack
  <2>4. b.kind \in Services \cup {"snapshot"} => b.path \in ServedAt(b.kind)
    BY <2>2, ReferredFit DEF Reference
  <2>5. Kept(n) => b.host = nvr[n].host
    BY <2>1, <2>2, ReferenceHost DEF Reference, ReferencesLeadBack
  <2> QED BY <2>3, <2>4, <2>5
<1> QED BY <1>2, <1>3 DEF Next, ServersChange, AskStreamUri, vars, knowledge

\* Whatever chain of answers an NVR follows, it stays on the port it was added
\* with and, if its host is kept, on that host; and every service and the snapshot
\* is served at the path it is said to be at.
THEOREM ChainsStay == Spec => []ReferencesLeadBack
<1> QED BY InitReferences, NextReferences, TypeCorrect, PTL DEF Spec

\* Every operation asked at a service is answered by its own handler or refused.
THEOREM RightHandler == Spec => []AnsweredAsAsked
<1>1. ReferencesLeadBack => AnsweredAsAsked
  <2> SUFFICES ASSUME ReferencesLeadBack, NEW n \in Nvrs, NEW a \in addresses[n],
                      a.kind \in Services, NEW op \in Asked(a.kind)
               PROVE  /\ AnswerTo(a, op) = IF op \in Operations THEN Response(op) ELSE Fault("ActionNotSupported")
                      /\ \A body \in {"cut", "garbled"} :
                           Answer(a.path, body, NamesIn(op)).status # 200
    BY DEF AnsweredAsAsked
  <2>1. a.path \in SoapPaths
    <3>1. a.kind # "snapshot"
      BY DEF Services
    <3> QED BY <3>1 DEF ReferencesLeadBack, ServedAt
  <2>2. AnswerTo(a, op) = RouteRequest(NamesIn(op))
    BY <2>1 DEF AnswerTo, Answer, HandleRequest
  <2>3. op \in Operations \/ op = "GetServiceCapabilities"
    BY DEF Asked, Services, Operations, Unsupported
  <2>4. op \in Operations => AnswerTo(a, op) = Response(op)
    BY <2>2, RouteIsNamed
  <2>5. op \notin Operations => AnswerTo(a, op) = Fault("ActionNotSupported")
    BY <2>2, <2>3, UnknownIsRefused
  <2>6. \A body \in {"cut", "garbled"} : Answer(a.path, body, NamesIn(op)).status # 200
    BY <2>1 DEF Answer, HandleRequest, Fault
  <2> QED BY <2>4, <2>5, <2>6
<1> QED BY <1>1, ChainsStay, PTL

-----------------------------------------------------------------------------
(* What is played *)

LEMMA NextStreams ==
  TypeOK /\ ReferencesLeadBack /\ StreamsOfCamera /\ [Next]_vars => StreamsOfCamera'
<1> SUFFICES ASSUME TypeOK, ReferencesLeadBack, StreamsOfCamera, [Next]_vars
             PROVE  StreamsOfCamera'
  OBVIOUS
<1>1. nvr' = nvr
  BY DEF Next, ServersChange, Ask, AskStreamUri, vars
<1>2. CASE UNCHANGED streams
  BY <1>1, <1>2 DEF StreamsOfCamera, Kept
<1>3. ASSUME NEW n \in Nvrs, NEW a \in addresses[n], NEW i \in Cameras,
             NEW p \in profiles[n], AskStreamUri(n, a, i, p)
      PROVE  StreamsOfCamera'
  <2>1. a.host \in Hosts /\ Port[i] = a.port /\ p \in Profiles
    BY <1>3 DEF AskStreamUri, Reaches, TypeOK
  <2>2. SUFFICES ASSUME NEW u, u = StreamUri(Header(n, a), i, p)
                 PROVE  /\ Port[u.camera] = Port[nvr[n].camera]
                        /\ Kept(n) => u.host = nvr[n].host
                        /\ \E st \in Streams :
                             /\ u.path = ProbedPath(Config[u.camera], st)
                             /\ st = "sub" <=> u.profile # "Profile000"
                                                 /\ Config[u.camera].SubstreamEnabled
    BY <1>1, <1>3 DEF AskStreamUri, TypeOK, StreamsOfCamera, Kept
  <2>3. u.camera = i /\ u.profile = p /\ u.host = GetHostIP(Header(n, a))
    BY <2>2 DEF StreamUri
  <2>4. Port[u.camera] = Port[nvr[n].camera]
    BY <2>1, <2>3 DEF ReferencesLeadBack
  <2>5. Kept(n) => u.host = nvr[n].host
    BY <2>1, <2>3, ReferenceHost DEF ReferencesLeadBack
  <2>6. Config[i] \in CameraConfig
    BY ConfigurationIsWhole
  <2>7. \E st \in Streams :
          /\ u.path = ProbedPath(Config[u.camera], st)
          /\ st = "sub" <=> u.profile # "Profile000" /\ Config[u.camera].SubstreamEnabled
    BY <2>1, <2>2, <2>3, <2>6, UriPathIsProbed DEF StreamUri
  <2> QED BY <2>4, <2>5, <2>7
<1> QED BY <1>2, <1>3 DEF Next, ServersChange, Ask, vars, knowledge

\* What an NVR was given to play is a stream of a camera on its port, on the path
\* that detection measures.
THEOREM PlaysItsCamera == Spec => []StreamsOfCamera
<1>1. Init => StreamsOfCamera
  BY DEF Init, StreamsOfCamera
<1> QED BY <1>1, NextStreams, TypeCorrect, ChainsStay, PTL DEF Spec

=============================================================================
