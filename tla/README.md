# A TLA+ verification of onvif-server

onvif-server impersonates ONVIF cameras: for every camera of its configuration
it serves the ONVIF device, media and event services over HTTP, fills the
answers with what `ffprobe` finds out about the camera's RTSP streams, and keeps
a virtual clock that NVRs may set.  This directory holds TLA+ models of it, the
TLC configurations that check them on small instances, and proofs, checked by
TLAPS, of the main properties for every value of the models' constants.

File names without a directory are those of `src/internal/onvif`.

## 1. Inventory

| Component | State | Operations | Interacts with |
|---|---|---|---|
| Stream detection (`stream.go`, `server.go` NewServer) | two `StreamInfo` records per server, a ticker, one goroutine per running detection | NewServer, kickAllDetections, StartDetectionRoutine, detectStreamInfo | starts `ffprobe` under a 10 s context; writes the records the media service reads |
| Sharing of the records (`stream.go`, `media.go`) | `streamInfoMu`, the words of a record | address taken under RLock, merge under Lock, copy into the reply under no lock | detections and HTTP handlers |
| Time synchronisation (`device.go`) | `timeSettings` behind `timeSettingsMu` | Set/GetSystemDateAndTime | the host's wall clock; all NVRs share one setting |
| Media service (`media.go`) | `bitrateCache` behind `bitrateMu` | GetProfiles, GetStreamUri, Get/SetVideoEncoderConfiguration | reads the records of detection; its URIs name the paths that detection probes |
| Process start and end (`main.go`, `config.go`, `metrics.go`) | configuration, listeners, the deferred flush, the signal channel | load, Init, the loops that construct and start servers, signal, flush | every other component is started here |
| WS-Discovery (`discovery.go`) | a multicast socket | join, read, log | started by main, answers nothing |
| Routing and envelopes (`server.go`, `soap.go`) | none | the paths of Start, handleRequest, routeRequest, sendSOAPResponse, sendSOAPFault | calls the handlers |
| References (`server.go`, `device.go`, `media.go`) | none | getHostIP, getBaseURL, GetCapabilities, GetServices, GetSnapshotUri | tell an NVR which paths of the routing to ask next |
| Event service (`events.go`) | none | Subscribe, CreatePullPointSubscription, GetEventProperties | names addresses of its own |
| Snapshot (`server.go`) | none | handleSnapshot | |
| WS-Security (`soap.go`) | none | validateSecurity | called by handleRequest |
| Device constants, logger, netutil, message types | none | | netutil finds the host for requests that name none |

What is hard in it, and what makes it correct:

* **Detection.**  Nothing waits for a detection, so those of different kicks
  overlap; those of NewServer and of the routine's first kick always do.  `ffprobe`
  may answer late, partly or never.  Correct means: detections do not pile up,
  what one overwrites is hardly newer than itself, every detection ends, an
  answer reaches the record of its own stream and leaves it describable.
* **Sharing.**  Records are overwritten in place, field by field, and replies
  are copied without the lock.  Correct means: merges exclude each other, no
  merge is lost, a reply is current, nobody waits for ever.
* **Time.**  Two NVRs set and read the clock concurrently, and the handlers read
  the host's clock outside the lock.  Correct means: a reply is a time the clock
  showed, and a clock that was set is read back.
* **Media.**  What a client is told of a profile depends on earlier Sets, by
  anybody.  Correct means: an acknowledged Set decides later Gets, and a profile
  is described by the stream it is played from.
* **Process.**  Parts fail one by one, and a signal may come at any time.
  Correct means: a failure takes nobody else along, cameras with a port of their
  own come up, and a signal ends the process after the flush.
* **References.**  An NVR knows one address and is referred from there, answer by
  answer, through addresses that are put together from a Host header, a
  configured port and paths written down in several places, while servers come
  and go.  Operations are told apart by names that may be parts of others.
  Correct means: every chain of references stays on the port it began with,
  services and snapshots are served where they are said to be, every operation
  reaches its own handler, and the NVR gets to record.

`PROJECT.json` lists each hazard at its line with the properties that cover it.

## 2. Modules

| Module | Models | Checked by | Proved in |
|---|---|---|---|
| `StreamInfo` | the record, an `ffprobe` answer and the merge (operators only) | through `Detection` | `StreamInfo_proof` |
| `Detection` | detection of all cameras in discrete time | `MCDetection` | `Detection_proof` |
| `Refreshing` | abstract: detection without time, kicks that come one after the other | through `Detection` | `Refreshing_proof` |
| `AtomicRecord` | abstract: merges that happen at one instant, one after the other | | |
| `StreamInfoAccess` | one record, word by word, with the read-write mutex | `MCStreamInfoAccess` | `StreamInfoAccess_proof` |
| `TimeSync` | the virtual clock of one server | `MCTimeSync` | `TimeSync_proof` |
| `StreamPaths` | which path belongs to a profile, measured or played (operators only) | through `MediaService` and `Onboarding` | `Onboarding_proof` |
| `MediaService` | bitrate map, encoder configurations, stream URIs of one server | `MCMediaService` | `MediaService_proof` |
| `Listeners` | abstract: servers that come up once and go for good | through `Onboarding` | |
| `Lifecycle` | the process from start to end | `MCLifecycle` | `Lifecycle_proof` |
| `Router` | paths, envelopes, the search for a handler (operators only) | through `Onboarding` | `Onboarding_proof` |
| `Onboarding` | NVRs that follow references while servers come and go | `MCOnboarding` | `Onboarding_proof` |

`Detection` merges an answer in one step.  That this is right although the code
stores word by word is what `StreamInfoAccess` shows: it implements
`AtomicRecord`.  What is left of `Detection` for those who read the records is
`Refreshing`, where there is no clock and a kick for a stream comes once
everything older than its last kick is over; `Detection` is shown to implement it,
although nothing in the code waits for a detection.  `MediaService` reads the
record of a stream as a whole and names it by the path it is measured on; how the
fields of one record are read is again `StreamInfoAccess`.  `Lifecycle` ends where
the other modules begin: its ConstructServer and StartRoutine are `Detection`'s
NewServer and FirstKick, its Listen is the point from which `TimeSync` and
`MediaService` serve requests. What the network sees of `Lifecycle` is
`Listeners`, which it is shown to implement; `Onboarding` takes the servers from
`Listeners`, its answers from `Router` and the paths of its stream URIs from
`StreamPaths`, which `MediaService` uses as well.

Definitions named `Fault...` are not part of any specification: each is one
action or operator with a plausible mistake in it, and the run that checks the
property named in `PROJECT.json` fails when it takes the place of the correct
one.

### Detection

`pc[d]` is the control state of the detection that kick `d[1]` starts for stream
`d[2]` of `<camera, main or sub>`: *spawned* (the `go` statement), *probing*
(`cmd.Output`), *merging* (an answer was decoded), *done*.  Kick 0 is that of
NewServer.  `routine` follows StartDetectionRoutine: *kicked* after the first
call, *waiting* in the select, *kicking* in its tick case.  `tickC` is the
ticker's channel of one element, and `Fire` drops a tick that finds it full.
Every JSON failure, an exit code and an empty list of streams are ProbeFails.

Time is discrete.  `SchedDelay` bounds how long a goroutine that can run waits
for the scheduler; `due` enforces it and the 10 s of the context.  How long the
routine takes to receive a tick that is ready is *not* bounded, so a late tick
may be followed at once by the next.  That the deadline ends `cmd.Output` holds
because `ffprobe` has no child that keeps its pipe open.  The only assumption on
the numbers is `3 * SchedDelay + ProbeTimeout < DetectionInterval`
(`TimingAssumption`), against 10 s and 10 minutes in the code.

Detections that would not be over before `Horizon`, and kicks past `MaxKicks`,
are not started: the bounds cut the end of a behaviour and nothing else.

`LastKick` and `LiveKicks` map `Detection` to `Refreshing`: a stream's last kick
is none before its camera is constructed, 0 afterwards and the routine's number
later; what is open is what is under way; the records are the same.  Clock,
ticker, channel and control states disappear, so most steps stutter.

main passes `context.Background()`, which is never done.  `Cancel` models the
context of the function's contract, which the tests cancel.

### StreamInfoAccess

Memory is words: an int is one, a string two (pointer and length), as on a
64-bit target.  `mem[w]` is the number of the merge that stored the word.  Words
are stored and loaded in any order, since nothing orders accesses that race.
`Announce`, `readers`, `holder` and `HeldBack` are `sync.RWMutex`: a writer that
has announced itself holds back new readers, and those get the lock when it
unlocks.  The mutex is shared by both records of a server; the model has one
record, and readers and writers of the other are readers and writers of the lock
alike.

`WaitsFor` is whom a goroutine that asked for the lock waits for: the readers, if
it announced itself as the writer, and the announced writer otherwise.

`record` is history, put together from the answers alone: by field, the last
merge whose answer had it.  That memory agrees with it between merges is
therefore a claim (`WholeRecord`), and the refinement of `AtomicRecord` takes
memory, not `record`, for the abstract record (`Seen`).

The debug line at `media.go:243` reads the same fields before the reply does; it
is left out, as is the debug line of a failed detection (`stream.go:80`).

### TimeSync

A Set arrives (`ReceiveSet`), parses its body, reads the host's clock and builds
the record (`ParseSet`), stores the pointer (`StoreSettings`) and answers
(`AckSet`).  A Get arrives, copies the pointer, computes and answers.  Time is
discrete; `Wall` is the host's wall clock, which `StepWallClock` may move in
either direction.  Both handlers call `UTC()` on what they read, which strips Go's
monotonic reading, so the elapsed time is a difference of wall clock readings.  A
`DateTimeType` and time zone pair is one label, taken as the pair that is shown.
Bodies have the tag the parser looks for or not (`utc`), a positive date or not
(`date`), and a base time, 0 standing for Go's zero time, which the Get takes for
no setting; one that asks for no time has `NoTime`.

Three history variables follow the Sets: `latest` is the one being served that
was the last to store, `synced` what the Set in place asked for and between which
readings of the wall clock, from its acknowledgement on, and `acked` the same for
acknowledged Sets whether or not they were stored.  `synced` is kept when the
clock is stepped later on: `RoundTrip` then says by how much the answers shift.

### MediaService

`bitrateCache` is the map; its critical sections are one step each.  `camera` has
the switches of the configuration that the handlers read.  A URI body has a
substream's StreamType or not, and mentions some of the profile names; the handler
looks for the names in a fixed order.  `heard[c]` is what client `c` holds of one
profile: the path on which the record that described it is measured, and the path
of its URI.  `current` are the Sets being served that were the last to store their
limit, by token, so that only those promise it when they are acknowledged
(`settled`).  A client that asks without naming just one profile, or by stream
type, is not taken to know whose URI it got.  Encoder tokens that belong to no
profile (GetVideoEncoderConfigurations lists one) share the code's default branch.

### Lifecycle

`main` is the program counter of main, `server[i]` the goroutine of the i-th
server.  What a file contains is reduced to what decides the control flow.
`Listen` gives a port to the first that asks; a server that gets none returns,
which is logged.  `DeniedPorts` are those the host refuses: other processes have
them, they are privileged, or they are no port numbers.  A camera without
`http_port` (`AnyPort`, 0) listens on whichever of `EphemeralPorts` is free, which
may be one that another camera names.  Errors that pass, such as a lack of file
descriptors at the very moment, are left out.  `Signal` before `Notify` ends the
process, as the Go runtime does by default; after it, the signal is put into the
channel of capacity 1.  `Flush("done")` is a collector that answers, `FlushEnds`
the 5 s deadline or the no-op.

`Listening` is the mapping to `Listeners`: a server is *down* until it listens,
*up* while it does, and *over* when it failed or the process ended.  A server
that finds its port taken goes from down to over, and the end of the process
takes all that are left in one step.

`sigCh` is the channel's one place, filled or not; `asked` says that a signal
came after `Notify`.  A signal that finds the place taken is dropped, as the Go
runtime does, and the one in the channel stands for it.

### Router

The handlers are found by the operators of this module, which have no state.  A
body is the set of operation names that occur in its text: `NamesIn(op)` is what
the name of one operation contains, `Cases` the switch in its order, and
`RouteRequest` takes the first case that occurs.  A body that breaks off, or is
no envelope, never gets that far.  `Answer` adds the mux: the SOAP paths, the
snapshot, and 404 for what Start registers no handler for.  `Response` and
`Fault` keep the status and what the answer is about, not the XML.  The check of a
security header, between the parsing and the search (`server.go:156`), is not in
`HandleRequest`: see section 6.

### Onboarding

`nvr[n]` is the camera a user adds and the host the user types; `addresses[n]`
what the NVR has been referred to, each with the service it was said to be;
`profiles[n]` and `streams[n]` what it was told of profiles and stream URIs.
`Ask` is one request together with what its answer teaches; `AskStreamUri` is
GetStreamUri for a profile it knows.  One step per request is enough, because
the handlers read the request and the configuration and nothing that changes; a
lost request or answer is then no step, and a repeated one teaches nothing new.
NVRs share no state in these handlers, so one NVR that may be of any kind
contains what several can do.

`GetHostIP` is the cut of the Host header at its first colon.  A host is a name or
address of the machine, and `Cut[h]` what the cut leaves of it: all, unless it is
an IPv6 literal, which a URL writes in brackets.  Only HTTP/1.0 allows a request
without a Host header (`sendsHost`); the process then names `rtsp_host` or the
outbound address it found at its start.  `Reference` adds the configured port.  A
request arrives if its host is one of the machine's and a server is up on its
port, whichever camera's that is: two cameras that want one port are the reason
that `StreamsOfCamera` speaks of ports.  No user adds a camera that listens on an
ephemeral port (`NvrType`), as its references all name port 0.

`ServedAt(kind)` are the paths at which a service or the snapshot is served;
`ReferencesLeadBack` demands them of services and snapshots.  The addresses of
subscriptions are served nowhere, which is what `SubscriptionsServed` and its run
are about.

Which operations an NVR asks at which kind of address (`Asked`), and that it asks
for one the server has no case for (`Unsupported`), is not in `src/`: it is the
division of ONVIF into services, marked external.

## 3. Runs

| Run | Bounds | Shows |
|---|---|---|
| `DetectionRefresh` | one stream, kicks 0 to 4, three answers, interval 5, timeout and delay 1, clock to 21 | types, the inductive invariant, no pile-up, bounded staleness, sane records, firm deadlines; refinement of `Refreshing` |
| `DetectionStreams` | one camera with both streams, kicks 0 to 2, interval 2, clock to 5 | answers reach the record of their own stream; detections end, a cancelled routine drains |
| `RecordAccess` | one request at a time, two detections, an int and a string, two merges | exclusion, no torn record and no field lost, current replies, every wait ends at a goroutine that can run, refinement of `AtomicRecord`; requests and merges complete |
| `AccessTornReply` | one request, one detection, one merge | **violated**: a reply may mix the record before a merge with that after it |
| `TimeSyncSafety` | two NVRs, three bodies, one step backwards, three instants | types, the invariant, current replies, round trip, also over a step and for Go's zero time |
| `TimeSyncPrefixed` | one NVR, a prefixed body, no step | **violated**: acknowledged and not stored |
| `TimeSyncZeroTime` | one NVR, Go's zero time, no step | **violated**: stored, acknowledged and not read back |
| `MediaStreams` | two NVRs, three configurations, six bodies, two Sets of 1024 or 1025 kbps | types, the invariant, an acknowledged Set decides, a profile is described by what it plays |
| `Lifecycle` | five cameras (two on one port, one on its own, one without `http_port`, one denied), two ephemeral ports, every file | types, the invariant, failures are contained, ports exclusive, a port of one's own is free, no signal is lost, refinement of `Listeners`; cameras come up, a signal ends the process |
| `Onboarding` | one NVR of four kinds, three cameras on two ports, each setting of the substream | types, references lead back (services and snapshot served), operations reach their handlers, streams are the camera's; the NVR gets to record |
| `OnboardingSubscription` | an NVR that uses the machine's name | **violated**: the address of a subscription is not served |
| `OnboardingRtspHost` | the same, `rtsp_host` set | **violated**: stream URIs do not name `rtsp_host` |

Why these bounds are enough.  Overlaps of detections relate at most three kicks, a
late tick and the one after it; four kicks of the routine contain every phase of
that, and the clock's 21 steps let the ticker fire four times.  A second stream
adds nothing to pacing, as streams share only the routine, so the run with both
streams has fewer kicks; more cameras are left to the proofs.  A torn reply needs
one merge and a lost update two, one waiting for the other; two merges do not make
an endless row of them, which the proof of `WaitsEnd` covers as far as safety
goes.  A string stands for the two-word fields and an int for the others.  In
`TimeSync` a property relates one Get to the Sets around it, and two clients allow
one Set to overlap a Get and two Sets to overlap each other; a step may fall
anywhere. In `MediaService` the two limits lie on either side of the comparison,
and the second Set replaces the first or overlaps it.  The five cameras of
`Lifecycle` have a clash of ports, a port that is apart, one that the kernel picks
and that may be the clashing one, and one that is refused.  The NVR of
`Onboarding` reaches the server by name, by an IPv4 address with and without a
Host header, or by an IPv6 literal, which are the cases of the cut; references of
references repeat themselves after two answers, so the state space is finite
without a bound.

The violated properties are what the repository's documentation and comments
say.  Each is listed under `findings` with the line it quotes; in short:

* replies are copied from the record without its lock;
* a `SetSystemDateAndTime` with prefixed tags is acknowledged and dropped;
* a Set to Go's zero time (1 January of year 1) is stored and acknowledged, and then
  read as no setting (`device.go:24`);
* what Subscribe and CreatePullPointSubscription announce is answered with 404
  (README.md:115 lists PullPoint);
* `rtsp_host` is not the host of stream URIs (README.md:118), as every request of
  HTTP/1.1 has a Host header; the comment at `server.go:241` documents that the
  header is preferred, so README and comment disagree.

Other behaviour to know of, which needs no run to see:

* GetProfiles lists Profile001 and Profile002 although `substream_enabled` is said
  to add them (README.md:96), and their source token is `V_SRC_000` where
  GetVideoSources lists `VideoSource_1` (`media.go:39` and `media.go:178`).
* GetVideoEncoderConfigurations answers constants, where README.md:21 says that
  `ffprobe` populates them.
* A rate below 1024 bits per second is stored as 0 kbps (`stream.go:152`).
* A limit of 1024 kbps or less for `V_ENC_CFG_000` makes its configuration describe
  the substream, which need not exist (`stream.go:216`).
* MJPEG is described as `MJPEG`, where ONVIF's name is `JPEG` (`stream.go:127`).
* A camera without `http_port` listens on an ephemeral port, and its references name
  port 0 (`server.go:100` and `server.go:238`).
* A step of the host's wall clock shifts a synced clock (`device.go:25`), and the
  settings are those of all clients, where `types_device.go:284` says "per client".
* The Host of an IPv6 literal is cut inside its brackets, so references go astray;
  `Kept` in `ReferencesLeadBack` leaves this case out.
* References name the configured port even if the request came through a mapped
  one (`server.go:238`).
* "All ONVIF servers started successfully" is logged whether or not they listen
  (`main.go:85`), and a signal before `main.go:89` skips the flush.
* Discovery probes are not replied to (README.md:126), the `h264_profile` settings
  are read by no code (README.md:95), and the configuration file is the flag
  `-config`, not an argument (README.md:44 and 53).

## 4. Fairness

* `Detection`: goroutines that can run do (weak fairness of each step), time
  passes, and the deadline of a context fires.  RoutineReturn is strongly fair:
  Go's select picks uniformly among the ready cases, so a context that is done
  is not passed over for ever.  Nothing is assumed of `ffprobe`, and nobody need
  cancel.
* `StreamInfoAccess`: the goroutines run.  Announce is strongly fair, because the
  inner `sync.Mutex`, where writers queue, hands itself over in order to one that
  has waited for a millisecond.  Requests need not come, and probes need not end.
* `Lifecycle`: main and the goroutines of the servers run, and the deadline of
  the flush comes.  Nobody need send a signal, and the collector need not answer.

* `Onboarding`: an assumption about NVRs and the network, not about the code: who
  adds a camera repeats GetCapabilities or GetServices, GetProfiles and
  GetStreamUri until an attempt of each gets through.  The handlers answer
  because none of them waits for anything.  No server need come up or stay:
  `NvrRecords` promises a stream only if it is not over first.

`TimeSync` and `MediaService` have no liveness properties of their own: their
handlers take one lock for one statement and wait for nothing.

## 5. Proofs

The theorems hold for every value of the constants that satisfies the modules'
assumptions.  They assume nothing else.

* `Detection_proof`.  *Pacing* (`[]IInv`) is by induction: a detection is over
  `Lifetime` after it was started (LifetimeInv), the ticker keeps its period
  (TickerInv), and, relative to the tick the routine will receive next, older
  detections are over in time (PaceInv).  PaceInv is needed because a late tick
  makes two kicks follow closely: what saves the system is that the tick after
  it cannot be early.  From *Pacing* follow *NoPileUp* (a live detection is of the
  last kick or the one before) and *BoundedStaleness* (the same for what it
  overwrites).  *SaneInfo* rests on lemmas of `StreamInfo_proof` about the merge.
  *OwnAnswers* needs that only streams that are enabled have detections, which
  is inductive by itself.  Two more invariants serve the rest.  *Born*: what was
  started is of a kick that has come and a camera that is constructed, so a kick
  starts nothing twice; with it, *FirmDeadlines* compares for each action the
  instant by which a detection is over before and after.  *KicksInOrder* is the
  refinement of `Refreshing`: NewServer and the routine's kicks are its kicks,
  with PaceInv for their guard; the ends of detections are its ends, and the
  rest stutters.  *Room*: a detection under way is over before `Horizon`, and a
  tick that was received finds room for its kick.  That is why the bounds of the
  runs hide nothing (*BoundsCutNothingShort*).
* `Refreshing_proof`.  The rule for kicks alone is enough for two of the promises:
  *TwoAtATime* and *OneKickBack*, from the invariant that what is open is of the
  last two kicks and what was merged is of no later one.  By *KicksInOrder* they
  hold of `Detection`, for reasons that no longer mention time.
* `StreamInfoAccess_proof`.  *Exclusion* is the inductive invariant: only the
  announced writer writes, during a merge a word is the record's or the merge's
  own, and what a request has loaded lies between the record when it took the
  address and memory now.  That invariant compares memory with what the answers
  had, field by field. *NoTornRecord*, *RegularReplies* and the refinement
  *MergesAreAtomic* follow: EndMerge is the abstract step, all others stutter.
  *NoCircularWait* (`WaitsEnd`) rests on QueueInv, that the lock's books agree
  with the goroutines: the readers counted are those in a read section, who
  announced itself waits or merges, and nobody is held back without an announced
  writer. It excludes a deadlock for any number of goroutines.
* `TimeSync_proof`.  *Consistency* has four parts: the settings a Get copied are
  among those it saw (GetInv), a Set's record is what its body asks for, stamped
  while it was served (SetInv), the Set that was the last to store has its record in
  place (LatestInv), and so has an acknowledged one, stamped within its request
  (SyncedInv).  *CurrentReplies* and *SyncAccuracy* follow; the latter says of Go's
  zero time that it reads back as no setting.
* `MediaService_proof`.  *Consistency*: acknowledged limits are those in the map,
  a Get on its way still holds the promise it arrived with, and what clients
  heard is what they would hear now.  *ReadYourWrites* and
  *DescriptionsMatchUris* follow.

* `Lifecycle_proof`.  *Consistency* has two parts: main's control state tells what
  is started and what was asked for (MainInv), and a port's owner is the server
  that listens on it, which is one the port is for (PortInv).
  *FailuresAreContained* and *OnePortOneServer* follow, and with them the
  refinement *ServersAreListeners*: Listen is ComeUp or, if no port is free for
  it, GoDown of one server; ServeFails is GoDown of one, the end of main GoDown of
  all that are left.  PortInv is needed for ComeUp, whose guard speaks of the
  other servers of a port where the code asks the port.  *OwnPortIsFree* needs
  PortInv as well: a port that is taken has an owner, a camera that may listen on
  the same one.  *SignalIsKept* adds that signals are asked for last (NotifyInv):
  between that and main's receive nothing empties the channel.
* `Onboarding_proof`.  *ChainsStay* (`ReferencesLeadBack`) is inductive with the
  types: an answer refers to the host and the port that the request came by, and
  for services and the snapshot to paths that are served.  *RightHandler* adds the
  lemma that the search finds the case of the operation that was meant, since
  cases are distinct and the longer of two names comes first.  *PlaysItsCamera*
  adds that each URI's path is one that detection measures.  No number of NVRs,
  cameras or hosts is fixed; the names of operations are those of the code.

Only model-checked: the liveness properties, which are out of the prover's reach,
being about fairness (`DetectionsFinish`, `CancelQuiesces`, `RequestsAnswered`,
`MergesComplete`, `CamerasComeUp`, `SignalEnds`, `NvrRecords`).  For five of them
what does not need fairness is a property of its own, and proved: a detection's
deadline does not recede (`DeadlinesFirm` under `DetectionsFinish`), the wait for
the lock ends at a goroutine that can run (`WaitsEnd` under `RequestsAnswered` and
`MergesComplete`), a server with a port of its own does not fail to get it
(`OwnPortListens` under `CamerasComeUp`), and a signal is there until main takes it
(`SignalNeverLost` under `SignalEnds`).  What is left to TLC is that steps which
can be taken are taken.

## 6. Not modelled

* WS-Security: a comparison of digests without state; the models start at
  requests that were let through.
* What device information, scopes, hostname, DNS and network answers contain, and
  the video and audio sources, the list and the options of encoder
  configurations: constants and configuration.  That each of these operations
  is answered by its own handler is in `Router`.
* How the outbound address is found, and that it may change while the process
  runs, which no code handles: `OutboundHost` is a constant.
* Lasting read errors of the discovery socket, on which the loop spins: the
  models have no cost in time, and the listener has no reply to be wrong.
* Default values of the configuration, logging, XML layout and the struct tags of
  the message types: data.
* The OpenTelemetry SDK: a library; only whether its Init and Shutdown succeed
  counts here.
* `getRTSPURLForToken`: no code calls it.

## 7. Plan

Done: `StreamInfo`, `Detection`, `StreamInfoAccess`, `TimeSync`, `MediaService`,
`Lifecycle`, and on it `Listeners`, `Router` and `Onboarding`; the event service
and the references are parts of `Onboarding`; `Refreshing` above `Detection`.  All
their safety properties are proved.

What could come next:

1. `MediaService` composed with `StreamInfoAccess`: the limit is looked up and
   the record read in different critical sections.
2. `TimeSync` seen by several NVRs that each expect a clock of their own.
3. `Discovery`, once the code replies to probes.
4. `Lifecycle` composed with `Onboarding` directly, instead of through `Listeners`:
   TLC gets through it only with two cameras or few kinds of file, and it would
   show nothing that the refinement leaves open.
5. The process restarted by its supervisor: what NVRs hold from before.
