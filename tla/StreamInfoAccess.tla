-------------------------- MODULE StreamInfoAccess --------------------------
(***************************************************************************)
(* How goroutines share the StreamInfo record of one stream.               *)
(*                                                                         *)
(* Detections and HTTP handlers take the record's address under the read   *)
(* lock of streamInfoMu and release it.  A detection that has an answer    *)
(* takes the write lock and overwrites the fields of the answer in place.  *)
(* handleGetVideoEncoderConfiguration copies the fields into its reply     *)
(* through the address, with no lock held.                                 *)
(*                                                                         *)
(* Memory is words: an int is one, a string is two, its data pointer and   *)
(* its length.  Loads and stores of a word are indivisible, those of       *)
(* different words happen in any order.  A word holds the number of the    *)
(* merge that wrote it.                                                    *)
(***************************************************************************)
EXTENDS Naturals, FiniteSets

CONSTANTS
  Handlers,     \* goroutines of net/http that run the handler, again and again
  Detectors,    \* detection goroutines; a finished one stands for the next
  IntFields,    \* Width, Height, FrameRate, BitRate
  StringFields, \* Codec, Profile
  MaxMerges,    \* bound: merges
  NoOne

ASSUME ProcessesAssumption ==
  /\ Handlers \cap Detectors = {}
  /\ NoOne \notin Handlers \cup Detectors

ASSUME FieldsAssumption == IntFields \cap StringFields = {}

ASSUME MergesAssumption == MaxMerges \in Nat

Processes == Handlers \cup Detectors
Fields == IntFields \cup StringFields
Words == (Fields \X {1}) \cup (StringFields \X {2})
FieldOf(w) == w[1]
Versions == 0..MaxMerges

VARIABLES
  pc,       \* control state of every goroutine
  readers,  \* streamInfoMu: goroutines with the read lock
  announced,\* streamInfoMu: the writer that holds back new readers
  holder,   \* streamInfoMu: the goroutine with the write lock
  mem,      \* the record's words
  versions, \* merges begun
  version,  \* the number of a detector's merge
  answer,   \* the fields a detector's answer has
  toWrite,  \* the words a detector has still to store
  toRead,   \* the words a handler has still to load
  got,      \* what a handler has loaded
  record,   \* history: by field, the last merge whose answer had it
  history,  \* history: every value of record
  since     \* history: record when a handler took the address

lockVars == <<readers, announced, holder>>
mergeVars == <<mem, versions, version, answer, toWrite, record, history>>
replyVars == <<toRead, got, since>>
vars == <<pc, lockVars, mergeVars, replyVars>>

Blank == [f \in Fields |-> 0]

TypeOK ==
  /\ pc \in [Processes -> {"idle", "blocked", "holding", "reading", "probing",
                           "locking", "announced", "writing"}]
  /\ readers \subseteq Processes
  /\ announced \in Detectors \cup {NoOne} /\ holder \in Detectors \cup {NoOne}
  /\ mem \in [Words -> Versions]
  /\ versions \in Versions
  /\ version \in [Detectors -> Versions]
  /\ answer \in [Detectors -> SUBSET Fields]
  /\ toWrite \in [Detectors -> SUBSET Words]
  /\ toRead \in [Handlers -> SUBSET Words]
  /\ got \in [Handlers -> [Words -> Versions]]
  /\ record \in [Fields -> Versions]
  /\ history \subseteq [Fields -> Versions]
  /\ since \in [Handlers -> [Fields -> Versions]]

Init ==
  /\ pc = [p \in Processes |-> "idle"]
  /\ readers = {} /\ announced = NoOne /\ holder = NoOne
  /\ mem = [w \in Words |-> 0]
  /\ versions = 0
  /\ version = [d \in Detectors |-> 0]
  /\ answer = [d \in Detectors |-> {}]
  /\ toWrite = [d \in Detectors |-> {}]
  /\ toRead = [h \in Handlers |-> {}]
  /\ got = [h \in Handlers |-> [w \in Words |-> 0]]
  /\ record = Blank /\ history = {Blank}
  /\ since = [h \in Handlers |-> Blank]

Goto(p, to) == pc' = [pc EXCEPT ![p] = to]

-----------------------------------------------------------------------------
(* sync.RWMutex: a writer that has announced itself holds back new readers,  *)
(* and the readers it held back get the lock before the next writer.         *)

RLock(p) ==
  IF announced = NoOne
  THEN Goto(p, "holding") /\ readers' = readers \cup {p}
  ELSE Goto(p, "blocked") /\ UNCHANGED readers

\* Fault: the merge takes the lock whoever else has it.
FaultSharedLock(d) ==
  /\ pc[d] = "locking"
  /\ announced' = d
  /\ Goto(d, "announced")
  /\ UNCHANGED <<readers, holder, mergeVars, replyVars>>

Announce(d) ==
  /\ pc[d] = "locking" /\ announced = NoOne
  /\ announced' = d
  /\ Goto(d, "announced")
  /\ UNCHANGED <<readers, holder, mergeVars, replyVars>>

CanLock(d) == announced = d /\ readers = {}

HeldBack == {p \in Processes : pc[p] = "blocked"}

\* Fault: the goroutine ends without unlocking.
FaultNoUnlock(d) ==
  /\ Goto(d, "idle")
  /\ UNCHANGED lockVars

\* Hands the lock to the held-back readers; the unlocking goroutine ends.
Unlock(d) ==
  /\ holder' = NoOne /\ announced' = NoOne
  /\ readers' = HeldBack
  /\ pc' = [p \in Processes |-> IF p = d THEN "idle"
                                ELSE IF p \in HeldBack THEN "holding" ELSE pc[p]]

-----------------------------------------------------------------------------
(* Taking the address, in getStreamInfoForToken and in detectStreamInfo *)

TakeAddress(p) ==
  /\ pc[p] = "idle"
  /\ RLock(p)
  /\ UNCHANGED <<announced, holder, mergeVars, replyVars>>

DetectorHasAddress(d) ==
  /\ pc[d] = "holding"
  /\ readers' = readers \ {d}
  /\ Goto(d, "probing")
  /\ UNCHANGED <<announced, holder, mergeVars, replyVars>>

\* Fault: the handler ends without releasing the read lock.
FaultNoRUnlock(h) ==
  /\ pc[h] = "holding"
  /\ Goto(h, "reading")
  /\ toRead' = [toRead EXCEPT ![h] = Words]
  /\ since' = [since EXCEPT ![h] = record]
  /\ UNCHANGED <<lockVars, mergeVars, got>>

HandlerHasAddress(h) ==
  /\ pc[h] = "holding"
  /\ readers' = readers \ {h}
  /\ Goto(h, "reading")
  /\ toRead' = [toRead EXCEPT ![h] = Words]
  /\ since' = [since EXCEPT ![h] = record]
  /\ UNCHANGED <<announced, holder, mergeVars, got>>

-----------------------------------------------------------------------------
(* Detections *)

ProbeFails(d) ==
  /\ pc[d] = "probing"
  /\ Goto(d, "idle")
  /\ UNCHANGED <<lockVars, mergeVars, replyVars>>

\* Detections with an answer that have not begun to merge it.
Mergers == {d \in Detectors : pc[d] \in {"locking", "announced"}}

ProbeReturns(d, F) ==
  /\ pc[d] = "probing" /\ versions + Cardinality(Mergers) < MaxMerges
  /\ Goto(d, "locking")
  /\ answer' = [answer EXCEPT ![d] = F]
  /\ UNCHANGED <<lockVars, mem, versions, version, toWrite, record, history, replyVars>>

\* Fault: the record is zeroed before the answer's fields are filled in.
FaultZeroFirst(d) ==
  /\ pc[d] = "announced" /\ CanLock(d)
  /\ versions < MaxMerges
  /\ holder' = d
  /\ Goto(d, "writing")
  /\ versions' = versions + 1
  /\ version' = [version EXCEPT ![d] = versions + 1]
  /\ mem' = [w \in Words |-> 0]
  /\ toWrite' = [toWrite EXCEPT ![d] = {w \in Words : FieldOf(w) \in answer[d]}]
  /\ UNCHANGED <<readers, announced, answer, record, history, replyVars>>

BeginMerge(d) ==
  /\ pc[d] = "announced" /\ CanLock(d)
  /\ versions < MaxMerges
  /\ holder' = d
  /\ Goto(d, "writing")
  /\ versions' = versions + 1
  /\ version' = [version EXCEPT ![d] = versions + 1]
  /\ toWrite' = [toWrite EXCEPT ![d] = {w \in Words : FieldOf(w) \in answer[d]}]
  /\ UNCHANGED <<readers, announced, mem, answer, record, history, replyVars>>

StoreWord(d, w) ==
  /\ pc[d] = "writing" /\ w \in toWrite[d]
  /\ mem' = [mem EXCEPT ![w] = version[d]]
  /\ toWrite' = [toWrite EXCEPT ![d] = @ \ {w}]
  /\ UNCHANGED <<pc, lockVars, versions, version, answer, record, history, replyVars>>

EndMerge(d) ==
  /\ pc[d] = "writing" /\ toWrite[d] = {}
  /\ Unlock(d)
  /\ record' = [f \in Fields |-> IF f \in answer[d] THEN version[d] ELSE record[f]]
  /\ history' = history \cup {record'}
  /\ answer' = [answer EXCEPT ![d] = {}]
  /\ version' = [version EXCEPT ![d] = 0]
  /\ UNCHANGED <<mem, versions, toWrite, replyVars>>

-----------------------------------------------------------------------------
(* Requests *)

LoadWord(h, w) ==
  /\ pc[h] = "reading" /\ w \in toRead[h]
  /\ got' = [got EXCEPT ![h][w] = mem[w]]
  /\ toRead' = [toRead EXCEPT ![h] = @ \ {w}]
  /\ UNCHANGED <<pc, lockVars, mergeVars, since>>

Replied(h) == pc[h] = "reading" /\ toRead[h] = {}

SendReply(h) ==
  /\ Replied(h)
  /\ Goto(h, "idle")
  /\ got' = [got EXCEPT ![h] = [w \in Words |-> 0]]
  /\ since' = [since EXCEPT ![h] = Blank]
  /\ UNCHANGED <<lockVars, mergeVars, toRead>>

Detector(d) ==
  \/ TakeAddress(d) \/ DetectorHasAddress(d)
  \/ ProbeFails(d) \/ \E F \in SUBSET Fields : ProbeReturns(d, F)
  \/ Announce(d) \/ BeginMerge(d)
  \/ \E w \in Words : StoreWord(d, w)
  \/ EndMerge(d)

Handler(h) ==
  \/ TakeAddress(h) \/ HandlerHasAddress(h)
  \/ \E w \in Words : LoadWord(h, w)
  \/ SendReply(h)

Next == (\E d \in Detectors : Detector(d)) \/ (\E h \in Handlers : Handler(h))

Spec == Init /\ [][Next]_vars

(***************************************************************************)
(* The goroutines run, and sync.Mutex, which the writers queue at, hands   *)
(* itself over in order once somebody waits too long: strong fairness.     *)
(* Not assumed: that requests come or that a probe ends.                   *)
(***************************************************************************)
Fairness ==
  /\ \A d \in Detectors :
       /\ WF_vars(DetectorHasAddress(d)) /\ SF_vars(Announce(d)) /\ WF_vars(BeginMerge(d))
       /\ WF_vars(\E w \in Words : StoreWord(d, w)) /\ WF_vars(EndMerge(d))
  /\ \A h \in Handlers :
       /\ WF_vars(HandlerHasAddress(h)) /\ WF_vars(\E w \in Words : LoadWord(h, w))
       /\ WF_vars(SendReply(h))

FairSpec == Spec /\ Fairness

-----------------------------------------------------------------------------
(* The inductive invariant *)

\* Only the holder of the lock merges.
LockInv ==
  /\ \A d \in Detectors : pc[d] \in {"announced", "writing"} => announced = d
  /\ \A d \in Detectors : pc[d] = "writing" <=> holder = d
  /\ \A h \in Handlers : pc[h] \notin {"announced", "writing"}

\* During a merge a word is the record's, or the merge's own once stored.
MergeInv ==
  /\ \A w \in Words : record[FieldOf(w)] <= mem[w] /\ mem[w] <= versions
  /\ holder = NoOne => \A w \in Words : mem[w] = record[FieldOf(w)]
  /\ holder # NoOne =>
       /\ version[holder] = versions /\ versions > 0
       /\ \A w \in Words :
            mem[w] = IF FieldOf(w) \in answer[holder] /\ w \notin toWrite[holder]
                     THEN versions ELSE record[FieldOf(w)]
       /\ \A w \in toWrite[holder] : FieldOf(w) \in answer[holder]

\* A request's view of the record only falls behind.
ReplyInv == \A h \in Handlers : pc[h] = "reading" => \A w \in Words :
  /\ since[h][FieldOf(w)] <= mem[w]
  /\ w \notin toRead[h] => since[h][FieldOf(w)] <= got[h][w] /\ got[h][w] <= mem[w]

\* Merges exclude each other and only move the record forward: what the
\* properties below rest on.
IInv == LockInv /\ MergeInv /\ ReplyInv

-----------------------------------------------------------------------------
(* Properties *)

\* Whenever no detection is inside its merge, every word of a field is that of
\* the last merge whose answer had the field: no string has the pointer of one
\* merge and the length of another, no field of an answer is lost to another
\* detection, and none is touched by a merge whose answer lacks it.
WholeRecord == holder = NoOne => \A w \in Words : mem[w] = record[FieldOf(w)]

\* The record to whoever looks under the lock: memory, but for a merge under way.
Seen == [f \in Fields |-> IF holder = NoOne THEN mem[<<f, 1>>] ELSE record[f]]

\* Merges are atomic to whoever looks under the lock, and serial.
Atomic == INSTANCE AtomicRecord
            WITH record <- Seen, last <- IF holder = NoOne THEN versions ELSE versions - 1
ImplementsAtomicRecord == Atomic!Spec

\* What a handler loads is never older than the record was when it took the
\* address and never newer than the record is: an overlapping merge can only
\* replace fields by its own, and an untouched record is replied as it is.
ReplyInWindow == \A h \in Handlers, w \in Words :
  pc[h] = "reading" /\ w \notin toRead[h] =>
    since[h][FieldOf(w)] <= got[h][w] /\ got[h][w] <= mem[w]

\* Whom a goroutine waits for: held back, and a merge behind another, for the
\* writer; the writer for the readers.
WaitsFor(p) == CASE pc[p] = "announced" -> readers
                 [] pc[p] \in {"blocked", "locking"} -> {announced} \ {NoOne}
                 [] OTHER -> {}

InCriticalSection(p) == pc[p] \in {"holding", "writing"}

\* Nobody waits on everybody and no wake-up is lost: whoever is held back waits
\* for somebody, and who waits, waits for goroutines inside a critical section,
\* which wait for nothing, or for a writer that itself waits only for such.
WaitsEnd == \A p \in Processes :
  /\ pc[p] = "blocked" => WaitsFor(p) # {}
  /\ \A q \in WaitsFor(p) :
       \/ InCriticalSection(q)
       \/ pc[q] = "announced" /\ \A r \in WaitsFor(q) : InCriticalSection(r)

\* Merges do not keep requests waiting for ever.
RequestsAnswered == \A h \in Handlers : pc[h] # "idle" ~> pc[h] = "idle"

\* Requests do not keep a merge waiting for ever, however many there are.
MergesComplete == \A d \in Detectors : pc[d] = "locking" ~> pc[d] = "idle"

\* The record as the merge under way will leave it.
Merged == [f \in Fields |->
  IF holder # NoOne /\ f \in answer[holder] THEN versions ELSE record[f]]

\* The reply describes the live stream as one probe after another left it: it
\* is one of the values the record ever had, or is about to have.
ReplyIsOneRecord == \A h \in Handlers :
  Replied(h) => \E r \in history \cup {Merged} : \A w \in Words : got[h][w] = r[FieldOf(w)]

=============================================================================
