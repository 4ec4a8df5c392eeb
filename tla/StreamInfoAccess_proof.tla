----------------------- MODULE StreamInfoAccess_proof -----------------------
(***************************************************************************)
(* Theorems about StreamInfoAccess, for any goroutines, any fields and any *)
(* number of merges.                                                       *)
(***************************************************************************)
EXTENDS StreamInfoAccess, TLAPS

USE ProcessesAssumption, FieldsAssumption, MergesAssumption

LEMMA WordFields == /\ \A w \in Words : FieldOf(w) \in Fields
                    /\ \A f \in Fields : <<f, 1>> \in Words /\ FieldOf(<<f, 1>>) = f
  BY DEF Words, Fields, FieldOf

LEMMA Disjoint == /\ \A d \in Detectors : d \in Processes /\ d \notin Handlers /\ d # NoOne
                  /\ \A h \in Handlers : h \in Processes /\ h \notin Detectors
  BY DEF Processes

LEMMA VersionType == \A v \in Versions : v \in Nat
  BY DEF Versions

-----------------------------------------------------------------------------
(* Type correctness *)

LEMMA InitType == Init => TypeOK
<1>1. 0 \in Versions
  BY DEF Versions
<1> QED BY <1>1 DEF Init, TypeOK, Blank

LEMMA GotoType == ASSUME TypeOK, NEW p \in Processes,
                         NEW to \in {"idle", "blocked", "holding", "reading", "probing",
                                     "locking", "announced", "writing"},
                         Goto(p, to)
                  PROVE  pc' \in [Processes -> {"idle", "blocked", "holding", "reading", "probing",
                                                "locking", "announced", "writing"}]
  BY DEF TypeOK, Goto

LEMMA NextType == TypeOK /\ [Next]_vars => TypeOK'
<1> SUFFICES ASSUME TypeOK, [Next]_vars PROVE TypeOK'
  OBVIOUS
<1> USE DEF lockVars, mergeVars, replyVars
<1>1. ASSUME NEW p \in Processes, TakeAddress(p) PROVE TypeOK'
  <2>1. readers' \subseteq Processes
    BY <1>1 DEF TypeOK, TakeAddress, RLock
  <2> QED BY <1>1, <2>1, GotoType DEF TypeOK, TakeAddress, RLock
<1>2. ASSUME NEW d \in Detectors, Detector(d) PROVE TypeOK'
  <2>1. d \in Processes
    BY Disjoint
  <2>2. CASE TakeAddress(d)
    BY <1>1, <2>1, <2>2
  <2>3. CASE DetectorHasAddress(d)
    BY <2>1, <2>3, GotoType DEF TypeOK, DetectorHasAddress
  <2>4. CASE ProbeFails(d)
    BY <2>1, <2>4, GotoType DEF TypeOK, ProbeFails
  <2>5. ASSUME NEW F \in SUBSET Fields, ProbeReturns(d, F) PROVE TypeOK'
    <3>1. answer' \in [Detectors -> SUBSET Fields]
      BY <2>5 DEF TypeOK, ProbeReturns
    <3> QED BY <2>1, <2>5, <3>1, GotoType DEF TypeOK, ProbeReturns
  <2>6. CASE Announce(d)
    BY <2>1, <2>6, GotoType DEF TypeOK, Announce
  <2>7. CASE BeginMerge(d)
    <3>1. versions + 1 \in Versions
      BY <2>7 DEF TypeOK, BeginMerge, Versions
    <3>2. version' \in [Detectors -> Versions] /\ toWrite' \in [Detectors -> SUBSET Words]
      BY <2>7, <3>1 DEF TypeOK, BeginMerge
    <3> QED BY <2>1, <2>7, <3>1, <3>2, GotoType DEF TypeOK, BeginMerge
  <2>8. ASSUME NEW w \in Words, StoreWord(d, w) PROVE TypeOK'
    <3>1. mem' \in [Words -> Versions] /\ toWrite' \in [Detectors -> SUBSET Words]
      BY <2>8 DEF TypeOK, StoreWord
    <3> QED BY <2>8, <3>1 DEF TypeOK, StoreWord
  <2>9. CASE EndMerge(d)
    <3>1. record' \in [Fields -> Versions]
      BY <2>9 DEF TypeOK, EndMerge
    <3>2. history' \subseteq [Fields -> Versions]
      BY <2>9, <3>1 DEF TypeOK, EndMerge
    <3>3. 0 \in Versions
      BY DEF Versions
    <3>4. /\ readers' \subseteq Processes
          /\ pc' \in [Processes -> {"idle", "blocked", "holding", "reading", "probing",
                                    "locking", "announced", "writing"}]
      BY <2>9 DEF TypeOK, EndMerge, Unlock, HeldBack
    <3> QED BY <2>9, <3>1, <3>2, <3>3, <3>4 DEF TypeOK, EndMerge, Unlock
  <2> QED BY <1>2, <2>2, <2>3, <2>4, <2>5, <2>6, <2>7, <2>8, <2>9 DEF Detector
<1>3. ASSUME NEW h \in Handlers, Handler(h) PROVE TypeOK'
  <2>1. h \in Processes
    BY Disjoint
  <2>2. CASE TakeAddress(h)
    BY <1>1, <2>1, <2>2
  <2>3. CASE HandlerHasAddress(h)
    <3>1. /\ since' \in [Handlers -> [Fields -> Versions]]
          /\ toRead' \in [Handlers -> SUBSET Words]
      BY <2>3 DEF TypeOK, HandlerHasAddress
    <3> QED BY <2>1, <2>3, <3>1, GotoType DEF TypeOK, HandlerHasAddress
  <2>4. ASSUME NEW w \in Words, LoadWord(h, w) PROVE TypeOK'
    <3>1. /\ got' \in [Handlers -> [Words -> Versions]]
          /\ toRead' \in [Handlers -> SUBSET Words]
      BY <2>4 DEF TypeOK, LoadWord
    <3> QED BY <2>4, <3>1 DEF TypeOK, LoadWord
  <2>5. CASE SendReply(h)
    <3>1. 0 \in Versions
      BY DEF Versions
    <3>2. /\ got' \in [Handlers -> [Words -> Versions]]
          /\ since' \in [Handlers -> [Fields -> Versions]]
      BY <2>5, <3>1 DEF TypeOK, SendReply, Blank
    <3> QED BY <2>1, <2>5, <3>2, GotoType DEF TypeOK, SendReply
  <2> QED BY <1>3, <2>2, <2>3, <2>4, <2>5 DEF Handler
<1>4. CASE UNCHANGED vars
  BY <1>4 DEF TypeOK, vars
<1> QED BY <1>2, <1>3, <1>4 DEF Next

\* Type correctness: words, versions and loaded values stay in range and the
\* lock belongs to a detection or to no one.
THEOREM TypeCorrect == Spec => []TypeOK
  BY InitType, NextType, PTL DEF Spec

-----------------------------------------------------------------------------
(* The inductive invariant *)

LEMMA InitInv == Init => IInv
<1> SUFFICES ASSUME Init PROVE IInv
  OBVIOUS
<1> USE DEF Init
<1>1. LockInv
  BY Disjoint DEF LockInv
<1>2. MergeInv
  BY WordFields DEF MergeInv, Blank
<1>3. ReplyInv
  BY Disjoint DEF ReplyInv
<1> QED BY <1>1, <1>2, <1>3 DEF IInv

\* A goroutine's step outside the write lock: it leaves the lock's owner, the
\* memory and the other goroutines alone.
LEMMA PlainStep ==
  ASSUME TypeOK, IInv, NEW p \in Processes,
         NEW to \in {"idle", "blocked", "holding", "reading", "probing", "locking"},
         Goto(p, to), pc[p] \notin {"announced", "writing"},
         UNCHANGED <<announced, holder>>
  PROVE  LockInv'
<1>1. \A q \in Processes : pc'[q] = IF q = p THEN to ELSE pc[q]
  BY DEF TypeOK, Goto
<1> QED BY <1>1, Disjoint DEF IInv, LockInv

LEMMA AnswerStep ==
  ASSUME TypeOK, IInv, NEW d \in Detectors, NEW F \in SUBSET Fields, ProbeReturns(d, F)
  PROVE  IInv'
<1>1. holder # d /\ d \in Processes
  BY Disjoint DEF ProbeReturns, IInv, LockInv
<1>2. LockInv'
  BY <1>1, PlainStep DEF ProbeReturns, lockVars
<1>3. holder # NoOne => holder \in Detectors /\ answer'[holder] = answer[holder]
  BY <1>1 DEF TypeOK, ProbeReturns
<1>4. MergeInv'
  BY <1>3 DEF IInv, MergeInv, ProbeReturns, lockVars
<1>5. ReplyInv'
  BY <1>1, Disjoint DEF TypeOK, IInv, ReplyInv, ProbeReturns, Goto, replyVars
<1> QED BY <1>2, <1>4, <1>5 DEF IInv

LEMMA BeginMergeStep ==
  ASSUME TypeOK, IInv, NEW d \in Detectors, BeginMerge(d) PROVE IInv'
<1>1. /\ d \in Processes /\ announced = d /\ holder' = d /\ announced' = announced
      /\ d # NoOne /\ versions' = versions + 1 /\ UNCHANGED <<mem, record, answer, replyVars>>
      /\ versions \in Nat
  BY Disjoint, VersionType DEF TypeOK, BeginMerge, CanLock
<1>2. \A q \in Processes : pc'[q] = IF q = d THEN "writing" ELSE pc[q]
  BY DEF TypeOK, BeginMerge, Goto
<1>3. holder = NoOne
  <2>1. \A e \in Detectors : holder = e => e = d
    BY <1>1 DEF IInv, LockInv
  <2>2. holder # d
    BY DEF BeginMerge, IInv, LockInv
  <2> QED BY <2>1, <2>2 DEF TypeOK
<1>4. LockInv'
  BY <1>1, <1>2, <1>3, Disjoint DEF IInv, LockInv
<1>5. version'[d] = versions + 1 /\ toWrite'[d] = {w \in Words : FieldOf(w) \in answer[d]}
  BY DEF TypeOK, BeginMerge
<1>6. \A w \in Words : mem[w] \in Nat /\ mem[w] = record[FieldOf(w)] /\ mem[w] <= versions
  BY <1>3, VersionType DEF TypeOK, IInv, MergeInv
<1>7. MergeInv'
  BY <1>1, <1>5, <1>6 DEF MergeInv
<1>8. ReplyInv'
  BY <1>1, <1>2, Disjoint DEF IInv, ReplyInv, replyVars
<1> QED BY <1>4, <1>7, <1>8 DEF IInv

LEMMA StoreWordStep ==
  ASSUME TypeOK, IInv, NEW d \in Detectors, NEW v \in Words, StoreWord(d, v) PROVE IInv'
<1>1. /\ d # NoOne /\ holder = d /\ version[d] = versions /\ FieldOf(v) \in answer[d]
      /\ v \in toWrite[d] /\ versions \in Nat
      /\ UNCHANGED <<pc, lockVars, versions, version, answer, record, replyVars>>
  BY Disjoint, VersionType DEF TypeOK, StoreWord, IInv, LockInv, MergeInv
<1>2. \A w \in Words : /\ mem[w] \in Nat /\ mem[w] <= versions
                       /\ mem'[w] = IF w = v THEN versions ELSE mem[w]
  BY <1>1, VersionType DEF TypeOK, StoreWord, IInv, MergeInv
<1>3. toWrite'[d] = toWrite[d] \ {v}
  BY DEF TypeOK, StoreWord
<1>4. LockInv'
  BY <1>1 DEF IInv, LockInv, lockVars
<1>5. MergeInv'
  <2>1. \A w \in Words : record[FieldOf(w)] \in Nat /\ record[FieldOf(w)] <= mem[w]
    BY WordFields, VersionType DEF TypeOK, IInv, MergeInv
  <2>2. \A w \in Words : record[FieldOf(w)] <= mem'[w] /\ mem'[w] <= versions
    BY <1>1, <1>2, <2>1
  <2>3. \A w \in Words : mem[w] = IF FieldOf(w) \in answer[d] /\ w \notin toWrite[d]
                                  THEN versions ELSE record[FieldOf(w)]
    BY <1>1 DEF IInv, MergeInv
  <2>4. \A w \in Words : mem'[w] = IF FieldOf(w) \in answer[d] /\ w \notin toWrite'[d]
                                   THEN versions ELSE record[FieldOf(w)]
    BY <1>1, <1>2, <1>3, <2>3
  <2> QED BY <1>1, <1>3, <2>2, <2>4 DEF IInv, MergeInv, lockVars
<1>6. ReplyInv'
  <2> SUFFICES ASSUME NEW h \in Handlers, pc[h] = "reading", NEW w \in Words
               PROVE  /\ since[h][FieldOf(w)] <= mem'[w]
                      /\ w \notin toRead[h] =>
                           since[h][FieldOf(w)] <= got[h][w] /\ got[h][w] <= mem'[w]
    BY <1>1 DEF ReplyInv, replyVars
  <2>1. since[h][FieldOf(w)] \in Nat /\ got[h][w] \in Nat
    BY WordFields, VersionType DEF TypeOK
  <2>2. mem[w] <= mem'[w] /\ mem'[w] \in Nat
    BY <1>1, <1>2
  <2> QED BY <1>2, <2>1, <2>2 DEF IInv, ReplyInv
<1> QED BY <1>4, <1>5, <1>6 DEF IInv

\* What a merge leaves: its own fields, and the others as they were.
LEMMA MergedRecord ==
  ASSUME TypeOK, IInv, NEW d \in Detectors, EndMerge(d)
  PROVE  /\ holder = d /\ d # NoOne /\ versions \in Nat /\ versions > 0
         /\ \A f \in Fields : record'[f] = IF f \in answer[d] THEN versions ELSE record[f]
         /\ \A w \in Words : mem[w] = record'[FieldOf(w)]
<1>1. holder = d /\ d # NoOne /\ toWrite[d] = {}
  BY Disjoint DEF EndMerge, IInv, LockInv
<1>2. versions \in Nat /\ versions > 0
  BY <1>1, VersionType DEF TypeOK, IInv, MergeInv
<1>3. \A w \in Words : mem[w] = IF FieldOf(w) \in answer[d] THEN versions ELSE record[FieldOf(w)]
  BY <1>1 DEF IInv, MergeInv
<1>4. version[d] = versions
  BY <1>1 DEF IInv, MergeInv
<1>5. \A f \in Fields : record'[f] = IF f \in answer[d] THEN versions ELSE record[f]
  BY <1>4 DEF EndMerge
<1> QED BY <1>1, <1>2, <1>3, <1>5, WordFields

LEMMA EndMergeStep ==
  ASSUME TypeOK, IInv, NEW d \in Detectors, EndMerge(d) PROVE IInv'
<1>1. /\ holder = d /\ holder' = NoOne /\ announced' = NoOne
      /\ UNCHANGED <<mem, versions, replyVars>>
  BY MergedRecord DEF EndMerge, Unlock
<1>2. \A q \in Processes : pc'[q] = IF q = d THEN "idle"
                                    ELSE IF pc[q] = "blocked" THEN "holding" ELSE pc[q]
  BY DEF EndMerge, Unlock, HeldBack
<1>3. \A e \in Detectors : e # d => pc[e] \notin {"announced", "writing"}
  BY <1>1, Disjoint DEF EndMerge, IInv, LockInv
<1>4. LockInv'
  BY <1>1, <1>2, <1>3, Disjoint DEF IInv, LockInv
<1>5. \A w \in Words : mem[w] = record'[FieldOf(w)] /\ mem[w] \in Nat /\ mem[w] <= versions
  BY MergedRecord, VersionType DEF TypeOK, IInv, MergeInv
<1>6. MergeInv'
  BY <1>1, <1>5 DEF MergeInv
<1>7. ReplyInv'
  <2>1. \A h \in Handlers : pc'[h] = "reading" => pc[h] = "reading"
    BY <1>2, Disjoint
  <2> QED BY <1>1, <2>1 DEF IInv, ReplyInv, replyVars
<1> QED BY <1>4, <1>6, <1>7 DEF IInv

LEMMA TakeAddressStep ==
  ASSUME TypeOK, IInv, NEW p \in Processes, TakeAddress(p) PROVE IInv'
<1>1. /\ pc[p] = "idle"
      /\ Goto(p, "holding") \/ Goto(p, "blocked")
      /\ UNCHANGED <<announced, holder, mergeVars, replyVars>>
  BY DEF TakeAddress, RLock
<1>2. pc[p] \notin {"announced", "writing"}
  BY DEF TakeAddress
<1>3. LockInv'
  BY <1>1, <1>2, PlainStep DEF TakeAddress
<1>4. MergeInv'
  BY <1>1 DEF IInv, MergeInv, mergeVars
<1>5. \A q \in Processes : pc'[q] = "reading" => pc[q] = "reading"
  BY <1>1 DEF TypeOK, Goto
<1>6. ReplyInv'
  BY <1>1, <1>5, Disjoint DEF IInv, ReplyInv, replyVars, mergeVars
<1> QED BY <1>3, <1>4, <1>6 DEF IInv

LEMMA DetectorInv ==
  ASSUME TypeOK, IInv, NEW d \in Detectors, Detector(d) PROVE IInv'
<1>1. d \in Processes
  BY Disjoint
<1>2. ASSUME UNCHANGED <<announced, holder, mergeVars, replyVars>>,
             pc[d] \notin {"announced", "writing"},
             Goto(d, "probing") \/ Goto(d, "idle")
      PROVE  IInv'
  <2>1. LockInv'
    BY <1>1, <1>2, PlainStep
  <2>2. \A q \in Processes : pc'[q] = "reading" => pc[q] = "reading"
    BY <1>2 DEF TypeOK, Goto
  <2>3. MergeInv' /\ ReplyInv'
    BY <1>2, <2>2, Disjoint DEF IInv, MergeInv, ReplyInv, mergeVars, replyVars
  <2> QED BY <2>1, <2>3 DEF IInv
<1>3. CASE DetectorHasAddress(d) \/ ProbeFails(d)
  BY <1>2, <1>3 DEF DetectorHasAddress, ProbeFails, lockVars
<1>4. CASE Announce(d)
  <2>1. announced = NoOne /\ announced' = d /\ UNCHANGED <<holder, mergeVars, replyVars>>
    BY <1>4 DEF Announce
  <2>2. \A q \in Processes : pc'[q] = IF q = d THEN "announced" ELSE pc[q]
    BY <1>4 DEF TypeOK, Announce, Goto
  <2>3. pc[d] = "locking" /\ \A e \in Detectors : pc[e] \notin {"announced", "writing"}
    BY <1>4, <2>1, Disjoint DEF Announce, IInv, LockInv
  <2>4. LockInv'
    BY <2>1, <2>2, <2>3, Disjoint DEF IInv, LockInv
  <2>5. MergeInv' /\ ReplyInv'
    BY <2>1, <2>2, Disjoint DEF IInv, MergeInv, ReplyInv, mergeVars, replyVars
  <2> QED BY <2>4, <2>5 DEF IInv
<1> QED BY <1>1, <1>3, <1>4, TakeAddressStep, AnswerStep, BeginMergeStep, StoreWordStep,
           EndMergeStep DEF Detector

LEMMA HandlerInv ==
  ASSUME TypeOK, IInv, NEW h \in Handlers, Handler(h) PROVE IInv'
<1>1. h \in Processes
  BY Disjoint
<1>2. CASE TakeAddress(h)
  BY <1>1, <1>2, TakeAddressStep
<1>3. CASE HandlerHasAddress(h)
  <2>1. LockInv' /\ MergeInv'
    BY <1>1, <1>3, PlainStep DEF HandlerHasAddress, IInv, MergeInv, mergeVars
  <2>2. /\ toRead'[h] = Words /\ since'[h] = record
        /\ \A g \in Handlers : g # h => toRead'[g] = toRead[g] /\ since'[g] = since[g] /\ pc'[g] = pc[g]
    BY <1>1, <1>3, Disjoint DEF TypeOK, HandlerHasAddress, Goto
  <2>3. ReplyInv'
    BY <1>3, <2>2 DEF HandlerHasAddress, IInv, ReplyInv, MergeInv, mergeVars
  <2> QED BY <2>1, <2>3 DEF IInv
<1>4. ASSUME NEW v \in Words, LoadWord(h, v) PROVE IInv'
  <2>1. UNCHANGED <<pc, lockVars, mergeVars, since>>
    BY <1>4 DEF LoadWord
  <2>2. LockInv' /\ MergeInv'
    BY <2>1 DEF IInv, LockInv, MergeInv, lockVars, mergeVars
  <2>3. /\ \A g \in Handlers : g # h => toRead'[g] = toRead[g] /\ got'[g] = got[g]
        /\ toRead'[h] = toRead[h] \ {v}
        /\ \A w \in Words : got'[h][w] = IF w = v THEN mem[v] ELSE got[h][w]
    BY <1>4 DEF TypeOK, LoadWord
  <2>4. mem[v] \in Nat
    BY VersionType DEF TypeOK
  <2>5. ReplyInv'
    BY <2>1, <2>3, <2>4 DEF IInv, ReplyInv, mergeVars
  <2> QED BY <2>2, <2>5 DEF IInv
<1>5. CASE SendReply(h)
  <2>1. LockInv' /\ MergeInv'
    BY <1>1, <1>5, PlainStep DEF SendReply, Replied, lockVars, IInv, MergeInv, mergeVars
  <2>2. \A g \in Handlers : /\ pc'[g] = "reading" => g # h /\ pc[g] = "reading"
                            /\ g # h => got'[g] = got[g] /\ since'[g] = since[g]
    BY <1>1, <1>5, Disjoint DEF TypeOK, SendReply, Goto
  <2>3. ReplyInv'
    BY <1>5, <2>2 DEF SendReply, IInv, ReplyInv, mergeVars
  <2> QED BY <2>1, <2>3 DEF IInv
<1> QED BY <1>2, <1>3, <1>4, <1>5 DEF Handler

\* Merges exclude each other, only move the record forward, and requests only
\* fall behind it.
THEOREM Exclusion == Spec => []IInv
<1>1. TypeOK /\ IInv /\ [Next]_vars => IInv'
  <2> SUFFICES ASSUME TypeOK, IInv, [Next]_vars PROVE IInv'
    OBVIOUS
  <2>1. CASE UNCHANGED vars
    BY <2>1 DEF vars, lockVars, mergeVars, replyVars, IInv, LockInv, MergeInv, ReplyInv
  <2> QED BY <2>1, DetectorInv, HandlerInv DEF Next
<1> QED BY <1>1, InitInv, TypeCorrect, PTL DEF Spec

-----------------------------------------------------------------------------
(* What follows from it *)

\* Outside a merge no string is torn and every word is the last record's.
THEOREM NoTornRecord == Spec => []WholeRecord
<1>1. IInv => WholeRecord
  BY DEF IInv, MergeInv, WholeRecord
<1> QED BY <1>1, Exclusion, PTL

\* A reply's words lie between the record at the request and the record now.
THEOREM RegularReplies == Spec => []ReplyInWindow
<1>1. IInv => ReplyInWindow
  BY DEF IInv, ReplyInv, ReplyInWindow
<1> QED BY <1>1, Exclusion, PTL

\* A merge is one indivisible, serial update of the record, as Detection has
\* it: the end of the merge is the abstract step, all others stutter.
THEOREM MergesAreAtomic == Spec => ImplementsAtomicRecord
<1> DEFINE lastBar == IF holder = NoOne THEN versions ELSE versions - 1
<1>1. Init => Atomic!Init
  BY WordFields DEF Init, Seen, Atomic!Init
<1>2. TypeOK /\ IInv /\ TypeOK' /\ IInv' /\ [Next]_vars => [Atomic!Next]_<<Seen, lastBar>>
  <2> SUFFICES ASSUME TypeOK, IInv, TypeOK', IInv', [Next]_vars
               PROVE  Atomic!Next \/ UNCHANGED <<Seen, lastBar>>
    OBVIOUS
  <2>1. Seen = record /\ Seen' = record'
    <3>1. \A f \in Fields : /\ holder = NoOne => mem[<<f, 1>>] = record[f]
                            /\ holder' = NoOne => mem'[<<f, 1>>] = record'[f]
      BY WordFields DEF IInv, MergeInv
    <3>2. /\ record = [f \in Fields |-> record[f]]
          /\ record' = [f \in Fields |-> record'[f]]
      BY DEF TypeOK
    <3>3. /\ Seen = [f \in Fields |-> record[f]]
          /\ Seen' = [f \in Fields |-> record'[f]]
      BY <3>1 DEF Seen
    <3> QED BY <3>2, <3>3
  <2>2. ASSUME NEW d \in Detectors, EndMerge(d) PROVE Atomic!Next
    <3>1. /\ holder = d /\ d # NoOne /\ versions \in Nat /\ versions > 0
          /\ \A f \in Fields : record'[f] = IF f \in answer[d] THEN versions ELSE record[f]
      BY <2>2, MergedRecord
    <3>2. holder' = NoOne /\ versions' = versions /\ versions <= MaxMerges
      BY <2>2 DEF EndMerge, Unlock, TypeOK, Versions
    <3>3. lastBar = versions - 1 /\ lastBar' = versions /\ lastBar + 1 = versions
      BY <3>1, <3>2
    <3>4. record' = [f \in Fields |-> IF f \in answer[d] THEN versions ELSE record[f]]
      BY <3>1 DEF TypeOK
    <3>5. answer[d] \in SUBSET Fields
      BY DEF TypeOK
    <3>6. Atomic!MergeFields(answer[d])
      BY <2>1, <3>1, <3>2, <3>3, <3>4 DEF Atomic!MergeFields
    <3> QED BY <3>5, <3>6 DEF Atomic!Next
  <2>3. ASSUME NEW d \in Detectors, BeginMerge(d) PROVE UNCHANGED <<Seen, lastBar>>
    <3>1. versions \in Nat /\ versions' = versions + 1 /\ holder' = d /\ d # NoOne /\ record' = record
      BY <2>3, VersionType, Disjoint DEF TypeOK, BeginMerge
    <3>2. holder = NoOne
      <4>1. \A e \in Detectors : holder = e => e = d
        BY <2>3 DEF BeginMerge, CanLock, IInv, LockInv
      <4>2. holder # d
        BY <2>3 DEF BeginMerge, IInv, LockInv
      <4> QED BY <4>1, <4>2 DEF TypeOK
    <3> QED BY <2>1, <3>1, <3>2
  <2>4. CASE UNCHANGED <<record, versions, holder>>
    BY <2>4, <2>1
  <2> QED BY <2>2, <2>3, <2>4
       DEF Next, Detector, Handler, TakeAddress, DetectorHasAddress, ProbeFails, ProbeReturns,
           Announce, StoreWord, HandlerHasAddress, LoadWord, SendReply, vars, lockVars, mergeVars
<1> QED BY <1>1, <1>2, TypeCorrect, Exclusion, PTL DEF Spec, ImplementsAtomicRecord, Atomic!Spec

-----------------------------------------------------------------------------
(* Waiting at the lock *)

\* The lock's books agree with the goroutines: it counts exactly the goroutines
\* inside a read section, none of them during a merge; who announced itself is
\* waiting or merging, and only an announced writer holds goroutines back.
QueueInv ==
  /\ readers = {p \in Processes : pc[p] = "holding"}
  /\ holder # NoOne => readers = {}
  /\ announced # NoOne => pc[announced] \in {"announced", "writing"}
  /\ HeldBack # {} => announced # NoOne

\* A step that moves one goroutine, to and from where it is not a writer and
\* is not held back, and that books it as a reader exactly in its read section.
LEMMA ReaderStep ==
  ASSUME TypeOK, LockInv, QueueInv, NEW p \in Processes,
         NEW to \in {"idle", "holding", "reading", "probing", "locking"},
         pc[p] \notin {"announced", "writing"},
         to = "holding" => holder = NoOne,
         Goto(p, to), UNCHANGED <<announced, holder>>,
         readers' = IF to = "holding" THEN readers \cup {p} ELSE readers \ {p}
  PROVE  QueueInv'
<1>1. \A q \in Processes : pc'[q] = IF q = p THEN to ELSE pc[q]
  BY DEF TypeOK, Goto
<1>2. readers' = {q \in Processes : pc'[q] = "holding"}
  BY <1>1 DEF QueueInv
<1>3. announced # NoOne => announced \in Processes /\ announced # p
  BY Disjoint DEF TypeOK, QueueInv
<1>4. announced' # NoOne => pc'[announced'] \in {"announced", "writing"}
  BY <1>1, <1>3 DEF QueueInv
<1>5. HeldBack' \subseteq HeldBack
  BY <1>1 DEF HeldBack
<1> QED BY <1>2, <1>4, <1>5 DEF QueueInv

LEMMA TakeAddressQueue ==
  ASSUME TypeOK, LockInv, QueueInv, NEW p \in Processes, TakeAddress(p) PROVE QueueInv'
<1>1. UNCHANGED <<announced, holder>> /\ pc[p] = "idle"
  BY DEF TakeAddress
<1>2. CASE announced = NoOne
  <2>1. holder = NoOne
    BY <1>2, Disjoint DEF TypeOK, LockInv
  <2> QED BY <1>1, <1>2, <2>1, ReaderStep DEF TakeAddress, RLock
<1>3. CASE announced # NoOne
  <2>1. Goto(p, "blocked") /\ readers' = readers
    BY <1>3 DEF TakeAddress, RLock
  <2>2. \A q \in Processes : pc'[q] = IF q = p THEN "blocked" ELSE pc[q]
    BY <2>1 DEF TypeOK, Goto
  <2>3. announced \in Processes /\ announced # p
    BY <1>1, <1>3, Disjoint DEF TypeOK, QueueInv
  <2> QED BY <1>1, <1>3, <2>1, <2>2, <2>3 DEF QueueInv
<1> QED BY <1>2, <1>3

LEMMA WriterQueue ==
  ASSUME TypeOK, LockInv, QueueInv, NEW d \in Detectors,
         Announce(d) \/ BeginMerge(d) \/ EndMerge(d)
  PROVE  QueueInv'
<1>1. d \in Processes /\ d # NoOne
  BY Disjoint
<1>2. CASE Announce(d)
  <2>1. \A q \in Processes : pc'[q] = IF q = d THEN "announced" ELSE pc[q]
    BY <1>2 DEF TypeOK, Announce, Goto
  <2>2. pc[d] = "locking" /\ announced' = d /\ UNCHANGED <<readers, holder>>
    BY <1>2 DEF Announce
  <2> QED BY <1>1, <2>1, <2>2 DEF QueueInv
<1>3. CASE BeginMerge(d)
  <2>1. \A q \in Processes : pc'[q] = IF q = d THEN "writing" ELSE pc[q]
    BY <1>3 DEF TypeOK, BeginMerge, Goto
  <2>2. /\ pc[d] = "announced" /\ announced = d /\ readers = {}
        /\ UNCHANGED <<readers, announced>>
    BY <1>3 DEF BeginMerge, CanLock
  <2> QED BY <1>1, <2>1, <2>2 DEF QueueInv
<1>4. CASE EndMerge(d)
  <2>1. \A q \in Processes : pc'[q] = IF q = d THEN "idle"
                                      ELSE IF pc[q] = "blocked" THEN "holding" ELSE pc[q]
    BY <1>4 DEF EndMerge, Unlock, HeldBack
  <2>2. holder = d /\ pc[d] = "writing" /\ holder' = NoOne /\ announced' = NoOne
    BY <1>4 DEF EndMerge, Unlock, LockInv
  <2>3. \A q \in Processes : pc[q] # "holding"
    BY <1>1, <2>2 DEF QueueInv
  <2>4. readers' = {q \in Processes : pc'[q] = "holding"}
    BY <1>4, <2>1, <2>2, <2>3 DEF EndMerge, Unlock, HeldBack
  <2>5. HeldBack' = {}
    BY <2>1 DEF HeldBack
  <2> QED BY <2>2, <2>4, <2>5 DEF QueueInv
<1> QED BY <1>2, <1>3, <1>4

LEMMA NextQueue == TypeOK /\ LockInv /\ QueueInv /\ [Next]_vars => QueueInv'
<1> SUFFICES ASSUME TypeOK, LockInv, QueueInv, [Next]_vars PROVE QueueInv'
  OBVIOUS
<1>1. ASSUME NEW p \in Processes, pc[p] \in {"probing", "reading"},
             NEW to \in {"idle", "locking"}, Goto(p, to), UNCHANGED lockVars
      PROVE  QueueInv'
  <2>1. readers \ {p} = readers
    BY <1>1 DEF QueueInv
  <2> QED BY <1>1, <2>1, ReaderStep DEF lockVars
<1>2. ASSUME NEW d \in Detectors, Detector(d) PROVE QueueInv'
  <2>1. d \in Processes
    BY Disjoint
  <2>2. CASE DetectorHasAddress(d)
    BY <2>1, <2>2, ReaderStep DEF DetectorHasAddress
  <2>3. CASE ProbeFails(d)
    BY <1>1, <2>1, <2>3 DEF ProbeFails
  <2>4. ASSUME NEW F, ProbeReturns(d, F) PROVE QueueInv'
    BY <1>1, <2>1, <2>4 DEF ProbeReturns
  <2>5. ASSUME NEW w, StoreWord(d, w) PROVE QueueInv'
    BY <2>5 DEF StoreWord, lockVars, QueueInv, HeldBack
  <2> QED BY <1>2, <2>1, <2>2, <2>3, <2>4, <2>5, TakeAddressQueue, WriterQueue DEF Detector
<1>3. ASSUME NEW h \in Handlers, Handler(h) PROVE QueueInv'
  <2>1. h \in Processes
    BY Disjoint
  <2>2. CASE HandlerHasAddress(h)
    BY <2>1, <2>2, ReaderStep DEF HandlerHasAddress
  <2>3. ASSUME NEW w, LoadWord(h, w) PROVE QueueInv'
    BY <2>3 DEF LoadWord, lockVars, QueueInv, HeldBack
  <2>4. CASE SendReply(h)
    BY <1>1, <2>1, <2>4 DEF SendReply, Replied
  <2> QED BY <1>3, <2>1, <2>2, <2>3, <2>4, TakeAddressQueue DEF Handler
<1>4. CASE UNCHANGED vars
  BY <1>4 DEF vars, lockVars, QueueInv, HeldBack
<1> QED BY <1>2, <1>3, <1>4 DEF Next

\* No lost wake-up and no circle of waiting goroutines, whatever the number of
\* requests and detections: every wait ends at a goroutine that can run.
THEOREM NoCircularWait == Spec => []WaitsEnd
<1>1. Init => QueueInv
  BY Disjoint DEF Init, QueueInv, HeldBack
<1>2. TypeOK /\ QueueInv => WaitsEnd
  <2> SUFFICES ASSUME TypeOK, QueueInv, NEW p \in Processes
               PROVE  /\ pc[p] = "blocked" => WaitsFor(p) # {}
                      /\ \A q \in WaitsFor(p) :
                           \/ InCriticalSection(q)
                           \/ pc[q] = "announced" /\ \A r \in WaitsFor(q) : InCriticalSection(r)
    BY DEF WaitsEnd
  <2>1. \A r \in readers : InCriticalSection(r)
    BY DEF QueueInv, InCriticalSection
  <2>2. announced # NoOne => \/ InCriticalSection(announced)
                            \/ /\ pc[announced] = "announced"
                               /\ \A r \in WaitsFor(announced) : InCriticalSection(r)
    BY <2>1 DEF QueueInv, InCriticalSection, WaitsFor
  <2>3. pc[p] = "blocked" => announced # NoOne
    BY DEF QueueInv, HeldBack
  <2>4. WaitsFor(p) \subseteq readers \/ WaitsFor(p) = {announced} \ {NoOne}
    BY DEF WaitsFor
  <2>5. pc[p] = "blocked" => WaitsFor(p) = {announced} \ {NoOne}
    BY DEF WaitsFor
  <2> QED BY <2>1, <2>2, <2>3, <2>4, <2>5
<1>3. IInv => LockInv
  BY DEF IInv
<1> QED BY <1>1, <1>2, <1>3, NextQueue, TypeCorrect, Exclusion, PTL DEF Spec

=============================================================================
