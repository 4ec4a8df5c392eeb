----------------------------- MODULE Refreshing -----------------------------
(***************************************************************************)
(* What detection promises to whoever reads the records, without a word     *)
(* about time: the records are refreshed in kicks, and a kick for a stream  *)
(* begins only once everything older than its last kick is over.  Detection *)
(* implements this specification because of its timeout, its ticker and     *)
(* the scheduler; nothing in the code waits for a detection.                *)
(***************************************************************************)
EXTENDS StreamInfo

CONSTANTS
  Streams, \* the streams of all cameras
  Enabled, \* those whose detections are started
  Initial, \* Initial[s] is the record a stream begins with
  Answers  \* what ffprobe may answer

VARIABLES
  last,    \* last[s]: the last kick for the stream, -1 before the first
  open,    \* open[s]: the kicks whose detection of the stream is under way
  stopped, \* no kick comes any more
  record,  \* record[s]
  writer   \* writer[s]: the last kick merged into the record, -1 for none

vars == <<last, open, stopped, record, writer>>

Init ==
  /\ last = [s \in Streams |-> -1]
  /\ open = [s \in Streams |-> {}]
  /\ stopped = FALSE
  /\ record = Initial
  /\ writer = [s \in Streams |-> -1]

\* The next kick for the streams in S: at most the last one is still under way.
Kick(S) ==
  /\ ~stopped
  /\ \A s \in S : open[s] \subseteq {last[s]}
  /\ last' = [s \in Streams |-> IF s \in S THEN last[s] + 1 ELSE last[s]]
  /\ open' = [s \in Streams |-> IF s \in S \cap Enabled THEN open[s] \cup {last[s] + 1}
                                ELSE open[s]]
  /\ UNCHANGED <<stopped, record, writer>>

Close(s, k) ==
  /\ k \in open[s]
  /\ open' = [open EXCEPT ![s] = @ \ {k}]
  /\ UNCHANGED <<last, stopped>>

\* A detection ends without an answer.
GiveUp(s, k) == Close(s, k) /\ UNCHANGED <<record, writer>>

\* It merges an answer into the record of its own stream.
Refresh(s, k, answer) ==
  /\ Close(s, k)
  /\ record' = [record EXCEPT ![s] = MergeProbe(@, answer)]
  /\ writer' = [writer EXCEPT ![s] = k]

Stop == stopped' = TRUE /\ UNCHANGED <<last, open, record, writer>>

Next ==
  \/ \E S \in SUBSET Streams : Kick(S)
  \/ \E s \in Streams : \E k \in open[s] :
       GiveUp(s, k) \/ \E answer \in Answers : Refresh(s, k, answer)
  \/ Stop

Spec == Init /\ [][Next]_vars

=============================================================================
