------------------------------ MODULE ClientLog -----------------------------
(***************************************************************************)
(* The diagnostics pipe of one tab (apps/web/src/diagnostics/): events are *)
(* queued, a timer posts them in batches to POST /api/v1/log, and losses   *)
(* are reported on the same pipe.                                          *)
(*                                                                         *)
(* An entry is its number and its kind; the text of an event, its level    *)
(* and the category the server writes it under are left out.  A "refused"  *)
(* entry is one the schema rejects (a key binding of the user longer than  *)
(* the field allows), and with it its whole batch.                         *)
(***************************************************************************)
EXTENDS Naturals, Sequences, SequencesExt

CONSTANTS
  MaxQueue,      \* the batcher's bounds (logDiag.ts: 1000 and 100)
  MaxBatch,
  MaxEntries,    \* bound: events of the page
  MaxLogRetries  \* bound: posts that fail

ASSUME ClientLogAssumption ==
  {MaxQueue, MaxBatch} \subseteq Nat \ {0} /\ {MaxEntries, MaxLogRetries} \subseteq Nat

VARIABLES
  logQueue,    \* entries waiting, oldest first
  dropped,     \* entries dropped and not yet reported
  posting,     \* the flush under way: its batch and the answer
  pipe,        \* [off: the server said so, timer: the flush timer runs]
  serverLog,   \* entries the server wrote, in order
  counters,    \* [seq: the next number, made: events, retries]
  tally        \* history: [reported: entries reported as dropped, refused: numbers in refused batches]

logVars == <<logQueue, dropped, posting, pipe, serverLog, counters, tally>>

EventKinds == {"milestone", "refused"}

LogEntry == [seq: Nat, kind: EventKinds \cup {"logsDropped", "logTransportError"}, count: Nat]

NoPost == [at |-> "idle", batch |-> <<>>, result |-> "none"]

FirstOf(entries, n) == SubSeq(entries, 1, IF n < Len(entries) THEN n ELSE Len(entries))
RestOf(entries, n) == SubSeq(entries, n + 1, Len(entries))

NumbersIn(entries) == {entries[i].seq : i \in 1 .. Len(entries)}

Excess(entries) == IF Len(entries) > MaxQueue THEN Len(entries) - MaxQueue ELSE 0

(* trim: the queue within its bound, the oldest entries dropped, and       *)
(* counted.                                                                *)
LogQueued(entries) ==
  LET over == Excess(entries)
  IN  logQueue' = RestOf(entries, over) /\ dropped' = dropped + over

(* logDiag: an event gets the next number; nothing is queued once off. *)
LogEvent(kind) ==
  /\ counters.made < MaxEntries
  /\ counters' = [counters EXCEPT !.seq = @ + 1, !.made = @ + 1]
  /\ IF pipe.off THEN UNCHANGED <<logQueue, dropped>>
     ELSE LogQueued(Append(logQueue, [seq |-> counters.seq, kind |-> kind, count |-> 0]))
  /\ UNCHANGED <<posting, pipe, serverLog, tally>>

(* drainDroppedReport: what was dropped is reported ahead of the rest. *)
Drained ==
  IF dropped = 0 THEN logQueue
  ELSE <<[seq |-> counters.seq, kind |-> "logsDropped", count |-> dropped]>> \o logQueue

(* flush, by the timer or when the page is hidden: one post at a time.     *)
(* With the pipe off nothing is sent and the timer stops.                  *)
FlushLogs ==
  /\ pipe.timer
  /\ \/ /\ ~pipe.off /\ posting = NoPost /\ Drained # <<>>
        /\ posting' = [at |-> "sent", batch |-> FirstOf(Drained, MaxBatch), result |-> "none"]
        /\ logQueue' = RestOf(Drained, MaxBatch)
        /\ dropped' = 0
        /\ counters' = [counters EXCEPT !.seq = IF dropped = 0 THEN @ ELSE @ + 1]
        /\ tally' = [tally EXCEPT !.reported = @ + dropped]
        /\ UNCHANGED pipe
     \/ /\ pipe.off
        /\ pipe' = [pipe EXCEPT !.timer = FALSE]
        /\ UNCHANGED <<posting, logQueue, dropped, counters, tally>>
  /\ UNCHANGED serverLog

(* The route writes a valid batch in its order, refuses any other whole,   *)
(* and says if logging is off (which a restart may change).                *)
ServeLogs ==
  /\ posting.at = "sent"
  /\ LET refused == \E i \in 1 .. Len(posting.batch) : posting.batch[i].kind = "refused"
     IN  /\ serverLog' = IF refused THEN serverLog ELSE serverLog \o posting.batch
         /\ \E result \in (IF refused THEN {"poison"} ELSE {"ok", "disabled"}) :
              posting' = [posting EXCEPT !.at = "answered", !.result = result]
  /\ UNCHANGED <<logQueue, dropped, pipe, counters, tally>>

(* The request or its answer is lost, or the server fails. *)
PostFails ==
  /\ posting.at # "idle" /\ posting.result # "retry" /\ counters.retries < MaxLogRetries
  /\ posting' = [posting EXCEPT !.at = "answered", !.result = "retry"]
  /\ counters' = [counters EXCEPT !.retries = @ + 1]
  /\ UNCHANGED <<logQueue, dropped, pipe, serverLog, tally>>

(* Mutant: a batch to be retried is queued again at the end. *)
RetriedLast(batch) == logQueue \o batch

(* Mutant: a batch to be retried displaces entries that nobody counts. *)
RetriedUncounted(batch) == FirstOf(batch \o logQueue, MaxQueue)

(* A batch to be retried goes back to the front. *)
Retried(batch) == batch \o logQueue

SettleLogs ==
  /\ posting.at = "answered"
  /\ posting' = NoPost
  /\ CASE posting.result = "ok" -> UNCHANGED <<logQueue, dropped, pipe, counters, tally>>
       [] posting.result = "retry" -> LogQueued(Retried(posting.batch)) /\ UNCHANGED <<pipe, counters, tally>>
       [] posting.result = "poison" ->
            /\ LogQueued(Append(logQueue, [seq |-> counters.seq, kind |-> "logTransportError", count |-> 0]))
            /\ counters' = [counters EXCEPT !.seq = @ + 1]
            /\ tally' = [tally EXCEPT !.refused = @ \cup NumbersIn(posting.batch)]
            /\ UNCHANGED pipe
       [] posting.result = "disabled" ->
            /\ pipe' = [pipe EXCEPT !.off = TRUE]
            /\ logQueue' = <<>>
            /\ UNCHANGED <<dropped, counters, tally>>
  /\ UNCHANGED serverLog

ClientLogInit ==
  /\ logQueue = <<>> /\ dropped = 0 /\ posting = NoPost
  /\ pipe = [off |-> FALSE, timer |-> TRUE]
  /\ serverLog = <<>>
  /\ counters = [seq |-> 0, made |-> 0, retries |-> 0]
  /\ tally = [reported |-> 0, refused |-> {}]

ClientLogNext ==
  \/ \E kind \in EventKinds : LogEvent(kind)
  \/ FlushLogs \/ ServeLogs \/ PostFails \/ SettleLogs

ClientLogSpec == ClientLogInit /\ [][ClientLogNext]_logVars

-----------------------------------------------------------------------------
ClientLogTypeOK ==
  /\ {logQueue, posting.batch, serverLog} \subseteq Seq(LogEntry)
  /\ Len(logQueue) <= MaxQueue /\ Len(posting.batch) <= MaxBatch
  /\ posting.at \in {"idle", "sent", "answered"} /\ dropped \in Nat
  /\ counters.seq >= counters.made

(* No entry is lost in silence while the pipe is on: a number that is      *)
(* neither waiting, under way nor written was refused with its batch, or   *)
(* is counted as dropped, also when a retry pushes entries or an earlier   *)
(* report out (createBatcher: "explicit loss reporting").                  *)
DropsAccounted ==
  ~pipe.off =>
    LET kept == NumbersIn(logQueue) \cup NumbersIn(posting.batch) \cup NumbersIn(serverLog) \cup tally.refused
    IN  Cardinality((0 .. counters.seq - 1) \ kept) <= dropped + tally.reported

(* The server writes the events for the first time in the order in which   *)
(* they happened, whatever is retried, dropped or refused: one post at a   *)
(* time, retried at the front.                                             *)
LoggedInOrder ==
  \A i, j \in 1 .. Len(serverLog) :
    /\ i < j /\ serverLog[i].kind \in EventKinds /\ serverLog[j].kind \in EventKinds
    /\ serverLog[j].seq < serverLog[i].seq
    => \E k \in 1 .. i - 1 : serverLog[k] = serverLog[j]
=============================================================================
