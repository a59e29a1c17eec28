------------------------------ MODULE EventLog ------------------------------
(***************************************************************************)
(* The durable event log of factory.ai: the write-behind queue between the *)
(* synchronous bus and Postgres, the single drain that serves it and the   *)
(* transcript queue, and the readers that flush before they query          *)
(* (src/src/db.ts 448-715, 798-960, 1018-1034, 1225-1410).                 *)
(*                                                                         *)
(* Node runs one callback at a time, so code between two awaits is one     *)
(* step.  The drain awaits one INSERT at a time; readers use other         *)
(* connections of the pool, so a query runs at any moment between.  An     *)
(* INSERT ends well, fails ("lost"), or takes effect and then fails        *)
(* ("late": the connection went after the commit).                         *)
(***************************************************************************)
EXTENDS Integers, Sequences, FiniteSets

CONSTANTS Readers,        \* callers of getTelemetry and of the budget gate
          Nobody,         \* no reader
          EventBatch,     \* EVENT_BATCH
          MaxQueued,      \* MAX_QUEUED_EVENTS
          RowBatch,       \* TRANSCRIPT_BATCH
          MaxQueuedRows,  \* MAX_QUEUED_TRANSCRIPTS, the byte budget included
          Poison,         \* the transcript rows that Postgres never stores
          Deliveries,     \* the events that are run_finished; others run_stage_finished
          Failures,       \* how a call may fail, of {"lost", "late"}
          MaxWork         \* a bound of the model: events, rows, calls and failures together

ASSUME Bounds ==
  /\ EventBatch \in Nat \ {0} /\ RowBatch \in Nat \ {0}
  /\ MaxQueued \in Nat \ {0} /\ MaxQueuedRows \in Nat
  /\ MaxWork \in Nat
ASSUME NobodyReads == Nobody \notin Readers
ASSUME FailureKinds == Failures \subseteq {"lost", "late"}

VARIABLES
  emitted,   \* lastSeq of the bus
  queue,     \* the events accepted and not taken by the drain
  writing,   \* what the drain awaits an INSERT of: "none" is draining = null
  batch,     \* the events or transcript rows of that INSERT
  attempt,   \* 1 the first, 2 the retry, 3 row by row
  dropped,   \* the events counted by droppedEvents
  healthy,   \* writeHealthy
  gen,       \* flushGeneration
  log,       \* the events table; an id is a position
  appended,  \* how many transcript rows were appended
  rows,      \* transcriptQueue
  stored,    \* the stage_transcript table
  lostRows,  \* the rows given up after their own INSERT failed, and ...
  refused,   \* ... those the full queue refused: droppedTranscripts counts both
  pc,        \* what each reader awaits
  asked,     \* how many events had been emitted at its call
  got,       \* the ids its computation has counted so far
  mark,      \* the watermark its computation has read
  follows,   \* whose computation it has adopted
  slot,      \* telemetryInFlight
  cache,     \* telemetryCache
  missed,    \* history: events emitted before a question that its answer did not count
  calls,     \* how many times readers have called
  faults     \* how many INSERTs and queries have failed

eventVars  == <<emitted, dropped, healthy, gen, log>>
rowVars    == <<appended, stored, lostRows, refused>>
drainVars  == <<queue, writing, batch, attempt, rows>>
readerVars == <<pc, asked, got, mark, follows, slot, cache, missed, calls>>
vars == <<eventVars, rowVars, drainVars, readerVars, faults>>

Elems(s)    == {s[i] : i \in DOMAIN s}
Least(a, b) == IF a < b THEN a ELSE b
Front(s, n) == SubSeq(s, 1, Least(n, Len(s)))
Rest(s, n)  == SubSeq(s, n + 1, Len(s))

WorkLeft == emitted + appended + calls + faults < MaxWork

NoSlot  == [gen |-> -1, by |-> Nobody]
NoCache == [mark |-> -1, ids |-> {}]

Init ==
  /\ emitted = 0 /\ dropped = {} /\ healthy = TRUE /\ gen = 0 /\ log = <<>>
  /\ appended = 0 /\ stored = {} /\ lostRows = {} /\ refused = {}
  /\ queue = <<>> /\ rows = <<>> /\ writing = "none" /\ batch = <<>> /\ attempt = 1
  /\ pc = [r \in Readers |-> "idle"]
  /\ asked = [r \in Readers |-> 0]
  /\ got = [r \in Readers |-> {}]
  /\ mark = [r \in Readers |-> 0]
  /\ follows = [r \in Readers |-> Nobody]
  /\ slot = NoSlot /\ cache = NoCache /\ missed = {}
  /\ calls = 0 /\ faults = 0

(***************************************************************************)
(* The writer.                                                             *)
(***************************************************************************)

\* Mutant of DrainLoop: the queue is emptied, not spliced.
DrainLoopClears(q, rs) ==
  /\ attempt' = 1
  /\ \/ /\ q # <<>>
        /\ writing' = "events" /\ batch' = Front(q, EventBatch)
        /\ queue' = <<>> /\ rows' = rs
     \/ /\ q = <<>> /\ rs # <<>>
        /\ writing' = "rows" /\ batch' = Front(rs, RowBatch)
        /\ rows' = Rest(rs, RowBatch) /\ queue' = q
     \/ /\ q = <<>> /\ rs = <<>>
        /\ writing' = "none" /\ batch' = <<>> /\ queue' = q /\ rows' = rs

\* One turn of the loop in drain(), with q and rs queued: events first.
DrainLoop(q, rs) ==
  /\ attempt' = 1
  /\ \/ /\ q # <<>>
        /\ writing' = "events" /\ batch' = Front(q, EventBatch)
        /\ queue' = Rest(q, EventBatch) /\ rows' = rs
     \/ /\ q = <<>> /\ rs # <<>>
        /\ writing' = "rows" /\ batch' = Front(rs, RowBatch)
        /\ rows' = Rest(rs, RowBatch) /\ queue' = q
     \/ /\ q = <<>> /\ rs = <<>>
        /\ writing' = "none" /\ batch' = <<>> /\ queue' = q /\ rows' = rs

\* Queue and kick the drain, which returns at once if it is under way.
Kick(q, rs) ==
  \/ writing = "none" /\ DrainLoop(q, rs)
  \/ writing # "none" /\ queue' = q /\ rows' = rs /\ UNCHANGED <<writing, batch, attempt>>

\* Mutant of Emit: a full queue drops its oldest event for the new one.
EmitDropsOldest ==
  /\ WorkLeft
  /\ emitted' = emitted + 1
  /\ \/ /\ Len(queue) < MaxQueued
        /\ Kick(Append(queue, emitted + 1), rows)
        /\ UNCHANGED dropped
     \/ /\ Len(queue) >= MaxQueued
        /\ dropped' = dropped \union {Head(queue)}
        /\ Kick(Append(Tail(queue), emitted + 1), rows)
  /\ UNCHANGED <<healthy, gen, log, rowVars, readerVars, faults>>

\* bus.emit reaches enqueue.
Emit ==
  /\ WorkLeft
  /\ emitted' = emitted + 1
  /\ \/ /\ Len(queue) < MaxQueued
        /\ Kick(Append(queue, emitted + 1), rows)
        /\ UNCHANGED dropped
     \/ /\ Len(queue) >= MaxQueued
        /\ dropped' = dropped \union {emitted + 1}
        /\ UNCHANGED drainVars
  /\ UNCHANGED <<healthy, gen, log, rowVars, readerVars, faults>>

\* appendStageTranscript, for a row within the cap of its stage.
AppendRow ==
  /\ WorkLeft
  /\ appended' = appended + 1
  /\ \/ /\ Len(rows) < MaxQueuedRows
        /\ Kick(queue, Append(rows, appended + 1))
        /\ UNCHANGED refused
     \/ /\ Len(rows) >= MaxQueuedRows
        /\ refused' = refused \union {appended + 1}
        /\ UNCHANGED drainVars
  /\ UNCHANGED <<stored, lostRows, eventVars, readerVars, faults>>

Fault == WorkLeft /\ faults' = faults + 1

EventsLand ==
  /\ writing = "events"
  /\ log' = log \o batch
  /\ healthy' = TRUE /\ gen' = gen + 1
  /\ DrainLoop(queue, rows)
  /\ UNCHANGED <<emitted, dropped, rowVars, readerVars, faults>>

EventsFail ==
  /\ writing = "events"
  /\ Fault
  /\ \E f \in Failures : log' = IF f = "late" THEN log \o batch ELSE log
  /\ \/ /\ attempt = 1 /\ attempt' = 2
        /\ UNCHANGED <<dropped, healthy, queue, writing, batch, rows>>
     \/ /\ attempt = 2
        /\ dropped' = dropped \union Elems(batch) /\ healthy' = FALSE
        /\ DrainLoop(queue, rows)
  /\ UNCHANGED <<emitted, gen, rowVars, readerVars>>

RowsLand ==
  /\ writing = "rows" /\ attempt < 3 /\ Elems(batch) \intersect Poison = {}
  /\ stored' = stored \union Elems(batch)
  /\ DrainLoop(queue, rows)
  /\ UNCHANGED <<appended, lostRows, refused, eventVars, readerVars, faults>>

RowsFail ==
  /\ writing = "rows" /\ attempt < 3
  /\ \/ Elems(batch) \intersect Poison # {} /\ UNCHANGED <<stored, faults>>
     \/ /\ Elems(batch) \intersect Poison = {}
        /\ Fault
        /\ \E f \in Failures :
             stored' = IF f = "late" THEN stored \union Elems(batch) ELSE stored
  /\ attempt' = attempt + 1
  /\ UNCHANGED <<queue, writing, batch, rows, appended, lostRows, refused, eventVars, readerVars>>

\* The fallback: one INSERT per row, so that a bad row takes no neighbour with it.
RowByRow ==
  /\ writing = "rows" /\ attempt = 3
  /\ \/ /\ Head(batch) \notin Poison
        /\ stored' = stored \union {Head(batch)}
        /\ UNCHANGED <<lostRows, faults>>
     \/ /\ Head(batch) \in Poison
        /\ lostRows' = lostRows \union {Head(batch)}
        /\ UNCHANGED <<stored, faults>>
     \/ /\ Head(batch) \notin Poison
        /\ Fault
        /\ \E f \in Failures :
             stored' = IF f = "late" THEN stored \union {Head(batch)} ELSE stored
        /\ lostRows' = lostRows \union {Head(batch)}
  /\ \/ Len(batch) = 1 /\ DrainLoop(queue, rows)
     \/ Len(batch) > 1 /\ batch' = Tail(batch) /\ UNCHANGED <<queue, rows, writing, attempt>>
  /\ UNCHANGED <<appended, refused, eventVars, readerVars>>

(***************************************************************************)
(* The readers.                                                            *)
(***************************************************************************)

\* flushEvents has nothing to wait for.
Flushed == writing = "none" /\ queue = <<>> /\ rows = <<>>

Ids == 1 .. Len(log)

\* getTelemetry is called, or the tick finds the gate open and goes on to the budget.
Call(r, purpose) ==
  /\ pc[r] = "idle" /\ WorkLeft
  /\ calls' = calls + 1
  /\ pc' = [pc EXCEPT ![r] = purpose]
  /\ asked' = [asked EXCEPT ![r] = emitted]
  /\ UNCHANGED <<got, mark, follows, slot, cache, missed, eventVars, rowVars, drainVars, faults>>

AskTelemetry(r) == Call(r, "flush")
GateOpens(r)    == healthy /\ Call(r, "gated")

\* r and those that adopted its computation are served, and it leaves the slot.
Serve(r) ==
  LET served == {r} \union {s \in Readers : pc[s] = "adopt" /\ follows[s] = r}
  IN  /\ pc' = [s \in Readers |-> IF s \in served THEN "idle" ELSE pc[s]]
      /\ asked' = [s \in Readers |-> IF s \in served THEN 0 ELSE asked[s]]
      /\ got' = [got EXCEPT ![r] = {}]
      /\ mark' = [mark EXCEPT ![r] = 0]
      /\ follows' = [s \in Readers |-> IF s \in served THEN Nobody ELSE follows[s]]
      /\ slot' = IF slot.by = r THEN NoSlot ELSE slot

Answer(r, ids) ==
  /\ Serve(r)
  /\ missed' = missed \union {e \in 1 .. emitted : /\ \A i \in ids : log[i] # e
                                                 /\ \E s \in Readers : e =< asked[s] /\ asked'[s] = 0}

\* Mutant of Adopt: any computation under way is adopted, however old.
AdoptAny(r) ==
  /\ pc[r] = "flush" /\ Flushed
  /\ slot.by # Nobody
  /\ pc' = [pc EXCEPT ![r] = "adopt"]
  /\ follows' = [follows EXCEPT ![r] = slot.by]
  /\ UNCHANGED <<asked, got, mark, slot, cache, missed, calls, eventVars, rowVars, drainVars, faults>>

\* After its flush a caller adopts a computation that began at its generation or later.
Adopt(r) ==
  /\ pc[r] = "flush" /\ Flushed
  /\ slot.gen >= gen
  /\ pc' = [pc EXCEPT ![r] = "adopt"]
  /\ follows' = [follows EXCEPT ![r] = slot.by]
  /\ UNCHANGED <<asked, got, mark, slot, cache, missed, calls, eventVars, rowVars, drainVars, faults>>

Compute(r) ==
  /\ pc[r] = "flush" /\ Flushed
  /\ slot.gen < gen
  /\ slot' = [gen |-> gen, by |-> r]
  /\ pc' = [pc EXCEPT ![r] = "mark"]
  /\ UNCHANGED <<asked, got, mark, follows, cache, missed, calls, eventVars, rowVars, drainVars, faults>>

\* The watermark query; a cached aggregate of that watermark is the answer.
ReadMark(r) ==
  /\ pc[r] = "mark"
  /\ \/ /\ cache.mark = Len(log)
        /\ Answer(r, cache.ids)
     \/ /\ cache.mark # Len(log)
        /\ mark' = [mark EXCEPT ![r] = Len(log)]
        /\ pc' = [pc EXCEPT ![r] = "stages"]
        /\ UNCHANGED <<asked, got, follows, slot, missed>>
  /\ UNCHANGED <<cache, calls, eventVars, rowVars, drainVars, faults>>

ScanStages(r) ==
  /\ pc[r] = "stages"
  /\ got' = [got EXCEPT ![r] = {i \in Ids : log[i] \notin Deliveries}]
  /\ pc' = [pc EXCEPT ![r] = "runs"]
  /\ UNCHANGED <<asked, mark, follows, slot, cache, missed, calls, eventVars, rowVars, drainVars, faults>>

ScanRuns(r) ==
  /\ pc[r] = "runs"
  /\ LET ids == got[r] \union {i \in Ids : log[i] \in Deliveries}
     IN  /\ Answer(r, ids)
         /\ cache' = IF mark[r] >= cache.mark THEN [mark |-> mark[r], ids |-> ids] ELSE cache
  /\ UNCHANGED <<calls, eventVars, rowVars, drainVars, faults>>

\* The reads of the weekly budget, each after its own flush.
BudgetFlush(r) ==
  /\ pc[r] = "gated" /\ Flushed
  /\ pc' = [pc EXCEPT ![r] = "budget"]
  /\ UNCHANGED <<asked, got, mark, follows, slot, cache, missed, calls, eventVars, rowVars, drainVars, faults>>

BudgetQuery(r) ==
  /\ pc[r] = "budget"
  /\ Answer(r, Ids)
  /\ UNCHANGED <<cache, calls, eventVars, rowVars, drainVars, faults>>

\* A query is rejected: its callers get no answer.
QueryFails(r) ==
  /\ pc[r] \in {"mark", "stages", "runs", "budget"}
  /\ Fault
  /\ Serve(r)
  /\ UNCHANGED <<cache, missed, calls, eventVars, rowVars, drainVars>>

Write ==
  \/ EventsLand
  \/ EventsFail
  \/ RowsLand
  \/ RowsFail
  \/ RowByRow

Read(r) ==
  \/ Adopt(r)
  \/ Compute(r)
  \/ ReadMark(r)
  \/ ScanStages(r)
  \/ ScanRuns(r)
  \/ BudgetFlush(r)
  \/ BudgetQuery(r)
  \/ QueryFails(r)

Next ==
  \/ Emit
  \/ AppendRow
  \/ Write
  \/ \E r \in Readers : AskTelemetry(r) \/ GateOpens(r) \/ Read(r)

\* Each INSERT and query has a deadline at the server; the chains of awaits go on.
Fairness == WF_vars(Write) /\ \A r \in Readers : WF_vars(Read(r))

Spec == Init /\ [][Next]_vars /\ Fairness

(***************************************************************************)
(* Properties.                                                             *)
(***************************************************************************)

\* The events accepted and not yet written: pendingEventWrites counts them.
Pending == (IF writing = "events" THEN batch ELSE <<>>) \o queue

\* The variables of the writer, the readers and the transcripts range over what the
\* code declares for them.
TypeOK ==
  /\ emitted \in Nat /\ dropped \subseteq 1 .. emitted /\ healthy \in BOOLEAN
  /\ gen \in Nat /\ log \in Seq(1 .. emitted)
  /\ appended \in Nat /\ stored \subseteq 1 .. appended
  /\ lostRows \subseteq 1 .. appended /\ refused \subseteq 1 .. appended
  /\ queue \in Seq(1 .. emitted) /\ rows \in Seq(1 .. appended)
  /\ writing \in {"none", "events", "rows"} /\ attempt \in 1 .. 3
  /\ batch \in Seq(IF writing = "rows" THEN 1 .. appended ELSE 1 .. emitted)
  /\ pc \in [Readers -> {"idle", "flush", "adopt", "mark", "stages", "runs", "gated", "budget"}]
  /\ asked \in [Readers -> 0 .. emitted] /\ got \in [Readers -> SUBSET Ids]
  /\ mark \in [Readers -> Nat] /\ follows \in [Readers -> Readers \union {Nobody}]
  /\ slot.gen \in Int /\ slot.by \in Readers \union {Nobody}
  /\ cache.mark \in Int /\ cache.ids \subseteq Ids
  /\ missed \subseteq 1 .. emitted /\ calls \in Nat /\ faults \in Nat

\* No event vanishes without a count: each one emitted is a row, is pending, or is one of
\* the dropped (db.ts 448-451, 624-631, 718-720), whatever fails and however often.
NoSilentLoss == 1 .. emitted = Elems(log) \union Elems(Pending) \union dropped

\* The newest row is the newest event that has reached the table, as the reads that order
\* by id from the newest rely on (db.ts 30-32, 1086-1087), retries included.
NewestRowLast == \A i \in Ids : log[i] =< log[Len(log)]

\* Write-behind cannot be told from writing: an answer counts every event emitted before
\* the question was asked, except those that were dropped. It may come from a shared
\* computation or from the cache (db.ts 706-708, 1238-1244).
ReadersSeeTheirEvents == missed \subseteq dropped

\* A transcript row is stored, queued, refused by a full queue or given up; and apart from
\* the rows that cannot be stored, each one given up has cost a failed INSERT: a bad row
\* never takes its neighbours along (db.ts 665-689).
InnocentRowsKept ==
  /\ 1 .. appended = stored \union lostRows \union refused \union Elems(rows)
                       \union (IF writing = "rows" THEN Elems(batch) ELSE {})
  /\ Cardinality(lostRows \ Poison) =< faults

\* The queue, the batches and the retry implement the log that was promised.
Abstract == INSTANCE AbstractLog WITH pending <- Pending, lost <- dropped
ImplementsLog == Abstract!Spec

\* Every reader gets its answer, or an error, once the emitting pauses.
ReadsReturn == \A r \in Readers : pc[r] # "idle" ~> pc[r] = "idle"

\* The budget is never decided on a store known to be dropping events (db.ts 478-483).
GateFailsClosed == [][\A r \in Readers : BudgetQuery(r) => healthy]_vars
=============================================================================
