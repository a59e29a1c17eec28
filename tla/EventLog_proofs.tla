--------------------------- MODULE EventLog_proofs ---------------------------
(***************************************************************************)
(* The safety properties of EventLog, and that it implements AbstractLog,  *)
(* for any number of readers, events, rows and failures, any batch sizes   *)
(* and any limits.                                                         *)
(*                                                                         *)
(* First what one turn of the drain does to the queues; then the events,   *)
(* the order of the rows, what the readers count, the transcript rows, and *)
(* the refinement.  Then what becomes of the events on the way to a tab:   *)
(* the safety properties of MissionControl.                                *)
(***************************************************************************)
EXTENDS EventLog, MissionControl, SequenceTheorems, FiniteSetTheorems, WellFoundedInduction, TLAPS

(***************************************************************************)
(* The invariant.                                                          *)
(***************************************************************************)

Sorted(s)    == \A i, j \in DOMAIN s : i < j => s[i] < s[j]
Before(s, t) == \A i \in DOMAIN s, j \in DOMAIN t : s[i] < t[j]

\* The drain is idle only when there is nothing to do, and never writes nothing.
Draining ==
  /\ writing = "none" => queue = <<>> /\ rows = <<>> /\ batch = <<>>
  /\ writing # "none" => batch # <<>>
  /\ writing = "events" => attempt < 3

\* Rows, the batch and the queue follow one another; a batch that is being retried may
\* have its rows in the table already, as the newest.
Order ==
  /\ Sorted(queue) /\ Before(log, queue)
  /\ writing = "events" => /\ Sorted(batch) /\ Before(batch, queue)
                           /\ \A i \in Ids : log[i] =< batch[Len(batch)]
  /\ NewestRowLast

Computing == {"mark", "stages", "runs"}

\* What r's computation may count so far: the rows up to its watermark once it has one.
Seen(r) == IF pc[r] \in {"mark", "budget"} THEN Ids ELSE 1 .. mark[r]

\* r's computation, if it goes on, will count what s has asked about.
Covers(r, s) == \A e \in 1 .. asked[s] : e \in dropped \/ \E i \in Seen(r) : log[i] = e

Sound(r) ==
  /\ pc[r] \in Computing \union {"budget"} => Covers(r, r)
  /\ pc[r] = "adopt" => /\ follows[r] \in Readers /\ pc[follows[r]] \in Computing
                        /\ Covers(follows[r], r)
  /\ mark[r] =< Len(log)
  /\ pc[r] = "runs" => \A i \in 1 .. mark[r] : log[i] \in Deliveries \/ i \in got[r]

Computations == \A r \in Readers : Sound(r)

\* The shared computation: rows it may have missed are of a later generation, or were
\* never acknowledged.
Slot ==
  /\ slot.gen =< gen
  /\ slot.by = Nobody => slot.gen = -1
  /\ slot.by # Nobody => pc[slot.by] \in Computing
  /\ slot.by # Nobody /\ slot.gen >= gen /\ pc[slot.by] # "mark" =>
       \A i \in Ids : i > mark[slot.by] =>
         log[i] \in dropped \/ (writing = "events" /\ log[i] \in Elems(batch))

\* The cache counts every row up to its watermark.
CacheWhole == cache.mark =< Len(log) /\ 1 .. cache.mark \subseteq cache.ids

Reading == Computations /\ Slot /\ CacheWhole /\ ReadersSeeTheirEvents

IInv == TypeOK /\ Draining /\ Order /\ NoSilentLoss /\ Reading /\ InnocentRowsKept

(***************************************************************************)
(* The sequences the drain works on.                                       *)
(***************************************************************************)

\* A queue is its first n elements followed by the rest.
LEMMA Splice ==
  ASSUME NEW S, NEW q \in Seq(S), q # <<>>, NEW n \in Nat \ {0}
  PROVE  /\ Front(q, n) \in Seq(S) /\ Front(q, n) # <<>> /\ Rest(q, n) \in Seq(S)
         /\ Front(q, n) \o Rest(q, n) = q
<1> DEFINE k == Least(n, Len(q))
<1>1. Len(q) \in Nat \ {0} /\ k \in 1 .. Len(q)
  BY DEF Least
<1>2. Front(q, n) = SubSeq(q, 1, k) /\ Rest(q, n) = SubSeq(q, k + 1, Len(q))
  <2>1. CASE n < Len(q)
    BY <1>1, <2>1 DEF Front, Rest, Least
  <2>2. CASE n >= Len(q)
    <3>0. k = Len(q)
      BY <1>1, <2>2 DEF Least
    <3> HIDE DEF k
    <3>1. SubSeq(q, n + 1, Len(q)) = <<>>
      BY <1>1, <2>2, SubSeqEmpty
    <3>2. SubSeq(q, k + 1, Len(q)) = <<>>
      BY <1>1, <3>0, SubSeqEmpty
    <3> QED BY <3>1, <3>2 DEF Front, Rest, k
  <2> QED BY <1>1, <2>1, <2>2
<1>3. SubSeq(q, 1, k) \in Seq(S) /\ Len(SubSeq(q, 1, k)) = k
  <2>1. \A i \in 1 .. k : q[i] \in S
    BY <1>1
  <2> QED BY <1>1, <2>1, SubSeqProperties
<1>4. SubSeq(q, k + 1, Len(q)) \in Seq(S)
  <2>1. \A i \in k + 1 .. Len(q) : q[i] \in S
    BY <1>1
  <2> HIDE DEF k
  <2> QED BY <1>1, <2>1, SubSeqProperties
<1>5. SubSeq(q, 1, k) \o SubSeq(q, k + 1, Len(q)) = q
  <2> HIDE DEF k
  <2>1. SubSeq(q, 1, k) \o SubSeq(q, k + 1, Len(q)) = SubSeq(q, 1, Len(q))
    BY <1>1, ConcatAdjacentSubSeq
  <2> QED BY <2>1, SubSeqFull
<1> HIDE DEF k
<1>6. SubSeq(q, 1, k) # <<>>
  <2>1. Len(SubSeq(q, 1, k)) # 0
    BY <1>1, <1>3
  <2>2. Len(<<>>) = 0
    BY EmptySeq
  <2> QED BY <2>1, <2>2
<1> QED BY <1>2, <1>3, <1>4, <1>5, <1>6

\* The elements of a concatenation are those of both.
LEMMA ElemsConcat ==
  ASSUME NEW S, NEW s \in Seq(S), NEW t \in Seq(S)
  PROVE  Elems(s \o t) = Elems(s) \union Elems(t)
<1>1. ASSUME NEW x \in Elems(s \o t) PROVE x \in Elems(s) \union Elems(t)
  <2>1. PICK i \in 1 .. Len(s) + Len(t) : x = (s \o t)[i]
    BY <1>1, ConcatProperties DEF Elems
  <2>2. CASE i =< Len(s)
    BY <2>1, <2>2, ConcatProperties DEF Elems
  <2>3. CASE i > Len(s)
    BY <2>1, <2>3, ConcatProperties DEF Elems
  <2> QED BY <2>2, <2>3
<1>2. ASSUME NEW x \in Elems(s) PROVE x \in Elems(s \o t)
  <2>1. PICK i \in 1 .. Len(s) : x = s[i]
    BY <1>2 DEF Elems
  <2>2. i \in DOMAIN (s \o t) /\ (s \o t)[i] = x
    BY <2>1, ConcatProperties
  <2> QED BY <2>2 DEF Elems
<1>3. ASSUME NEW x \in Elems(t) PROVE x \in Elems(s \o t)
  <2>1. PICK i \in 1 .. Len(t) : x = t[i]
    BY <1>3 DEF Elems
  <2>2. Len(s) + i \in DOMAIN (s \o t) /\ (s \o t)[Len(s) + i] = x
    BY <2>1, ConcatProperties
  <2> QED BY <2>2 DEF Elems
<1> QED BY <1>1, <1>2, <1>3

\* Appending adds one element.
LEMMA ElemsAppend ==
  ASSUME NEW S, NEW s \in Seq(S), NEW e \in S
  PROVE  Elems(Append(s, e)) = Elems(s) \union {e}
<1>1. Append(s, e) = s \o <<e>>
  BY AppendIsConcat
<1>2. <<e>> \in Seq(S) /\ Len(<<e>>) = 1 /\ <<e>>[1] = e
  OBVIOUS
<1>3. Elems(<<e>>) = {e}
  BY <1>2 DEF Elems
<1>4. Elems(s \o <<e>>) = Elems(s) \union Elems(<<e>>)
  <2>1. ASSUME NEW t \in Seq(S) PROVE Elems(s \o t) = Elems(s) \union Elems(t)
    BY ElemsConcat
  <2> QED BY <1>2, <2>1
<1> QED BY <1>1, <1>3, <1>4

\* The elements of a sequence over S are of S.
LEMMA ElemsIn ==
  ASSUME NEW S, NEW s \in Seq(S)
  PROVE  Elems(s) \subseteq S
BY DEF Elems

\* The empty sequence has none.
LEMMA ElemsEmpty == Elems(<<>>) = {}
<1>1. DOMAIN <<>> = {}
  OBVIOUS
<1> QED BY <1>1 DEF Elems

\* One turn of the drain loop: nothing is lost between the queues and the batch.
LEMMA Turn ==
  ASSUME NEW E, NEW R, NEW q \in Seq(E), NEW rs \in Seq(R), DrainLoop(q, rs)
  PROVE  /\ queue' \in Seq(E) /\ rows' \in Seq(R) /\ attempt' = 1
         /\ writing' \in {"none", "events", "rows"}
         /\ batch' \in Seq(IF writing' = "rows" THEN R ELSE E)
         /\ Draining'
         /\ Pending' = q
         /\ Elems(rs) = Elems(rows') \union (IF writing' = "rows" THEN Elems(batch') ELSE {})
<1>0. EventBatch \in Nat \ {0} /\ RowBatch \in Nat \ {0}
  BY Bounds
<1>1. CASE q # <<>>
  <2>1. /\ writing' = "events" /\ batch' = Front(q, EventBatch)
        /\ queue' = Rest(q, EventBatch) /\ rows' = rs /\ attempt' = 1
    BY <1>1 DEF DrainLoop
  <2>2. /\ batch' \in Seq(E) /\ batch' # <<>> /\ queue' \in Seq(E) /\ batch' \o queue' = q
    <3>1. /\ Front(q, EventBatch) \in Seq(E) /\ Front(q, EventBatch) # <<>>
          /\ Rest(q, EventBatch) \in Seq(E) /\ Front(q, EventBatch) \o Rest(q, EventBatch) = q
      BY <1>0, <1>1, Splice
    <3> QED BY <2>1, <3>1
  <2> QED BY <2>1, <2>2 DEF Draining, Pending
<1>2. CASE q = <<>> /\ rs # <<>>
  <2>1. /\ writing' = "rows" /\ batch' = Front(rs, RowBatch)
        /\ rows' = Rest(rs, RowBatch) /\ queue' = q /\ attempt' = 1
    BY <1>2 DEF DrainLoop
  <2>2. /\ batch' \in Seq(R) /\ batch' # <<>> /\ rows' \in Seq(R) /\ batch' \o rows' = rs
    <3>1. /\ Front(rs, RowBatch) \in Seq(R) /\ Front(rs, RowBatch) # <<>>
          /\ Rest(rs, RowBatch) \in Seq(R) /\ Front(rs, RowBatch) \o Rest(rs, RowBatch) = rs
      BY <1>0, <1>2, Splice
    <3> QED BY <2>1, <3>1
  <2>3. Elems(rs) = Elems(rows') \union Elems(batch')
    <3>0. ASSUME NEW b \in Seq(R), NEW t \in Seq(R) PROVE Elems(b \o t) = Elems(b) \union Elems(t)
      BY ElemsConcat
    <3>1. Elems(batch' \o rows') = Elems(batch') \union Elems(rows')
      BY <2>2, <3>0
    <3> QED BY <2>2, <3>1
  <2>4. Pending' = q
    BY <2>1, ConcatEmptySeq DEF Pending
  <2> QED BY <2>1, <2>2, <2>3, <2>4 DEF Draining
<1>3. CASE q = <<>> /\ rs = <<>>
  <2>1. writing' = "none" /\ batch' = <<>> /\ queue' = q /\ rows' = rs /\ attempt' = 1
    BY <1>3 DEF DrainLoop
  <2>2. Pending' = q
    BY <2>1, ConcatEmptySeq DEF Pending
  <2> QED BY <2>1, <2>2, <1>3, ElemsEmpty DEF Draining
<1> QED BY <1>1, <1>2, <1>3

(***************************************************************************)
(* Types.                                                                  *)
(***************************************************************************)

WriterType ==
  /\ emitted \in Nat /\ dropped \subseteq 1 .. emitted /\ healthy \in BOOLEAN
  /\ gen \in Nat /\ log \in Seq(1 .. emitted)
  /\ appended \in Nat /\ stored \subseteq 1 .. appended
  /\ lostRows \subseteq 1 .. appended /\ refused \subseteq 1 .. appended
  /\ queue \in Seq(1 .. emitted) /\ rows \in Seq(1 .. appended)
  /\ writing \in {"none", "events", "rows"} /\ attempt \in 1 .. 3
  /\ batch \in Seq(IF writing = "rows" THEN 1 .. appended ELSE 1 .. emitted)
  /\ faults \in Nat

Place == {"idle", "flush", "adopt", "mark", "stages", "runs", "gated", "budget"}

ReaderType ==
  /\ pc \in [Readers -> Place]
  /\ asked \in [Readers -> 0 .. emitted] /\ got \in [Readers -> SUBSET Ids]
  /\ mark \in [Readers -> Nat] /\ follows \in [Readers -> Readers \union {Nobody}]
  /\ slot.gen \in Int /\ slot.by \in Readers \union {Nobody}
  /\ cache.mark \in Int /\ cache.ids \subseteq Ids
  /\ missed \subseteq 1 .. emitted /\ calls \in Nat

\* TypeOK is the types of the writer and those of the readers, ...
LEMMA TypeParts == TypeOK <=> WriterType /\ ReaderType
BY DEF TypeOK, WriterType, ReaderType, Place

\* ... in the next state too.
LEMMA TypePartsNext == TypeOK' <=> WriterType' /\ ReaderType'
BY DEF TypeOK, WriterType, ReaderType, Place, Ids

WriterStep == Emit \/ AppendRow \/ Write
ReaderStep == \E r \in Readers : AskTelemetry(r) \/ GateOpens(r) \/ Read(r)

\* The table only grows, at its end; what was dropped stays dropped.
Growing ==
  /\ emitted' \in Nat /\ emitted =< emitted' /\ Len(log) =< Len(log')
  /\ \A i \in Ids : log'[i] = log[i]
  /\ dropped \subseteq dropped' /\ UNCHANGED readerVars

\* A table that grows keeps the readers' variables well-typed.
LEMMA ReadersStay ==
  ASSUME WriterType, ReaderType, WriterType', Growing
  PROVE  ReaderType'
<1>1. 0 .. emitted \subseteq 0 .. emitted' /\ 1 .. emitted \subseteq 1 .. emitted'
  BY DEF WriterType, Growing
<1>2. Ids \subseteq Ids'
  BY DEF WriterType, Growing, Ids
<1>3. UNCHANGED <<pc, asked, got, mark, follows, slot, cache, missed, calls>>
  BY DEF Growing, readerVars
<1>4. asked' \in [Readers -> 0 .. emitted']
  BY <1>1, <1>3 DEF ReaderType
<1>5. got' \in [Readers -> SUBSET Ids']
  BY <1>2, <1>3 DEF ReaderType
<1>6. cache'.ids \subseteq Ids'
  BY <1>2, <1>3 DEF ReaderType
<1>7. missed' \subseteq 1 .. emitted'
  BY <1>1, <1>3 DEF ReaderType
<1> QED BY <1>3, <1>4, <1>5, <1>6, <1>7 DEF ReaderType

\* Kick leaves the queues well-typed.
LEMMA KickTypes ==
  ASSUME NEW E, NEW R, NEW q \in Seq(E), NEW rs \in Seq(R), Kick(q, rs),
         WriterType, Draining, q # <<>> \/ rs # <<>>,
         batch \in Seq(IF writing = "rows" THEN R ELSE E)
  PROVE  /\ queue' \in Seq(E) /\ rows' \in Seq(R) /\ attempt' \in 1 .. 3
         /\ writing' \in {"none", "events", "rows"}
         /\ batch' \in Seq(IF writing' = "rows" THEN R ELSE E)
         /\ Draining'
<1>1. CASE writing = "none"
  <2>1. DrainLoop(q, rs)
    BY <1>1 DEF Kick
  <2> QED BY <2>1, Turn
<1>2. CASE writing # "none"
  <2>1. queue' = q /\ rows' = rs /\ UNCHANGED <<writing, batch, attempt>>
    BY <1>2 DEF Kick
  <2> QED BY <1>2, <2>1 DEF Draining, WriterType
<1> QED BY <1>1, <1>2

\* Emit keeps the types, leaves the drain with work, and takes no row away.
LEMMA EmitTypes ==
  ASSUME WriterType, Draining, Emit
  PROVE  WriterType' /\ Draining' /\ Growing
<1> DEFINE E == 1 .. emitted + 1
<1>1. /\ emitted' = emitted + 1 /\ emitted \in Nat /\ 1 .. emitted \subseteq E /\ emitted + 1 \in E
      /\ UNCHANGED <<healthy, gen, log, appended, stored, lostRows, refused, faults>>
      /\ UNCHANGED readerVars
  BY DEF Emit, WriterType, rowVars
<1> HIDE DEF E
<1>2. Seq(1 .. emitted) \subseteq Seq(E)
  BY <1>1, SeqMonotonic
<1>3. Growing
  <2>1. dropped \subseteq dropped'
    BY DEF Emit
  <2> QED BY <1>1, <2>1 DEF Growing, WriterType
<1>4. log' \in Seq(E) /\ dropped \subseteq E /\ queue \in Seq(E)
  BY <1>1, <1>2 DEF WriterType
<1>5. batch \in Seq(IF writing = "rows" THEN 1 .. appended ELSE E)
  BY <1>2 DEF WriterType
<1>6. CASE /\ Len(queue) < MaxQueued
           /\ Kick(Append(queue, emitted + 1), rows)
           /\ UNCHANGED dropped
  <2>1. Append(queue, emitted + 1) \in Seq(E) /\ Append(queue, emitted + 1) # <<>>
    BY <1>1, <1>4, AppendProperties
  <2>2. rows \in Seq(1 .. appended)
    BY DEF WriterType
  <2>3. /\ queue' \in Seq(E) /\ rows' \in Seq(1 .. appended) /\ attempt' \in 1 .. 3
        /\ writing' \in {"none", "events", "rows"}
        /\ batch' \in Seq(IF writing' = "rows" THEN 1 .. appended ELSE E)
        /\ Draining'
    BY <1>5, <1>6, <2>1, <2>2, KickTypes
  <2> QED BY <1>1, <1>3, <1>4, <1>6, <2>3 DEF WriterType, E
<1>7. CASE /\ Len(queue) >= MaxQueued
           /\ dropped' = dropped \union {emitted + 1}
           /\ UNCHANGED drainVars
  <2>1. UNCHANGED <<queue, writing, batch, attempt, rows>>
    BY <1>7 DEF drainVars
  <2>2. Draining'
    BY <2>1 DEF Draining
  <2> QED BY <1>1, <1>3, <1>4, <1>5, <1>7, <2>1, <2>2 DEF WriterType, E
<1> QED BY <1>6, <1>7 DEF Emit

\* So does an appended transcript row, ...
LEMMA AppendTypes ==
  ASSUME WriterType, Draining, AppendRow
  PROVE  WriterType' /\ Draining' /\ Growing
<1> DEFINE R == 1 .. appended + 1
<1>1. /\ appended' = appended + 1 /\ appended \in Nat /\ 1 .. appended \subseteq R
      /\ appended + 1 \in R
      /\ UNCHANGED <<emitted, dropped, healthy, gen, log, stored, lostRows, faults>>
      /\ UNCHANGED readerVars
  BY DEF AppendRow, WriterType, eventVars
<1> HIDE DEF R
<1>2. Seq(1 .. appended) \subseteq Seq(R)
  BY <1>1, SeqMonotonic
<1>3. Growing
  BY <1>1 DEF Growing, WriterType
<1>4. rows \in Seq(R) /\ stored \subseteq R /\ lostRows \subseteq R /\ refused \subseteq R
  BY <1>1, <1>2 DEF WriterType
<1>5. batch \in Seq(IF writing = "rows" THEN R ELSE 1 .. emitted)
  BY <1>2 DEF WriterType
<1>6. CASE /\ Len(rows) < MaxQueuedRows
           /\ Kick(queue, Append(rows, appended + 1))
           /\ UNCHANGED refused
  <2>1. Append(rows, appended + 1) \in Seq(R) /\ Append(rows, appended + 1) # <<>>
    BY <1>1, <1>4, AppendProperties
  <2>2. queue \in Seq(1 .. emitted)
    BY DEF WriterType
  <2>3. /\ queue' \in Seq(1 .. emitted) /\ rows' \in Seq(R) /\ attempt' \in 1 .. 3
        /\ writing' \in {"none", "events", "rows"}
        /\ batch' \in Seq(IF writing' = "rows" THEN R ELSE 1 .. emitted)
        /\ Draining'
    BY <1>5, <1>6, <2>1, <2>2, KickTypes
  <2> QED BY <1>1, <1>3, <1>4, <1>6, <2>3 DEF WriterType, R
<1>7. CASE /\ Len(rows) >= MaxQueuedRows
           /\ refused' = refused \union {appended + 1}
           /\ UNCHANGED drainVars
  <2>1. UNCHANGED <<queue, writing, batch, attempt, rows>>
    BY <1>7 DEF drainVars
  <2>2. Draining'
    BY <2>1 DEF Draining
  <2> QED BY <1>1, <1>3, <1>4, <1>5, <1>7, <2>1, <2>2 DEF WriterType, R
<1> QED BY <1>6, <1>7 DEF AppendRow

\* Rows are added at the end of the table.
LEMMA Longer ==
  ASSUME NEW S, NEW s \in Seq(S), NEW t \in Seq(S)
  PROVE  /\ s \o t \in Seq(S) /\ Len(s) =< Len(s \o t)
         /\ \A i \in 1 .. Len(s) : (s \o t)[i] = s[i]
<1>1. Len(s) \in Nat /\ Len(t) \in Nat
  OBVIOUS
<1> QED BY <1>1, ConcatProperties

\* ... the end of an INSERT, ...
LEMMA WriteTypes ==
  ASSUME WriterType, Draining, Write
  PROVE  WriterType' /\ Draining' /\ Growing
<1>1. UNCHANGED readerVars /\ emitted \in Nat /\ appended \in Nat /\ UNCHANGED <<emitted, appended>>
  BY DEF Write, EventsLand, EventsFail, RowsLand, RowsFail, RowByRow, eventVars, rowVars, WriterType
<1>2. queue \in Seq(1 .. emitted) /\ rows \in Seq(1 .. appended)
  BY DEF WriterType
<1>3. ASSUME DrainLoop(queue, rows)
      PROVE  /\ queue' \in Seq(1 .. emitted) /\ rows' \in Seq(1 .. appended) /\ attempt' = 1
             /\ writing' \in {"none", "events", "rows"}
             /\ batch' \in Seq(IF writing' = "rows" THEN 1 .. appended ELSE 1 .. emitted)
             /\ Draining'
  BY <1>2, <1>3, Turn
<1>4. ASSUME UNCHANGED <<log, dropped>> PROVE Growing
  BY <1>1, <1>4 DEF Growing, WriterType
<1>5. CASE writing = "events"
  <2>1. batch \in Seq(1 .. emitted) /\ log \in Seq(1 .. emitted) /\ Elems(batch) \subseteq 1 .. emitted
    <3>1. batch \in Seq(1 .. emitted) /\ log \in Seq(1 .. emitted)
      BY <1>5 DEF WriterType
    <3> QED BY <3>1, ElemsIn
  <2>2. log' \in {log, log \o batch}
    BY <1>5 DEF Write, EventsLand, EventsFail, RowsLand, RowsFail, RowByRow
  <2>3. log' \in Seq(1 .. emitted) /\ Len(log) =< Len(log') /\ \A i \in Ids : log'[i] = log[i]
    <3>1. CASE log' = log
      BY <2>1, <3>1
    <3>2. CASE log' = log \o batch
      BY <2>1, <3>2, Longer DEF Ids
    <3> QED BY <2>2, <3>1, <3>2
  <2>4. CASE EventsLand
    <3>1. /\ UNCHANGED <<dropped, stored, lostRows, refused, faults>>
          /\ gen' = gen + 1 /\ DrainLoop(queue, rows)
      BY <2>4 DEF EventsLand, rowVars
    <3>2. healthy' \in BOOLEAN
      BY <2>4 DEF EventsLand
    <3>3. Growing
      BY <1>1, <2>3, <3>1 DEF Growing
    <3>4. gen' \in Nat
      BY <3>1 DEF WriterType
    <3> QED BY <1>1, <1>3, <2>3, <3>1, <3>2, <3>3, <3>4 DEF WriterType
  <2>5. CASE EventsFail
    <3>1. faults' \in Nat
      BY <2>5 DEF EventsFail, Fault, WriterType
    <3>2. UNCHANGED <<gen, stored, lostRows, refused>>
      BY <2>5 DEF EventsFail, rowVars
    <3>3. CASE /\ attempt = 1 /\ attempt' = 2
               /\ UNCHANGED <<dropped, healthy, queue, writing, batch, rows>>
      BY <1>1, <1>2, <1>5, <2>1, <2>3, <3>1, <3>2, <3>3 DEF Growing, WriterType, Draining
    <3>4. CASE /\ attempt = 2
               /\ dropped' = dropped \union Elems(batch) /\ healthy' = FALSE
               /\ DrainLoop(queue, rows)
      <4>1. healthy' \in BOOLEAN
        BY <3>4
      <4>2. dropped' \subseteq 1 .. emitted'
        BY <1>1, <2>1, <3>4 DEF WriterType
      <4>3. Growing
        BY <1>1, <2>3, <3>4 DEF Growing
      <4> QED BY <1>1, <1>3, <2>3, <3>1, <3>2, <3>4, <4>1, <4>2, <4>3 DEF WriterType
    <3> QED BY <2>5, <3>3, <3>4 DEF EventsFail
  <2> QED BY <1>5, <2>4, <2>5 DEF Write, RowsLand, RowsFail, RowByRow
<1>6. CASE writing = "rows"
  <2>1. /\ batch \in Seq(1 .. appended) /\ batch # <<>> /\ Elems(batch) \subseteq 1 .. appended
        /\ Head(batch) \in 1 .. appended /\ Tail(batch) \in Seq(1 .. appended)
        /\ Len(Tail(batch)) = Len(batch) - 1
    <3>1. batch \in Seq(1 .. appended) /\ batch # <<>>
      BY <1>6 DEF WriterType, Draining
    <3> QED BY <3>1, ElemsIn, HeadTailProperties
  <2>2. UNCHANGED <<emitted, dropped, healthy, gen, log>>
    BY <1>6 DEF Write, EventsLand, EventsFail, RowsLand, RowsFail, RowByRow, eventVars
  <2>3. Growing
    BY <1>4, <2>2
  <2>4. CASE RowsLand
    <3>1. UNCHANGED <<lostRows, refused, faults>> /\ stored' = stored \union Elems(batch)
      BY <2>4 DEF RowsLand
    <3>2. DrainLoop(queue, rows)
      BY <2>4 DEF RowsLand
    <3>3. stored' \subseteq 1 .. appended
      BY <2>1, <3>1 DEF WriterType
    <3> QED BY <1>1, <1>3, <2>2, <2>3, <3>1, <3>2, <3>3 DEF WriterType
  <2>5. CASE RowsFail
    <3>1. /\ UNCHANGED <<lostRows, refused, queue, writing, batch, rows>>
          /\ attempt' = attempt + 1 /\ attempt < 3
      BY <2>5 DEF RowsFail
    <3>2. stored' \subseteq 1 .. appended /\ faults' \in Nat
      <4>1. stored' = stored \/ stored' = stored \union Elems(batch)
        BY <2>5 DEF RowsFail
      <4>2. faults' = faults \/ faults' = faults + 1
        BY <2>5 DEF RowsFail, Fault
      <4>3. stored \subseteq 1 .. appended /\ faults \in Nat
        BY DEF WriterType
      <4>4. stored' \subseteq 1 .. appended
        BY <2>1, <4>1, <4>3
      <4> QED BY <4>2, <4>3, <4>4
    <3>3. Draining'
      BY <1>6, <3>1 DEF Draining
    <3> QED BY <1>1, <1>2, <2>2, <2>3, <3>1, <3>2, <3>3 DEF WriterType
  <2>6. CASE RowByRow
    <3>1. UNCHANGED refused
      BY <2>6 DEF RowByRow
    <3>2. stored' \subseteq 1 .. appended /\ faults' \in Nat /\ lostRows' \subseteq 1 .. appended
      <4>1. stored' = stored \/ stored' = stored \union {Head(batch)}
        BY <2>6 DEF RowByRow
      <4>2. faults' = faults \/ faults' = faults + 1
        BY <2>6 DEF RowByRow, Fault
      <4>3. lostRows' = lostRows \/ lostRows' = lostRows \union {Head(batch)}
        BY <2>6 DEF RowByRow
      <4>4. /\ stored \subseteq 1 .. appended /\ lostRows \subseteq 1 .. appended
            /\ faults \in Nat
        BY DEF WriterType
      <4>5. stored' \subseteq 1 .. appended
        BY <2>1, <4>1, <4>4
      <4>6. lostRows' \subseteq 1 .. appended
        BY <2>1, <4>3, <4>4
      <4> QED BY <4>2, <4>4, <4>5, <4>6
    <3>3. CASE Len(batch) = 1 /\ DrainLoop(queue, rows)
      BY <1>1, <1>3, <2>2, <2>3, <3>1, <3>2, <3>3 DEF WriterType
    <3>4. CASE Len(batch) > 1 /\ batch' = Tail(batch) /\ UNCHANGED <<queue, rows, writing, attempt>>
      <4>1. batch' \in Seq(1 .. appended) /\ batch' # <<>>
        <5>1. Len(batch') > 0 /\ batch' \in Seq(1 .. appended)
          BY <2>1, <3>4
        <5> QED BY <5>1
      <4>2. Draining'
        BY <1>6, <3>4, <4>1 DEF Draining
      <4> QED BY <1>1, <1>2, <1>6, <2>2, <2>3, <3>1, <3>2, <3>4, <4>1, <4>2 DEF WriterType
    <3> QED BY <2>6, <3>3, <3>4 DEF RowByRow
  <2> QED BY <1>6, <2>4, <2>5, <2>6 DEF Write, EventsLand, EventsFail
<1> QED BY <1>5, <1>6 DEF Write, EventsLand, EventsFail, RowsLand, RowsFail, RowByRow

\* ... and so every step of the writer.
LEMMA WriterStepTypes ==
  ASSUME WriterType, Draining, WriterStep
  PROVE  WriterType' /\ Draining' /\ Growing
BY EmitTypes, AppendTypes, WriteTypes DEF WriterStep

\* Readers only read.
LEMMA ReaderFrame ==
  ASSUME ReaderStep
  PROVE  UNCHANGED <<eventVars, rowVars, drainVars>>
BY DEF ReaderStep, AskTelemetry, GateOpens, Call, Read, Adopt, Compute, ReadMark, ScanStages,
       ScanRuns, BudgetFlush, BudgetQuery, QueryFails

\* A step of a reader keeps the types.
LEMMA ReaderStepTypes ==
  ASSUME WriterType, ReaderType, ReaderStep
  PROVE  WriterType' /\ ReaderType'
<1>1. /\ UNCHANGED <<emitted, dropped, healthy, gen, log, appended, stored, lostRows, refused>>
      /\ UNCHANGED <<queue, rows, writing, attempt, batch>>
  BY ReaderFrame DEF eventVars, rowVars, drainVars
<1>2. emitted \in Nat /\ Ids' = Ids /\ gen \in Nat /\ Len(log) \in Nat /\ faults \in Nat
  BY <1>1 DEF WriterType, Ids
<1>3. PICK r \in Readers : AskTelemetry(r) \/ GateOpens(r) \/ Read(r)
  BY DEF ReaderStep
<1>4. faults' \in Nat
  BY <1>2, <1>3 DEF AskTelemetry, GateOpens, Call, Read, Adopt, Compute, ReadMark, ScanStages,
       ScanRuns, BudgetFlush, BudgetQuery, QueryFails, Fault
<1>5. WriterType'
  BY <1>1, <1>4 DEF WriterType
<1>6. ASSUME Serve(r)
      PROVE  /\ pc' \in [Readers -> Place] /\ asked' \in [Readers -> 0 .. emitted]
             /\ got' \in [Readers -> SUBSET Ids] /\ mark' \in [Readers -> Nat]
             /\ follows' \in [Readers -> Readers \union {Nobody}]
             /\ slot'.gen \in Int /\ slot'.by \in Readers \union {Nobody}
  <2> DEFINE served == {r} \union {s \in Readers : pc[s] = "adopt" /\ follows[s] = r}
  <2>1. /\ pc' = [s \in Readers |-> IF s \in served THEN "idle" ELSE pc[s]]
        /\ asked' = [s \in Readers |-> IF s \in served THEN 0 ELSE asked[s]]
        /\ got' = [got EXCEPT ![r] = {}]
        /\ mark' = [mark EXCEPT ![r] = 0]
        /\ follows' = [s \in Readers |-> IF s \in served THEN Nobody ELSE follows[s]]
        /\ slot' = IF slot.by = r THEN NoSlot ELSE slot
    BY <1>6 DEF Serve
  <2> HIDE DEF served
  <2>2. pc' \in [Readers -> Place]
    BY <2>1 DEF ReaderType, Place
  <2>3. asked' \in [Readers -> 0 .. emitted]
    BY <1>2, <2>1 DEF ReaderType
  <2>4. got' \in [Readers -> SUBSET Ids] /\ mark' \in [Readers -> Nat]
    BY <2>1 DEF ReaderType
  <2>5. follows' \in [Readers -> Readers \union {Nobody}]
    BY <2>1 DEF ReaderType
  <2>6. slot'.gen \in Int /\ slot'.by \in Readers \union {Nobody}
    BY <2>1 DEF ReaderType, NoSlot
  <2> QED BY <2>2, <2>3, <2>4, <2>5, <2>6
<1>7. CASE AskTelemetry(r) \/ GateOpens(r)
  <2>1. /\ pc' = [pc EXCEPT ![r] = "flush"] \/ pc' = [pc EXCEPT ![r] = "gated"]
        /\ asked' = [asked EXCEPT ![r] = emitted]
        /\ calls' = calls + 1
        /\ UNCHANGED <<got, mark, follows, slot, cache, missed>>
    BY <1>7 DEF AskTelemetry, GateOpens, Call
  <2>2. pc' \in [Readers -> Place] /\ asked' \in [Readers -> 0 .. emitted]
    <3>1. pc \in [Readers -> Place] /\ asked \in [Readers -> 0 .. emitted]
      BY DEF ReaderType
    <3>2. pc' \in [Readers -> Place]
      BY <2>1, <3>1 DEF Place
    <3>3. asked' \in [Readers -> 0 .. emitted]
      BY <1>2, <2>1, <3>1
    <3> QED BY <3>2, <3>3
  <2> QED BY <1>1, <1>2, <1>5, <2>1, <2>2 DEF ReaderType
<1>8. CASE Adopt(r)
  <2>1. /\ pc' = [pc EXCEPT ![r] = "adopt"]
        /\ follows' = [follows EXCEPT ![r] = slot.by]
        /\ UNCHANGED <<asked, got, mark, slot, cache, missed, calls>>
    BY <1>8 DEF Adopt
  <2> QED BY <1>1, <1>2, <1>5, <2>1 DEF ReaderType, Place
<1>9. CASE Compute(r)
  <2>1. /\ slot' = [gen |-> gen, by |-> r]
        /\ pc' = [pc EXCEPT ![r] = "mark"]
        /\ UNCHANGED <<asked, got, mark, follows, cache, missed, calls>>
    BY <1>9 DEF Compute
  <2>2. slot'.gen \in Int /\ slot'.by \in Readers \union {Nobody}
    BY <1>2, <2>1
  <2>3. pc' \in [Readers -> Place]
    BY <2>1 DEF ReaderType, Place
  <2> QED BY <1>1, <1>2, <1>5, <2>1, <2>2, <2>3 DEF ReaderType
<1>10. ASSUME NEW ids, Answer(r, ids), UNCHANGED calls
       PROVE  missed' \subseteq 1 .. emitted
  BY <1>10 DEF Answer, ReaderType
<1>11. CASE ReadMark(r)
  <2>1. cache' = cache /\ calls' = calls
    BY <1>11 DEF ReadMark
  <2>2. CASE Answer(r, cache.ids)
    <3>1. Serve(r)
      BY <2>2 DEF Answer
    <3> QED BY <1>1, <1>2, <1>5, <1>6, <1>10, <2>1, <2>2, <3>1 DEF ReaderType
  <2>3. CASE /\ mark' = [mark EXCEPT ![r] = Len(log)]
             /\ pc' = [pc EXCEPT ![r] = "stages"]
             /\ UNCHANGED <<asked, got, follows, slot, missed>>
    BY <1>1, <1>2, <1>5, <2>1, <2>3 DEF ReaderType, Place
  <2> QED BY <1>11, <2>2, <2>3 DEF ReadMark
<1>12. CASE ScanStages(r)
  <2>1. /\ got' = [got EXCEPT ![r] = {i \in Ids : log[i] \notin Deliveries}]
        /\ pc' = [pc EXCEPT ![r] = "runs"]
        /\ UNCHANGED <<asked, mark, follows, slot, cache, missed, calls>>
    BY <1>12 DEF ScanStages
  <2>2. got' \in [Readers -> SUBSET Ids] /\ pc' \in [Readers -> Place]
    BY <2>1 DEF ReaderType, Place
  <2> QED BY <1>1, <1>2, <1>5, <2>1, <2>2 DEF ReaderType
<1>13. CASE ScanRuns(r)
  <2> DEFINE ids == got[r] \union {i \in Ids : log[i] \in Deliveries}
  <2>1. /\ Answer(r, ids) /\ UNCHANGED calls
        /\ cache' = IF mark[r] >= cache.mark THEN [mark |-> mark[r], ids |-> ids] ELSE cache
    BY <1>13 DEF ScanRuns
  <2>2. Serve(r)
    BY <2>1 DEF Answer
  <2>3. ids \subseteq Ids
    BY DEF ReaderType
  <2> HIDE DEF ids
  <2>4. cache'.mark \in Int /\ cache'.ids \subseteq Ids
    BY <2>1, <2>3 DEF ReaderType
  <2> QED BY <1>1, <1>2, <1>5, <1>6, <1>10, <2>1, <2>2, <2>4 DEF ReaderType
<1>14. CASE BudgetFlush(r)
  <2>1. /\ pc' = [pc EXCEPT ![r] = "budget"]
        /\ UNCHANGED <<asked, got, mark, follows, slot, cache, missed, calls>>
    BY <1>14 DEF BudgetFlush
  <2> QED BY <1>1, <1>2, <1>5, <2>1 DEF ReaderType, Place
<1>15. CASE BudgetQuery(r)
  <2>1. Answer(r, Ids) /\ UNCHANGED <<cache, calls>>
    BY <1>15 DEF BudgetQuery
  <2>2. Serve(r)
    BY <2>1 DEF Answer
  <2> QED BY <1>1, <1>2, <1>5, <1>6, <1>10, <2>1, <2>2 DEF ReaderType
<1>16. CASE QueryFails(r)
  <2>1. Serve(r) /\ UNCHANGED <<cache, missed, calls>>
    BY <1>16 DEF QueryFails
  <2> QED BY <1>1, <1>2, <1>5, <1>6, <2>1 DEF ReaderType
<1> QED BY <1>3, <1>7, <1>8, <1>9, <1>11, <1>12, <1>13, <1>14, <1>15, <1>16 DEF Read

(***************************************************************************)
(* What the writer does to the pending events, the table and the dropped.  *)
(***************************************************************************)

\* What is pending is what is queued, after the batch while it is of events.
LEMMA PendingParts ==
  ASSUME WriterType
  PROVE  /\ Pending \in Seq(1 .. emitted)
         /\ writing # "events" => Pending = queue
         /\ writing = "events" => /\ Pending = batch \o queue
                                  /\ batch \in Seq(1 .. emitted)
                                  /\ Elems(Pending) = Elems(batch) \union Elems(queue)
<1>1. queue \in Seq(1 .. emitted)
  BY DEF WriterType
<1>2. CASE writing = "events"
  <2>1. batch \in Seq(1 .. emitted)
    BY <1>2 DEF WriterType
  <2>2. Elems(batch \o queue) = Elems(batch) \union Elems(queue)
    BY <1>1, <2>1, ElemsConcat
  <2> QED BY <1>1, <1>2, <2>1, <2>2, ConcatProperties DEF Pending
<1>3. CASE writing # "events"
  <2>1. Pending = queue
    BY <1>1, <1>3, ConcatEmptySeq DEF Pending
  <2> QED BY <1>1, <1>3, <2>1
<1> QED BY <1>2, <1>3

Accepted == /\ emitted' = emitted + 1 /\ Pending' = Append(Pending, emitted + 1)
            /\ UNCHANGED <<log, dropped>>
Refused  == /\ emitted' = emitted + 1 /\ dropped' = dropped \union {emitted + 1}
            /\ Pending' = Pending /\ UNCHANGED log
Settled  == /\ writing = "events" /\ log' = log \o batch
            /\ Pending' = queue /\ UNCHANGED <<emitted, dropped>>
Waiting  == /\ log' = log \/ (writing = "events" /\ log' = log \o batch)
            /\ Pending' = Pending /\ UNCHANGED <<emitted, dropped>>
GivenUp  == /\ writing = "events" /\ log' \in {log, log \o batch}
            /\ dropped' = dropped \union Elems(batch)
            /\ Pending' = queue /\ UNCHANGED emitted

\* Emit accepts the event or refuses it.
LEMMA EmitPending ==
  ASSUME WriterType, Draining, Emit
  PROVE  Accepted \/ Refused
<1>1. /\ emitted \in Nat /\ queue \in Seq(1 .. emitted) /\ rows \in Seq(1 .. appended)
      /\ emitted' = emitted + 1 /\ UNCHANGED log
  BY DEF WriterType, Emit
<1>2. CASE UNCHANGED dropped /\ Kick(Append(queue, emitted + 1), rows)
  <2>1. CASE writing = "none"
    <3>1. queue = <<>> /\ Pending = <<>>
      BY <2>1, PendingParts DEF Draining
    <3>2. <<emitted + 1>> \in Seq(Nat) /\ Append(queue, emitted + 1) = <<emitted + 1>>
      BY <1>1, <3>1
    <3>3. DrainLoop(<<emitted + 1>>, rows)
      BY <1>2, <2>1, <3>2 DEF Kick
    <3>4. Pending' = <<emitted + 1>>
      BY <1>1, <3>2, <3>3, Turn
    <3> QED BY <1>1, <1>2, <3>1, <3>2, <3>4 DEF Accepted
  <2>2. CASE writing # "none"
    <3>1. queue' = Append(queue, emitted + 1) /\ writing' = writing /\ batch' = batch
      BY <1>2, <2>2 DEF Kick
    <3>2. CASE writing = "events"
      <4>1. Pending' = batch \o Append(queue, emitted + 1)
        BY <3>1, <3>2 DEF Pending
      <4>2. Pending = batch \o queue /\ batch \in Seq(1 .. emitted)
        BY <3>2, PendingParts
      <4>3. /\ batch \in Seq(Nat) /\ queue \in Seq(Nat) /\ <<emitted + 1>> \in Seq(Nat)
            /\ emitted + 1 \in Nat /\ batch \o queue \in Seq(Nat)
        BY <1>1, <4>2, SeqMonotonic
      <4>4. /\ Append(queue, emitted + 1) = queue \o <<emitted + 1>>
            /\ Append(batch \o queue, emitted + 1) = (batch \o queue) \o <<emitted + 1>>
        BY <4>3, AppendIsConcat
      <4>5. batch \o (queue \o <<emitted + 1>>) = (batch \o queue) \o <<emitted + 1>>
        BY <4>3, ConcatAssociative
      <4> QED BY <1>1, <1>2, <4>1, <4>2, <4>4, <4>5 DEF Accepted
    <3>3. CASE writing # "events"
      <4>1. Pending = queue
        BY <3>3, PendingParts
      <4>2. Append(queue, emitted + 1) \in Seq(Nat)
        BY <1>1, SeqMonotonic
      <4>3. Pending' = Append(queue, emitted + 1)
        BY <3>1, <3>3, <4>2, ConcatEmptySeq DEF Pending
      <4> QED BY <1>1, <1>2, <4>1, <4>3 DEF Accepted
    <3> QED BY <3>2, <3>3
  <2> QED BY <2>1, <2>2
<1>3. CASE dropped' = dropped \union {emitted + 1} /\ UNCHANGED drainVars
  BY <1>1, <1>3 DEF Refused, Pending, drainVars
<1> QED BY <1>2, <1>3 DEF Emit

\* The transcripts do not touch the pending events.
LEMMA RowPending ==
  ASSUME WriterType, Draining, AppendRow \/ RowsLand \/ RowsFail \/ RowByRow
  PROVE  Waiting
<1>1. UNCHANGED <<emitted, dropped, log>>
  BY DEF AppendRow, RowsLand, RowsFail, RowByRow, eventVars
<1>2. queue \in Seq(1 .. emitted) /\ rows \in Seq(1 .. appended) /\ appended \in Nat
  BY DEF WriterType
<1>3. Append(rows, appended + 1) \in Seq(Nat) /\ rows \in Seq(Nat)
  BY <1>2, SeqMonotonic
<1>4. CASE writing # "events" /\ (DrainLoop(queue, rows) \/ DrainLoop(queue, Append(rows, appended + 1)))
  <2>1. ASSUME DrainLoop(queue, rows) PROVE Pending' = queue
    BY <1>2, <2>1, Turn
  <2>2. ASSUME DrainLoop(queue, Append(rows, appended + 1)) PROVE Pending' = queue
    BY <1>2, <1>3, <2>2, Turn
  <2>3. Pending = queue
    BY <1>4, PendingParts
  <2>4. Pending' = Pending
    BY <1>4, <2>1, <2>2, <2>3
  <2> QED BY <1>1, <2>4 DEF Waiting
<1>5. CASE UNCHANGED <<queue, writing>> /\ (writing # "events" \/ UNCHANGED batch)
  <2>1. Pending' = Pending
    BY <1>5 DEF Pending
  <2> QED BY <1>1, <2>1 DEF Waiting
<1>6. CASE AppendRow
  BY <1>4, <1>5, <1>6 DEF AppendRow, Kick, drainVars
<1>7. CASE RowsLand \/ RowsFail \/ RowByRow
  BY <1>4, <1>5, <1>7 DEF RowsLand, RowsFail, RowByRow
<1> QED BY <1>6, <1>7

\* The end of an INSERT of events settles the batch, keeps it or gives it up.
LEMMA EventPending ==
  ASSUME WriterType, Draining, EventsLand \/ EventsFail
  PROVE  Settled \/ Waiting \/ GivenUp
<1>1. writing = "events" /\ UNCHANGED emitted
  BY DEF EventsLand, EventsFail
<1>2. queue \in Seq(1 .. emitted) /\ rows \in Seq(1 .. appended)
  BY DEF WriterType
<1>3. DrainLoop(queue, rows) => Pending' = queue
  BY <1>2, Turn
<1>4. CASE EventsLand
  BY <1>1, <1>3, <1>4 DEF EventsLand, Settled
<1>5. CASE EventsFail
  <2>1. log' \in {log, log \o batch}
    BY <1>5 DEF EventsFail
  <2>2. CASE UNCHANGED <<dropped, queue, writing, batch>>
    <3>1. Pending' = Pending
      BY <2>2 DEF Pending
    <3> QED BY <1>1, <2>1, <2>2, <3>1 DEF Waiting
  <2>3. CASE dropped' = dropped \union Elems(batch) /\ DrainLoop(queue, rows)
    BY <1>1, <1>3, <2>1, <2>3 DEF GivenUp
  <2> QED BY <1>5, <2>2, <2>3 DEF EventsFail
<1> QED BY <1>4, <1>5

\* Every step of the writer accepts or refuses an event, or settles, keeps or gives up a
\* batch.
LEMMA WriterPending ==
  ASSUME WriterType, Draining, WriterStep
  PROVE  Accepted \/ Refused \/ Settled \/ Waiting \/ GivenUp
BY EmitPending, RowPending, EventPending DEF WriterStep, Write

\* No step of the writer loses an event.
LEMMA LossStep ==
  ASSUME WriterType, Draining, WriterStep, NoSilentLoss
  PROVE  NoSilentLoss'
<1>0. /\ emitted \in Nat /\ log \in Seq(1 .. emitted) /\ Pending \in Seq(1 .. emitted)
      /\ 1 .. emitted = Elems(log) \union Elems(Pending) \union dropped
  BY PendingParts DEF WriterType, NoSilentLoss
<1>1. 1 .. emitted + 1 = (1 .. emitted) \union {emitted + 1}
  BY <1>0
<1>2. ASSUME writing = "events"
      PROVE  /\ Elems(Pending) = Elems(batch) \union Elems(queue)
             /\ Elems(log \o batch) = Elems(log) \union Elems(batch)
  <2>1. batch \in Seq(1 .. emitted) /\ Elems(Pending) = Elems(batch) \union Elems(queue)
    BY <1>2, PendingParts
  <2>2. Elems(log \o batch) = Elems(log) \union Elems(batch)
    BY <1>0, <2>1, ElemsConcat
  <2> QED BY <2>1, <2>2
<1>3. CASE Accepted
  <2>1. Pending \in Seq(Nat) /\ emitted + 1 \in Nat
    BY <1>0, SeqMonotonic
  <2>2. Elems(Append(Pending, emitted + 1)) = Elems(Pending) \union {emitted + 1}
    BY <2>1, ElemsAppend
  <2>3. Elems(Pending') = Elems(Pending) \union {emitted + 1}
    BY <1>3, <2>2 DEF Accepted
  <2>4. emitted' = emitted + 1 /\ Elems(log') = Elems(log) /\ dropped' = dropped
    BY <1>3 DEF Accepted
  <2>5. 1 .. emitted' = Elems(log') \union Elems(Pending') \union dropped'
    BY <1>0, <1>1, <2>3, <2>4
  <2> QED BY <2>5 DEF NoSilentLoss, Elems
<1>4. CASE Refused
  <2>1. /\ emitted' = emitted + 1 /\ Elems(log') = Elems(log) /\ Elems(Pending') = Elems(Pending)
        /\ dropped' = dropped \union {emitted + 1}
    BY <1>4 DEF Refused
  <2>2. 1 .. emitted' = Elems(log') \union Elems(Pending') \union dropped'
    BY <1>0, <1>1, <2>1
  <2> QED BY <2>2 DEF NoSilentLoss, Elems
<1>5. CASE Settled \/ Waiting \/ GivenUp
  <2>0. emitted' = emitted /\ (log' = log \/ (writing = "events" /\ log' = log \o batch))
    BY <1>5 DEF Settled, Waiting, GivenUp
  <2>1. Elems(log') = Elems(log) \/ (writing = "events" /\ Elems(log') = Elems(log \o batch))
    BY <2>0
  <2>2. \/ Elems(Pending') = Elems(Pending) /\ dropped' = dropped
        \/ writing = "events" /\ Elems(Pending') = Elems(queue) /\ dropped' = dropped \union Elems(batch)
        \/ /\ writing = "events" /\ Elems(Pending') = Elems(queue) /\ dropped' = dropped
           /\ Elems(log') = Elems(log \o batch)
    BY <1>5 DEF Settled, Waiting, GivenUp
  <2>3. 1 .. emitted' = Elems(log') \union Elems(Pending') \union dropped'
    BY <1>0, <1>2, <2>0, <2>1, <2>2
  <2> QED BY <2>3 DEF NoSilentLoss, Elems
<1> QED BY <1>3, <1>4, <1>5, WriterPending

(***************************************************************************)
(* The order of the rows, the batch and the queue.                         *)
(***************************************************************************)

\* A batch and a queue cut from one ordered sequence are in order.
LEMMA OrderOf ==
  ASSUME NEW l \in Seq(Nat), NEW b \in Seq(Nat), NEW q \in Seq(Nat),
         Sorted(b \o q), Before(l, b \o q)
  PROVE  /\ Sorted(b) /\ Sorted(q) /\ Before(b, q) /\ Before(l, q)
         /\ b # <<>> => \A i \in 1 .. Len(l) : l[i] =< b[Len(b)]
<1> DEFINE c == b \o q
<1>1. /\ c \in Seq(Nat) /\ Len(c) = Len(b) + Len(q) /\ Len(b) \in Nat /\ Len(q) \in Nat
      /\ \A i \in 1 .. Len(b) : i \in 1 .. Len(c) /\ c[i] = b[i]
  BY ConcatProperties
<1>2. \A i \in 1 .. Len(q) : Len(b) + i \in 1 .. Len(c) /\ c[Len(b) + i] = q[i]
  BY ConcatProperties
<1>3. /\ DOMAIN c = 1 .. Len(c) /\ DOMAIN b = 1 .. Len(b) /\ DOMAIN q = 1 .. Len(q)
      /\ DOMAIN l = 1 .. Len(l)
  BY <1>1
<1> HIDE DEF c
<1>4. Sorted(c) /\ Before(l, c)
  BY DEF c
<1>5. Sorted(b)
  BY <1>1, <1>3, <1>4 DEF Sorted
<1>6. Sorted(q)
  <2>1. ASSUME NEW i \in 1 .. Len(q), NEW j \in 1 .. Len(q), i < j PROVE q[i] < q[j]
    <3>1. Len(b) + i < Len(b) + j
      BY <1>1, <2>1
    <3> QED BY <1>2, <1>3, <1>4, <3>1 DEF Sorted
  <2> QED BY <1>3, <2>1 DEF Sorted
<1>7. Before(b, q)
  <2>1. ASSUME NEW i \in 1 .. Len(b), NEW j \in 1 .. Len(q) PROVE b[i] < q[j]
    <3>1. i < Len(b) + j
      BY <1>1, <2>1
    <3> QED BY <1>1, <1>2, <1>3, <1>4, <3>1 DEF Sorted
  <2> QED BY <1>3, <2>1 DEF Before
<1>8. Before(l, q)
  BY <1>2, <1>3, <1>4 DEF Before
<1>9. ASSUME b # <<>>, NEW i \in 1 .. Len(l) PROVE l[i] =< b[Len(b)]
  <2>1. Len(b) \in 1 .. Len(b)
    BY <1>9, <1>1, EmptySeq
  <2>2. Len(b) \in 1 .. Len(c) /\ c[Len(b)] = b[Len(b)]
    BY <1>1, <2>1
  <2>3. l[i] < c[Len(b)]
    BY <1>3, <1>4, <1>9, <2>2 DEF Before
  <2>4. l[i] \in Nat /\ b[Len(b)] \in Nat
    BY <1>9, <2>1
  <2> QED BY <2>2, <2>3, <2>4
<1> QED BY <1>5, <1>6, <1>7, <1>8, <1>9

\* After a turn of the drain the order holds if what it found queued was in order.
LEMMA OrderAfterTurn ==
  ASSUME WriterType', Draining', Sorted(Pending'), Before(log', Pending'), NewestRowLast'
  PROVE  Order'
<1>1. emitted' \in Nat /\ log' \in Seq(1 .. emitted') /\ queue' \in Seq(1 .. emitted')
  BY DEF WriterType
<1>2. log' \in Seq(Nat) /\ queue' \in Seq(Nat) /\ 1 .. emitted' \subseteq Nat
  BY <1>1, SeqMonotonic
<1>3. CASE writing' = "events"
  <2>1. batch' \in Seq(Nat) /\ batch' # <<>>
    BY <1>2, <1>3, SeqMonotonic DEF WriterType, Draining
  <2>2. Pending' = batch' \o queue'
    BY <1>3 DEF Pending
  <2>3. /\ Sorted(batch') /\ Sorted(queue') /\ Before(batch', queue') /\ Before(log', queue')
        /\ \A i \in 1 .. Len(log') : log'[i] =< batch'[Len(batch')]
    BY <1>2, <2>1, <2>2, OrderOf
  <2> QED BY <1>3, <2>3 DEF Order, Ids, Sorted, Before
<1>4. CASE writing' # "events"
  <2>1. Pending' = queue'
    BY <1>2, <1>4, ConcatEmptySeq DEF Pending
  <2> QED BY <1>4, <2>1 DEF Order, Sorted, Before
<1> QED BY <1>3, <1>4

\* The batch that lands is newer than every row, and older than what is queued.
LEMMA LandedOrder ==
  ASSUME WriterType, Draining, Order, writing = "events", log' = log \o batch
  PROVE  /\ Before(log', queue) /\ NewestRowLast'
         /\ \A i \in 1 .. Len(log') : log'[i] =< batch[Len(batch)]
<1>1. /\ batch # <<>> /\ batch \in Seq(Nat) /\ log \in Seq(Nat) /\ queue \in Seq(Nat)
  <2>1. 1 .. emitted \subseteq Nat
    BY DEF WriterType
  <2> QED BY <2>1, SeqMonotonic DEF WriterType, Draining
<1>0. /\ DOMAIN batch = 1 .. Len(batch) /\ DOMAIN queue = 1 .. Len(queue)
      /\ DOMAIN log = 1 .. Len(log)
  <2>1. \A s \in Seq(Nat) : DOMAIN s = 1 .. Len(s)
    BY LenProperties
  <2> QED BY <1>1, <2>1
<1>2. /\ Sorted(batch) /\ Before(batch, queue) /\ Before(log, queue)
      /\ \A i \in 1 .. Len(log) : log[i] =< batch[Len(batch)]
  BY DEF Order, Ids
<1>3. Len(batch) \in 1 .. Len(batch) /\ Len(log) \in Nat
  BY <1>1, EmptySeq
<1>4. /\ Len(log') = Len(log) + Len(batch) /\ log' \in Seq(Nat)
      /\ \A i \in 1 .. Len(log') : log'[i] = IF i =< Len(log) THEN log[i] ELSE batch[i - Len(log)]
  BY <1>1, ConcatProperties
<1>5. ASSUME NEW i \in 1 .. Len(log')
      PROVE  /\ log'[i] =< batch[Len(batch)]
             /\ \A j \in 1 .. Len(queue) : log'[i] < queue[j]
  <2>1. CASE i =< Len(log)
    <3>1. i \in 1 .. Len(log) /\ log'[i] = log[i]
      BY <1>4, <1>5, <2>1
    <3>2. \A j \in 1 .. Len(queue) : log[i] < queue[j]
      BY <1>0, <1>2, <3>1 DEF Before
    <3> QED BY <1>2, <3>1, <3>2
  <2>2. CASE i > Len(log)
    <3>1. i - Len(log) \in 1 .. Len(batch) /\ log'[i] = batch[i - Len(log)]
      <4>1. log'[i] = batch[i - Len(log)] /\ i \in 1 .. Len(log) + Len(batch)
        BY <1>3, <1>4, <1>5, <2>2
      <4> QED BY <1>3, <2>2, <4>1
    <3>2. batch[i - Len(log)] =< batch[Len(batch)]
      <4>1. batch[i - Len(log)] \in Nat /\ batch[Len(batch)] \in Nat
        <5>1. \A n \in 1 .. Len(batch) : batch[n] \in Nat
          BY <1>1, ElementOfSeq
        <5> QED BY <1>3, <3>1, <5>1
      <4>2. CASE i - Len(log) = Len(batch)
        BY <4>1, <4>2
      <4>3. CASE i - Len(log) < Len(batch)
        <5>1. batch[i - Len(log)] < batch[Len(batch)]
          <6>1. i - Len(log) \in DOMAIN batch /\ Len(batch) \in DOMAIN batch
            BY <1>0, <1>3, <3>1
          <6>2. \A m, n \in DOMAIN batch : m < n => batch[m] < batch[n]
            BY <1>2 DEF Sorted
          <6> QED BY <4>3, <6>1, <6>2
        <5> QED BY <4>1, <5>1
      <4>4. i - Len(log) = Len(batch) \/ i - Len(log) < Len(batch)
        <5>1. i - Len(log) \in Int /\ Len(batch) \in Int
          BY <1>3, <1>4, <1>5
        <5> QED BY <3>1, <5>1
      <4> QED BY <4>2, <4>3, <4>4
    <3>3. \A j \in 1 .. Len(queue) : batch[i - Len(log)] < queue[j]
      BY <1>0, <1>2, <3>1 DEF Before
    <3> QED BY <3>1, <3>2, <3>3
  <2> QED BY <1>3, <2>1, <2>2
<1>6. log'[Len(log')] = batch[Len(batch)]
  BY <1>3, <1>4
<1>7. NewestRowLast'
  BY <1>5, <1>6 DEF NewestRowLast, Ids
<1>8. DOMAIN log' = 1 .. Len(log') /\ DOMAIN queue = 1 .. Len(queue)
  BY <1>1, <1>4
<1> QED BY <1>5, <1>7, <1>8 DEF Before

\* Every step of the writer keeps the order.
LEMMA OrderStep ==
  ASSUME WriterType, Draining, Order, WriterStep, WriterType', Draining'
  PROVE  Order'
<1>1. /\ emitted \in Nat /\ queue \in Seq(1 .. emitted) /\ rows \in Seq(1 .. appended)
      /\ log \in Seq(1 .. emitted) /\ appended \in Nat
  BY DEF WriterType
<1>2. Sorted(queue) /\ Before(log, queue) /\ NewestRowLast
  BY DEF Order
<1>3. ASSUME NEW R, NEW rs \in Seq(R), DrainLoop(queue, rs), UNCHANGED log PROVE Order'
  <2>1. Pending' = queue
    BY <1>1, <1>3, Turn
  <2>2. Sorted(Pending') /\ Before(log', Pending') /\ NewestRowLast'
    BY <1>2, <1>3, <2>1 DEF NewestRowLast, Ids
  <2> QED BY <2>2, OrderAfterTurn
<1>4. ASSUME UNCHANGED <<log, queue, writing>>, writing # "events" \/ UNCHANGED batch PROVE Order'
  BY <1>4 DEF Order, NewestRowLast, Ids, Sorted, Before
<1>5. CASE Emit
  <2>1. UNCHANGED log
    BY <1>5 DEF Emit
  <2>2. CASE Kick(Append(queue, emitted + 1), rows)
    <3> DEFINE q == Append(queue, emitted + 1)
    <3>1. /\ q \in Seq(Nat) /\ Len(q) = Len(queue) + 1 /\ q[Len(q)] = emitted + 1
          /\ \A i \in 1 .. Len(queue) : q[i] = queue[i] /\ queue[i] \in 1 .. emitted
          /\ \A i \in 1 .. Len(log) : log[i] \in 1 .. emitted
      <4>1. 1 .. emitted \subseteq Nat /\ queue \in Seq(Nat)
        BY <1>1, SeqMonotonic
      <4>2. q \in Seq(Nat) /\ Len(q) = Len(queue) + 1 /\ q[Len(q)] = emitted + 1
        BY <1>1, <4>1, AppendProperties
      <4>3. \A i \in 1 .. Len(queue) : q[i] = queue[i] /\ queue[i] \in 1 .. emitted
        BY <1>1, <4>1, AppendProperties
      <4>4. \A i \in 1 .. Len(log) : log[i] \in 1 .. emitted
        BY <1>1
      <4> QED BY <4>2, <4>3, <4>4
    <3>2. DOMAIN q = 1 .. Len(q) /\ DOMAIN queue = 1 .. Len(queue) /\ Len(queue) \in Nat
      BY <1>1, <3>1
    <3> HIDE DEF q
    <3>3. Sorted(q)
      <4>1. ASSUME NEW i \in 1 .. Len(q), NEW j \in 1 .. Len(q), i < j PROVE q[i] < q[j]
        <5>1. i \in 1 .. Len(queue)
          BY <3>1, <3>2, <4>1
        <5>2. CASE j = Len(q)
          <6>1. q[i] = queue[i] /\ queue[i] \in 1 .. emitted /\ q[j] = emitted + 1
            BY <3>1, <5>1, <5>2
          <6> QED BY <1>1, <6>1
        <5>3. CASE j # Len(q)
          <6>1. j \in 1 .. Len(queue)
            BY <3>1, <3>2, <5>3
          <6> QED BY <1>2, <3>1, <3>2, <4>1, <5>1, <6>1 DEF Sorted
        <5> QED BY <5>2, <5>3
      <4> QED BY <3>2, <4>1 DEF Sorted
    <3>4. Before(log, q)
      <4>1. ASSUME NEW i \in DOMAIN log, NEW j \in 1 .. Len(q) PROVE log[i] < q[j]
        <5>0. log[i] \in 1 .. emitted
          BY <1>1, <3>1
        <5>1. CASE j = Len(q)
          BY <1>1, <3>1, <5>0, <5>1
        <5>2. CASE j # Len(q)
          <6>1. j \in 1 .. Len(queue)
            BY <3>1, <3>2, <5>2
          <6> QED BY <1>2, <3>1, <3>2, <6>1 DEF Before
        <5> QED BY <5>1, <5>2
      <4> QED BY <3>2, <4>1 DEF Before
    <3>5. CASE writing = "none" /\ DrainLoop(q, rows)
      <4>1. Pending' = q
        BY <1>1, <3>1, <3>5, Turn
      <4>2. Sorted(Pending') /\ Before(log', Pending') /\ NewestRowLast'
        BY <1>2, <2>1, <3>3, <3>4, <4>1 DEF NewestRowLast, Ids
      <4> QED BY <4>2, OrderAfterTurn
    <3>6. CASE writing # "none" /\ queue' = q /\ UNCHANGED <<writing, batch>>
      <4>1. Sorted(queue') /\ Before(log', queue') /\ NewestRowLast'
        BY <1>2, <2>1, <3>3, <3>4, <3>6 DEF NewestRowLast, Ids
      <4>2. CASE writing = "events"
        <5>1. /\ Sorted(batch) /\ Before(batch, queue) /\ batch \in Seq(1 .. emitted)
              /\ \A i \in Ids : log[i] =< batch[Len(batch)]
          BY <4>2 DEF Order, WriterType
        <5>2. Before(batch, q)
          <6>0. DOMAIN batch = 1 .. Len(batch) /\ batch \in Seq(1 .. emitted)
            BY <5>1
          <6>1. ASSUME NEW i \in 1 .. Len(batch), NEW j \in 1 .. Len(q) PROVE batch[i] < q[j]
            <7>0. batch[i] \in 1 .. emitted
              BY <6>0, <6>1, ElementOfSeq
            <7>1. CASE j = Len(q)
              BY <1>1, <3>1, <7>0, <7>1
            <7>2. CASE j # Len(q)
              <8>1. j \in 1 .. Len(queue)
                BY <3>1, <3>2, <7>2
              <8> QED BY <3>1, <3>2, <5>1, <6>0, <8>1 DEF Before
            <7> QED BY <7>1, <7>2
          <6> QED BY <3>2, <6>0, <6>1 DEF Before
        <5> QED BY <2>1, <3>6, <4>1, <5>1, <5>2 DEF Order, Ids, Sorted, Before
      <4>3. CASE writing # "events"
        BY <3>6, <4>1, <4>3 DEF Order, Sorted, Before
      <4> QED BY <4>2, <4>3
    <3> QED BY <2>2, <3>5, <3>6 DEF Kick, q
  <2>3. CASE UNCHANGED drainVars
    BY <1>4, <2>1, <2>3 DEF drainVars
  <2> QED BY <1>5, <2>2, <2>3 DEF Emit
<1>6. CASE AppendRow
  <2>1. UNCHANGED log
    BY <1>6 DEF AppendRow, eventVars
  <2>2. Append(rows, appended + 1) \in Seq(Nat)
    BY <1>1, SeqMonotonic
  <2> QED BY <1>3, <1>4, <1>6, <2>1, <2>2 DEF AppendRow, Kick, drainVars
<1>7. CASE RowsLand \/ RowsFail \/ RowByRow
  <2>1. UNCHANGED log /\ writing # "events"
    BY <1>7 DEF RowsLand, RowsFail, RowByRow, eventVars
  <2> QED BY <1>1, <1>3, <1>4, <1>7, <2>1 DEF RowsLand, RowsFail, RowByRow
<1>8. CASE EventsLand \/ EventsFail
  <2>1. writing = "events" /\ log' \in {log, log \o batch}
    BY <1>8 DEF EventsLand, EventsFail
  <2>2. CASE log' = log
    BY <1>1, <1>3, <1>4, <1>8, <2>2 DEF EventsLand, EventsFail
  <2>3. CASE log' = log \o batch
    <3>1. /\ Before(log', queue) /\ NewestRowLast'
          /\ \A i \in 1 .. Len(log') : log'[i] =< batch[Len(batch)]
      BY <2>1, <2>3, LandedOrder
    <3>2. CASE DrainLoop(queue, rows)
      <4>1. Pending' = queue
        BY <1>1, <3>2, Turn
      <4> QED BY <1>2, <3>1, <4>1, OrderAfterTurn
    <3>3. CASE UNCHANGED <<queue, writing, batch>>
      <4>1. Sorted(batch) /\ Before(batch, queue)
        BY <2>1 DEF Order
      <4> QED BY <1>2, <2>1, <3>1, <3>3, <4>1 DEF Order, Ids, Sorted, Before
    <3> QED BY <1>8, <3>2, <3>3 DEF EventsLand, EventsFail
  <2> QED BY <2>1, <2>2, <2>3
<1> QED BY <1>5, <1>6, <1>7, <1>8 DEF WriterStep, Write

(***************************************************************************)
(* What the readers' computations count.                                   *)
(***************************************************************************)

\* A computation keeps what it covers while what it has seen and the rows stay.
LEMMA Kept ==
  ASSUME NEW r, NEW s, Covers(r, s), asked'[s] = asked[s], dropped \subseteq dropped',
         Seen(r) \subseteq Seen(r)', \A i \in Seen(r) : log'[i] = log[i]
  PROVE  Covers(r, s)'
<1>1. ASSUME NEW e \in 1 .. asked'[s]
      PROVE  e \in dropped' \/ \E i \in Seen(r)' : log'[i] = e
  <2>1. e \in dropped \/ \E i \in Seen(r) : log[i] = e
    BY <1>1 DEF Covers
  <2> QED BY <2>1
<1> QED BY <1>1 DEF Covers

\* A computation sees rows of the table.
LEMMA SeenIds ==
  ASSUME WriterType, ReaderType, NEW r \in Readers, Sound(r)
  PROVE  Seen(r) \subseteq Ids
<1>1. mark[r] \in Nat /\ Len(log) \in Nat /\ mark[r] =< Len(log)
  BY DEF WriterType, ReaderType, Sound
<1> QED BY <1>1 DEF Seen, Ids

\* The writer takes nothing away from a computation.
LEMMA WriterComputations ==
  ASSUME WriterType, ReaderType, Growing, Computations, WriterType'
  PROVE  Computations'
<1>1. /\ UNCHANGED <<pc, asked, got, mark, follows>> /\ dropped \subseteq dropped'
      /\ Len(log) =< Len(log') /\ \A i \in Ids : log'[i] = log[i]
      /\ Len(log) \in Nat /\ Len(log') \in Nat
  BY DEF Growing, readerVars, WriterType
<1>2. ASSUME NEW r \in Readers
      PROVE  /\ Seen(r) \subseteq Ids /\ Seen(r) \subseteq Seen(r)'
             /\ \A i \in Seen(r) : log'[i] = log[i]
  <2>1. Seen(r) \subseteq Ids
    BY SeenIds DEF Computations
  <2>2. Ids \subseteq Ids'
    BY <1>1 DEF Ids
  <2>3. Seen(r) \subseteq Seen(r)'
    BY <1>1, <2>2 DEF Seen
  <2> QED BY <1>1, <2>1, <2>3
<1>3. ASSUME NEW r \in Readers PROVE Sound(r)'
  <2>1. Sound(r)
    BY DEF Computations
  <2>2. pc'[r] \in Computing \union {"budget"} => Covers(r, r)'
    BY <1>1, <1>2, <2>1, Kept DEF Sound
  <2>3. ASSUME pc'[r] = "adopt"
        PROVE  follows'[r] \in Readers /\ pc'[follows'[r]] \in Computing /\ Covers(follows[r], r)'
    <3>1. PICK f : f = follows[r]
      OBVIOUS
    <3>2. f \in Readers /\ pc[f] \in Computing /\ Covers(f, r)
      BY <1>1, <2>1, <2>3, <3>1 DEF Sound
    <3>3. Covers(f, r)'
      BY <1>1, <1>2, <3>2, Kept
    <3>4. follows'[r] = f
      BY <1>1, <3>1
    <3> QED BY <1>1, <3>2, <3>3, <3>4 DEF Covers, Seen
  <2>4. mark'[r] \in Nat /\ mark'[r] =< Len(log')
    BY <1>1, <2>1 DEF Sound, ReaderType
  <2>5. ASSUME pc'[r] = "runs", NEW i \in 1 .. mark'[r] PROVE log'[i] \in Deliveries \/ i \in got'[r]
    <3>1. log[i] \in Deliveries \/ i \in got[r]
      BY <1>1, <2>1, <2>5 DEF Sound
    <3>2. i \in Ids
      BY <1>1, <2>1, <2>4, <2>5 DEF Sound, Ids
    <3> QED BY <1>1, <3>1, <3>2
  <2> QED BY <2>2, <2>3, <2>4, <2>5 DEF Sound, Computing
<1> QED BY <1>3 DEF Computations

\* While the generation stands, what a batch has put in the table is still its own, or is
\* dropped with it.
LEMMA BatchOrDropped ==
  ASSUME WriterType, Draining, WriterStep, gen' = gen
  PROVE  /\ log' = log \/ (writing = "events" /\ log' = log \o batch)
         /\ writing = "events" => \/ Elems(batch) \subseteq dropped'
                                  \/ writing' = "events" /\ batch' = batch
<1>1. CASE writing = "events"
  <2>1. CASE Emit
    BY <1>1, <2>1 DEF Emit, Kick, drainVars
  <2>2. CASE AppendRow
    BY <1>1, <2>2 DEF AppendRow, Kick, drainVars, eventVars
  <2>3. CASE EventsFail
    <3>1. log' = log \/ log' = log \o batch
      BY <2>3 DEF EventsFail
    <3>2. (Elems(batch) \subseteq dropped') \/ UNCHANGED <<writing, batch>>
      BY <2>3 DEF EventsFail
    <3> QED BY <1>1, <3>1, <3>2
  <2>4. ~ EventsLand
    BY DEF EventsLand, WriterType
  <2> QED BY <1>1, <2>1, <2>2, <2>3, <2>4 DEF WriterStep, Write, RowsLand, RowsFail, RowByRow
<1>2. CASE writing # "events"
  BY <1>2 DEF WriterStep, Emit, AppendRow, Write, EventsLand, EventsFail, RowsLand, RowsFail, RowByRow, eventVars
<1> QED BY <1>1, <1>2

\* The writer keeps the slot right: new rows are of a new generation, or unacknowledged.
LEMMA WriterSlot ==
  ASSUME WriterType, ReaderType, Draining, WriterStep, Growing, Slot, WriterType'
  PROVE  Slot'
<1>1. /\ UNCHANGED <<pc, mark, slot>> /\ dropped \subseteq dropped'
      /\ Len(log) =< Len(log') /\ \A i \in Ids : log'[i] = log[i]
      /\ Len(log) \in Nat /\ Len(log') \in Nat /\ gen \in Nat /\ gen' \in Nat
      /\ slot.gen \in Int
  <2>1. /\ UNCHANGED <<pc, mark, slot>> /\ dropped \subseteq dropped'
        /\ Len(log) =< Len(log') /\ \A i \in Ids : log'[i] = log[i]
    BY DEF Growing, readerVars
  <2>2. Len(log) \in Nat /\ gen \in Nat
    BY DEF WriterType
  <2>3. Len(log') \in Nat /\ gen' \in Nat
    BY DEF WriterType
  <2>4. slot.gen \in Int
    BY DEF ReaderType
  <2> QED BY <2>1, <2>2, <2>3, <2>4
<1>2. gen' = gen \/ gen' = gen + 1
  BY DEF WriterStep, Emit, AppendRow, Write, EventsLand, EventsFail, RowsLand, RowsFail, RowByRow, eventVars
<1>3. slot'.gen =< gen'
  BY <1>1, <1>2 DEF Slot
<1>4. /\ slot'.by = Nobody => slot'.gen = -1
      /\ slot'.by # Nobody => pc'[slot'.by] \in Computing
  BY <1>1 DEF Slot
<1>5. ASSUME slot.by # Nobody, slot.gen >= gen', pc[slot.by] # "mark",
             NEW i \in Ids', i > mark[slot.by]
      PROVE  log'[i] \in dropped' \/ (writing' = "events" /\ log'[i] \in Elems(batch'))
  <2>1. gen' = gen /\ slot.gen >= gen
    BY <1>1, <1>2, <1>5 DEF Slot
  <2>2. /\ log' = log \/ (writing = "events" /\ log' = log \o batch)
        /\ writing = "events" => \/ Elems(batch) \subseteq dropped'
                                 \/ writing' = "events" /\ batch' = batch
    BY <2>1, BatchOrDropped
  <2>3. log'[i] \in dropped \/ (writing = "events" /\ log'[i] \in Elems(batch))
    <3>1. CASE i \in Ids
      <4>1. log[i] \in dropped \/ (writing = "events" /\ log[i] \in Elems(batch))
        BY <1>5, <2>1, <3>1 DEF Slot
      <4> QED BY <1>1, <3>1, <4>1
    <3>2. CASE i \notin Ids
      <4>1. writing = "events" /\ log' = log \o batch
        BY <1>5, <2>2, <3>2 DEF Ids
      <4>2. batch \in Seq(1 .. emitted) /\ log \in Seq(1 .. emitted)
        BY <4>1 DEF WriterType
      <4>3. Len(log') = Len(log) + Len(batch) /\ i > Len(log) /\ i \in 1 .. Len(log')
        BY <1>1, <1>5, <3>2, <4>1, <4>2, ConcatProperties DEF Ids
      <4>4. log'[i] = batch[i - Len(log)] /\ i - Len(log) \in 1 .. Len(batch)
        BY <1>1, <4>1, <4>2, <4>3, ConcatProperties
      <4>5. log'[i] \in Elems(batch)
        BY <4>2, <4>4 DEF Elems
      <4> QED BY <4>1, <4>5
    <3> QED BY <3>1, <3>2
  <2>4. (Elems(batch) \subseteq dropped') \/ Elems(batch') = Elems(batch) \/ writing # "events"
    BY <2>2
  <2> QED BY <1>1, <2>2, <2>3, <2>4
<1> QED BY <1>1, <1>3, <1>4, <1>5 DEF Slot, Elems

\* The writer takes nothing away from the readers.
LEMMA WriterReading ==
  ASSUME WriterType, ReaderType, Draining, WriterStep, Growing, Reading, WriterType'
  PROVE  Reading'
<1>1. UNCHANGED <<cache, missed>> /\ dropped \subseteq dropped' /\ Len(log) =< Len(log')
  BY DEF Growing, readerVars
<1>2. CacheWhole'
  <2>1. cache.mark =< Len(log) /\ 1 .. cache.mark \subseteq cache.ids
    BY DEF Reading, CacheWhole
  <2>2. cache.mark \in Int /\ Len(log) \in Nat /\ Len(log') \in Nat
    <3>1. Len(log) \in Nat
      BY DEF WriterType
    <3>2. Len(log') \in Nat
      BY DEF WriterType
    <3> QED BY <3>1, <3>2 DEF ReaderType
  <2>3. cache.mark =< Len(log')
    BY <1>1, <2>1, <2>2
  <2> QED BY <1>1, <2>1, <2>3 DEF CacheWhole
<1>3. ReadersSeeTheirEvents'
  BY <1>1 DEF Reading, ReadersSeeTheirEvents
<1>4. Computations' /\ Slot'
  BY WriterComputations, WriterSlot DEF Reading
<1> QED BY <1>2, <1>3, <1>4 DEF Reading

\* A step of r that leaves its computation at least what it had leaves the others alone.
LEMMA Others ==
  ASSUME WriterType, ReaderType, Computations, NEW r \in Readers, NEW p,
         UNCHANGED <<log, dropped>>, pc' = [pc EXCEPT ![r] = p],
         \A s \in Readers \ {r} : /\ asked'[s] = asked[s] /\ follows'[s] = follows[s]
                                  /\ got'[s] = got[s] /\ mark'[s] = mark[s],
         pc[r] \in Computing => p \in Computing /\ Seen(r) \subseteq Seen(r)'
  PROVE  \A s \in Readers \ {r} : Sound(s)'
<1>1. \A s \in Readers \ {r} : pc'[s] = pc[s]
  BY DEF ReaderType
<1>2. \A f \in Readers : pc[f] \in Computing => Seen(f) \subseteq Seen(f)' /\ pc'[f] \in Computing
  BY <1>1 DEF Seen, Ids, ReaderType
<1>3. \A s \in Readers \ {r} : Seen(s) \subseteq Seen(s)'
  BY <1>1 DEF Seen, Ids
<1>4. ASSUME NEW s \in Readers \ {r} PROVE Sound(s)'
  <2>1. Sound(s)
    BY DEF Computations
  <2>2. pc'[s] \in Computing \union {"budget"} => Covers(s, s)'
    BY <1>1, <1>3, <2>1, Kept DEF Sound
  <2>3. ASSUME pc'[s] = "adopt"
        PROVE  follows'[s] \in Readers /\ pc'[follows'[s]] \in Computing /\ Covers(follows[s], s)'
    <3>1. PICK f : f = follows[s]
      OBVIOUS
    <3>2. f \in Readers /\ pc[f] \in Computing /\ Covers(f, s)
      BY <1>1, <2>1, <2>3, <3>1 DEF Sound
    <3>3. Covers(f, s)'
      BY <1>2, <3>2, Kept
    <3>4. follows'[s] = f
      BY <3>1
    <3> QED BY <1>2, <3>2, <3>3, <3>4 DEF Covers, Seen
  <2>4. /\ mark'[s] =< Len(log')
        /\ pc'[s] = "runs" => \A i \in 1 .. mark'[s] : log'[i] \in Deliveries \/ i \in got'[s]
    BY <1>1, <2>1 DEF Sound
  <2> QED BY <2>2, <2>3, <2>4 DEF Sound, Computing
<1> QED BY <1>4

\* A reader that has flushed finds every event it asked about, or the drop of it.
LEMMA AfterFlush ==
  ASSUME WriterType, NoSilentLoss, Flushed
  PROVE  \A e \in 1 .. emitted : e \in dropped \/ \E i \in Ids : log[i] = e
<1>1. Pending = <<>>
  BY PendingParts DEF Flushed
<1>2. Elems(Pending) = {}
  BY <1>1, ElemsEmpty
<1>3. \A e \in Elems(log) : \E i \in Ids : log[i] = e
  <2>1. DOMAIN log = Ids
    <3>1. log \in Seq(1 .. emitted)
      BY DEF WriterType
    <3> QED BY <3>1, LenProperties DEF Ids
  <2> QED BY <2>1 DEF Elems
<1> QED BY <1>2, <1>3 DEF NoSilentLoss

\* Those a computation serves leave the rest as it was.
LEMMA Served ==
  ASSUME WriterType, ReaderType, Computations, Slot, NEW r \in Readers,
         pc[r] \in Computing \union {"budget"}, Serve(r),
         UNCHANGED <<log, dropped, gen, writing, batch>>
  PROVE  /\ Computations' /\ Slot'
         /\ \A s \in Readers : asked'[s] = 0 =>
              asked[s] = 0 \/ s = r \/ (pc[s] = "adopt" /\ follows[s] = r)
<1> DEFINE served == {r} \union {s \in Readers : pc[s] = "adopt" /\ follows[s] = r}
<1>1. /\ pc' = [s \in Readers |-> IF s \in served THEN "idle" ELSE pc[s]]
      /\ asked' = [s \in Readers |-> IF s \in served THEN 0 ELSE asked[s]]
      /\ got' = [got EXCEPT ![r] = {}]
      /\ mark' = [mark EXCEPT ![r] = 0]
      /\ follows' = [s \in Readers |-> IF s \in served THEN Nobody ELSE follows[s]]
      /\ slot' = IF slot.by = r THEN NoSlot ELSE slot
  BY DEF Serve
<1>2. r \in served /\ \A s \in Readers \ {r} : s \in served <=> pc[s] = "adopt" /\ follows[s] = r
  OBVIOUS
<1>3. \A s \in Readers : asked'[s] = 0 =>
         asked[s] = 0 \/ s = r \/ (pc[s] = "adopt" /\ follows[s] = r)
  BY <1>1
<1> HIDE DEF served
<1>4. \A s \in Readers : s \in served => pc'[s] = "idle"
  BY <1>1
<1>5. \A s \in Readers : s \notin served =>
         /\ pc'[s] = pc[s] /\ asked'[s] = asked[s] /\ follows'[s] = follows[s]
         /\ got'[s] = got[s] /\ mark'[s] = mark[s] /\ Seen(s)' = Seen(s)
  <2>1. \A s \in Readers : s \notin served =>
         /\ pc'[s] = pc[s] /\ asked'[s] = asked[s] /\ follows'[s] = follows[s]
         /\ got'[s] = got[s] /\ mark'[s] = mark[s]
    BY <1>1, <1>2 DEF ReaderType
  <2> QED BY <2>1 DEF Seen, Ids
<1>6. \A f \in Readers : f # r /\ pc[f] \in Computing => f \notin served
  BY <1>2 DEF Computing
<1>7. ASSUME NEW s \in Readers PROVE Sound(s)'
  <2>1. Sound(s) /\ Len(log) \in Nat
    BY DEF Computations, WriterType
  <2>2. mark'[s] =< Len(log')
    BY <1>1, <2>1 DEF Sound, ReaderType
  <2>3. CASE s \in served
    BY <1>4, <2>2, <2>3 DEF Sound, Computing
  <2>4. CASE s \notin served
    <3>1. pc'[s] \in Computing \union {"budget"} => Covers(s, s)'
      BY <1>5, <2>1, <2>4, Kept DEF Sound
    <3>2. ASSUME pc'[s] = "adopt"
          PROVE  follows'[s] \in Readers /\ pc'[follows'[s]] \in Computing /\ Covers(follows[s], s)'
      <4>1. PICK f : f = follows[s]
        OBVIOUS
      <4>2. pc[s] = "adopt" /\ f \in Readers /\ pc[f] \in Computing /\ Covers(f, s)
        BY <1>5, <2>1, <2>4, <3>2, <4>1 DEF Sound
      <4>3. f # r /\ f \notin served
        BY <1>2, <1>6, <2>4, <4>1, <4>2
      <4>4. Covers(f, s)'
        BY <1>5, <2>4, <4>2, <4>3, Kept
      <4>5. follows'[s] = f /\ pc'[f] = pc[f]
        BY <1>5, <2>4, <4>1, <4>2, <4>3
      <4> QED BY <4>2, <4>4, <4>5 DEF Covers, Seen
    <3>3. pc'[s] = "runs" => \A i \in 1 .. mark'[s] : log'[i] \in Deliveries \/ i \in got'[s]
      BY <1>5, <2>1, <2>4 DEF Sound
    <3> QED BY <2>2, <3>1, <3>2, <3>3 DEF Sound, Computing
  <2> QED BY <2>3, <2>4
<1>8. Slot'
  <2>1. CASE slot.by = r
    <3>1. slot'.gen = -1 /\ slot'.by = Nobody /\ gen' \in Nat
      BY <1>1, <2>1 DEF NoSlot, WriterType
    <3> QED BY <3>1 DEF Slot
  <2>2. CASE slot.by # r
    <3>1. slot' = slot
      BY <1>1, <2>2
    <3>2. CASE slot.by = Nobody
      BY <3>1, <3>2 DEF Slot
    <3>3. CASE slot.by # Nobody
      <4>1. slot.by \in Readers /\ pc[slot.by] \in Computing
        BY <3>3 DEF Slot, ReaderType
      <4>2. pc'[slot.by] = pc[slot.by] /\ mark'[slot.by] = mark[slot.by]
        BY <1>5, <1>6, <2>2, <4>1
      <4> QED BY <3>1, <3>3, <4>1, <4>2 DEF Slot, Ids, Elems
    <3> QED BY <3>2, <3>3
  <2> QED BY <2>1, <2>2
<1> QED BY <1>3, <1>7, <1>8 DEF Computations

\* An answer that counts what the computation has seen misses nothing but the dropped.
LEMMA Answered ==
  ASSUME WriterType, ReaderType, Reading, NEW r \in Readers, NEW ids,
         pc[r] \in Computing \union {"budget"}, Answer(r, ids), Seen(r) \subseteq ids,
         UNCHANGED <<log, dropped, gen, writing, batch>>
  PROVE  Computations' /\ Slot' /\ ReadersSeeTheirEvents'
<1>1. Serve(r) /\ Computations /\ Slot /\ missed \subseteq dropped
  BY DEF Answer, Reading, ReadersSeeTheirEvents
<1>2. /\ Computations' /\ Slot'
      /\ \A s \in Readers : asked'[s] = 0 =>
           asked[s] = 0 \/ s = r \/ (pc[s] = "adopt" /\ follows[s] = r)
  BY <1>1, Served
<1>3. ASSUME NEW e \in 1 .. emitted, \A i \in ids : log[i] # e,
             NEW s \in Readers, e =< asked[s], asked'[s] = 0
      PROVE  e \in dropped
  <2>1. s = r \/ (pc[s] = "adopt" /\ follows[s] = r)
    BY <1>2, <1>3 DEF ReaderType
  <2>2. Covers(r, s)
    BY <1>1, <2>1 DEF Computations, Sound
  <2>3. e \in 1 .. asked[s]
    BY <1>3 DEF ReaderType, WriterType
  <2> QED BY <1>3, <2>2, <2>3 DEF Covers
<1>4. missed' \subseteq dropped
  BY <1>1, <1>3 DEF Answer
<1> QED BY <1>2, <1>4 DEF ReadersSeeTheirEvents

\* Every step of a reader keeps the readers' invariant.
LEMMA ReaderReading ==
  ASSUME WriterType, ReaderType, NoSilentLoss, Reading, ReaderStep, ReaderType'
  PROVE  Reading'
<1>1. /\ UNCHANGED <<log, dropped, gen, writing, batch, emitted>> /\ Len(log) \in Nat /\ gen \in Nat
      /\ Ids' = Ids /\ Ids = 1 .. Len(log)
  BY ReaderFrame DEF eventVars, drainVars, WriterType, Ids
<1>2. Computations /\ Slot /\ CacheWhole /\ ReadersSeeTheirEvents
  BY DEF Reading
<1>3. PICK r \in Readers : AskTelemetry(r) \/ GateOpens(r) \/ Read(r)
  BY DEF ReaderStep
<1>4. Sound(r) /\ mark[r] \in Nat /\ r # Nobody
  BY <1>2, NobodyReads DEF Computations, ReaderType
<1>5. ASSUME UNCHANGED cache PROVE CacheWhole'
  BY <1>1, <1>2, <1>5 DEF CacheWhole
<1>6. ASSUME UNCHANGED missed PROVE ReadersSeeTheirEvents'
  BY <1>1, <1>2, <1>6 DEF ReadersSeeTheirEvents
<1>7. ASSUME slot' = slot, slot.by # r, mark' = mark, \A s \in Readers \ {r} : pc'[s] = pc[s]
      PROVE  Slot'
  <2>1. CASE slot.by = Nobody
    BY <1>1, <1>2, <1>7, <2>1 DEF Slot
  <2>2. CASE slot.by # Nobody
    <3>1. slot.by \in Readers \ {r}
      BY <1>7, <2>2 DEF ReaderType
    <3>2. pc'[slot.by] = pc[slot.by]
      BY <1>7, <3>1
    <3> QED BY <1>1, <1>2, <1>7, <2>2, <3>2 DEF Slot, Elems
  <2> QED BY <2>1, <2>2
<1>8. pc[r] \notin Computing => slot.by # r
  BY <1>2, <1>4 DEF Slot
<1>9. ASSUME Flushed
      PROVE  \A s \in Readers : \A e \in 1 .. asked[s] : e \in dropped \/ \E i \in Ids : log[i] = e
  <2>1. \A e \in 1 .. emitted : e \in dropped \/ \E i \in Ids : log[i] = e
    BY <1>9, AfterFlush
  <2>2. \A s \in Readers : 1 .. asked[s] \subseteq 1 .. emitted
    BY DEF ReaderType, WriterType
  <2> QED BY <2>1, <2>2
<1>10. CASE AskTelemetry(r) \/ GateOpens(r)
  <2>1. PICK p \in {"flush", "gated"} : pc' = [pc EXCEPT ![r] = p]
    BY <1>10 DEF AskTelemetry, GateOpens, Call
  <2>2. /\ pc[r] = "idle" /\ asked' = [asked EXCEPT ![r] = emitted]
        /\ UNCHANGED <<got, mark, follows, slot, cache, missed>>
    BY <1>10 DEF AskTelemetry, GateOpens, Call
  <2>3. \A s \in Readers \ {r} : asked'[s] = asked[s] /\ pc'[s] = pc[s]
    BY <2>1, <2>2 DEF ReaderType
  <2>4. \A s \in Readers \ {r} : Sound(s)'
    BY <1>1, <1>2, <2>1, <2>2, <2>3, Others DEF Computing
  <2>5. pc'[r] \in {"flush", "gated"}
    BY <2>1 DEF ReaderType
  <2>6. Sound(r)'
    BY <1>1, <1>4, <2>2, <2>5 DEF Sound, Computing
  <2>7. Slot'
    BY <1>7, <1>8, <2>2, <2>3 DEF Computing
  <2> QED BY <1>5, <1>6, <2>2, <2>4, <2>6, <2>7 DEF Reading, Computations
<1>11. CASE Adopt(r)
  <2>1. /\ pc[r] = "flush" /\ Flushed /\ slot.gen >= gen
        /\ pc' = [pc EXCEPT ![r] = "adopt"] /\ follows' = [follows EXCEPT ![r] = slot.by]
        /\ UNCHANGED <<asked, got, mark, slot, cache, missed>>
    BY <1>11 DEF Adopt
  <2>2. \A s \in Readers \ {r} : follows'[s] = follows[s] /\ pc'[s] = pc[s]
    BY <2>1 DEF ReaderType
  <2>3. \A s \in Readers \ {r} : Sound(s)'
    BY <1>1, <1>2, <2>1, <2>2, Others DEF Computing
  <2>4. PICK c : c = slot.by
    OBVIOUS
  <2>5. c \in Readers /\ c # r /\ pc[c] \in Computing
    BY <1>1, <1>2, <1>8, <2>1, <2>4 DEF Slot, ReaderType, Computing
  <2>6. Covers(c, r)
    <3>1. ASSUME NEW i \in Ids PROVE log[i] \in dropped \/ i \in Seen(c)
      <4>1. CASE pc[c] = "mark" \/ i =< mark[c]
        BY <1>1, <3>1, <4>1 DEF Seen
      <4>2. CASE pc[c] # "mark" /\ ~ i =< mark[c]
        <5>1. mark[c] \in Nat /\ writing = "none" /\ c # Nobody
          BY <2>1, <2>5, NobodyReads DEF ReaderType, Flushed
        <5> QED BY <1>1, <1>2, <2>1, <2>4, <3>1, <4>2, <5>1 DEF Slot
      <4> QED BY <4>1, <4>2
    <3> QED BY <1>9, <2>1, <3>1 DEF Covers
  <2>7. pc'[c] = pc[c] /\ Seen(c)' = Seen(c)
    <3>1. pc'[c] = pc[c]
      BY <2>2, <2>5
    <3> QED BY <1>1, <2>1, <3>1 DEF Seen
  <2>8. Covers(c, r)'
    BY <1>1, <2>1, <2>6, <2>7, Kept
  <2>9. pc'[r] = "adopt" /\ follows'[r] = c
    BY <2>1, <2>4 DEF ReaderType
  <2>10. Sound(r)'
    <3>1. mark'[r] =< Len(log')
      BY <1>1, <1>4, <2>1 DEF Sound
    <3> QED BY <2>5, <2>7, <2>8, <2>9, <3>1 DEF Sound, Computing, Covers, Seen
  <2>11. Slot'
    BY <1>7, <1>8, <2>1, <2>2 DEF Computing
  <2> QED BY <1>5, <1>6, <2>1, <2>3, <2>10, <2>11 DEF Reading, Computations
<1>12. CASE Compute(r)
  <2>1. /\ pc[r] = "flush" /\ Flushed
        /\ slot' = [gen |-> gen, by |-> r] /\ pc' = [pc EXCEPT ![r] = "mark"]
        /\ UNCHANGED <<asked, got, mark, follows, cache, missed>>
    BY <1>12 DEF Compute
  <2>2. \A s \in Readers \ {r} : Sound(s)'
    BY <1>1, <1>2, <2>1, Others DEF Computing
  <2>3. pc'[r] = "mark" /\ slot'.by = r /\ slot'.gen = gen
    BY <2>1 DEF ReaderType
  <2>4. Covers(r, r)'
    BY <1>1, <1>9, <2>1, <2>3 DEF Covers, Seen
  <2>5. Sound(r)'
    BY <1>1, <1>4, <2>1, <2>3, <2>4 DEF Sound, Computing
  <2>6. Slot'
    BY <1>1, <1>4, <2>3 DEF Slot, Computing
  <2> QED BY <1>5, <1>6, <2>1, <2>2, <2>5, <2>6 DEF Reading, Computations
<1>13. CASE ReadMark(r)
  <2>1. pc[r] = "mark" /\ UNCHANGED cache /\ Seen(r) = Ids
    BY <1>13 DEF ReadMark, Seen
  <2>2. CASE cache.mark = Len(log) /\ Answer(r, cache.ids)
    <3>1. Seen(r) \subseteq cache.ids
      BY <1>1, <1>2, <2>1, <2>2 DEF CacheWhole
    <3>2. Computations' /\ Slot' /\ ReadersSeeTheirEvents'
      BY <1>1, <2>1, <2>2, <3>1, Answered DEF Computing
    <3> QED BY <1>5, <2>1, <3>2 DEF Reading
  <2>3. CASE /\ mark' = [mark EXCEPT ![r] = Len(log)]
             /\ pc' = [pc EXCEPT ![r] = "stages"]
             /\ UNCHANGED <<asked, got, follows, slot, missed>>
    <3>1. /\ pc'[r] = "stages" /\ mark'[r] = Len(log)
          /\ \A s \in Readers \ {r} : mark'[s] = mark[s] /\ pc'[s] = pc[s]
      BY <2>3 DEF ReaderType
    <3>2. Seen(r)' = Seen(r)
      BY <1>1, <2>1, <3>1 DEF Seen
    <3>3. \A s \in Readers \ {r} : Sound(s)'
      BY <1>1, <1>2, <2>3, <3>1, <3>2, Others DEF Computing
    <3>4. Covers(r, r)'
      BY <1>1, <1>4, <2>1, <2>3, <3>2, Kept DEF Sound, Computing
    <3>5. Sound(r)'
      BY <1>1, <3>1, <3>4 DEF Sound
    <3>6. Slot'
      <4>1. CASE slot.by = r
        BY <1>1, <1>2, <1>4, <2>3, <3>1, <4>1 DEF Slot, Computing
      <4>2. CASE slot.by = Nobody
        BY <1>1, <1>2, <2>3, <4>2 DEF Slot
      <4>3. CASE slot.by # r /\ slot.by # Nobody
        <5>1. slot.by \in Readers \ {r}
          BY <4>3 DEF ReaderType
        <5>2. mark'[slot.by] = mark[slot.by] /\ pc'[slot.by] = pc[slot.by] /\ slot' = slot
          BY <2>3, <3>1, <5>1
        <5> QED BY <1>1, <1>2, <4>3, <5>2 DEF Slot, Elems
      <4> QED BY <4>1, <4>2, <4>3
    <3> QED BY <1>5, <1>6, <2>1, <2>3, <3>3, <3>5, <3>6 DEF Reading, Computations
  <2> QED BY <1>13, <2>2, <2>3 DEF ReadMark
<1>14. CASE ScanStages(r)
  <2>1. /\ pc[r] = "stages" /\ pc' = [pc EXCEPT ![r] = "runs"]
        /\ got' = [got EXCEPT ![r] = {i \in Ids : log[i] \notin Deliveries}]
        /\ UNCHANGED <<asked, mark, follows, slot, cache, missed>>
    BY <1>14 DEF ScanStages
  <2>2. /\ pc'[r] = "runs" /\ got'[r] = {i \in Ids : log[i] \notin Deliveries}
        /\ \A s \in Readers \ {r} : got'[s] = got[s] /\ pc'[s] = pc[s]
    BY <2>1 DEF ReaderType
  <2>3. Seen(r)' = Seen(r)
    BY <2>1, <2>2 DEF Seen
  <2>4. \A s \in Readers \ {r} : Sound(s)'
    BY <1>1, <1>2, <2>1, <2>2, <2>3, Others DEF Computing
  <2>5. Covers(r, r)'
    BY <1>1, <1>4, <2>1, <2>3, Kept DEF Sound, Computing, Seen, Ids
  <2>6. Sound(r)'
    <3>1. mark[r] =< Len(log) /\ mark' = mark
      BY <1>4, <2>1 DEF Sound
    <3>2. \A i \in 1 .. mark[r] : log[i] \in Deliveries \/ i \in got'[r]
      BY <1>1, <1>4, <2>2, <3>1
    <3> QED BY <1>1, <2>2, <2>5, <3>1, <3>2 DEF Sound
  <2>7. Slot'
    <3>1. CASE slot.by = r
      BY <1>1, <1>2, <1>4, <2>1, <2>2, <3>1 DEF Slot, Computing, Elems
    <3>2. CASE slot.by # r
      BY <1>7, <2>1, <2>2, <3>2
    <3> QED BY <3>1, <3>2
  <2> QED BY <1>5, <1>6, <2>1, <2>4, <2>6, <2>7 DEF Reading, Computations
<1>15. CASE ScanRuns(r)
  <2> DEFINE ids == got[r] \union {i \in Ids : log[i] \in Deliveries}
  <2>1. /\ pc[r] = "runs" /\ Answer(r, ids) /\ Seen(r) = 1 .. mark[r]
        /\ cache' = IF mark[r] >= cache.mark THEN [mark |-> mark[r], ids |-> ids] ELSE cache
    BY <1>15 DEF ScanRuns, Seen
  <2>2. 1 .. mark[r] \subseteq ids /\ mark[r] =< Len(log)
    <3>1. ASSUME NEW i \in 1 .. mark[r] PROVE i \in ids
      BY <1>1, <1>4, <2>1, <3>1 DEF Sound
    <3> QED BY <1>4, <3>1 DEF Sound
  <2> HIDE DEF ids
  <2>3. Computations' /\ Slot' /\ ReadersSeeTheirEvents'
    BY <1>1, <2>1, <2>2, Answered DEF Computing
  <2>4. CacheWhole'
    BY <1>1, <1>2, <2>1, <2>2 DEF CacheWhole
  <2> QED BY <2>3, <2>4 DEF Reading
<1>16. CASE BudgetFlush(r)
  <2>1. /\ pc[r] = "gated" /\ Flushed /\ pc' = [pc EXCEPT ![r] = "budget"]
        /\ UNCHANGED <<asked, got, mark, follows, slot, cache, missed>>
    BY <1>16 DEF BudgetFlush
  <2>2. pc'[r] = "budget" /\ \A s \in Readers \ {r} : pc'[s] = pc[s]
    BY <2>1 DEF ReaderType
  <2>3. \A s \in Readers \ {r} : Sound(s)'
    BY <1>1, <1>2, <2>1, Others DEF Computing
  <2>4. Covers(r, r)'
    BY <1>1, <1>9, <2>1, <2>2 DEF Covers, Seen
  <2>5. Sound(r)'
    BY <1>1, <1>4, <2>1, <2>2, <2>4 DEF Sound
  <2>6. Slot'
    BY <1>7, <1>8, <2>1, <2>2 DEF Computing
  <2> QED BY <1>5, <1>6, <2>1, <2>3, <2>5, <2>6 DEF Reading, Computations
<1>17. CASE BudgetQuery(r)
  <2>1. pc[r] = "budget" /\ Answer(r, Ids) /\ UNCHANGED cache /\ Seen(r) = Ids
    BY <1>17 DEF BudgetQuery, Seen
  <2>2. Computations' /\ Slot' /\ ReadersSeeTheirEvents'
    BY <1>1, <2>1, Answered
  <2> QED BY <1>5, <2>1, <2>2 DEF Reading
<1>18. CASE QueryFails(r)
  <2>1. /\ pc[r] \in Computing \union {"budget"} /\ Serve(r) /\ UNCHANGED <<cache, missed>>
    BY <1>18 DEF QueryFails, Computing
  <2>2. Computations' /\ Slot'
    BY <1>1, <1>2, <2>1, Served
  <2> QED BY <1>5, <1>6, <2>1, <2>2 DEF Reading
<1> QED BY <1>3, <1>10, <1>11, <1>12, <1>13, <1>14, <1>15, <1>16, <1>17, <1>18 DEF Read

(***************************************************************************)
(* The transcript rows.                                                    *)
(***************************************************************************)

\* The rows that were accepted and are not settled.
Held == Elems(rows) \union (IF writing = "rows" THEN Elems(batch) ELSE {})

\* The elements of a sequence are its head and those of its tail.
LEMMA HeadTailElems ==
  ASSUME NEW S, NEW s \in Seq(S), s # <<>>
  PROVE  Elems(s) = {Head(s)} \union Elems(Tail(s))
<1>1. /\ Len(s) \in Nat \ {0} /\ Tail(s) \in Seq(S) /\ Len(Tail(s)) = Len(s) - 1
      /\ Head(s) = s[1] /\ \A i \in 1 .. Len(s) - 1 : Tail(s)[i] = s[i + 1]
  BY HeadTailProperties, EmptySeq
<1>2. DOMAIN s = 1 .. Len(s) /\ DOMAIN Tail(s) = 1 .. Len(s) - 1
  BY <1>1
<1>3. ASSUME NEW i \in 1 .. Len(s) PROVE s[i] \in {Head(s)} \union Elems(Tail(s))
  <2>1. CASE i = 1
    BY <1>1, <2>1
  <2>2. CASE i # 1
    <3>1. i - 1 \in 1 .. Len(s) - 1 /\ s[i] = Tail(s)[i - 1]
      BY <1>1, <2>2
    <3> QED BY <1>2, <3>1 DEF Elems
  <2> QED BY <2>1, <2>2
<1>4. \A i \in 1 .. Len(s) - 1 : i + 1 \in 1 .. Len(s) /\ Tail(s)[i] = s[i + 1]
  BY <1>1
<1>5. Head(s) \in Elems(s)
  BY <1>1, <1>2 DEF Elems
<1>6. Elems(Tail(s)) \subseteq Elems(s)
  BY <1>2, <1>4 DEF Elems
<1>7. Elems(s) \subseteq {Head(s)} \union Elems(Tail(s))
  <2>1. ASSUME NEW x \in Elems(s) PROVE x \in {Head(s)} \union Elems(Tail(s))
    <3>1. PICK i \in 1 .. Len(s) : x = s[i]
      BY <1>2, <2>1 DEF Elems
    <3> QED BY <1>3, <3>1
  <2> QED BY <2>1
<1> QED BY <1>5, <1>6, <1>7

\* What a step does to the rows it holds: a turn of the drain settles none of them.
LEMMA HeldTurn ==
  ASSUME WriterType, NEW E, NEW R, NEW q \in Seq(E), NEW rs \in Seq(R), DrainLoop(q, rs)
  PROVE  Held' = Elems(rs)
<1>1. Elems(rs) = Elems(rows') \union (IF writing' = "rows" THEN Elems(batch') ELSE {})
  BY Turn
<1> QED BY <1>1 DEF Held, Elems

\* Nor does a step that leaves the queue and the batch of rows.
LEMMA HeldKept ==
  ASSUME UNCHANGED <<rows, writing>>, writing # "rows" \/ UNCHANGED batch
  PROVE  Held' = Held
BY DEF Held, Elems

\* A row is given up for being bad, or at the price of a failure.
LEMMA LostStep ==
  ASSUME WriterType, Cardinality(lostRows \ Poison) =< faults, faults' \in Nat,
         \/ lostRows' \ Poison = lostRows \ Poison /\ faults' >= faults
         \/ (\E h : lostRows' = lostRows \union {h}) /\ faults' = faults + 1
  PROVE  Cardinality(lostRows' \ Poison) =< faults'
<1>1. IsFiniteSet(lostRows \ Poison) /\ faults \in Nat
  <2>1. appended \in Nat /\ lostRows \ Poison \in SUBSET (1 .. appended)
    BY DEF WriterType
  <2>2. IsFiniteSet(1 .. appended)
    BY <2>1, FS_Interval
  <2> QED BY <2>1, <2>2, FS_Subset DEF WriterType
<1>2. Cardinality(lostRows \ Poison) \in Nat
  BY <1>1, FS_CardinalityType
<1>3. CASE lostRows' \ Poison = lostRows \ Poison /\ faults' >= faults
  BY <1>1, <1>2, <1>3
<1>4. CASE (\E h : lostRows' = lostRows \union {h}) /\ faults' = faults + 1
  <2>1. PICK h : lostRows' = lostRows \union {h}
    BY <1>4
  <2>2. CASE h \in Poison
    <3>1. lostRows' \ Poison = lostRows \ Poison
      BY <2>1, <2>2
    <3> QED BY <1>1, <1>2, <1>4, <3>1
  <2>3. CASE h \notin Poison
    <3>1. lostRows' \ Poison = (lostRows \ Poison) \union {h}
      BY <2>1, <2>3
    <3>2. Cardinality((lostRows \ Poison) \union {h}) \in
            {Cardinality(lostRows \ Poison), Cardinality(lostRows \ Poison) + 1}
      BY <1>1, FS_AddElement
    <3> QED BY <1>1, <1>2, <1>4, <3>1, <3>2
  <2> QED BY <2>2, <2>3
<1> QED BY <1>3, <1>4

\* Every step of the writer places every row, and pays for each it gives up.
LEMMA RowsStep ==
  ASSUME WriterType, Draining, WriterStep, InnocentRowsKept, WriterType'
  PROVE  InnocentRowsKept'
<1>1. /\ 1 .. appended = stored \union lostRows \union refused \union Held
      /\ Cardinality(lostRows \ Poison) =< faults
  BY DEF InnocentRowsKept, Held
<1>2. /\ queue \in Seq(1 .. emitted) /\ rows \in Seq(1 .. appended) /\ appended \in Nat
      /\ emitted \in Nat /\ faults \in Nat /\ faults' \in Nat
  BY DEF WriterType
<1>3. ASSUME 1 .. appended' = stored' \union lostRows' \union refused' \union Held',
             Cardinality(lostRows' \ Poison) =< faults'
      PROVE  InnocentRowsKept'
  BY <1>3 DEF InnocentRowsKept, Held
<1>4. DrainLoop(queue, rows) => Held' = Elems(rows)
  BY <1>2, HeldTurn
<1>5. ASSUME Held' = Held, UNCHANGED <<appended, stored, lostRows, refused>>, faults' >= faults
      PROVE  InnocentRowsKept'
  BY <1>1, <1>2, <1>3, <1>5, LostStep
<1>6. ASSUME UNCHANGED drainVars PROVE Held' = Held
  BY <1>6, HeldKept DEF drainVars
<1>7. writing # "rows" => Held = Elems(rows)
  BY DEF Held
<1>8. CASE Emit
  <2>1. UNCHANGED <<appended, stored, lostRows, refused, faults>>
    BY <1>8 DEF Emit, rowVars
  <2>2. CASE Kick(Append(queue, emitted + 1), rows)
    <3>1. Append(queue, emitted + 1) \in Seq(Nat)
      BY <1>2, SeqMonotonic
    <3>2. CASE writing = "none" /\ DrainLoop(Append(queue, emitted + 1), rows)
      <4>1. Held' = Elems(rows)
        BY <1>2, <3>1, <3>2, HeldTurn
      <4> QED BY <1>2, <1>5, <1>7, <2>1, <3>2, <4>1
    <3>3. CASE rows' = rows /\ UNCHANGED <<writing, batch>>
      BY <1>2, <1>5, <2>1, <3>3, HeldKept
    <3> QED BY <2>2, <3>2, <3>3 DEF Kick
  <2>3. CASE UNCHANGED drainVars
    BY <1>2, <1>5, <1>6, <2>1, <2>3
  <2> QED BY <1>8, <2>2, <2>3 DEF Emit
<1>9. CASE AppendRow
  <2>1. /\ appended' = appended + 1 /\ UNCHANGED <<stored, lostRows, faults>>
        /\ 1 .. appended + 1 = (1 .. appended) \union {appended + 1}
    BY <1>2, <1>9 DEF AppendRow
  <2>2. Cardinality(lostRows' \ Poison) =< faults'
    BY <1>1, <2>1
  <2>3. CASE Kick(queue, Append(rows, appended + 1)) /\ UNCHANGED refused
    <3>1. rows \in Seq(Nat) /\ Append(rows, appended + 1) \in Seq(Nat)
      BY <1>2, SeqMonotonic
    <3>2. Elems(Append(rows, appended + 1)) = Elems(rows) \union {appended + 1}
      BY <1>2, <3>1, ElemsAppend
    <3>3. Held' = Held \union {appended + 1}
      <4>1. CASE writing = "none" /\ DrainLoop(queue, Append(rows, appended + 1))
        <5>1. Held' = Elems(Append(rows, appended + 1))
          BY <1>2, <3>1, <4>1, HeldTurn
        <5> QED BY <1>7, <3>2, <4>1, <5>1
      <4>2. CASE rows' = Append(rows, appended + 1) /\ UNCHANGED <<writing, batch>>
        <5>1. Elems(rows') = Elems(rows) \union {appended + 1} /\ Elems(batch') = Elems(batch)
          BY <3>2, <4>2
        <5>2. Held' = Elems(rows') \union (IF writing' = "rows" THEN Elems(batch') ELSE {})
          BY DEF Held, Elems
        <5> QED BY <4>2, <5>1, <5>2 DEF Held
      <4> QED BY <2>3, <4>1, <4>2 DEF Kick
    <3>4. 1 .. appended' = stored' \union lostRows' \union refused' \union Held'
      BY <1>1, <2>1, <2>3, <3>3
    <3> QED BY <1>3, <2>2, <3>4
  <2>4. CASE refused' = refused \union {appended + 1} /\ UNCHANGED drainVars
    <3>1. 1 .. appended' = stored' \union lostRows' \union refused' \union Held'
      BY <1>1, <1>6, <2>1, <2>4
    <3> QED BY <1>3, <2>2, <3>1
  <2> QED BY <1>9, <2>3, <2>4 DEF AppendRow
<1>10. CASE EventsLand \/ EventsFail
  <2>1. writing = "events" /\ UNCHANGED <<appended, stored, lostRows, refused>>
    BY <1>10 DEF EventsLand, EventsFail, rowVars
  <2>2. faults' >= faults
    BY <1>2, <1>10 DEF EventsLand, EventsFail, Fault
  <2>3. CASE DrainLoop(queue, rows)
    BY <1>4, <1>5, <1>7, <2>1, <2>2, <2>3
  <2>4. CASE UNCHANGED <<rows, writing, batch>>
    BY <1>5, <2>1, <2>2, <2>4, HeldKept
  <2> QED BY <1>10, <2>3, <2>4 DEF EventsLand, EventsFail
<1>11. CASE RowsLand
  <2>1. /\ stored' = stored \union Elems(batch) /\ UNCHANGED <<appended, lostRows, refused, faults>>
        /\ Held' = Elems(rows) /\ writing = "rows"
    BY <1>4, <1>11 DEF RowsLand
  <2>2. 1 .. appended' = stored' \union lostRows' \union refused' \union Held'
    BY <1>1, <2>1 DEF Held
  <2>3. Cardinality(lostRows' \ Poison) =< faults'
    BY <1>1, <2>1
  <2> QED BY <1>3, <2>2, <2>3
<1>12. CASE RowsFail
  <2>1. UNCHANGED <<appended, lostRows, refused, rows, writing, batch>> /\ writing = "rows"
    BY <1>12 DEF RowsFail
  <2>2. stored' = stored \/ stored' = stored \union Elems(batch)
    BY <1>12 DEF RowsFail
  <2>3. faults' >= faults
    BY <1>2, <1>12 DEF RowsFail, Fault
  <2>4. Held' = Held /\ Elems(batch) \subseteq Held
    BY <2>1, HeldKept DEF Held
  <2>5. 1 .. appended' = stored' \union lostRows' \union refused' \union Held'
    BY <1>1, <2>1, <2>2, <2>4
  <2>6. Cardinality(lostRows' \ Poison) =< faults'
    BY <1>1, <1>2, <2>1, <2>3, LostStep
  <2> QED BY <1>3, <2>5, <2>6
<1>13. CASE RowByRow
  <2> DEFINE h == Head(batch)
  <2>1. /\ writing = "rows" /\ UNCHANGED <<appended, refused>>
        /\ batch \in Seq(1 .. appended) /\ batch # <<>>
    BY <1>13 DEF RowByRow, WriterType, Draining
  <2>2. Elems(batch) = {h} \union Elems(Tail(batch)) /\ Len(Tail(batch)) = Len(batch) - 1
    BY <2>1, HeadTailElems, HeadTailProperties
  <2>3. /\ stored' = stored \/ stored' = stored \union {h}
        /\ lostRows' = lostRows \/ lostRows' = lostRows \union {h}
        /\ h \in stored' \/ h \in lostRows'
    <3>1. stored' = stored \/ stored' = stored \union {h}
      BY <1>13 DEF RowByRow
    <3>2. lostRows' = lostRows \/ lostRows' = lostRows \union {h}
      BY <1>13 DEF RowByRow
    <3>3. h \in stored' \/ h \in lostRows'
      BY <1>13 DEF RowByRow
    <3> QED BY <3>1, <3>2, <3>3
  <2>4. \/ lostRows' \ Poison = lostRows \ Poison /\ faults' >= faults
        \/ lostRows' = lostRows \union {h} /\ faults' = faults + 1
    <3>1. CASE h \notin Poison /\ UNCHANGED <<lostRows, faults>>
      BY <1>2, <3>1
    <3>2. CASE h \in Poison /\ lostRows' = lostRows \union {h} /\ UNCHANGED faults
      BY <1>2, <3>2
    <3>3. CASE Fault /\ lostRows' = lostRows \union {h}
      BY <3>3 DEF Fault
    <3> QED BY <1>13, <3>1, <3>2, <3>3 DEF RowByRow
  <2>5. Held = Held' \union {h}
    <3>0. Held = Elems(rows) \union {h} \union Elems(Tail(batch))
      BY <2>1, <2>2 DEF Held
    <3>1. CASE Len(batch) = 1 /\ DrainLoop(queue, rows)
      <4>1. Elems(Tail(batch)) = {}
        <5>1. Tail(batch) \in Seq(1 .. appended) /\ Len(Tail(batch)) = 0
          BY <2>1, <2>2, <3>1, HeadTailProperties
        <5>2. Tail(batch) = <<>>
          BY <5>1, EmptySeq
        <5> QED BY <5>2, ElemsEmpty
      <4> QED BY <1>4, <3>0, <3>1, <4>1
    <3>2. CASE batch' = Tail(batch) /\ UNCHANGED <<rows, writing>>
      <4>1. Held' = Elems(rows') \union (IF writing' = "rows" THEN Elems(batch') ELSE {})
        BY DEF Held, Elems
      <4>2. Elems(rows') = Elems(rows) /\ Elems(batch') = Elems(Tail(batch)) /\ writing' = "rows"
        BY <2>1, <3>2
      <4> QED BY <3>0, <4>1, <4>2
    <3> QED BY <1>13, <3>1, <3>2 DEF RowByRow
  <2> HIDE DEF h
  <2>6. 1 .. appended' = stored' \union lostRows' \union refused' \union Held'
    BY <1>1, <2>1, <2>3, <2>5
  <2>7. Cardinality(lostRows' \ Poison) =< faults'
    BY <1>1, <1>2, <2>4, LostStep
  <2> QED BY <1>3, <2>6, <2>7
<1> QED BY <1>8, <1>9, <1>10, <1>11, <1>12, <1>13 DEF WriterStep, Write

(***************************************************************************)
(* Every step is a step of the log that was promised, or none of its       *)
(* business.                                                               *)
(***************************************************************************)

\* While a batch of events is written it is the front of what is pending.
LEMMA SplitPending ==
  ASSUME WriterType, Draining, writing = "events"
  PROVE  /\ Len(batch) \in 1 .. Len(Pending) /\ Pending[Len(batch)] = batch[Len(batch)]
         /\ Abstract!Front(Pending, Len(batch)) = batch
         /\ Abstract!Rest(Pending, Len(batch)) = queue
<1>1. /\ batch \in Seq(1 .. emitted) /\ batch # <<>> /\ queue \in Seq(1 .. emitted)
      /\ Pending = batch \o queue
  BY PendingParts DEF WriterType, Draining
<1>2. Len(batch) \in 1 .. Len(batch) /\ Len(queue) \in Nat
  BY <1>1, EmptySeq
<1>3. Len(Pending) = Len(batch) + Len(queue) /\ Pending[Len(batch)] = batch[Len(batch)]
  BY <1>1, <1>2, ConcatProperties
<1>4. SubSeq(Pending, 1, Len(batch)) = batch
  <2>1. SubSeq(batch \o queue, 1, Len(batch)) = SubSeq(batch, 1, Len(batch))
    BY <1>1, <1>2, SubSeqOfConcat1
  <2>2. SubSeq(batch, 1, Len(batch)) = batch
    BY <1>1, SubSeqFull
  <2> QED BY <1>1, <2>1, <2>2
<1>5. SubSeq(Pending, Len(batch) + 1, Len(Pending)) = queue
  <2>1. CASE queue = <<>>
    <3>1. Len(Pending) < Len(batch) + 1
      BY <1>2, <1>3, <2>1
    <3> QED BY <1>2, <1>3, <2>1, <3>1, SubSeqEmpty
  <2>2. CASE queue # <<>>
    <3>1. Len(queue) \in Nat \ {0}
      BY <1>1, <2>2, EmptySeq
    <3> DEFINE m == Len(batch) + 1
               n == Len(Pending)
    <3>2. m \in Len(batch) + 1 .. Len(batch) + Len(queue) /\ n \in Len(batch) + 1 .. Len(batch) + Len(queue)
      BY <1>2, <1>3, <3>1
    <3>3. m - Len(batch) = 1 /\ n - Len(batch) = Len(queue)
      BY <1>2, <1>3, <3>1
    <3> HIDE DEF m, n
    <3>4. SubSeq(batch \o queue, m, n) = SubSeq(queue, m - Len(batch), n - Len(batch))
      BY <1>1, <3>2, SubSeqOfConcat2
    <3>5. SubSeq(queue, 1, Len(queue)) = queue
      BY <1>1, SubSeqFull
    <3> QED BY <1>1, <3>3, <3>4, <3>5 DEF m, n
  <2> QED BY <2>1, <2>2
<1> QED BY <1>2, <1>3, <1>4, <1>5 DEF Abstract!Front, Abstract!Rest

\* Each step of the writer is a step of the log that was promised, or a stutter.
LEMMA StepImplements ==
  ASSUME WriterType, Draining, Order, WriterStep
  PROVE  Abstract!Next \/ UNCHANGED Abstract!vars
<1>1. CASE Accepted
  BY <1>1 DEF Accepted, Abstract!Next, Abstract!Accept
<1>2. CASE Refused
  BY <1>2 DEF Refused, Abstract!Next, Abstract!Refuse
<1>3. ASSUME writing = "events", log' = log \o batch PROVE Abstract!Land(Len(batch))
  <2>1. \A i \in DOMAIN log : log[i] =< batch[Len(batch)]
    <3>1. log \in Seq(1 .. emitted)
      BY DEF WriterType
    <3>2. DOMAIN log = 1 .. Len(log)
      BY <3>1
    <3> QED BY <1>3, <3>2 DEF Order, Ids
  <2> QED BY <1>3, <2>1, SplitPending DEF Abstract!Land
<1>4. CASE Settled
  <2>1. Abstract!Acknowledge(Len(batch))
    BY <1>3, <1>4, SplitPending DEF Settled, Abstract!Acknowledge
  <2>2. Len(batch) \in 1 .. Len(Pending)
    BY <1>4, SplitPending DEF Settled
  <2> QED BY <2>1, <2>2 DEF Abstract!Next
<1>5. CASE Waiting /\ log' = log
  BY <1>5 DEF Waiting, Abstract!vars
<1>6. CASE Waiting /\ log' # log
  <2>1. writing = "events" /\ log' = log \o batch /\ Pending' = Pending /\ UNCHANGED <<emitted, dropped>>
    BY <1>6 DEF Waiting
  <2>2. Abstract!LandUnanswered(Len(batch))
    BY <1>3, <2>1 DEF Abstract!LandUnanswered
  <2>3. Len(batch) \in 1 .. Len(Pending)
    BY <2>1, SplitPending
  <2> QED BY <2>2, <2>3 DEF Abstract!Next
<1>7. CASE GivenUp
  <2>1. dropped' = dropped \union Elems(batch) /\ Pending' = queue /\ UNCHANGED emitted
    BY <1>7 DEF GivenUp
  <2>2. Abstract!Elems(batch) = Elems(batch)
    BY DEF Elems, Abstract!Elems
  <2>3. Len(batch) \in 1 .. Len(Pending)
    BY <1>7, SplitPending DEF GivenUp
  <2>4. Abstract!Land(Len(batch)) \/ UNCHANGED log
    BY <1>3, <1>7 DEF GivenUp
  <2>5. Abstract!GiveUp(Len(batch))
    BY <1>7, <2>1, <2>2, <2>4, SplitPending DEF GivenUp, Abstract!GiveUp
  <2> QED BY <2>3, <2>5 DEF Abstract!Next
<1> QED BY <1>1, <1>2, <1>4, <1>5, <1>6, <1>7, WriterPending

(***************************************************************************)
(* The theorems.                                                           *)
(***************************************************************************)

\* The invariant holds at the start, ...
LEMMA InitOK == Init => IInv
<1> SUFFICES ASSUME Init PROVE IInv
  OBVIOUS
<1>1. /\ emitted = 0 /\ dropped = {} /\ healthy = TRUE /\ gen = 0 /\ log = <<>>
      /\ queue = <<>> /\ rows = <<>> /\ writing = "none" /\ batch = <<>> /\ attempt = 1
      /\ appended = 0 /\ stored = {} /\ lostRows = {} /\ refused = {} /\ faults = 0
  BY DEF Init
<1>2. /\ pc = [r \in Readers |-> "idle"] /\ asked = [r \in Readers |-> 0]
      /\ got = [r \in Readers |-> {}] /\ mark = [r \in Readers |-> 0]
      /\ follows = [r \in Readers |-> Nobody]
      /\ slot = [gen |-> -1, by |-> Nobody] /\ cache = [mark |-> -1, ids |-> {}]
      /\ missed = {} /\ calls = 0
  BY DEF Init, NoSlot, NoCache
<1>3. DOMAIN log = {} /\ DOMAIN queue = {} /\ Len(log) = 0 /\ Ids = {}
  BY <1>1 DEF Ids
<1>4. healthy \in BOOLEAN
  BY <1>1
<1>5. WriterType
  BY <1>1, <1>4 DEF WriterType
<1>6. ReaderType
  BY <1>1, <1>2 DEF ReaderType, Place
<1>7. Draining
  BY <1>1 DEF Draining
<1>8. Order
  BY <1>1, <1>3 DEF Order, Sorted, Before, NewestRowLast
<1>9. NoSilentLoss
  <2>1. Pending = queue
    BY <1>1, <1>5, PendingParts
  <2> QED BY <1>1, <2>1, ElemsEmpty DEF NoSilentLoss
<1>10. Computations
  BY <1>2, <1>3 DEF Computations, Sound, Computing
<1>11. Slot
  BY <1>1, <1>2 DEF Slot
<1>12. CacheWhole /\ ReadersSeeTheirEvents
  BY <1>2, <1>3 DEF CacheWhole, ReadersSeeTheirEvents
<1>13. InnocentRowsKept
  <2>1. Elems(rows) = {} /\ 1 .. appended = {} /\ lostRows \ Poison = {}
    BY <1>1, ElemsEmpty
  <2>2. Cardinality(lostRows \ Poison) = 0
    BY <2>1, FS_EmptySet
  <2> QED BY <1>1, <2>1, <2>2 DEF InnocentRowsKept
<1> QED BY <1>5, <1>6, <1>7, <1>8, <1>9, <1>10, <1>11, <1>12, <1>13, TypeParts DEF IInv, Reading

\* ... every step keeps it, ...
LEMMA StepOK ==
  ASSUME IInv, Next
  PROVE  IInv'
<1>1. /\ WriterType /\ ReaderType /\ Draining /\ Order /\ NoSilentLoss /\ Reading
      /\ InnocentRowsKept
  BY TypeParts DEF IInv
<1>2. CASE WriterStep
  <2>1. WriterType' /\ Draining' /\ Growing
    BY <1>1, <1>2, WriterStepTypes
  <2>2. ReaderType'
    BY <1>1, <2>1, ReadersStay
  <2>3. Order' /\ NoSilentLoss' /\ Reading' /\ InnocentRowsKept'
    BY <1>1, <1>2, <2>1, OrderStep, LossStep, WriterReading, RowsStep
  <2> QED BY <2>1, <2>2, <2>3, TypePartsNext DEF IInv
<1>3. CASE ReaderStep
  <2>1. WriterType' /\ ReaderType'
    BY <1>1, <1>3, ReaderStepTypes
  <2>2. UNCHANGED <<emitted, dropped, log, queue, rows, writing, batch, attempt>>
    BY <1>3, ReaderFrame DEF eventVars, drainVars
  <2>3. Draining' /\ Order' /\ NoSilentLoss'
    <3>1. Draining' /\ Order'
      BY <1>1, <2>2 DEF Draining, Order, NewestRowLast, Ids, Sorted, Before
    <3>2. Pending' = Pending
      BY <2>2 DEF Pending
    <3> QED BY <1>1, <2>2, <3>1, <3>2 DEF NoSilentLoss, Elems
  <2>4. Reading'
    BY <1>1, <1>3, <2>1, ReaderReading
  <2>5. InnocentRowsKept'
    <3>1. Held' = Held /\ UNCHANGED <<appended, stored, lostRows, refused>>
      BY <1>3, <2>2, ReaderFrame, HeldKept DEF rowVars
    <3>2. faults \in Nat /\ faults' \in Nat /\ faults' >= faults
      BY <1>1, <1>3, <2>1 DEF WriterType, ReaderStep, AskTelemetry, GateOpens, Call, Read, Adopt,
           Compute, ReadMark, ScanStages, ScanRuns, BudgetFlush, BudgetQuery, QueryFails, Fault
    <3>3. Cardinality(lostRows' \ Poison) =< faults'
      BY <1>1, <3>1, <3>2, LostStep DEF InnocentRowsKept
    <3> QED BY <1>1, <3>1, <3>3 DEF InnocentRowsKept, Held
  <2> QED BY <2>1, <2>3, <2>4, <2>5, TypePartsNext DEF IInv
<1> QED BY <1>2, <1>3 DEF Next, WriterStep, ReaderStep

\* ... and so does a step that changes nothing.
LEMMA StutterOK ==
  ASSUME IInv, UNCHANGED vars
  PROVE  IInv'
<1>1. UNCHANGED <<eventVars, rowVars, drainVars, readerVars, faults>>
  BY DEF vars
<1>2. UNCHANGED <<emitted, dropped, healthy, gen, log, appended, stored, lostRows, refused>>
  BY <1>1 DEF eventVars, rowVars
<1>3. /\ UNCHANGED <<queue, writing, batch, attempt, rows>>
      /\ UNCHANGED <<pc, asked, got, mark, follows, slot, cache, missed, calls, faults>>
  BY <1>1 DEF drainVars, readerVars
<1>4. TypeOK'
  BY <1>2, <1>3 DEF IInv, TypeOK, Ids
<1>5. Draining' /\ Order'
  BY <1>2, <1>3 DEF IInv, Draining, Order, NewestRowLast, Ids, Sorted, Before
<1>6. NoSilentLoss'
  <2>1. Pending' = Pending
    BY <1>3 DEF Pending
  <2> QED BY <1>2, <2>1 DEF IInv, NoSilentLoss, Elems
<1>7. Computations'
  BY <1>2, <1>3 DEF IInv, Reading, Computations, Sound, Covers, Seen, Ids
<1>8. Slot'
  BY <1>2, <1>3 DEF IInv, Reading, Slot, Ids, Elems
<1>9. CacheWhole' /\ ReadersSeeTheirEvents'
  BY <1>2, <1>3 DEF IInv, Reading, CacheWhole, ReadersSeeTheirEvents
<1>10. InnocentRowsKept'
  BY <1>2, <1>3 DEF IInv, InnocentRowsKept, Elems
<1> QED BY <1>4, <1>5, <1>6, <1>7, <1>8, <1>9, <1>10 DEF IInv, Reading

\* The invariant holds in every state the log, its drain and its readers reach.
THEOREM Invariance == Spec => []IInv
<1>1. IInv /\ [Next]_vars => IInv'
  BY StepOK, StutterOK
<1> QED
  BY InitOK, <1>1, PTL DEF Spec

\* The queue, the drain, the readers and the cache keep their types.
THEOREM EventLogTypes == Spec => []TypeOK
<1>1. IInv => TypeOK
  BY DEF IInv
<1> QED
  BY <1>1, Invariance, PTL

\* Whatever fails, and however often, every event is a row, is pending, or is counted.
THEOREM NothingLostSilently == Spec => []NoSilentLoss
<1>1. IInv => NoSilentLoss
  BY DEF IInv
<1> QED
  BY <1>1, Invariance, PTL

\* The newest row is the newest event in the table: one drain at a time, which retries a
\* batch before it takes the next, is enough.
THEOREM NewestLast == Spec => []NewestRowLast
<1>1. IInv => NewestRowLast
  BY DEF IInv, Order
<1> QED
  BY <1>1, Invariance, PTL

\* Reads that flush first, adopted computations and the cache included, count every event
\* emitted before the question, or it was dropped.
THEOREM ReadersSee == Spec => []ReadersSeeTheirEvents
<1>1. IInv => ReadersSeeTheirEvents
  BY DEF IInv, Reading
<1> QED
  BY <1>1, Invariance, PTL

\* A transcript row is stored, held, refused or given up, and one that could have been
\* stored is given up only at the price of a failed INSERT of its own.
THEOREM RowsKept == Spec => []InnocentRowsKept
<1>1. IInv => InnocentRowsKept
  BY DEF IInv
<1> QED
  BY <1>1, Invariance, PTL

\* The queues, the batches, the retry and the flushes implement the log that was promised.
THEOREM LogImplements == Spec => ImplementsLog
<1>1. Init => Abstract!Init
  <2> SUFFICES ASSUME Init PROVE Abstract!Init
    OBVIOUS
  <2>1. WriterType /\ queue = <<>> /\ writing = "none"
    BY InitOK, TypeParts DEF IInv, Init
  <2>2. Pending = <<>>
    BY <2>1, PendingParts
  <2> QED BY <2>2 DEF Init, Abstract!Init
<1>2. IInv /\ [Next]_vars => [Abstract!Next]_(Abstract!vars)
  <2> SUFFICES ASSUME IInv, [Next]_vars PROVE Abstract!Next \/ UNCHANGED Abstract!vars
    OBVIOUS
  <2>1. CASE WriterStep
    BY <2>1, StepImplements, TypeParts DEF IInv
  <2>2. ASSUME UNCHANGED <<eventVars, drainVars>> PROVE UNCHANGED Abstract!vars
    <3>1. UNCHANGED <<emitted, dropped, log, queue, writing, batch>>
      BY <2>2 DEF eventVars, drainVars
    <3>2. Pending' = Pending
      BY <3>1 DEF Pending
    <3> QED BY <3>1, <3>2 DEF Abstract!vars
  <2>3. CASE ReaderStep
    BY <2>2, <2>3, ReaderFrame
  <2>4. CASE UNCHANGED vars
    BY <2>2, <2>4 DEF vars
  <2> QED BY <2>1, <2>3, <2>4 DEF Next, WriterStep, ReaderStep
<1> QED
  BY <1>1, <1>2, Invariance, PTL DEF Spec, ImplementsLog, Abstract!Spec

(***************************************************************************)
(* MissionControl: what a tab shows of the events, for any scripts, any    *)
(* capacities, any number of dropped connections, restarts and failed      *)
(* requests, and any number of requests under way.                         *)
(*                                                                         *)
(* First sequences and maps, then the reducer, the tab, the events on      *)
(* their way, the invariant, and a lemma for each step.                    *)
(***************************************************************************)

LEMMA LeastExists ==
  ASSUME NEW S \in SUBSET Nat, S # {}
  PROVE  \E n \in S : \A m \in S : n =< m
<1>1. PICK n \in S : \A m \in S : ~(<<m, n>> \in OpToRel(<, Nat))
  BY WFMin, NatLessThanWellFounded
<1>2. ASSUME NEW m \in S
      PROVE  n =< m
  <2>1. m \in Nat /\ n \in Nat
    OBVIOUS
  <2>2. ~(m < n)
    BY <1>1, <2>1, Zenon DEF OpToRel
  <2> QED  BY <2>1, <2>2
<1> QED  BY <1>2

\* In a set of numbers that has 0 and with m, below n, also m + 1, is every number up to n.
LEMMA Reached ==
  ASSUME NEW n \in Nat, NEW S, 0 \in S, \A m \in 0 .. n - 1 : m \in S => m + 1 \in S
  PROVE  \A m \in 0 .. n : m \in S
<1> DEFINE Bad == {m \in 0 .. n : m \notin S}
<1> SUFFICES ASSUME Bad # {} PROVE FALSE
  OBVIOUS
<1>1. PICK m \in Bad : \A k \in Bad : m =< k
  <2>1. Bad \in SUBSET Nat
    OBVIOUS
  <2> HIDE DEF Bad
  <2> QED  BY <2>1, LeastExists
<1>2. m # 0 /\ m \in 0 .. n
  OBVIOUS
<1>3. m - 1 \in 0 .. n - 1 /\ m - 1 \in 0 .. n /\ ~(m =< m - 1)
  BY <1>2
<1>4. m - 1 \in S
  BY <1>1, <1>3
<1> QED  BY <1>1, <1>3, <1>4

(***************************************************************************)
(* Filtered sequences.                                                     *)
(***************************************************************************)

FilterParts(A, s, keep, n) ==
  A = [k \in 0..n |-> IF k = 0 THEN << >> ELSE IF k \in keep THEN Append(A[k - 1], s[k]) ELSE A[k - 1]]

LEMMA FilterPartsExist ==
  ASSUME NEW s, NEW keep, NEW n \in Nat
  PROVE  \E A : FilterParts(A, s, keep, n)
<1> DEFINE S == {m \in 0..n : \E A : FilterParts(A, s, keep, m)}
<1>1. 0 \in S
  <2>1. FilterParts([k \in 0..0 |-> << >>], s, keep, 0)
    BY DEF FilterParts
  <2> QED  BY <2>1
<1>2. ASSUME NEW m \in 0 .. n - 1, m \in S
      PROVE  m + 1 \in S
  <2>1. PICK B : FilterParts(B, s, keep, m)
    BY <1>2
  <2> DEFINE A == [k \in 0..(m + 1) |-> IF k = m + 1 THEN IF k \in keep THEN Append(B[m], s[k]) ELSE B[m] ELSE B[k]]
  <2>2. ASSUME NEW k \in 0..(m + 1)
        PROVE  A[k] = IF k = 0 THEN << >> ELSE IF k \in keep THEN Append(A[k - 1], s[k]) ELSE A[k - 1]
    <3>1. CASE k = m + 1
      <4>1. k # 0 /\ k - 1 \in 0..(m + 1) /\ k - 1 # m + 1 /\ k - 1 = m
        BY <3>1
      <4> QED  BY <3>1, <4>1
    <3>2. CASE k # m + 1
      <4>1. k \in 0..m /\ (k # 0 => k - 1 \in 0..(m + 1) /\ k - 1 # m + 1)
        BY <3>2
      <4>2. B[k] = IF k = 0 THEN << >> ELSE IF k \in keep THEN Append(B[k - 1], s[k]) ELSE B[k - 1]
        BY <2>1, <4>1 DEF FilterParts
      <4> QED  BY <3>2, <4>1, <4>2
    <3> QED  BY <3>1, <3>2
  <2>3. FilterParts(A, s, keep, m + 1)
    <3> HIDE DEF A
    <3>1. A = [k \in 0..(m + 1) |-> A[k]]
      BY DEF A
    <3> QED  BY <2>2, <3>1 DEF FilterParts
  <2> QED  BY <2>3
<1>3. \A m \in 0..n : m \in S
  <2> HIDE DEF S
  <2> QED  BY <1>1, <1>2, Reached
<1> QED  BY <1>3

Ascending(s) == \A i, j \in DOMAIN s : i < j => s[i].seq < s[j].seq

\* What is filtered keeps its type and its order, and comes from a kept place.
LEMMA FilteredIs ==
  ASSUME NEW T, NEW s \in Seq(T), NEW keep
  PROVE  /\ Filtered(s, keep) \in Seq(T)
         /\ \A i \in DOMAIN Filtered(s, keep) : \E j \in DOMAIN s : j \in keep /\ Filtered(s, keep)[i] = s[j]
         /\ Ascending(s) => Ascending(Filtered(s, keep))
<1> DEFINE A == CHOOSE A : A = [k \in 0..Len(s) |-> IF k = 0 THEN << >> ELSE IF k \in keep THEN Append(A[k - 1], s[k]) ELSE A[k - 1]]
<1>1. A = [k \in 0..Len(s) |-> IF k = 0 THEN << >> ELSE IF k \in keep THEN Append(A[k - 1], s[k]) ELSE A[k - 1]]
  <2>1. PICK B : B = [k \in 0..Len(s) |-> IF k = 0 THEN << >> ELSE IF k \in keep THEN Append(B[k - 1], s[k]) ELSE B[k - 1]]
    <3>1. Len(s) \in Nat
      BY LenProperties
    <3>2. \E B : FilterParts(B, s, keep, Len(s))
      BY <3>1, FilterPartsExist
    <3> QED  BY <3>2, Zenon DEF FilterParts
  <2> QED  BY <2>1, Zenon
<1>2. Filtered(s, keep) = A[Len(s)]
  BY Zenon DEF Filtered
<1> HIDE DEF A
<1>3. Len(s) \in Nat /\ DOMAIN s = 1..Len(s) /\ \A k \in 1..Len(s) : s[k] \in T
  BY LenProperties, ElementOfSeq
<1> DEFINE S == {k \in 0..Len(s) :
                   /\ A[k] \in Seq(T)
                   /\ \A i \in 1..Len(A[k]) : \E j \in 1..k : j \in keep /\ A[k][i] = s[j]
                   /\ Ascending(s) => \A i, j \in 1..Len(A[k]) : i < j => A[k][i].seq < A[k][j].seq}
<1>4. 0 \in S
  <2>1. A[0] = << >> /\ 0 \in 0..Len(s)
    BY <1>1, <1>3
  <2>2. A[0] \in Seq(T) /\ Len(A[0]) = 0 /\ 1..Len(A[0]) = {}
    BY <2>1
  <2>3. \A i \in 1..Len(A[0]) : FALSE
    BY <2>2
  <2> QED  BY <2>1, <2>2, <2>3, Zenon
<1>5. ASSUME NEW k \in 0..(Len(s) - 1), k \in S
      PROVE  k + 1 \in S
  <2>1. k + 1 \in 1..Len(s) /\ k + 1 \in 0..Len(s) /\ k \in 0..Len(s) /\ (k + 1) - 1 = k /\ k + 1 # 0 /\ k \in Nat
    BY <1>3
  <2>2. A[k + 1] = IF k + 1 \in keep THEN Append(A[k], s[k + 1]) ELSE A[k]
    BY <1>1, <2>1
  <2>3. /\ A[k] \in Seq(T) /\ Len(A[k]) \in Nat
        /\ \A i \in 1..Len(A[k]) : \E j \in 1..k : j \in keep /\ A[k][i] = s[j]
        /\ Ascending(s) => \A i, j \in 1..Len(A[k]) : i < j => A[k][i].seq < A[k][j].seq
    BY <1>5, LenProperties
  <2>4. CASE k + 1 \in keep
    <3>1. /\ A[k + 1] \in Seq(T) /\ Len(A[k + 1]) = Len(A[k]) + 1
          /\ \A i \in 1..Len(A[k]) : A[k + 1][i] = A[k][i]
          /\ A[k + 1][Len(A[k]) + 1] = s[k + 1]
      BY <1>3, <2>1, <2>2, <2>3, <2>4, AppendProperties
    <3>2. ASSUME NEW i \in 1..Len(A[k + 1])
          PROVE  \E j \in 1..(k + 1) : j \in keep /\ A[k + 1][i] = s[j]
      <4>1. i \in 1..Len(A[k]) \/ i = Len(A[k]) + 1
        BY <2>3, <3>1
      <4>2. CASE i \in 1..Len(A[k])
        <5>1. PICK j \in 1..k : j \in keep /\ A[k][i] = s[j]
          BY <2>3, <4>2
        <5> QED  BY <2>1, <3>1, <4>2, <5>1
      <4>3. CASE i = Len(A[k]) + 1
        BY <2>1, <2>4, <3>1, <4>3
      <4> QED  BY <4>1, <4>2, <4>3
    <3>3. ASSUME Ascending(s), NEW i \in 1..Len(A[k + 1]), NEW j \in 1..Len(A[k + 1]), i < j
          PROVE  A[k + 1][i].seq < A[k + 1][j].seq
      <4>1. i \in 1..Len(A[k]) /\ (j \in 1..Len(A[k]) \/ j = Len(A[k]) + 1)
        BY <2>3, <3>1, <3>3
      <4>2. CASE j \in 1..Len(A[k])
        BY <2>3, <3>1, <3>3, <4>1, <4>2
      <4>3. CASE j = Len(A[k]) + 1
        <5>1. PICK h \in 1..k : A[k][i] = s[h]
          BY <2>3, <4>1
        <5>2. h \in DOMAIN s /\ k + 1 \in DOMAIN s /\ h < k + 1
          BY <1>3, <2>1, <5>1
        <5>3. s[h].seq < s[k + 1].seq
          BY <3>3, <5>2 DEF Ascending
        <5>4. A[k + 1][i] = s[h] /\ A[k + 1][j] = s[k + 1]
          BY <3>1, <4>1, <4>3, <5>1
        <5> QED  BY <5>3, <5>4
      <4> QED  BY <4>1, <4>2, <4>3
    <3> QED  BY <2>1, <2>2, <2>4, <3>1, <3>2, <3>3
  <2>5. CASE k + 1 \notin keep
    <3>1. A[k + 1] = A[k]
      BY <2>2, <2>5
    <3>2. ASSUME NEW i \in 1..Len(A[k + 1])
          PROVE  \E j \in 1..(k + 1) : j \in keep /\ A[k + 1][i] = s[j]
      <4>1. PICK j \in 1..k : j \in keep /\ A[k][i] = s[j]
        BY <2>3, <3>1
      <4>2. j \in 1..(k + 1)
        BY <2>1
      <4> QED  BY <3>1, <4>1, <4>2
    <3>3. /\ A[k + 1] \in Seq(T)
          /\ Ascending(s) => \A i, j \in 1..Len(A[k + 1]) : i < j => A[k + 1][i].seq < A[k + 1][j].seq
      BY <2>3, <3>1
    <3> QED  BY <2>1, <3>2, <3>3
  <2> QED  BY <2>4, <2>5
<1>6. Len(s) \in S
  <2> HIDE DEF S
  <2>1. \A k \in 0..Len(s) : k \in S
    BY <1>3, <1>4, <1>5, Reached
  <2> QED  BY <1>3, <2>1
<1>7. DOMAIN A[Len(s)] = 1..Len(A[Len(s)])
  BY <1>6, LenProperties
<1> QED  BY <1>2, <1>3, <1>6, <1>7 DEF Ascending

(***************************************************************************)
(* Types.                                                                  *)
(***************************************************************************)

Maps(S) == UNION {[K -> S] : K \in SUBSET STRING}
Stages == [stage : STRING, finishedAt : Nat, cost : Nat, tools : Nat, degraded : BOOLEAN]
Runs == [startedAt : Nat, finishedAt : Nat, status : {"active"} \union STRING, titled : BOOLEAN, stages : Seq(Stages), gates : Nat, cost : Nat]
Missions == [seq : Nat, daemon : [up : {FALSE}] \union [up : {TRUE}, tick : Nat, backoff : Nat], board : {"none"} \union STRING,
             runs : Maps(Runs), needsHuman : Seq([key : STRING, at : Nat])]
Stamps == {Stamped(n, x) : n \in Nat, x \in Bodies}
Tabs == [booted : BOOLEAN, mission : Missions, whole : Int, feeds : Maps(Seq(Nat)), buffering : BOOLEAN,
         buffer : Seq(Stamps), resume : Nat]
Asked == [id : Nat, served : BOOLEAN, answer : Missions, life : Nat, alone : BOOLEAN]

WellTyped ==
  /\ life \in Nat /\ script \in Seq(Bodies) /\ lastSeq \in Nat /\ ring \in Seq(Stamps)
  /\ mission \in Missions /\ replay \in Maps(Runs)
  /\ stream \in [state : {"down", "opening", "open"}, frames : Seq(Stamps)] /\ tab \in Tabs
  /\ requests \subseteq Asked /\ synced \in BOOLEAN /\ trouble \in Nat

LEMMA MapIs ==
  ASSUME NEW S
  PROVE  /\ \A f \in Maps(S) : DOMAIN f \subseteq STRING /\ f = [k \in DOMAIN f |-> f[k]] /\ \A k \in DOMAIN f : f[k] \in S
         /\ \A K \in SUBSET STRING : \A f \in [K -> S] : f \in Maps(S)
BY DEF Maps

LEMMA PutIs ==
  ASSUME NEW S, NEW f \in Maps(S), NEW k \in STRING, NEW v \in S
  PROVE  /\ Put(f, k, v) \in Maps(S) /\ DOMAIN Put(f, k, v) = DOMAIN f \union {k} /\ Put(f, k, v)[k] = v
         /\ \A j \in DOMAIN f : j # k => Put(f, k, v)[j] = f[j]
<1>1. DOMAIN f \union {k} \in SUBSET STRING /\ \A j \in DOMAIN f : f[j] \in S
  BY MapIs
<1>2. Put(f, k, v) \in [DOMAIN f \union {k} -> S]
  BY <1>1 DEF Put
<1>3. Put(f, k, v) \in Maps(S)
  BY <1>1, <1>2, MapIs
<1> QED  BY <1>3 DEF Put

\* A map restricted to some of its keys.
LEMMA RestrictIs ==
  ASSUME NEW S, NEW f \in Maps(S), NEW K \in SUBSET DOMAIN f
  PROVE  [k \in K |-> f[k]] \in Maps(S)
<1>1. K \in SUBSET STRING /\ \A j \in DOMAIN f : f[j] \in S
  BY MapIs
<1>2. [k \in K |-> f[k]] \in [K -> S]
  BY <1>1
<1> QED  BY <1>1, <1>2, MapIs

LEMMA StampIs ==
  ASSUME NEW n \in Nat, NEW x \in Bodies
  PROVE  /\ Stamped(n, x) \in Stamps /\ Stamped(n, x).seq = n
         /\ \A f \in DOMAIN x : f # "seq" => Stamped(n, x)[f] = x[f]
         /\ DOMAIN Stamped(n, x) = DOMAIN x \union {"seq"}
BY DEF Stamped, Stamps

\* What the fields of an event are.
LEMMA HeardIs ==
  ASSUME NEW e \in Stamps
  PROVE  /\ e.seq \in Nat
         /\ e.type \in RunEvents \union {"issue_needs_human"} => "key" \in DOMAIN e
         /\ "key" \in DOMAIN e => e.key \in STRING
         /\ e.type = "linear_backoff" => e.seconds \in Nat
         /\ e.type = "queue_snapshot" => e.issues \in STRING
         /\ e.type = "run_stage_started" => e.stage \in STRING
         /\ e.type \in {"run_stage_finished", "run_finished"} => e.cost \in Nat
         /\ e.type = "run_gates" => e.round \in Nat
         /\ e.type = "run_finished" => e.outcome \in STRING
<1>1. PICK n \in Nat, x \in Bodies : e = Stamped(n, x)
  BY DEF Stamps
<1>2. /\ e.seq = n /\ \A f \in DOMAIN x : f # "seq" => e[f] = x[f]
      /\ DOMAIN e = DOMAIN x \union {"seq"}
  BY <1>1, StampIs
<1>3. CASE x \in [type : {"daemon_started"} \union OtherTypes]
  <2>1. DOMAIN x = {"type"} /\ e.type = x.type
    BY <1>2, <1>3
  <2> QED  BY <1>2, <1>3, <2>1 DEF OtherTypes, RunEvents
<1>4. CASE x \in [type : OtherTypes, key : STRING]
  <2>1. DOMAIN x = {"type", "key"} /\ e.type = x.type /\ e.key = x.key
    BY <1>2, <1>4
  <2> QED  BY <1>2, <1>4, <2>1 DEF OtherTypes, RunEvents
<1>5. CASE x \in [type : {"tick_finished"}, error : BOOLEAN]
  <2>1. DOMAIN x = {"type", "error"} /\ e.type = x.type
    BY <1>2, <1>5
  <2> QED  BY <1>2, <1>5, <2>1 DEF RunEvents
<1>6. CASE x \in [type : {"linear_backoff"}, seconds : Nat]
  <2>1. DOMAIN x = {"type", "seconds"} /\ e.type = x.type /\ e.seconds = x.seconds
    BY <1>2, <1>6
  <2> QED  BY <1>2, <1>6, <2>1 DEF RunEvents
<1>7. CASE x \in [type : {"queue_snapshot"}, issues : STRING]
  <2>1. DOMAIN x = {"type", "issues"} /\ e.type = x.type /\ e.issues = x.issues
    BY <1>2, <1>7
  <2> QED  BY <1>2, <1>7, <2>1 DEF RunEvents
<1>8. CASE x \in [type : {"issue_needs_human", "run_started", "run_assistant_text"}, key : STRING]
  <2>1. DOMAIN x = {"type", "key"} /\ e.type = x.type /\ e.key = x.key
    BY <1>2, <1>8
  <2> QED  BY <1>2, <1>8, <2>1 DEF RunEvents
<1>9. CASE x \in [type : {"run_stage_started", "run_tool_use"}, key : STRING, stage : STRING]
  <2>1. DOMAIN x = {"type", "key", "stage"} /\ e.type = x.type /\ e.key = x.key /\ e.stage = x.stage
    BY <1>2, <1>9
  <2> QED  BY <1>2, <1>9, <2>1 DEF RunEvents
<1>10. CASE x \in [type : {"run_stage_finished"}, key : STRING, stage : STRING, cost : Nat]
  <2>1. DOMAIN x = {"type", "key", "stage", "cost"} /\ e.type = x.type /\ e.key = x.key /\ e.cost = x.cost
    BY <1>2, <1>10
  <2> QED  BY <1>2, <1>10, <2>1 DEF RunEvents
<1>11. CASE x \in [type : {"run_gates"}, key : STRING, round : Nat]
  <2>1. DOMAIN x = {"type", "key", "round"} /\ e.type = x.type /\ e.key = x.key /\ e.round = x.round
    BY <1>2, <1>11
  <2> QED  BY <1>2, <1>11, <2>1 DEF RunEvents
<1>12. CASE x \in [type : {"run_finished"}, key : STRING, outcome : STRING, cost : Nat, degraded : SUBSET STRING]
  <2>1. /\ DOMAIN x = {"type", "key", "outcome", "cost", "degraded"}
        /\ e.type = x.type /\ e.key = x.key /\ e.outcome = x.outcome /\ e.cost = x.cost
    BY <1>2, <1>12
  <2> QED  BY <1>2, <1>12, <2>1 DEF RunEvents
<1> QED  BY <1>3, <1>4, <1>5, <1>6, <1>7, <1>8, <1>9, <1>10, <1>11, <1>12, Zenon DEF Bodies

(***************************************************************************)
(* The reducer.                                                            *)
(***************************************************************************)

LEMMA FreshIs ==
  ASSUME NEW n \in Nat
  PROVE  FreshRun(n) \in Runs /\ ~FreshRun(n).titled
<1>1. << >> \in Seq(Stages)
  OBVIOUS
<1> DEFINE none == << >>
<1>2. [startedAt |-> n, finishedAt |-> 0, status |-> "active", titled |-> FALSE, stages |-> none, gates |-> 0, cost |-> 0] \in Runs
  <2> HIDE DEF none
  <2>1. none \in Seq(Stages)
    BY <1>1 DEF none
  <2>2. 0 \in Nat /\ "active" \in {"active"} \union STRING /\ FALSE \in BOOLEAN
    OBVIOUS
  <2> QED  BY <2>1, <2>2, Zenon DEF Runs
<1> QED  BY <1>2 DEF FreshRun

LEMMA IndexIs ==
  ASSUME NEW stages \in Seq(Stages), NEW label
  PROVE  OpenStageIndex(stages, label) = 0 \/ OpenStageIndex(stages, label) \in DOMAIN stages
<1> DEFINE open == {i \in DOMAIN stages : stages[i].stage = label /\ stages[i].finishedAt = 0}
<1>1. CASE open = {}
  BY <1>1 DEF OpenStageIndex
<1>2. CASE open # {}
  <2>1. open \subseteq 1..Len(stages) /\ Len(stages) \in Nat
    BY LenProperties
  <2>2. \E i \in open : \A j \in open : j =< i
    <3> DEFINE S == {n \in Nat : \A j \in open : j =< n}
    <3>1. Len(stages) \in S
      BY <2>1
    <3>2. PICK n \in S : \A k \in S : n =< k
      <4> HIDE DEF S, open
      <4>1. S \in SUBSET Nat
        BY DEF S
      <4> QED  BY <3>1, <4>1, LeastExists
    <3>3. n \in open
      <4> SUFFICES ASSUME n \notin open PROVE FALSE
        OBVIOUS
      <4>1. \A j \in open : j =< n - 1 /\ j \in Nat /\ j >= 1
        BY <2>1, <3>2
      <4>2. n - 1 \in Nat
        BY <1>2, <3>2, <4>1
      <4>3. n - 1 \in S /\ ~(n =< n - 1)
        BY <3>2, <4>1, <4>2
      <4> QED  BY <3>2, <4>3
    <3> QED  BY <3>2, <3>3
  <2> HIDE DEF open
  <2>3. (CHOOSE i \in open : \A j \in open : j =< i) \in open
    BY <2>2
  <2> QED  BY <1>2, <2>3 DEF OpenStageIndex, open
<1> QED  BY <1>1, <1>2

LEMMA ViewIs ==
  ASSUME NEW e \in Stamps, e.type = "run_stage_started"
  PROVE  StageView(e) \in Stages
BY HeardIs DEF StageView, Stages

LEMMA RunTyped ==
  ASSUME NEW run \in Runs, NEW e \in Stamps, e.type \in RunEvents
  PROVE  /\ RunAfter(run, e) \in Runs
         /\ e.type # "run_started" => RunAfter(run, e).titled = run.titled
<1>1. CASE e.type = "run_started"
  <2>1. FreshRun(e.seq) \in Runs
    BY HeardIs, FreshIs
  <2>2. RunAfter(run, e) = RunStarted(run, e)
    BY <1>1 DEF RunAfter
  <2> QED  BY <1>1, <2>1, <2>2 DEF RunStarted, Runs
<1>2. CASE e.type = "run_stage_started"
  <2>1. RunAfter(run, e) = RunStageStarted(run, e)
    BY <1>2 DEF RunAfter
  <2>2. StageView(e) \in Stages /\ run.stages \in Seq(Stages)
    BY <1>2, ViewIs DEF Runs
  <2>3. Append(run.stages, StageView(e)) \in Seq(Stages)
    BY <2>2, AppendProperties
  <2> QED  BY <2>1, <2>3 DEF RunStageStarted, Runs
<1>3. CASE e.type = "run_tool_use"
  <2>1. RunAfter(run, e) = RunToolUse(run, e)
    BY <1>3 DEF RunAfter
  <2>2. run.stages \in Seq(Stages)
    BY DEF Runs
  <2> DEFINE i == OpenStageIndex(run.stages, e.stage)
  <2>3. i = 0 \/ i \in DOMAIN run.stages
    BY <2>2, IndexIs
  <2> HIDE DEF i
  <2>4. CASE i = 0
    BY <2>1, <2>4 DEF RunToolUse, i
  <2>5. CASE i # 0
    <3>1. i \in 1..Len(run.stages) /\ run.stages[i] \in Stages
      BY <2>2, <2>3, <2>5, LenProperties, ElementOfSeq
    <3>2. [run.stages[i] EXCEPT !.tools = @ + 1] \in Stages
      BY <3>1 DEF Stages
    <3>3. [run.stages EXCEPT ![i] = [run.stages[i] EXCEPT !.tools = @ + 1]] \in Seq(Stages)
      BY <2>2, <3>1, <3>2, ExceptSeq
    <3>4. RunAfter(run, e) = [run EXCEPT !.stages = [run.stages EXCEPT ![i] = [run.stages[i] EXCEPT !.tools = @ + 1]]]
      BY <2>1, <2>5, <3>1 DEF RunToolUse, Runs, i
    <3> QED  BY <3>3, <3>4 DEF Runs
  <2> QED  BY <2>4, <2>5
<1>4. CASE e.type = "run_assistant_text"
  BY <1>4 DEF RunAfter, RunAssistantText
<1>5. CASE e.type = "run_stage_finished"
  <2>1. RunAfter(run, e) = RunStageFinished(run, e)
    BY <1>5 DEF RunAfter
  <2>2. run.stages \in Seq(Stages) /\ run.cost \in Nat /\ e.cost \in Nat /\ e.seq \in Nat
    BY <1>5, HeardIs DEF Runs
  <2> DEFINE i == OpenStageIndex(run.stages, e.stage)
             paid == [run EXCEPT !.cost = @ + e.cost]
  <2>3. i = 0 \/ i \in DOMAIN run.stages
    BY <2>2, IndexIs
  <2>4. paid \in Runs /\ paid.titled = run.titled /\ paid.stages = run.stages
    BY <2>2 DEF Runs
  <2> HIDE DEF i, paid
  <2>5. CASE i = 0
    BY <2>1, <2>4, <2>5 DEF RunStageFinished, i, paid
  <2>6. CASE i # 0
    <3>1. i \in 1..Len(run.stages) /\ run.stages[i] \in Stages
      BY <2>2, <2>3, <2>6, LenProperties, ElementOfSeq
    <3> DEFINE view == [run.stages[i] EXCEPT !.finishedAt = e.seq, !.cost = e.cost]
    <3>2. view \in Stages
      BY <2>2, <3>1 DEF Stages
    <3>3. [run.stages EXCEPT ![i] = view] \in Seq(Stages)
      BY <2>2, <3>1, <3>2, ExceptSeq
    <3>4. RunAfter(run, e) = [paid EXCEPT !.stages[i].finishedAt = e.seq, !.stages[i].cost = e.cost]
      BY <2>1, <2>6 DEF RunStageFinished, i, paid
    <3>5. [paid EXCEPT !.stages[i].finishedAt = e.seq, !.stages[i].cost = e.cost] = [paid EXCEPT !.stages = [run.stages EXCEPT ![i] = view]]
      BY <2>4, <3>1 DEF Runs, Stages
    <3> HIDE DEF view
    <3> DEFINE views == [run.stages EXCEPT ![i] = view]
    <3>6. RunAfter(run, e) = [paid EXCEPT !.stages = views] /\ views \in Seq(Stages)
      BY <3>3, <3>4, <3>5
    <3> HIDE DEF views
    <3> QED  BY <2>4, <3>6 DEF Runs
  <2> QED  BY <2>5, <2>6
<1>6. CASE e.type = "run_gates"
  <2>1. RunAfter(run, e) = RunGates(run, e)
    BY <1>6 DEF RunAfter
  <2> QED  BY <1>6, <2>1, HeardIs DEF RunGates, Runs
<1>7. CASE e.type = "run_finished"
  <2>1. RunAfter(run, e) = RunFinished(run, e)
    BY <1>7 DEF RunAfter
  <2>2. run.stages \in Seq(Stages) /\ e.cost \in Nat /\ e.seq \in Nat /\ e.outcome \in STRING
    BY <1>7, HeardIs DEF Runs
  <2> DEFINE stages == [i \in DOMAIN run.stages |-> [run.stages[i] EXCEPT !.degraded = @ \/ run.stages[i].stage \in e.degraded]]
  <2>3. DOMAIN run.stages = 1..Len(run.stages) /\ Len(run.stages) \in Nat /\ \A i \in 1..Len(run.stages) : run.stages[i] \in Stages
    BY <2>2, LenProperties, ElementOfSeq
  <2>4. ASSUME NEW i \in DOMAIN run.stages
        PROVE  stages[i] \in Stages
    BY <2>3, <2>4 DEF Stages
  <2>5. stages \in Seq(Stages)
    <3>1. stages \in [1..Len(run.stages) -> Stages]
      BY <2>3, <2>4
    <3> HIDE DEF stages
    <3> QED  BY <2>3, <3>1, SeqDef
  <2>6. RunAfter(run, e) = [run EXCEPT !.status = e.outcome, !.finishedAt = e.seq, !.cost = e.cost, !.stages = stages]
    BY <2>1 DEF RunFinished, Runs
  <2> HIDE DEF stages
  <2> QED  BY <2>2, <2>5, <2>6 DEF Runs
<1> QED  BY <1>1, <1>2, <1>3, <1>4, <1>5, <1>6, <1>7 DEF RunEvents

LEMMA RunOfTyped ==
  ASSUME NEW m \in Missions, NEW e \in Stamps
  PROVE  RunOf(m, e) \in Runs
<1>1. m.runs \in Maps(Runs)
  BY DEF Missions
<1> QED  BY <1>1, MapIs, HeardIs, FreshIs DEF RunOf

\* The runs after an event of a run: its own run is the next one, the others are as they
\* were, and some may be gone; but not the only one.
LEMMA RunsAfter ==
  ASSUME NEW m \in Missions, NEW e \in Stamps, e.type \in RunEvents
  PROVE  /\ Reduce(m, e).runs \in Maps(Runs)
         /\ Reduce(m, e) = [m EXCEPT !.runs = Reduce(m, e).runs]
         /\ DOMAIN Reduce(m, e).runs \subseteq DOMAIN m.runs \union {e.key}
         /\ e.key \in DOMAIN Reduce(m, e).runs => Reduce(m, e).runs[e.key] = RunAfter(RunOf(m, e), e)
         /\ \A k \in DOMAIN Reduce(m, e).runs : k # e.key => Reduce(m, e).runs[k] = m.runs[k]
         /\ DOMAIN m.runs \subseteq {e.key} => DOMAIN Reduce(m, e).runs = {e.key}
<1> DEFINE run == RunAfter(RunOf(m, e), e)
           put == Put(m.runs, e.key, run)
<1>1. run \in Runs /\ m.runs \in Maps(Runs) /\ e.key \in STRING
  BY RunOfTyped, RunTyped, HeardIs DEF Missions
<1>2. /\ put \in Maps(Runs) /\ DOMAIN put = DOMAIN m.runs \union {e.key} /\ put[e.key] = run
      /\ \A j \in DOMAIN m.runs : j # e.key => put[j] = m.runs[j]
  <2> HIDE DEF run
  <2>1. DOMAIN m.runs \union {e.key} \in SUBSET STRING /\ \A j \in DOMAIN m.runs : m.runs[j] \in Runs
    BY <1>1, MapIs
  <2>2. put \in [DOMAIN m.runs \union {e.key} -> Runs]
    BY <1>1, <2>1 DEF Put
  <2>3. put \in Maps(Runs)
    BY <2>1, <2>2, MapIs
  <2>4. put[e.key] = run /\ \A j \in DOMAIN m.runs : j # e.key => put[j] = m.runs[j]
    BY DEF Put
  <2> QED  BY <2>2, <2>3, <2>4
<1>3. WithRun(m, e) = [m EXCEPT !.runs = put]
  BY DEF WithRun, Missions
<1> HIDE DEF run, put
<1>4. CASE e.type # "run_finished"
  <2>1. Reduce(m, e) = WithRun(m, e)
    BY <1>4 DEF Reduce, RunEvents
  <2>2. Reduce(m, e).runs = put /\ Reduce(m, e) = [m EXCEPT !.runs = put]
    BY <1>3, <2>1 DEF Missions
  <2> QED  BY <1>2, <2>2 DEF run
<1>5. CASE e.type = "run_finished"
  <2>1. Reduce(m, e) = [WithRun(m, e) EXCEPT !.runs = PruneFinishedRuns(@)]
    BY <1>5 DEF Reduce, RunEvents
  <2>2. Reduce(m, e).runs = PruneFinishedRuns(put) /\ Reduce(m, e) = [m EXCEPT !.runs = PruneFinishedRuns(put)]
    BY <1>3, <2>1 DEF Missions
  <2> DEFINE finished == {k \in DOMAIN put : put[k].status # "active"}
             newer(k) == {j \in finished : put[j].finishedAt > put[k].finishedAt}
             D == {k \in DOMAIN put : k \in finished => Cardinality(newer(k)) < MaxFinished}
  <2>3. PruneFinishedRuns(put) = [k \in D |-> put[k]]
    BY DEF PruneFinishedRuns
  <2>4. DOMAIN m.runs \subseteq {e.key} => D = {e.key}
    <3> SUFFICES ASSUME DOMAIN m.runs \subseteq {e.key} PROVE D = {e.key}
      OBVIOUS
    <3>1. DOMAIN put = {e.key} /\ put[e.key].finishedAt \in Nat
      BY <1>1, <1>2 DEF Runs
    <3>2. newer(e.key) = {}
      BY <3>1
    <3>3. Cardinality(newer(e.key)) = 0 /\ MaxFinished \in Nat \ {0}
      BY <3>2, FS_EmptySet, MissionControlAssumption
    <3> HIDE DEF newer
    <3> QED  BY <3>1, <3>3
  <2>5. D \in SUBSET DOMAIN put
    OBVIOUS
  <2> HIDE DEF D
  <2>6. [k \in D |-> put[k]] \in Maps(Runs)
    BY <1>2, <2>5, RestrictIs
  <2> QED  BY <1>2, <2>2, <2>3, <2>4, <2>5, <2>6 DEF run
<1> QED  BY <1>4, <1>5

\* The mission after an event is one, of the event's number, with the same runs when the
\* event is of no run.
LEMMA ReduceTyped ==
  ASSUME NEW m \in Missions, NEW e \in Stamps
  PROVE  /\ ApplyEvent(m, e) \in Missions /\ ApplyEvent(m, e).seq = e.seq
         /\ ApplyEvent(m, e).runs = Reduce(m, e).runs
         /\ e.type \notin RunEvents => Reduce(m, e).runs = m.runs
<1>1. /\ Reduce(m, e) \in Missions
      /\ e.type \notin RunEvents => Reduce(m, e).runs = m.runs
  <2>1. CASE e.type = "daemon_started"
    <3>1. Reduce(m, e) = DaemonStarted(m, e)
      BY <2>1 DEF Reduce, RunEvents
    <3> DEFINE d == [up |-> TRUE, tick |-> 0, backoff |-> 0]
    <3>2. d \in [up : {TRUE}, tick : Nat, backoff : Nat] /\ Reduce(m, e) = [m EXCEPT !.daemon = d]
      BY <3>1 DEF DaemonStarted
    <3> HIDE DEF d
    <3> QED  BY <2>1, <3>2 DEF Missions, RunEvents
  <2>2. CASE e.type = "tick_finished"
    <3>1. Reduce(m, e) = TickFinished(m, e) /\ e.seq \in Nat
      BY <2>2, HeardIs DEF Reduce, RunEvents
    <3>2. CASE ~m.daemon.up
      BY <2>2, <3>1, <3>2 DEF TickFinished, RunEvents
    <3>3. CASE m.daemon.up
      <4> DEFINE d == [m.daemon EXCEPT !.tick = e.seq, !.backoff = IF e.error THEN @ ELSE 0]
      <4>1. m.daemon \in [up : {TRUE}, tick : Nat, backoff : Nat]
        BY <3>3 DEF Missions
      <4>2. d \in [up : {TRUE}, tick : Nat, backoff : Nat]
        BY <3>1, <4>1
      <4>3. Reduce(m, e) = [m EXCEPT !.daemon = d]
        BY <3>1, <3>3, <4>1 DEF TickFinished, Missions
      <4> HIDE DEF d
      <4> QED  BY <2>2, <4>2, <4>3 DEF Missions, RunEvents
    <3> QED  BY <3>2, <3>3
  <2>3. CASE e.type = "linear_backoff"
    <3>1. Reduce(m, e) = LinearBackoff(m, e) /\ e.seconds \in Nat
      BY <2>3, HeardIs DEF Reduce, RunEvents
    <3>2. CASE ~m.daemon.up
      BY <2>3, <3>1, <3>2 DEF LinearBackoff, RunEvents
    <3>3. CASE m.daemon.up
      <4> DEFINE d == [m.daemon EXCEPT !.backoff = e.seconds]
      <4>1. m.daemon \in [up : {TRUE}, tick : Nat, backoff : Nat]
        BY <3>3 DEF Missions
      <4>2. d \in [up : {TRUE}, tick : Nat, backoff : Nat]
        BY <3>1, <4>1
      <4>3. Reduce(m, e) = [m EXCEPT !.daemon = d]
        BY <3>1, <3>3, <4>1 DEF LinearBackoff, Missions
      <4> HIDE DEF d
      <4> QED  BY <2>3, <4>2, <4>3 DEF Missions, RunEvents
    <3> QED  BY <3>2, <3>3
  <2>4. CASE e.type = "queue_snapshot"
    <3>1. Reduce(m, e) = QueueSnapshot(m, e) /\ e.issues \in STRING
      BY <2>4, HeardIs DEF Reduce, RunEvents
    <3> QED  BY <2>4, <3>1 DEF QueueSnapshot, Missions, RunEvents
  <2>5. CASE e.type = "issue_needs_human"
    <3> DEFINE T == [key : STRING, at : Nat]
               kept == Filtered(m.needsHuman, {i \in DOMAIN m.needsHuman : m.needsHuman[i].key /= e.key})
               item == [key |-> e.key, at |-> e.seq]
    <3>1. Reduce(m, e) = [m EXCEPT !.needsHuman = Append(kept, item)]
      BY <2>5 DEF Reduce, IssueNeedsHuman, RunEvents, Missions
    <3>2. m.needsHuman \in Seq(T) /\ item \in T
      BY <2>5, HeardIs DEF Missions
    <3> HIDE DEF item, T
    <3>3. kept \in Seq(T)
      BY <3>2, FilteredIs
    <3> HIDE DEF kept
    <3>4. Append(kept, item) \in Seq(T)
      BY <3>2, <3>3, AppendProperties
    <3> DEFINE list == Append(kept, item)
    <3>5. list \in Seq([key : STRING, at : Nat]) /\ Reduce(m, e) = [m EXCEPT !.needsHuman = list]
      BY <3>1, <3>4 DEF T
    <3> HIDE DEF list
    <3> QED  BY <2>5, <3>5 DEF Missions, RunEvents
  <2>6. CASE e.type \in RunEvents
    <3>1. Reduce(m, e).runs \in Maps(Runs) /\ Reduce(m, e) = [m EXCEPT !.runs = Reduce(m, e).runs]
      BY <2>6, RunsAfter
    <3> DEFINE runs == Reduce(m, e).runs
    <3>2. runs \in Maps(Runs) /\ Reduce(m, e) = [m EXCEPT !.runs = runs]
      BY <3>1
    <3> HIDE DEF runs
    <3> QED  BY <2>6, <3>2 DEF Missions
  <2>7. CASE e.type \notin RunEvents \union {"daemon_started", "tick_finished", "linear_backoff", "queue_snapshot", "issue_needs_human"}
    BY <2>7 DEF Reduce, RunEvents
  <2> QED  BY <2>1, <2>2, <2>3, <2>4, <2>5, <2>6, <2>7
<1> DEFINE n == Reduce(m, e)
<1>2. ApplyEvent(m, e) = [n EXCEPT !.seq = e.seq] /\ n \in Missions /\ e.seq \in Nat
  BY <1>1, HeardIs DEF ApplyEvent
<1> HIDE DEF n
<1>3. ApplyEvent(m, e) \in Missions /\ ApplyEvent(m, e).seq = e.seq /\ ApplyEvent(m, e).runs = n.runs
  BY <1>2 DEF Missions
<1> QED  BY <1>1, <1>3 DEF n

LEMMA InitialIs == InitialMission \in Missions /\ InitialMission.seq = 0 /\ InitialMission.runs = << >>
<1> DEFINE none == << >>
<1>1. none \in Maps(Runs) /\ none \in Seq([key : STRING, at : Nat])
  <2>1. {} \in SUBSET STRING /\ none \in [{} -> Runs]
    OBVIOUS
  <2>2. none \in Seq([key : STRING, at : Nat])
    OBVIOUS
  <2>3. none \in Maps(Runs)
    <3> HIDE DEF none
    <3> QED  BY <2>1, Zenon DEF Maps
  <2> QED  BY <2>2, <2>3
<1> HIDE DEF none
<1>2. [seq |-> 0, daemon |-> [up |-> FALSE], board |-> "none", runs |-> none, needsHuman |-> none] \in Missions
  <2>1. [up |-> FALSE] \in [up : {FALSE}] \union [up : {TRUE}, tick : Nat, backoff : Nat]
    OBVIOUS
  <2>2. 0 \in Nat /\ "none" \in {"none"} \union STRING
    OBVIOUS
  <2> QED  BY <1>1, <2>1, <2>2, Zenon DEF Missions
<1> QED  BY <1>2 DEF InitialMission, none

(***************************************************************************)
(* The page rebuilt from the log.                                          *)
(***************************************************************************)

\* A run of the board that was seen to start is in the rebuilt runs, the same.
Agree(runs, rebuilt) == \A k \in DOMAIN runs : runs[k].titled => k \in DOMAIN rebuilt /\ runs[k] = rebuilt[k]

LEMMA StartedIs ==
  ASSUME NEW a, NEW b, NEW e, e.type = "run_started"
  PROVE  RunAfter(a, e) = RunAfter(b, e)
BY DEF RunAfter, RunStarted

LEMMA Rebuilding ==
  ASSUME NEW m \in Missions, NEW e \in Stamps, WellTyped, Agree(m.runs, replay)
  PROVE  Reconstructed(e) \in Maps(Runs) /\ Agree(ApplyEvent(m, e).runs, Reconstructed(e))
<1>1. replay \in Maps(Runs) /\ DOMAIN replay \subseteq STRING
  <2>1. replay \in Maps(Runs)
    BY DEF WellTyped
  <2> QED  BY <2>1, MapIs
<1>2. CASE "key" \notin DOMAIN e
  <2>1. e.type \notin RunEvents /\ Reconstructed(e) = replay
    BY <1>2, HeardIs DEF Reconstructed
  <2> QED  BY <1>1, <2>1, ReduceTyped
<1>3. CASE "key" \in DOMAIN e
  <2> DEFINE part == [k \in DOMAIN replay \intersect {e.key} |-> replay[k]]
             before == [InitialMission EXCEPT !.runs = part]
             after == ApplyEvent(before, e).runs
  <2>1. part \in Maps(Runs)
    <3>1. DOMAIN replay \intersect {e.key} \in SUBSET DOMAIN replay
      OBVIOUS
    <3> QED  BY <1>1, <3>1, RestrictIs
  <2>2. before \in Missions /\ before.runs = part
    <3> HIDE DEF part
    <3>1. InitialMission \in Missions
      BY InitialIs
    <3> QED  BY <2>1, <3>1 DEF Missions
  <2>3. Reconstructed(e) = [k \in DOMAIN after \union DOMAIN replay |-> IF k \in DOMAIN after THEN after[k] ELSE replay[k]]
    BY <1>3 DEF Reconstructed, UiApplyEvent
  <2>4. DOMAIN part = DOMAIN replay \intersect {e.key} /\ \A k \in DOMAIN part : part[k] = replay[k]
    OBVIOUS
  <2> HIDE DEF part, before
  <2>5. after = Reduce(before, e).runs /\ after \in Maps(Runs)
    <3>1. ApplyEvent(before, e) \in Missions
      BY <2>2, ReduceTyped
    <3>2. \A x \in Missions : x.runs \in Maps(Runs)
      BY DEF Missions
    <3> QED  BY <2>2, <3>1, <3>2, ReduceTyped
  <2>6. m.runs \in Maps(Runs)
    BY DEF Missions
  <2>7. Reconstructed(e) \in Maps(Runs)
    <3> HIDE DEF after
    <3>1. /\ DOMAIN after \union DOMAIN replay \in SUBSET STRING
          /\ \A k \in DOMAIN after : after[k] \in Runs
          /\ \A k \in DOMAIN replay : replay[k] \in Runs
      BY <1>1, <2>5, MapIs
    <3>2. Reconstructed(e) \in [DOMAIN after \union DOMAIN replay -> Runs]
      BY <2>3, <3>1
    <3> QED  BY <3>1, <3>2, MapIs
  <2>8. CASE e.type \notin RunEvents
    <3>1. after = part /\ ApplyEvent(m, e).runs = m.runs
      BY <2>2, <2>5, <2>8, ReduceTyped
    <3>2. \A k \in DOMAIN replay : k \in DOMAIN Reconstructed(e) /\ Reconstructed(e)[k] = replay[k]
      BY <2>3, <2>4, <3>1
    <3> QED  BY <2>7, <3>1, <3>2 DEF Agree
  <2>9. CASE e.type \in RunEvents
    <3> DEFINE runs == ApplyEvent(m, e).runs
    <3>1. /\ runs = Reduce(m, e).runs /\ runs \in Maps(Runs)
          /\ DOMAIN runs \subseteq DOMAIN m.runs \union {e.key}
          /\ e.key \in DOMAIN runs => runs[e.key] = RunAfter(RunOf(m, e), e)
          /\ \A k \in DOMAIN runs : k # e.key => runs[k] = m.runs[k]
      BY <2>9, ReduceTyped, RunsAfter
    <3>2. /\ DOMAIN after = {e.key} /\ after[e.key] = RunAfter(RunOf(before, e), e)
      <4>1. DOMAIN before.runs \subseteq {e.key}
        BY <2>2, <2>4
      <4> QED  BY <2>2, <2>5, <2>9, <4>1, RunsAfter
    <3> HIDE DEF runs, after
    <3>3. ASSUME NEW k \in DOMAIN runs, runs[k].titled
          PROVE  k \in DOMAIN Reconstructed(e) /\ runs[k] = Reconstructed(e)[k]
      <4>1. CASE k # e.key
        <5>1. k \in DOMAIN m.runs /\ runs[k] = m.runs[k]
          BY <3>1, <4>1
        <5>2. k \in DOMAIN replay /\ m.runs[k] = replay[k]
          BY <3>3, <5>1 DEF Agree
        <5> QED  BY <2>3, <3>2, <4>1, <5>1, <5>2
      <4>2. CASE k = e.key
        <5>1. Reconstructed(e)[k] = RunAfter(RunOf(before, e), e) /\ k \in DOMAIN Reconstructed(e)
          BY <2>3, <3>2, <4>2
        <5>2. runs[k] = RunAfter(RunOf(m, e), e)
          BY <3>1, <4>2
        <5>3. CASE e.type = "run_started"
          BY <5>1, <5>2, <5>3, StartedIs
        <5>4. CASE e.type # "run_started"
          <6>1. RunOf(m, e) \in Runs
            BY RunOfTyped
          <6>2. RunOf(m, e).titled
            BY <2>9, <3>3, <5>2, <5>4, <6>1, RunTyped
          <6>3. e.key \in DOMAIN m.runs
            BY <6>2, HeardIs, FreshIs DEF RunOf
          <6>4. RunOf(m, e) = m.runs[e.key]
            BY <6>3 DEF RunOf
          <6>5. e.key \in DOMAIN replay /\ m.runs[e.key] = replay[e.key]
            BY <6>2, <6>3, <6>4 DEF Agree
          <6>6. RunOf(before, e) = replay[e.key]
            BY <2>2, <2>4, <6>5 DEF RunOf
          <6> QED  BY <5>1, <5>2, <6>4, <6>5, <6>6
        <5> QED  BY <5>3, <5>4
      <4> QED  BY <4>1, <4>2
    <3> QED  BY <2>7, <3>3 DEF Agree, runs
  <2> QED  BY <2>8, <2>9
<1> QED  BY <1>2, <1>3

(***************************************************************************)
(* The tab.                                                                *)
(***************************************************************************)

\* The activity of a run, in order, none of it after n.
Rising(feed, n) ==
  /\ \A i \in DOMAIN feed : feed[i] =< n
  /\ \A i, j \in DOMAIN feed : i < j => feed[i] < feed[j]
AllRising(feeds, n) == \A k \in DOMAIN feeds : Rising(feeds[k], n)

LEMMA CappedIs ==
  ASSUME NEW feed \in Seq(Nat), NEW n \in Nat, NEW x \in Nat, n < x, Rising(feed, n)
  PROVE  Capped(Append(feed, x)) \in Seq(Nat) /\ Rising(Capped(Append(feed, x)), x)
<1> DEFINE all == Append(feed, x)
<1>1. /\ all \in Seq(Nat) /\ Len(all) = Len(feed) + 1 /\ Len(feed) \in Nat
      /\ DOMAIN all = 1..Len(all) /\ DOMAIN feed = 1..Len(feed)
      /\ \A i \in 1..Len(feed) : all[i] = feed[i] /\ feed[i] \in Nat
      /\ all[Len(feed) + 1] = x
  BY AppendProperties, LenProperties, ElementOfSeq
<1>2. Rising(all, x)
  <2> HIDE DEF all
  <2>1. ASSUME NEW i \in DOMAIN all
        PROVE  all[i] =< x
    <3>1. i \in 1..Len(feed) \/ i = Len(feed) + 1
      BY <1>1, <2>1
    <3> QED  BY <1>1, <3>1 DEF Rising
  <2>2. ASSUME NEW i \in DOMAIN all, NEW j \in DOMAIN all, i < j
        PROVE  all[i] < all[j]
    <3>1. i \in 1..Len(feed) /\ (j \in 1..Len(feed) \/ j = Len(feed) + 1)
      BY <1>1, <2>2
    <3> QED  BY <1>1, <2>2, <3>1 DEF Rising
  <2> QED  BY <2>1, <2>2 DEF Rising
<1> HIDE DEF all
<1>3. FeedCap \in Nat \ {0}
  BY MissionControlAssumption
<1>4. CASE Len(all) > FeedCap
  <2> DEFINE from == Len(all) - FeedCap + 1
             last == SubSeq(all, from, Len(all))
  <2>1. from \in 1..Len(all) + 1 /\ Len(all) \in 0..Len(all) /\ from =< Len(all) /\ from \in Int
    BY <1>1, <1>3, <1>4
  <2>2. /\ last \in Seq(Nat) /\ Len(last) = Len(all) - from + 1
        /\ \A i \in 1..Len(last) : last[i] = all[from + i - 1]
    <3> HIDE DEF from
    <3> QED  BY <1>1, <2>1, SubSeqProperties
  <2> HIDE DEF last, from
  <2>3. DOMAIN last = 1..Len(last)
    BY <2>2, LenProperties
  <2>4. ASSUME NEW i \in DOMAIN last
        PROVE  from + i - 1 \in DOMAIN all
    <3>1. i \in 1..Len(all) - from + 1 /\ Len(all) \in Nat /\ from >= 1 /\ from \in Int
      BY <1>1, <2>1, <2>2, <2>3
    <3>2. from + i - 1 \in 1..Len(all)
      BY <3>1
    <3> QED  BY <1>1, <3>2
  <2>5. Rising(last, x)
    <3>1. ASSUME NEW i \in DOMAIN last
          PROVE  last[i] =< x
      BY <1>2, <2>2, <2>3, <2>4 DEF Rising
    <3>2. ASSUME NEW i \in DOMAIN last, NEW j \in DOMAIN last, i < j
          PROVE  last[i] < last[j]
      <4>1. from + i - 1 < from + j - 1
        BY <2>1, <2>3, <3>2
      <4> QED  BY <1>2, <2>2, <2>3, <2>4, <4>1 DEF Rising
    <3> QED  BY <3>1, <3>2 DEF Rising
  <2> QED  BY <1>4, <2>2, <2>5 DEF Capped, last, from, all
<1>5. CASE ~(Len(all) > FeedCap)
  BY <1>1, <1>2, <1>5 DEF Capped, all
<1> QED  BY <1>4, <1>5

LEMMA RisingLater ==
  ASSUME NEW feeds \in Maps(Seq(Nat)), NEW n \in Nat, NEW x \in Nat, n =< x, AllRising(feeds, n)
  PROVE  AllRising(feeds, x)
<1>1. ASSUME NEW k \in DOMAIN feeds
      PROVE  Rising(feeds[k], x)
  <2>1. feeds[k] \in Seq(Nat)
    BY MapIs
  <2>2. \A i \in DOMAIN feeds[k] : feeds[k][i] \in Nat
    BY <2>1, ElementOfSeq, LenProperties
  <2>3. Rising(feeds[k], n)
    BY DEF AllRising
  <2> QED  BY <2>2, <2>3 DEF Rising
<1> QED  BY <1>1 DEF AllRising

\* An event taken in makes a tab whose mirror is the next one; the rest is as it was.
LEMMA IngestIs ==
  ASSUME NEW t \in Tabs, NEW e \in Stamps
  PROVE  /\ Ingest(t, e) \in Tabs
         /\ Ingest(t, e).mission = ApplyEvent(t.mission, e) /\ Ingest(t, e).mission.seq = e.seq
         /\ Ingest(t, e) = [t EXCEPT !.mission = Ingest(t, e).mission, !.feeds = Ingest(t, e).feeds]
         /\ e.seq > t.mission.seq /\ AllRising(t.feeds, t.mission.seq) => AllRising(Ingest(t, e).feeds, e.seq)
<1>1. t.mission \in Missions /\ t.feeds \in Maps(Seq(Nat)) /\ t.mission.seq \in Nat /\ e.seq \in Nat
  BY HeardIs DEF Tabs, Missions
<1> DEFINE next == ApplyEvent(t.mission, e)
           line == Capped(Append(Feed(t, e), e.seq))
           fed == IF e.type \in {"run_tool_use", "run_assistant_text"} THEN Put(t.feeds, e.key, line) ELSE t.feeds
           feeds == IF e.type = "run_finished" THEN [k \in DOMAIN fed \intersect DOMAIN next.runs |-> fed[k]] ELSE fed
<1>2. next \in Missions /\ next.seq = e.seq
  BY <1>1, ReduceTyped
<1>3. Ingest(t, e) = [t EXCEPT !.mission = next, !.feeds = feeds]
  BY DEF Ingest, UiApplyEvent
<1>4. Feed(t, e) \in Seq(Nat) /\ (AllRising(t.feeds, t.mission.seq) => Rising(Feed(t, e), t.mission.seq))
  <2>1. CASE e.key \in DOMAIN t.feeds
    BY <1>1, <2>1, MapIs DEF Feed, AllRising
  <2>2. CASE e.key \notin DOMAIN t.feeds
    <3>1. Feed(t, e) = << >>
      BY <2>2 DEF Feed
    <3>2. Feed(t, e) \in Seq(Nat) /\ DOMAIN Feed(t, e) = {}
      BY <3>1
    <3> QED  BY <3>2 DEF Rising
  <2> QED  BY <2>1, <2>2
<1>5. line \in Seq(Nat)
  <2>1. Append(Feed(t, e), e.seq) \in Seq(Nat) /\ FeedCap \in Nat \ {0}
    BY <1>1, <1>4, AppendProperties, MissionControlAssumption
  <2> DEFINE all == Append(Feed(t, e), e.seq)
  <2> HIDE DEF all
  <2>2. Len(all) \in Nat /\ all \in Seq(Nat)
    BY <2>1, LenProperties DEF all
  <2>3. Len(all) > FeedCap => SubSeq(all, Len(all) - FeedCap + 1, Len(all)) \in Seq(Nat)
    BY <2>1, <2>2, SubSeqProperties
  <2> QED  BY <2>2, <2>3 DEF Capped, all
<1>6. e.seq > t.mission.seq /\ AllRising(t.feeds, t.mission.seq) => Rising(line, e.seq)
  BY <1>1, <1>4, CappedIs
<1> HIDE DEF line, next
<1>7. /\ fed \in Maps(Seq(Nat))
      /\ e.seq > t.mission.seq /\ AllRising(t.feeds, t.mission.seq) => AllRising(fed, e.seq)
  <2>1. e.seq > t.mission.seq /\ AllRising(t.feeds, t.mission.seq) => AllRising(t.feeds, e.seq)
    BY <1>1, RisingLater
  <2>2. CASE e.type \in {"run_tool_use", "run_assistant_text"}
    <3>1. e.key \in STRING
      BY <2>2, HeardIs DEF RunEvents
    <3>2. DOMAIN t.feeds \union {e.key} \in SUBSET STRING /\ \A j \in DOMAIN t.feeds : t.feeds[j] \in Seq(Nat)
      BY <1>1, <3>1, MapIs
    <3>3. Put(t.feeds, e.key, line) \in [DOMAIN t.feeds \union {e.key} -> Seq(Nat)]
      BY <1>5, <3>2 DEF Put
    <3>4. fed = Put(t.feeds, e.key, line)
      BY <2>2
    <3> HIDE DEF fed
    <3>5. fed \in Maps(Seq(Nat))
      BY <3>2, <3>3, <3>4, MapIs
    <3>6. ASSUME e.seq > t.mission.seq, AllRising(t.feeds, t.mission.seq), NEW k \in DOMAIN fed
          PROVE  Rising(fed[k], e.seq)
      <4>1. fed[k] = IF k = e.key THEN line ELSE t.feeds[k]
        BY <3>4, <3>6 DEF Put
      <4>2. k # e.key => k \in DOMAIN t.feeds
        BY <3>3, <3>4, <3>6
      <4> QED  BY <1>6, <2>1, <3>6, <4>1, <4>2 DEF AllRising
    <3> QED  BY <3>5, <3>6 DEF AllRising
  <2>3. CASE e.type \notin {"run_tool_use", "run_assistant_text"}
    <3>1. fed = t.feeds
      BY <2>3
    <3> HIDE DEF fed
    <3> QED  BY <1>1, <2>1, <3>1
  <2> QED  BY <2>2, <2>3
<1> HIDE DEF fed
<1>8. /\ feeds \in Maps(Seq(Nat))
      /\ e.seq > t.mission.seq /\ AllRising(t.feeds, t.mission.seq) => AllRising(feeds, e.seq)
  <2>1. CASE e.type = "run_finished"
    <3> DEFINE K == DOMAIN fed \intersect DOMAIN next.runs
    <3>1. feeds = [k \in K |-> fed[k]] /\ K \in SUBSET DOMAIN fed
      BY <2>1
    <3> HIDE DEF K, feeds
    <3>2. feeds \in Maps(Seq(Nat))
      BY <1>7, <3>1, RestrictIs
    <3> QED  BY <1>7, <3>1, <3>2 DEF AllRising
  <2>2. CASE e.type # "run_finished"
    BY <1>7, <2>2
  <2> QED  BY <2>1, <2>2
<1> HIDE DEF feeds
<1>9. Ingest(t, e) \in Tabs /\ Ingest(t, e).mission = next /\ Ingest(t, e).feeds = feeds
  BY <1>2, <1>3, <1>8 DEF Tabs
<1> QED  BY <1>2, <1>3, <1>8, <1>9 DEF next

\* What a fold leaves alone.
Aside(t, u) == u = [t EXCEPT !.mission = u.mission, !.feeds = u.feeds]

LEMMA FoldIs ==
  ASSUME NEW t \in Tabs, NEW e \in Stamps
  PROVE  /\ Fold(t, e) \in Tabs /\ Aside(t, Fold(t, e))
         /\ AllRising(t.feeds, t.mission.seq) => AllRising(Fold(t, e).feeds, Fold(t, e).mission.seq)
         /\ e.seq =< t.mission.seq => Fold(t, e) = t
         /\ ~(e.seq =< t.mission.seq) => Fold(t, e).mission = ApplyEvent(t.mission, e) /\ Fold(t, e).mission.seq = e.seq
<1>1. t.mission.seq \in Nat /\ e.seq \in Nat
  BY HeardIs DEF Tabs, Missions
<1>2. CASE e.seq =< t.mission.seq
  <2>1. Fold(t, e) = t
    BY <1>2 DEF Fold
  <2>2. Aside(t, t)
    BY DEF Aside, Tabs
  <2> QED  BY <1>2, <2>1, <2>2
<1>3. CASE ~(e.seq =< t.mission.seq)
  <2>1. Fold(t, e) = Ingest(t, e) /\ e.seq > t.mission.seq
    BY <1>1, <1>3 DEF Fold
  <2> QED  BY <1>3, <2>1, IngestIs DEF Aside
<1> QED  BY <1>2, <1>3

Folds(A, t, events, n) == A = [k \in 0..n |-> IF k = 0 THEN t ELSE Fold(A[k - 1], events[k])]

LEMMA FoldsExist ==
  ASSUME NEW t, NEW events, NEW n \in Nat
  PROVE  \E A : Folds(A, t, events, n)
<1> DEFINE S == {m \in 0..n : \E A : Folds(A, t, events, m)}
<1>1. 0 \in S
  <2>1. Folds([k \in 0..0 |-> t], t, events, 0)
    BY DEF Folds
  <2> QED  BY <2>1
<1>2. ASSUME NEW m \in 0 .. n - 1, m \in S
      PROVE  m + 1 \in S
  <2>1. PICK B : Folds(B, t, events, m)
    BY <1>2
  <2> DEFINE A == [k \in 0..(m + 1) |-> IF k = m + 1 THEN Fold(B[m], events[k]) ELSE B[k]]
  <2>2. ASSUME NEW k \in 0..(m + 1)
        PROVE  A[k] = IF k = 0 THEN t ELSE Fold(A[k - 1], events[k])
    <3>1. CASE k = m + 1
      <4>1. k # 0 /\ k - 1 \in 0..(m + 1) /\ k - 1 # m + 1 /\ k - 1 = m
        BY <3>1
      <4> QED  BY <3>1, <4>1
    <3>2. CASE k # m + 1
      <4>1. k \in 0..m /\ (k # 0 => k - 1 \in 0..(m + 1) /\ k - 1 # m + 1)
        BY <3>2
      <4>2. B[k] = IF k = 0 THEN t ELSE Fold(B[k - 1], events[k])
        BY <2>1, <4>1 DEF Folds
      <4> QED  BY <3>2, <4>1, <4>2
    <3> QED  BY <3>1, <3>2
  <2>3. Folds(A, t, events, m + 1)
    <3> HIDE DEF A
    <3>1. A = [k \in 0..(m + 1) |-> A[k]]
      BY DEF A
    <3> QED  BY <2>2, <3>1 DEF Folds
  <2> QED  BY <2>3
<1>3. \A m \in 0..n : m \in S
  <2> HIDE DEF S
  <2> QED  BY <1>1, <1>2, Reached
<1> QED  BY <1>3

\* A fold over a sequence goes where each of its steps leads.
LEMMA FoldOverIs ==
  ASSUME NEW t, NEW events, Len(events) \in Nat, NEW S, t \in S[0],
         \A n \in 0 .. Len(events) - 1 : \A u \in S[n] : Fold(u, events[n + 1]) \in S[n + 1]
  PROVE  FoldOver(t, events) \in S[Len(events)]
<1> DEFINE A == CHOOSE A : A = [k \in 0..Len(events) |-> IF k = 0 THEN t ELSE Fold(A[k - 1], events[k])]
<1>1. A = [k \in 0..Len(events) |-> IF k = 0 THEN t ELSE Fold(A[k - 1], events[k])]
  <2>1. PICK B : B = [k \in 0..Len(events) |-> IF k = 0 THEN t ELSE Fold(B[k - 1], events[k])]
    <3>1. \E B : Folds(B, t, events, Len(events))
      BY FoldsExist
    <3> QED  BY <3>1, Zenon DEF Folds
  <2> QED  BY <2>1, Zenon
<1>2. FoldOver(t, events) = A[Len(events)]
  BY Zenon DEF FoldOver
<1> HIDE DEF A
<1> DEFINE R == {n \in 0..Len(events) : A[n] \in S[n]}
<1>3. 0 \in R
  BY <1>1
<1>4. ASSUME NEW n \in 0 .. Len(events) - 1, n \in R
      PROVE  n + 1 \in R
  <2>1. n + 1 \in 0..Len(events) /\ (n + 1) - 1 = n /\ n + 1 # 0
    OBVIOUS
  <2>2. A[n + 1] = Fold(A[n], events[n + 1])
    BY <1>1, <2>1
  <2> QED  BY <1>4, <2>1, <2>2
<1>5. Len(events) \in R
  <2> HIDE DEF R
  <2>1. \A n \in 0..Len(events) : n \in R
    BY <1>3, <1>4, Reached
  <2> QED  BY <2>1
<1> QED  BY <1>2, <1>5

(***************************************************************************)
(* Events on the way. H[n] is the mission after n events of this life.     *)
(***************************************************************************)

Genuine(q, H, n) ==
  /\ Ascending(q)
  /\ \A i \in DOMAIN q : q[i].seq \in 1..n /\ H[q[i].seq] = ApplyEvent(H[q[i].seq - 1], q[i])

\* After s, nothing of q is left out, up to its end; and it ends with the n-th.
Follows(q, s) == \A i \in DOMAIN q : q[i].seq > s => q[i].seq = s + 1 \/ (i > 1 /\ q[i - 1].seq = q[i].seq - 1)
Reaches(q, s, n) == s = n \/ (q # << >> /\ q[Len(q)].seq = n)

LEMMA StampSeq ==
  ASSUME NEW q \in Seq(Stamps)
  PROVE  Len(q) \in Nat /\ DOMAIN q = 1..Len(q) /\ \A i \in 1..Len(q) : q[i] \in Stamps /\ q[i].seq \in Nat
<1>1. Len(q) \in Nat /\ DOMAIN q = 1..Len(q) /\ \A i \in 1..Len(q) : q[i] \in Stamps
  BY LenProperties, ElementOfSeq
<1> QED  BY <1>1, HeardIs

LEMMA NothingIs ==
  ASSUME NEW H, NEW n, NEW s
  PROVE  << >> \in Seq(Stamps) /\ Genuine(<< >>, H, n) /\ Follows(<< >>, s)
<1>1. << >> \in Seq(Stamps) /\ DOMAIN << >> = {}
  OBVIOUS
<1> QED  BY <1>1 DEF Genuine, Ascending, Follows

\* One more event is emitted, and is put at the end or passes by.
LEMMA GenuineEmit ==
  ASSUME NEW q \in Seq(Stamps), NEW n \in Nat, NEW e \in Stamps, e.seq = n + 1,
         NEW H, NEW G, \A k \in 0..n : G[k] = H[k], G[n + 1] = ApplyEvent(H[n], e), Genuine(q, H, n)
  PROVE  /\ Genuine(q, G, n + 1) /\ Append(q, e) \in Seq(Stamps) /\ Genuine(Append(q, e), G, n + 1)
         /\ \A s \in 0..n : Follows(q, s) /\ Reaches(q, s, n) => Follows(Append(q, e), s) /\ Reaches(Append(q, e), s, n + 1)
<1>1. Len(q) \in Nat /\ DOMAIN q = 1..Len(q) /\ \A i \in 1..Len(q) : q[i] \in Stamps /\ q[i].seq \in Nat
  BY StampSeq
<1> DEFINE p == Append(q, e)
<1>2. /\ p \in Seq(Stamps) /\ Len(p) = Len(q) + 1 /\ DOMAIN p = 1..Len(q) + 1 /\ p # << >>
      /\ \A i \in 1..Len(q) : p[i] = q[i]
      /\ p[Len(q) + 1] = e
  BY <1>1, AppendProperties, LenProperties
<1> HIDE DEF p
<1>3. \A i \in 1..Len(q) + 1 : i \in 1..Len(q) \/ i = Len(q) + 1
  BY <1>1
<1>4. ASSUME NEW i \in 1..Len(q)
      PROVE  q[i].seq \in 1..n /\ G[q[i].seq] = ApplyEvent(G[q[i].seq - 1], q[i])
  <2>1. q[i].seq \in 1..n /\ H[q[i].seq] = ApplyEvent(H[q[i].seq - 1], q[i])
    BY <1>1 DEF Genuine
  <2>2. q[i].seq \in 0..n /\ q[i].seq - 1 \in 0..n
    BY <2>1
  <2> QED  BY <2>1, <2>2
<1>5. Genuine(q, G, n + 1)
  <2>1. \A i \in DOMAIN q : q[i].seq \in 1..n + 1
    BY <1>1, <1>4
  <2> QED  BY <1>1, <1>4, <2>1 DEF Genuine
<1>6. Genuine(p, G, n + 1)
  <2>1. ASSUME NEW i \in DOMAIN p, NEW j \in DOMAIN p, i < j
        PROVE  p[i].seq < p[j].seq
    <3>1. i \in 1..Len(q) /\ (j \in 1..Len(q) \/ j = Len(q) + 1)
      BY <1>1, <1>2, <1>3, <2>1
    <3>2. CASE j \in 1..Len(q)
      BY <1>1, <1>2, <2>1, <3>1, <3>2 DEF Genuine, Ascending
    <3>3. CASE j = Len(q) + 1
      BY <1>2, <1>4, <3>1, <3>3
    <3> QED  BY <3>1, <3>2, <3>3
  <2>2. ASSUME NEW i \in DOMAIN p
        PROVE  p[i].seq \in 1..n + 1 /\ G[p[i].seq] = ApplyEvent(G[p[i].seq - 1], p[i])
    <3>1. CASE i \in 1..Len(q)
      BY <1>2, <1>4, <3>1
    <3>2. CASE i = Len(q) + 1
      <4>1. p[i].seq = n + 1 /\ p[i].seq - 1 = n /\ G[n] = H[n] /\ p[i] = e
        BY <1>2, <3>2
      <4> QED  BY <4>1
    <3> QED  BY <1>2, <1>3, <3>1, <3>2
  <2> QED  BY <2>1, <2>2 DEF Genuine, Ascending
<1>7. ASSUME NEW s \in 0..n, Follows(q, s), Reaches(q, s, n)
      PROVE  Follows(p, s) /\ Reaches(p, s, n + 1)
  <2>1. ASSUME NEW i \in DOMAIN p, p[i].seq > s
        PROVE  p[i].seq = s + 1 \/ (i > 1 /\ p[i - 1].seq = p[i].seq - 1)
    <3>1. CASE i \in 1..Len(q)
      <4>1. q[i].seq = s + 1 \/ (i > 1 /\ q[i - 1].seq = q[i].seq - 1)
        BY <1>1, <1>2, <1>7, <2>1, <3>1 DEF Follows
      <4>2. i > 1 => i - 1 \in 1..Len(q)
        BY <3>1
      <4> QED  BY <1>2, <3>1, <4>1, <4>2
    <3>2. CASE i = Len(q) + 1
      <4>1. p[i].seq = n + 1 /\ i - 1 = Len(q)
        BY <1>1, <1>2, <3>2
      <4>2. CASE s = n
        BY <4>1, <4>2
      <4>3. CASE q # << >> /\ q[Len(q)].seq = n
        <5>1. Len(q) # 0
          BY <4>3, EmptySeq
        <5>2. i > 1 /\ p[i - 1] = q[Len(q)]
          BY <1>1, <1>2, <3>2, <5>1
        <5> QED  BY <4>1, <4>3, <5>2
      <4> QED  BY <1>7, <4>2, <4>3 DEF Reaches
    <3> QED  BY <1>2, <1>3, <2>1, <3>1, <3>2
  <2>2. Reaches(p, s, n + 1)
    BY <1>2 DEF Reaches
  <2> QED  BY <2>1, <2>2 DEF Follows
<1> QED  BY <1>2, <1>5, <1>6, <1>7 DEF p

\* What holds of a sequence holds of its front; what follows its front follows from there.
LEMMA FrontKept ==
  ASSUME NEW p \in Seq(Stamps), NEW q \in Seq(Stamps), NEW H, NEW n, Genuine(p \o q, H, n)
  PROVE  /\ Genuine(p, H, n) /\ Genuine(q, H, n)
         /\ \A s : Follows(p \o q, s) => Follows(p, s)
<1>1. Len(p) \in Nat /\ DOMAIN p = 1..Len(p) /\ \A i \in 1..Len(p) : p[i] \in Stamps /\ p[i].seq \in Nat
  BY StampSeq
<1>2. Len(q) \in Nat /\ DOMAIN q = 1..Len(q) /\ \A i \in 1..Len(q) : q[i] \in Stamps /\ q[i].seq \in Nat
  BY StampSeq
<1> DEFINE r == p \o q
<1>3. r \in Seq(Stamps) /\ Len(r) = Len(p) + Len(q) /\ \A i \in 1..Len(p) + Len(q) : r[i] = IF i =< Len(p) THEN p[i] ELSE q[i - Len(p)]
  BY ConcatProperties
<1>4. DOMAIN r = 1..Len(p) + Len(q)
  BY <1>3, LenProperties
<1> HIDE DEF r
<1>5. \A i \in 1..Len(p) : i \in DOMAIN r /\ r[i] = p[i]
  BY <1>1, <1>2, <1>3, <1>4
<1>6. ASSUME NEW i \in 1..Len(q)
      PROVE  Len(p) + i \in DOMAIN r /\ r[Len(p) + i] = q[i]
  <2>1. Len(p) + i \in 1..Len(p) + Len(q) /\ ~(Len(p) + i =< Len(p)) /\ (Len(p) + i) - Len(p) = i
    BY <1>1, <1>2
  <2> QED  BY <1>3, <1>4, <2>1
<1>7. Genuine(r, H, n)
  BY DEF r
<1>8. Genuine(p, H, n)
  <2>1. ASSUME NEW i \in DOMAIN p, NEW j \in DOMAIN p, i < j
        PROVE  p[i].seq < p[j].seq
    BY <1>1, <1>5, <1>7, <2>1 DEF Genuine, Ascending
  <2>2. \A i \in DOMAIN p : p[i].seq \in 1..n /\ H[p[i].seq] = ApplyEvent(H[p[i].seq - 1], p[i])
    BY <1>1, <1>5, <1>7 DEF Genuine
  <2> QED  BY <2>1, <2>2 DEF Genuine, Ascending
<1>9. Genuine(q, H, n)
  <2>1. ASSUME NEW i \in DOMAIN q, NEW j \in DOMAIN q, i < j
        PROVE  q[i].seq < q[j].seq
    <3>1. Len(p) + i \in DOMAIN r /\ r[Len(p) + i] = q[i] /\ Len(p) + j \in DOMAIN r /\ r[Len(p) + j] = q[j]
      BY <1>2, <1>6
    <3>2. Len(p) + i < Len(p) + j
      BY <1>1, <1>2, <2>1
    <3> QED  BY <1>7, <3>1, <3>2 DEF Genuine, Ascending
  <2>2. ASSUME NEW i \in DOMAIN q
        PROVE  q[i].seq \in 1..n /\ H[q[i].seq] = ApplyEvent(H[q[i].seq - 1], q[i])
    BY <1>2, <1>6, <1>7 DEF Genuine
  <2> QED  BY <2>1, <2>2 DEF Genuine, Ascending
<1>10. ASSUME NEW s, Follows(r, s)
       PROVE  Follows(p, s)
  <2>1. ASSUME NEW i \in DOMAIN p, p[i].seq > s
        PROVE  p[i].seq = s + 1 \/ (i > 1 /\ p[i - 1].seq = p[i].seq - 1)
    <3>1. r[i].seq = s + 1 \/ (i > 1 /\ r[i - 1].seq = r[i].seq - 1)
      BY <1>1, <1>5, <1>10, <2>1 DEF Follows
    <3>2. i > 1 => i - 1 \in 1..Len(p)
      BY <1>1, <2>1
    <3> QED  BY <1>1, <1>5, <2>1, <3>1, <3>2
  <2> QED  BY <2>1 DEF Follows
<1> QED  BY <1>8, <1>9, <1>10 DEF r

\* The place events end at, when those after s are taken in one by one.
EndOf(p, s) == IF p # << >> /\ p[Len(p)].seq > s THEN p[Len(p)].seq ELSE s

LEMMA Onward ==
  ASSUME NEW p \in Seq(Stamps), NEW q \in Seq(Stamps), NEW H, NEW n \in Nat, Genuine(p \o q, H, n), NEW s \in 0..n,
         Follows(p \o q, s)
  PROVE  /\ EndOf(p, s) \in 0..n /\ Follows(q, EndOf(p, s))
         /\ Reaches(p \o q, s, n) => Reaches(q, EndOf(p, s), n)
<1>1. Len(p) \in Nat /\ DOMAIN p = 1..Len(p) /\ \A i \in 1..Len(p) : p[i] \in Stamps /\ p[i].seq \in Nat
  BY StampSeq
<1>2. Len(q) \in Nat /\ DOMAIN q = 1..Len(q) /\ \A i \in 1..Len(q) : q[i] \in Stamps /\ q[i].seq \in Nat
  BY StampSeq
<1> DEFINE r == p \o q
           end == EndOf(p, s)
<1>3. r \in Seq(Stamps) /\ Len(r) = Len(p) + Len(q) /\ \A i \in 1..Len(p) + Len(q) : r[i] = IF i =< Len(p) THEN p[i] ELSE q[i - Len(p)]
  BY ConcatProperties
<1>4. DOMAIN r = 1..Len(p) + Len(q)
  BY <1>3, LenProperties
<1>5. Genuine(r, H, n) /\ Follows(r, s) /\ Genuine(p, H, n) /\ Genuine(q, H, n)
  BY FrontKept
<1> HIDE DEF r
<1>6. ASSUME NEW i \in 1..Len(q)
      PROVE  Len(p) + i \in DOMAIN r /\ r[Len(p) + i] = q[i]
  <2>1. Len(p) + i \in 1..Len(p) + Len(q) /\ ~(Len(p) + i =< Len(p)) /\ (Len(p) + i) - Len(p) = i
    BY <1>1, <1>2
  <2> QED  BY <1>3, <1>4, <2>1
<1>7. p # << >> => Len(p) \in 1..Len(p) /\ Len(p) \in DOMAIN r /\ r[Len(p)] = p[Len(p)]
  <2>1. p # << >> => Len(p) # 0
    BY EmptySeq
  <2> QED  BY <1>1, <1>2, <1>3, <1>4, <2>1
<1>8. p # << >> => p[Len(p)].seq \in 1..n
  BY <1>1, <1>5, <1>7 DEF Genuine
<1>9. end \in 0..n /\ end >= s /\ (p # << >> => end >= p[Len(p)].seq)
  BY <1>8 DEF EndOf
<1>10. ASSUME NEW i \in DOMAIN q, q[i].seq > end
       PROVE  q[i].seq = end + 1 \/ (i > 1 /\ q[i - 1].seq = q[i].seq - 1)
  <2> DEFINE j == Len(p) + i
  <2>1. j \in DOMAIN r /\ r[j] = q[i] /\ q[i].seq \in Nat /\ j - 1 = Len(p) + (i - 1)
    BY <1>1, <1>2, <1>6
  <2>2. q[i].seq > s
    BY <1>9, <1>10, <2>1
  <2>3. q[i].seq = s + 1 \/ (j > 1 /\ r[j - 1].seq = q[i].seq - 1)
    BY <1>5, <2>1, <2>2 DEF Follows
  <2>4. CASE q[i].seq = s + 1
    BY <1>9, <1>10, <2>4
  <2>5. CASE j > 1 /\ r[j - 1].seq = q[i].seq - 1
    <3>1. CASE i > 1
      <4>1. i - 1 \in 1..Len(q)
        BY <1>2, <3>1
      <4> QED  BY <1>6, <2>1, <2>5, <3>1, <4>1
    <3>2. CASE i = 1
      <4>1. p # << >> /\ j - 1 = Len(p)
        BY <2>5, <3>2, <1>1, EmptySeq
      <4>2. p[Len(p)].seq = q[i].seq - 1
        BY <1>7, <2>5, <4>1
      <4> QED  BY <1>8, <1>9, <1>10, <2>1, <4>1, <4>2
    <3> QED  BY <1>2, <3>1, <3>2
  <2> QED  BY <2>3, <2>4, <2>5
<1>11. ASSUME Reaches(r, s, n)
       PROVE  Reaches(q, end, n)
  <2>1. CASE s = n
    BY <1>9, <2>1 DEF Reaches
  <2>2. CASE s # n
    <3>1. r # << >> /\ r[Len(r)].seq = n
      BY <1>11, <2>2 DEF Reaches
    <3>2. CASE q = << >>
      <4>1. Len(r) = Len(p) /\ p # << >>
        BY <1>1, <1>3, <3>1, <3>2, EmptySeq
      <4>2. p[Len(p)].seq = n
        BY <1>7, <3>1, <4>1
      <4> QED  BY <1>9, <4>1, <4>2 DEF Reaches
    <3>3. CASE q # << >>
      <4>1. Len(q) \in 1..Len(q)
        BY <1>2, <3>3, EmptySeq
      <4> QED  BY <1>3, <1>6, <3>1, <3>3, <4>1 DEF Reaches
    <3> QED  BY <3>2, <3>3
  <2> QED  BY <2>1, <2>2
<1> QED  BY <1>9, <1>10, <1>11 DEF Follows, r

\* A frame that is taken goes from the stream to the end of the buffer.
LEMMA Shift ==
  ASSUME NEW p \in Seq(Stamps), NEW q \in Seq(Stamps), q # << >>
  PROVE  Append(p, Head(q)) \o Tail(q) = p \o q
<1>1. Head(q) \in Stamps /\ Tail(q) \in Seq(Stamps) /\ q = << Head(q) >> \o Tail(q)
  BY HeadTailProperties, ConcatSimplifications
<1>2. << Head(q) >> \in Seq(Stamps)
  BY <1>1
<1>3. Append(p, Head(q)) = p \o << Head(q) >>
  BY <1>1, AppendIsConcat
<1> DEFINE one == << Head(q) >>
<1>4. one \in Seq(Stamps) /\ Append(p, Head(q)) = p \o one /\ q = one \o Tail(q)
  BY <1>1, <1>2, <1>3
<1> HIDE DEF one
<1>5. (p \o one) \o Tail(q) = p \o (one \o Tail(q))
  BY <1>1, <1>4, ConcatAssociative
<1> QED  BY <1>4, <1>5

LEMMA AppendAfter ==
  ASSUME NEW p \in Seq(Stamps), NEW q \in Seq(Stamps), NEW e \in Stamps
  PROVE  p \o Append(q, e) = Append(p \o q, e)
<1> DEFINE one == << e >>
<1>1. one \in Seq(Stamps)
  OBVIOUS
<1>2. p \o q \in Seq(Stamps)
  BY ConcatProperties
<1>3. Append(q, e) = q \o one /\ Append(p \o q, e) = (p \o q) \o one
  BY <1>2, AppendIsConcat
<1> HIDE DEF one
<1> QED  BY <1>1, <1>3, ConcatAssociative

\* The ring, and what is sent of it, are events of this life in order.
LEMMA RingKept ==
  ASSUME NEW q \in Seq(Stamps), NEW keep, NEW H, NEW n, Genuine(q, H, n)
  PROVE  Filtered(q, keep) \in Seq(Stamps) /\ Genuine(Filtered(q, keep), H, n)
<1>1. /\ Filtered(q, keep) \in Seq(Stamps)
      /\ \A i \in DOMAIN Filtered(q, keep) : \E j \in DOMAIN q : j \in keep /\ Filtered(q, keep)[i] = q[j]
      /\ Ascending(q) => Ascending(Filtered(q, keep))
  BY FilteredIs
<1> QED  BY <1>1 DEF Genuine

LEMMA Remembering ==
  ASSUME NEW q \in Seq(Stamps), NEW n \in Nat, NEW e \in Stamps, e.seq = n + 1,
         NEW H, NEW G, \A k \in 0..n : G[k] = H[k], G[n + 1] = ApplyEvent(H[n], e), Genuine(q, H, n)
  PROVE  Remember(q, e) \in Seq(Stamps) /\ Genuine(Remember(q, e), G, n + 1)
<1> DEFINE rest == IF e.type = "queue_snapshot" THEN Filtered(q, {i \in DOMAIN q : q[i].type /= "queue_snapshot"}) ELSE q
           all == Append(rest, e)
<1>1. rest \in Seq(Stamps) /\ Genuine(rest, H, n)
  BY RingKept
<1> HIDE DEF rest
<1>2. all \in Seq(Stamps) /\ Genuine(all, G, n + 1)
  BY <1>1, GenuineEmit
<1>3. Remember(q, e) = IF Len(all) > RingCap THEN SubSeq(all, Len(all) - RingCap + 1, Len(all)) ELSE all
  BY DEF Remember, rest
<1> HIDE DEF all
<1>4. RingCap \in Nat \ {0} /\ Len(all) \in Nat /\ DOMAIN all = 1..Len(all) /\ \A i \in 1..Len(all) : all[i] \in Stamps
  BY <1>2, StampSeq, MissionControlAssumption
<1>5. CASE Len(all) > RingCap
  <2> DEFINE from == Len(all) - RingCap + 1
             last == SubSeq(all, from, Len(all))
  <2>1. from \in Int /\ from >= 1 /\ from =< Len(all) /\ from..Len(all) \subseteq 1..Len(all)
    BY <1>4, <1>5
  <2>2. /\ last \in Seq(Stamps) /\ Len(last) = Len(all) - from + 1
        /\ \A i \in 1..Len(all) - from + 1 : last[i] = all[from + i - 1]
    <3> HIDE DEF from
    <3> QED  BY <1>4, <2>1, SubSeqProperties
  <2> HIDE DEF last, from
  <2>3. DOMAIN last = 1..Len(all) - from + 1
    BY <2>2, LenProperties
  <2>4. ASSUME NEW i \in DOMAIN last
        PROVE  from + i - 1 \in DOMAIN all /\ last[i] = all[from + i - 1]
    <3>1. from + i - 1 \in 1..Len(all)
      BY <1>4, <2>1, <2>3
    <3> QED  BY <1>4, <2>2, <2>3, <3>1
  <2>5. Genuine(last, G, n + 1)
    <3>1. ASSUME NEW i \in DOMAIN last, NEW j \in DOMAIN last, i < j
          PROVE  last[i].seq < last[j].seq
      <4>1. from + i - 1 < from + j - 1
        BY <2>1, <2>3, <3>1
      <4> QED  BY <1>2, <2>4, <4>1 DEF Genuine, Ascending
    <3> QED  BY <1>2, <2>4, <3>1 DEF Genuine, Ascending
  <2> QED  BY <1>3, <1>5, <2>2, <2>5 DEF last, from
<1>6. CASE ~(Len(all) > RingCap)
  BY <1>2, <1>3, <1>6
<1> QED  BY <1>5, <1>6

LEMMA AsideTwice ==
  ASSUME NEW t \in Tabs, NEW u \in Tabs, NEW v \in Tabs, Aside(t, u), Aside(u, v)
  PROVE  Aside(t, v)
BY DEF Aside, Tabs

\* A fold over the buffer is a tab, with feeds in order if they were.
LEMMA FoldOverTyped ==
  ASSUME NEW t \in Tabs, NEW q \in Seq(Stamps)
  PROVE  /\ FoldOver(t, q) \in Tabs /\ Aside(t, FoldOver(t, q))
         /\ AllRising(t.feeds, t.mission.seq) => AllRising(FoldOver(t, q).feeds, FoldOver(t, q).mission.seq)
<1> DEFINE Good == {u \in Tabs : Aside(t, u) /\ (AllRising(t.feeds, t.mission.seq) => AllRising(u.feeds, u.mission.seq))}
           S == [k \in 0..Len(q) |-> Good]
<1>1. Len(q) \in Nat /\ \A i \in 1..Len(q) : q[i] \in Stamps
  BY StampSeq
<1>2. t \in Good
  BY DEF Aside, Tabs
<1>3. ASSUME NEW u \in Good, NEW e \in Stamps
      PROVE  Fold(u, e) \in Good
  <2>1. u \in Tabs /\ Aside(t, u) /\ (AllRising(t.feeds, t.mission.seq) => AllRising(u.feeds, u.mission.seq))
    OBVIOUS
  <2>2. /\ Fold(u, e) \in Tabs /\ Aside(u, Fold(u, e))
        /\ AllRising(u.feeds, u.mission.seq) => AllRising(Fold(u, e).feeds, Fold(u, e).mission.seq)
    BY <2>1, FoldIs
  <2>3. Aside(t, Fold(u, e))
    BY <2>1, <2>2, AsideTwice
  <2> QED  BY <2>1, <2>2, <2>3
<1> HIDE DEF Good
<1>4. t \in S[0]
  BY <1>1, <1>2
<1>5. \A n \in 0 .. Len(q) - 1 : \A u \in S[n] : Fold(u, q[n + 1]) \in S[n + 1]
  BY <1>1, <1>3
<1>6. S[Len(q)] = Good
  BY <1>1
<1> HIDE DEF S
<1>7. FoldOver(t, q) \in S[Len(q)]
  BY <1>1, <1>4, <1>5, FoldOverIs
<1> QED  BY <1>6, <1>7 DEF Good

\* The next event makes of a copy of the mission a copy of the next one.
LEMMA FoldCopies ==
  ASSUME NEW H, NEW n \in Nat, NEW t \in Tabs, NEW e \in Stamps, NEW s \in 0..n, t.mission = H[s], H[s].seq = s,
         e.seq \in 1..n, H[e.seq] = ApplyEvent(H[e.seq - 1], e), e.seq > s => e.seq = s + 1
  PROVE  LET x == IF e.seq > s THEN e.seq ELSE s IN Fold(t, e).mission = H[x]
<1>1. CASE e.seq > s
  <2>1. Fold(t, e).mission = ApplyEvent(t.mission, e)
    BY <1>1, FoldIs
  <2>2. e.seq - 1 = s
    BY <1>1
  <2> QED  BY <1>1, <2>1, <2>2
<1>2. CASE ~(e.seq > s)
  BY <1>2, FoldIs
<1> QED  BY <1>1, <1>2

LEMMA FoldOverCopies ==
  ASSUME NEW H, NEW n \in Nat, \A k \in 0..n : H[k].seq = k,
         NEW t \in Tabs, NEW q \in Seq(Stamps), NEW s \in 0..n, t.mission = H[s], Genuine(q, H, n), Follows(q, s)
  PROVE  FoldOver(t, q).mission = H[EndOf(q, s)]
<1> DEFINE end(k) == IF k # 0 /\ q[k].seq > s THEN q[k].seq ELSE s
           S == [k \in 0..Len(q) |-> {u \in Tabs : u.mission = H[end(k)]}]
<1>1. Len(q) \in Nat /\ DOMAIN q = 1..Len(q) /\ \A i \in 1..Len(q) : q[i] \in Stamps /\ q[i].seq \in Nat
  BY StampSeq
<1>2. t \in S[0]
  BY <1>1
<1>3. ASSUME NEW k \in 0 .. Len(q) - 1, NEW u \in S[k]
      PROVE  Fold(u, q[k + 1]) \in S[k + 1]
  <2> DEFINE e == q[k + 1]
             x == end(k)
  <2>1. k + 1 \in 1..Len(q) /\ k + 1 \in 0..Len(q) /\ k \in 0..Len(q) /\ k + 1 # 0 /\ (k + 1) - 1 = k /\ (k # 0 => k \in 1..Len(q) /\ k + 1 > 1 /\ k < k + 1)
    BY <1>1
  <2>2. e \in Stamps /\ e.seq \in 1..n /\ H[e.seq] = ApplyEvent(H[e.seq - 1], e)
    BY <1>1, <2>1 DEF Genuine
  <2>3. u \in Tabs /\ u.mission = H[x]
    BY <1>3, <2>1
  <2>4. k # 0 => q[k].seq \in 1..n /\ q[k].seq < e.seq
    BY <1>1, <2>1 DEF Genuine, Ascending
  <2>5. x \in 0..n
    BY <2>4
  <2>6. e.seq > s => e.seq = s + 1 \/ (k # 0 /\ q[k].seq = e.seq - 1)
    <3>1. e.seq > s => e.seq = s + 1 \/ (k + 1 > 1 /\ q[(k + 1) - 1].seq = e.seq - 1)
      BY <1>1, <2>1 DEF Follows
    <3>2. k + 1 > 1 => k # 0
      OBVIOUS
    <3> QED  BY <2>1, <3>1, <3>2
  <2>7. e.seq > x => e.seq = x + 1
    BY <2>2, <2>4, <2>6
  <2>8. end(k + 1) = IF e.seq > x THEN e.seq ELSE x
    BY <2>1, <2>2, <2>4
  <2>9. Fold(u, e) \in Tabs
    BY <2>2, <2>3, FoldIs
  <2> DEFINE y == end(k + 1)
  <2>10. Fold(u, e).mission = H[y]
    <3> HIDE DEF x, e, y
    <3>1. y = IF e.seq > x THEN e.seq ELSE x
      BY <2>8 DEF y
    <3> QED  BY <2>2, <2>3, <2>5, <2>7, <3>1, FoldCopies
  <2> QED  BY <2>1, <2>9, <2>10
<1> HIDE DEF S
<1>4. FoldOver(t, q) \in S[Len(q)]
  BY <1>1, <1>2, <1>3, FoldOverIs
<1>5. end(Len(q)) = EndOf(q, s)
  <2>1. Len(q) # 0 <=> q # << >>
    BY EmptySeq
  <2> QED  BY <2>1 DEF EndOf
<1> QED  BY <1>1, <1>4, <1>5 DEF S

(***************************************************************************)
(* The invariant.                                                          *)
(***************************************************************************)

Streaming == stream.state = "open"

\* What the tab has yet to fold of the connection whose answer it waits for.
Unread == IF Streaming THEN tab.buffer \o stream.frames ELSE tab.buffer

\* H has the missions of this life, by the number of their last event.
Lived(H) ==
  /\ H \in [Nat -> Missions]
  /\ H[0] = InitialMission /\ H[lastSeq] = mission
  /\ \A n \in 0..lastSeq : H[n].seq = n

\* A mirror of this life is a copy of one of its missions; and what is on its way carries it,
\* or the answer it waits for, on to the daemon's.
Carried(H) ==
  /\ Genuine(ring, H, lastSeq) /\ Genuine(stream.frames, H, lastSeq)
  /\ tab.whole = life => tab.mission.seq \in 0..lastSeq /\ tab.mission = H[tab.mission.seq]
  /\ Streaming /\ ~tab.buffering /\ tab.whole = life =>
       Follows(stream.frames, tab.mission.seq) /\ Reaches(stream.frames, tab.mission.seq, lastSeq)
  /\ \A r \in requests : r.alone /\ r.life = life =>
       /\ Genuine(Unread, H, lastSeq)
       /\ r.served => /\ r.answer.seq \in 0..lastSeq /\ r.answer = H[r.answer.seq]
                      /\ Follows(Unread, r.answer.seq)
                      /\ Streaming => Reaches(Unread, r.answer.seq, lastSeq)

\* Connections and requests.
Linked ==
  /\ stream.state = "down" => stream.frames = << >>
  /\ ~tab.booted => tab = NewTab /\ stream = Cut /\ requests = {}
  /\ tab.whole =< life
  /\ \A r \in requests : /\ r.life =< life
                         /\ ~r.served => r.life = life
                         /\ r.alone => requests = {r} /\ tab.buffering /\ tab.whole =< r.life
                         /\ r.alone /\ Streaming => r.life = life
  /\ synced => requests = {}
  /\ synced /\ Streaming => tab.whole = life /\ ~tab.buffering

Mirrored == \E H : Lived(H) /\ Carried(H)
Rises == AllRising(tab.feeds, tab.mission.seq)
Rebuilt == Agree(mission.runs, replay)

MInv == WellTyped /\ Linked /\ Mirrored /\ Rises /\ Rebuilt

LEMMA NewTabIs == NewTab \in Tabs /\ NewTab.mission = InitialMission /\ NewTab.feeds = << >> /\ AllRising(<< >>, 0)
<1> DEFINE none == << >>
<1>1. none \in Maps(Seq(Nat)) /\ none \in Seq(Stamps)
  <2>1. {} \in SUBSET STRING /\ none \in [{} -> Seq(Nat)]
    OBVIOUS
  <2>2. none \in Seq(Stamps)
    OBVIOUS
  <2>3. none \in Maps(Seq(Nat))
    <3> HIDE DEF none
    <3> QED  BY <2>1, Zenon DEF Maps
  <2> QED  BY <2>2, <2>3
<1>2. DOMAIN none = {}
  OBVIOUS
<1> HIDE DEF none
<1>3. [booted |-> FALSE, mission |-> InitialMission, whole |-> 0, feeds |-> none,
       buffering |-> FALSE, buffer |-> none, resume |-> 0] \in Tabs
  BY <1>1, InitialIs DEF Tabs
<1>4. AllRising(none, 0)
  BY <1>2 DEF AllRising
<1> QED  BY <1>3, <1>4 DEF NewTab, none

LEMMA CutIs == Cut \in [state : {"down", "opening", "open"}, frames : Seq(Stamps)] /\ Cut.state = "down" /\ Cut.frames = << >>
<1>1. << >> \in Seq(Stamps)
  OBVIOUS
<1> QED  BY <1>1 DEF Cut

LEMMA ResetTyped ==
  ASSUME NEW t \in Tabs, NEW m \in Missions, NEW feeds \in {t.feeds, << >>}, feeds = << >> \/ t.mission.seq =< m.seq
  PROVE  /\ feeds \in Maps(Seq(Nat))
         /\ AllRising(t.feeds, t.mission.seq) => AllRising(feeds, m.seq)
<1> DEFINE none == << >>
<1>1. none \in Maps(Seq(Nat)) /\ DOMAIN none = {}
  <2>1. {} \in SUBSET STRING /\ none \in [{} -> Seq(Nat)] /\ DOMAIN none = {}
    OBVIOUS
  <2>2. none \in Maps(Seq(Nat))
    <3> HIDE DEF none
    <3> QED  BY <2>1, Zenon DEF Maps
  <2> QED  BY <2>1, <2>2
<1>2. feeds = t.feeds \/ feeds = none
  OBVIOUS
<1> HIDE DEF none
<1>3. t.feeds \in Maps(Seq(Nat)) /\ t.mission.seq \in Nat /\ m.seq \in Nat
  BY DEF Tabs, Missions
<1>4. feeds \in Maps(Seq(Nat))
  BY <1>1, <1>2, <1>3
<1>6. feeds = none \/ (feeds = t.feeds /\ t.mission.seq =< m.seq)
  BY <1>2 DEF none
<1>5. AllRising(t.feeds, t.mission.seq) => AllRising(feeds, m.seq)
  <2>1. CASE feeds = none
    BY <1>1, <2>1 DEF AllRising
  <2>2. CASE feeds = t.feeds /\ t.mission.seq =< m.seq
    BY <1>3, <2>2, RisingLater
  <2> QED  BY <1>6, <2>1, <2>2
<1> QED  BY <1>4, <1>5

\* What an answer makes of the mirror.
LEMMA ResyncTyped ==
  ASSUME NEW t \in Tabs, NEW r \in Asked
  PROVE  /\ Resync(t, r) \in Tabs /\ Resync(t, r).buffer = t.buffer /\ Resync(t, r).booted = t.booted
         /\ r.answer.seq = t.mission.seq => Resync(t, r) = t
         /\ r.answer.seq # t.mission.seq => Resync(t, r).mission = r.answer /\ Resync(t, r).whole = r.life
         /\ AllRising(t.feeds, t.mission.seq) => AllRising(Resync(t, r).feeds, Resync(t, r).mission.seq)
<1>1. t.mission.seq \in Nat /\ r.answer.seq \in Nat /\ r.answer \in Missions /\ r.life \in Int
  <2>1. t.mission \in Missions
    BY DEF Tabs
  <2>2. r.answer \in Missions /\ r.life \in Nat
    BY DEF Asked
  <2>3. \A m \in Missions : m.seq \in Nat
    BY DEF Missions
  <2> QED  BY <2>1, <2>2, <2>3
<1>2. CASE r.answer.seq > t.mission.seq
  <2> DEFINE feeds == t.feeds
             u == [t EXCEPT !.mission = r.answer, !.whole = r.life, !.feeds = feeds]
  <2>1. Resync(t, r) = u
    BY <1>1, <1>2 DEF Resync, ResetMission, Tabs
  <2>2. feeds \in {t.feeds, << >>} /\ (feeds = << >> \/ t.mission.seq =< r.answer.seq)
    BY <1>1, <1>2
  <2> HIDE DEF feeds
  <2>4. u = [t EXCEPT !.mission = r.answer, !.whole = r.life, !.feeds = feeds]
    OBVIOUS
  <2> HIDE DEF u
  <2>3. /\ u \in Tabs /\ u.mission = r.answer /\ u.whole = r.life /\ u.buffer = t.buffer /\ u.booted = t.booted
        /\ AllRising(t.feeds, t.mission.seq) => AllRising(u.feeds, u.mission.seq)
    <3>1. feeds \in Maps(Seq(Nat)) /\ (AllRising(t.feeds, t.mission.seq) => AllRising(feeds, r.answer.seq))
      BY <1>1, <2>2, ResetTyped
    <3> QED  BY <1>1, <2>4, <3>1 DEF Tabs
  <2> QED  BY <1>1, <1>2, <2>1, <2>3
<1>3. CASE r.answer.seq < t.mission.seq
  <2> DEFINE feeds == << >>
             u == [t EXCEPT !.mission = r.answer, !.whole = r.life, !.feeds = feeds]
  <2>1. Resync(t, r) = u
    BY <1>1, <1>3 DEF Resync, ResetMission, Tabs
  <2>2. feeds \in {t.feeds, << >>} /\ (feeds = << >> \/ t.mission.seq =< r.answer.seq)
    BY <1>1, <1>3
  <2> HIDE DEF feeds
  <2>4. u = [t EXCEPT !.mission = r.answer, !.whole = r.life, !.feeds = feeds]
    OBVIOUS
  <2> HIDE DEF u
  <2>3. /\ u \in Tabs /\ u.mission = r.answer /\ u.whole = r.life /\ u.buffer = t.buffer /\ u.booted = t.booted
        /\ AllRising(t.feeds, t.mission.seq) => AllRising(u.feeds, u.mission.seq)
    <3>1. feeds \in Maps(Seq(Nat)) /\ (AllRising(t.feeds, t.mission.seq) => AllRising(feeds, r.answer.seq))
      BY <1>1, <2>2, ResetTyped
    <3> QED  BY <1>1, <2>4, <3>1 DEF Tabs
  <2> QED  BY <1>1, <1>3, <2>1, <2>3
<1>4. CASE r.answer.seq = t.mission.seq
  <2>1. Resync(t, r) = t
    BY <1>1, <1>4 DEF Resync, ResetMission
  <2> QED  BY <1>4, <2>1
<1> QED  BY <1>1, <1>2, <1>3, <1>4

LEMMA UnbufferedTyped ==
  ASSUME NEW t \in Tabs
  PROVE  /\ Unbuffered(t) \in Tabs /\ Unbuffered(t).booted = t.booted /\ Unbuffered(t).whole = t.whole /\ ~Unbuffered(t).buffering
         /\ Unbuffered(t).mission = FoldOver(t, t.buffer).mission
         /\ AllRising(t.feeds, t.mission.seq) => AllRising(Unbuffered(t).feeds, Unbuffered(t).mission.seq)
         /\ [Unbuffered(t) EXCEPT !.whole = -1] \in Tabs
         /\ LET u == [Unbuffered(t) EXCEPT !.whole = -1]
            IN  u.booted = t.booted /\ u.whole = -1 /\ ~u.buffering /\ u.mission = Unbuffered(t).mission /\ u.feeds = Unbuffered(t).feeds
<1> DEFINE f == FoldOver(t, t.buffer)
           none == << >>
<1>1. t.buffer \in Seq(Stamps)
  BY DEF Tabs
<1>2. f \in Tabs /\ Aside(t, f) /\ (AllRising(t.feeds, t.mission.seq) => AllRising(f.feeds, f.mission.seq))
  BY <1>1, FoldOverTyped
<1>3. none \in Seq(Stamps)
  OBVIOUS
<1>4. Unbuffered(t) = [f EXCEPT !.buffering = FALSE, !.buffer = none]
  BY DEF Unbuffered
<1> HIDE DEF f, none
<1>5. f.booted = t.booted /\ f.whole = t.whole
  BY <1>2 DEF Aside, Tabs
<1>6. /\ Unbuffered(t) \in Tabs /\ Unbuffered(t).booted = f.booted /\ Unbuffered(t).whole = f.whole /\ ~Unbuffered(t).buffering
      /\ Unbuffered(t).mission = f.mission /\ Unbuffered(t).feeds = f.feeds
  BY <1>2, <1>3, <1>4 DEF Tabs
<1> DEFINE u == Unbuffered(t)
<1> HIDE DEF u
<1>7. u \in Tabs => LET v == [u EXCEPT !.whole = -1]
                    IN  v \in Tabs /\ v.booted = u.booted /\ v.whole = -1 /\ v.buffering = u.buffering /\ v.mission = u.mission /\ v.feeds = u.feeds
  BY DEF Tabs
<1>8. [u EXCEPT !.whole = -1] \in Tabs
  BY <1>6, <1>7 DEF u
<1> QED  BY <1>2, <1>5, <1>6, <1>7, <1>8 DEF u, f

AskedNow == [id |-> trouble, served |-> FALSE, answer |-> InitialMission, life |-> life, alone |-> requests = {}]

LEMMA AskedIs ==
  ASSUME WellTyped
  PROVE  /\ AskedNow \in Asked
         /\ \A r \in requests : /\ [r EXCEPT !.alone = FALSE] \in Asked
                                /\ [r EXCEPT !.served = TRUE, !.answer = mission, !.life = life] \in Asked
<1>1. AskedNow \in Asked
  <2>1. trouble \in Nat /\ life \in Nat /\ InitialMission \in Missions /\ (requests = {}) \in BOOLEAN
    BY InitialIs DEF WellTyped
  <2> DEFINE b == (requests = {})
  <2>2. b \in BOOLEAN /\ AskedNow = [id |-> trouble, served |-> FALSE, answer |-> InitialMission, life |-> life, alone |-> b]
    BY DEF AskedNow
  <2> HIDE DEF b
  <2> QED  BY <2>1, <2>2 DEF Asked
<1>2. requests \subseteq Asked /\ mission \in Missions /\ life \in Nat
  BY DEF WellTyped
<1> QED  BY <1>1, <1>2 DEF Asked

(***************************************************************************)
(* The steps: each keeps the invariant.                                    *)
(***************************************************************************)

LEMMA Known ==
  ASSUME MInv
  PROVE  /\ stream.frames \in Seq(Stamps) /\ tab.buffer \in Seq(Stamps) /\ tab.mission \in Missions /\ mission \in Missions
         /\ tab.mission.seq \in Nat /\ mission.seq = lastSeq /\ lastSeq \in Nat /\ life \in Nat /\ tab.whole \in Int
         /\ \A r \in requests : r \in Asked /\ r.life \in Nat /\ r.answer \in Missions /\ r.answer.seq \in Nat
<1>1. \A m \in Missions : m.seq \in Nat
  BY DEF Missions
<1>2. mission.seq = lastSeq
  BY DEF MInv, WellTyped, Mirrored, Lived
<1>3. tab \in Tabs /\ requests \subseteq Asked /\ mission \in Missions /\ lastSeq \in Nat /\ life \in Nat
  BY DEF MInv, WellTyped
<1>4. stream.frames \in Seq(Stamps)
  BY DEF MInv, WellTyped
<1>5. tab.buffer \in Seq(Stamps) /\ tab.mission \in Missions /\ tab.whole \in Int
  BY <1>3 DEF Tabs
<1>6. \A r \in requests : r \in Asked /\ r.life \in Nat /\ r.answer \in Missions
  BY <1>3 DEF Asked
<1> QED  BY <1>1, <1>2, <1>3, <1>4, <1>5, <1>6

LEMMA InitHolds ==
  ASSUME MissionInit
  PROVE  MInv
<1>1. WellTyped
  <2>1. << >> \in Seq(Stamps) /\ << >> \in Maps(Runs)
    <3>1. InitialMission.runs = << >> /\ InitialMission \in Missions
      BY InitialIs
    <3>2. InitialMission.runs \in Maps(Runs)
      BY <3>1 DEF Missions
    <3>3. << >> \in Seq(Stamps)
      OBVIOUS
    <3> QED  BY <3>1, <3>2, <3>3
  <2>2. script \in Seq(Bodies)
    BY MissionControlAssumption DEF MissionInit
  <2>3. life \in Nat /\ lastSeq \in Nat /\ trouble \in Nat /\ synced \in BOOLEAN /\ requests \subseteq Asked
    BY DEF MissionInit
  <2>4. mission \in Missions /\ stream \in [state : {"down", "opening", "open"}, frames : Seq(Stamps)] /\ tab \in Tabs
    BY InitialIs, CutIs, NewTabIs DEF MissionInit
  <2>5. ring \in Seq(Stamps) /\ replay \in Maps(Runs)
    BY <2>1 DEF MissionInit
  <2> QED  BY <2>2, <2>3, <2>4, <2>5 DEF WellTyped
<1>2. Linked
  <2>1. tab.whole = 0 /\ stream.frames = << >> /\ ~Streaming
    BY CutIs DEF MissionInit, NewTab, Streaming
  <2> QED  BY <2>1 DEF Linked, MissionInit
<1>3. Mirrored
  <2> DEFINE H == [n \in Nat |-> InitialMission]
  <2>1. Lived(H)
    BY InitialIs DEF Lived, MissionInit
  <2>2. H[0] = InitialMission
    OBVIOUS
  <2> HIDE DEF H
  <2>3. tab.mission = InitialMission /\ tab.mission.seq = 0 /\ lastSeq = 0 /\ 0 \in 0..0
    BY NewTabIs, InitialIs DEF MissionInit
  <2>4. Carried(H)
    <3>1. Genuine(ring, H, lastSeq) /\ Genuine(stream.frames, H, lastSeq) /\ ~Streaming /\ requests = {}
      BY NothingIs, CutIs DEF MissionInit, Streaming
    <3> QED  BY <2>2, <2>3, <3>1 DEF Carried
  <2> QED  BY <2>1, <2>4 DEF Mirrored
<1>4. Rises
  BY NewTabIs, InitialIs DEF MissionInit, Rises
<1>5. Rebuilt
  <2>1. mission.runs = << >> /\ DOMAIN << >> = {}
    BY InitialIs DEF MissionInit
  <2> QED  BY <2>1 DEF Rebuilt, Agree
<1> QED  BY <1>1, <1>2, <1>3, <1>4, <1>5 DEF MInv

LEMMA EmitKeeps ==
  ASSUME MInv, BusEmit
  PROVE  MInv'
<1> DEFINE e == Stamped(lastSeq + 1, Head(script))
<1>1. e \in Stamps /\ e.seq = lastSeq + 1 /\ lastSeq \in Nat /\ script' \in Seq(Bodies)
  <2>1. script \in Seq(Bodies) /\ script # << >> /\ lastSeq \in Nat /\ script' = Tail(script)
    BY DEF MInv, WellTyped, BusEmit
  <2>2. Head(script) \in Bodies /\ Tail(script) \in Seq(Bodies)
    BY <2>1, HeadTailProperties
  <2>3. lastSeq + 1 \in Nat
    BY <2>1
  <2>4. e \in Stamps /\ e.seq = lastSeq + 1
    BY <2>2, <2>3, StampIs
  <2> QED  BY <2>1, <2>2, <2>4
<1>2. /\ ring' = Remember(ring, e) /\ mission' = ApplyEvent(mission, e) /\ replay' = Reconstructed(e)
      /\ stream' = IF stream.state = "down" THEN stream ELSE [stream EXCEPT !.frames = Append(@, e)]
      /\ lastSeq' = lastSeq + 1
      /\ life' = life /\ tab' = tab /\ requests' = requests /\ synced' = synced /\ trouble' = trouble
  BY DEF BusEmit
<1> HIDE DEF e
<1>3. PICK H : Lived(H) /\ Carried(H)
  BY DEF MInv, Mirrored
<1>4. PICK G : G = [n \in Nat |-> IF n = lastSeq + 1 THEN mission' ELSE H[n]]
  OBVIOUS
<1>5. mission' \in Missions /\ mission'.seq = lastSeq + 1
  BY <1>1, <1>2, Known, ReduceTyped
<1>6. H \in [Nat -> Missions] /\ H[0] = InitialMission /\ H[lastSeq] = mission /\ \A n \in 0..lastSeq : H[n].seq = n
  BY <1>3 DEF Lived
<1>7. /\ G \in [Nat -> Missions] /\ G[lastSeq + 1] = ApplyEvent(H[lastSeq], e)
      /\ \A n \in 0..lastSeq : G[n] = H[n]
  BY <1>1, <1>2, <1>4, <1>5, <1>6
<1>8. Lived(G)'
  <2>1. G[0] = InitialMission /\ G[lastSeq + 1] = mission'
    BY <1>1, <1>4, <1>6
  <2>2. \A n \in 0..lastSeq + 1 : G[n].seq = n
    <3>1. \A n \in 0..lastSeq + 1 : n \in 0..lastSeq \/ n = lastSeq + 1
      BY <1>1
    <3> QED  BY <1>5, <1>6, <1>7, <2>1, <3>1
  <2> QED  BY <1>2, <1>7, <2>1, <2>2 DEF Lived
<1>9. ring \in Seq(Stamps) /\ Genuine(ring, H, lastSeq) /\ Genuine(stream.frames, H, lastSeq)
  BY <1>3 DEF MInv, WellTyped, Carried
<1>10. ring' \in Seq(Stamps) /\ Genuine(ring', G, lastSeq')
  BY <1>1, <1>2, <1>7, <1>9, Remembering
<1>11. /\ stream.state = "down" => stream' = stream
       /\ stream.state # "down" => stream'.frames = Append(stream.frames, e)
       /\ stream'.state = stream.state
  <2>1. stream \in [state : {"down", "opening", "open"}, frames : Seq(Stamps)]
    BY DEF MInv, WellTyped
  <2> QED  BY <1>2, <2>1
<1>12. /\ stream' \in [state : {"down", "opening", "open"}, frames : Seq(Stamps)] /\ Genuine(stream'.frames, G, lastSeq')
  <2>1. stream \in [state : {"down", "opening", "open"}, frames : Seq(Stamps)]
    BY DEF MInv, WellTyped
  <2>2. /\ Genuine(stream.frames, G, lastSeq + 1) /\ Append(stream.frames, e) \in Seq(Stamps)
        /\ Genuine(Append(stream.frames, e), G, lastSeq + 1)
    BY <1>1, <1>7, <1>9, Known, GenuineEmit
  <2>3. stream'.frames \in Seq(Stamps) /\ Genuine(stream'.frames, G, lastSeq')
    BY <1>2, <1>11, <2>1, <2>2
  <2>4. stream' = [stream EXCEPT !.frames = stream'.frames]
    BY <1>2, <2>1
  <2>5. stream' \in [state : {"down", "opening", "open"}, frames : Seq(Stamps)]
    BY <2>1, <2>3, <2>4
  <2> QED  BY <2>3, <2>5
<1>13. Streaming' <=> Streaming
  BY <1>11 DEF Streaming
<1>14. Unread \in Seq(Stamps) /\ Unread' = IF Streaming THEN Append(Unread, e) ELSE Unread
  <2>1. CASE ~Streaming
    BY <1>2, <1>13, <2>1, Known DEF Unread
  <2>2. CASE Streaming
    <3>1. stream'.frames = Append(stream.frames, e)
      BY <1>11, <2>2 DEF Streaming
    <3>2. tab.buffer \o stream.frames \in Seq(Stamps)
      BY Known, ConcatProperties
    <3>3. tab.buffer \o Append(stream.frames, e) = Append(tab.buffer \o stream.frames, e)
      BY <1>1, Known, AppendAfter
    <3> QED  BY <1>2, <1>13, <2>2, <3>1, <3>2, <3>3 DEF Unread
  <2> QED  BY <2>1, <2>2
<1>15. Carried(G)'
  <2>1. ASSUME tab.whole = life
        PROVE  tab.mission.seq \in 0..lastSeq + 1 /\ tab.mission.seq \in 0..lastSeq /\ tab.mission = G[tab.mission.seq]
    <3>1. tab.mission.seq \in 0..lastSeq /\ tab.mission = H[tab.mission.seq]
      BY <1>3, <2>1 DEF Carried
    <3> QED  BY <1>1, <1>7, <3>1
  <2>2. ASSUME Streaming, ~tab.buffering, tab.whole = life
        PROVE  Follows(stream'.frames, tab.mission.seq) /\ Reaches(stream'.frames, tab.mission.seq, lastSeq')
    <3>1. Follows(stream.frames, tab.mission.seq) /\ Reaches(stream.frames, tab.mission.seq, lastSeq)
      BY <1>3, <2>2 DEF Carried
    <3>2. stream'.frames = Append(stream.frames, e)
      BY <1>11, <2>2 DEF Streaming
    <3>3. stream.frames \in Seq(Stamps)
      BY Known
    <3>4. \A s \in 0..lastSeq : Follows(stream.frames, s) /\ Reaches(stream.frames, s, lastSeq)
             => Follows(Append(stream.frames, e), s) /\ Reaches(Append(stream.frames, e), s, lastSeq + 1)
      BY <1>1, <1>7, <1>9, <3>3, GenuineEmit
    <3> QED  BY <1>2, <2>1, <2>2, <3>1, <3>2, <3>4
  <2>3. ASSUME NEW r \in requests, r.alone, r.life = life
        PROVE  /\ Genuine(Unread', G, lastSeq')
               /\ r.served => /\ r.answer.seq \in 0..lastSeq' /\ r.answer = G[r.answer.seq]
                              /\ Follows(Unread', r.answer.seq)
                              /\ Streaming => Reaches(Unread', r.answer.seq, lastSeq')
    <3>1. /\ Genuine(Unread, H, lastSeq)
          /\ r.served => /\ r.answer.seq \in 0..lastSeq /\ r.answer = H[r.answer.seq]
                         /\ Follows(Unread, r.answer.seq)
                         /\ Streaming => Reaches(Unread, r.answer.seq, lastSeq)
      BY <1>3, <2>3 DEF Carried
    <3>2. /\ Genuine(Unread, G, lastSeq + 1) /\ Genuine(Append(Unread, e), G, lastSeq + 1)
          /\ \A s \in 0..lastSeq : Follows(Unread, s) /\ Reaches(Unread, s, lastSeq) => Follows(Append(Unread, e), s) /\ Reaches(Append(Unread, e), s, lastSeq + 1)
      BY <1>1, <1>7, <1>14, <3>1, GenuineEmit
    <3>3. r.served => r.answer.seq \in 0..lastSeq + 1 /\ r.answer = G[r.answer.seq]
      BY <1>1, <1>7, <3>1
    <3> QED  BY <1>2, <1>14, <3>1, <3>2, <3>3
  <2> QED  BY <1>2, <1>10, <1>12, <1>13, <2>1, <2>2, <2>3 DEF Carried
<1>16. WellTyped' /\ Rebuilt'
  <2>1. replay' \in Maps(Runs) /\ Agree(mission'.runs, replay')
    BY <1>1, <1>2, Known, Rebuilding DEF MInv, Rebuilt
  <2> QED  BY <1>1, <1>2, <1>5, <1>10, <1>12, <2>1 DEF MInv, WellTyped, Rebuilt
<1>17. Linked'
  <2>1. ~tab.booted => stream' = stream
    BY <1>11, CutIs DEF MInv, Linked
  <2> QED  BY <1>2, <1>11, <1>13, <2>1 DEF MInv, Linked
<1>18. Rises'
  BY <1>2 DEF MInv, Rises
<1> QED  BY <1>8, <1>15, <1>16, <1>17, <1>18 DEF MInv, Mirrored

LEMMA ConnectKeeps ==
  ASSUME MInv, Connect
  PROVE  MInv'
<1>1. /\ tab.booted /\ stream.state = "down" /\ stream' = [state |-> "opening", frames |-> HistorySince(tab.resume)]
      /\ life' = life /\ script' = script /\ lastSeq' = lastSeq /\ ring' = ring /\ mission' = mission /\ replay' = replay
      /\ tab' = tab /\ requests' = requests /\ synced' = synced /\ trouble' = trouble
  BY DEF Connect, daemon
<1>2. PICK H : Lived(H) /\ Carried(H)
  BY DEF MInv, Mirrored
<1> DEFINE frames == HistorySince(tab.resume)
<1>3. frames \in Seq(Stamps) /\ Genuine(frames, H, lastSeq)
  <2>1. ring \in Seq(Stamps) /\ Genuine(ring, H, lastSeq)
    BY <1>2 DEF MInv, WellTyped, Carried
  <2> QED  BY <2>1, RingKept DEF HistorySince
<1> HIDE DEF frames
<1>4. stream'.state = "opening" /\ stream'.frames = frames /\ stream' \in [state : {"down", "opening", "open"}, frames : Seq(Stamps)]
  <2>1. stream' = [state |-> "opening", frames |-> frames]
    BY <1>1 DEF frames
  <2> QED  BY <1>3, <2>1
<1>5. ~Streaming /\ ~Streaming' /\ Unread' = Unread
  BY <1>1, <1>4 DEF Streaming, Unread
<1>6. WellTyped'
  BY <1>1, <1>4 DEF MInv, WellTyped
<1>7. Linked'
  BY <1>1, <1>4, <1>5 DEF MInv, Linked
<1>8. Lived(H)' /\ Carried(H)'
  BY <1>1, <1>2, <1>3, <1>4, <1>5 DEF Lived, Carried
<1> QED  BY <1>1, <1>6, <1>7, <1>8 DEF MInv, Mirrored, Rises, Rebuilt

LEMMA DropKeeps ==
  ASSUME MInv, Drop
  PROVE  MInv'
<1>1. /\ stream.state # "down" /\ stream' = Cut /\ trouble' = trouble + 1
      /\ life' = life /\ script' = script /\ lastSeq' = lastSeq /\ ring' = ring /\ mission' = mission /\ replay' = replay
      /\ tab' = tab /\ requests' = requests /\ synced' = synced
  BY DEF Drop, Troubled, daemon
<1>2. PICK H : Lived(H) /\ Carried(H)
  BY DEF MInv, Mirrored
<1>3. stream'.state = "down" /\ stream'.frames = << >> /\ stream' \in [state : {"down", "opening", "open"}, frames : Seq(Stamps)]
  BY <1>1, CutIs
<1>4. ~Streaming' /\ Unread' = tab.buffer
  BY <1>1, <1>3 DEF Streaming, Unread
<1>5. WellTyped'
  BY <1>1, <1>3 DEF MInv, WellTyped
<1>6. Linked'
  BY <1>1, <1>3, <1>4, CutIs DEF MInv, Linked
<1>7. ASSUME Genuine(Unread, H, lastSeq)
      PROVE  Genuine(tab.buffer, H, lastSeq) /\ \A s : Follows(Unread, s) => Follows(tab.buffer, s)
  <2>1. CASE ~Streaming
    BY <1>7, <2>1 DEF Unread
  <2>2. CASE Streaming
    BY <1>7, <2>2, Known, FrontKept DEF Unread
  <2> QED  BY <2>1, <2>2
<1>8. Lived(H)' /\ Carried(H)'
  <2>1. Genuine(<< >>, H, lastSeq)
    BY NothingIs
  <2>2. ASSUME NEW r \in requests, r.alone, r.life = life
        PROVE  /\ Genuine(tab.buffer, H, lastSeq)
               /\ r.served => /\ r.answer.seq \in 0..lastSeq /\ r.answer = H[r.answer.seq]
                              /\ Follows(tab.buffer, r.answer.seq)
    BY <1>2, <1>7, <2>2 DEF Carried
  <2> QED  BY <1>1, <1>2, <1>3, <1>4, <2>1, <2>2 DEF Lived, Carried
<1> QED  BY <1>1, <1>5, <1>6, <1>8 DEF MInv, Mirrored, Rises, Rebuilt

LEMMA RestartKeeps ==
  ASSUME MInv, Restart
  PROVE  MInv'
<1>1. /\ life' = life + 1 /\ script' \in Scripts /\ lastSeq' = 0 /\ ring' = << >> /\ mission' = InitialMission /\ stream' = Cut
      /\ requests' = {r \in requests : r.served} /\ replay' = replay /\ tab' = tab /\ synced' = synced /\ trouble' = trouble + 1
  BY DEF Restart, Troubled
<1>2. stream'.state = "down" /\ stream'.frames = << >> /\ stream' \in [state : {"down", "opening", "open"}, frames : Seq(Stamps)]
  BY <1>1, CutIs
<1>3. ~Streaming'
  BY <1>2 DEF Streaming
<1>4. WellTyped'
  <2>1. script' \in Seq(Bodies) /\ << >> \in Seq(Stamps)
    BY <1>1, MissionControlAssumption
  <2> QED  BY <1>1, <1>2, <2>1, InitialIs DEF MInv, WellTyped
<1>5. Linked'
  BY <1>1, <1>2, <1>3, Known DEF MInv, Linked
<1>6. tab.whole # life' /\ \A r \in requests : r.life # life'
  BY <1>1, Known DEF MInv, Linked
<1>7. PICK H : H = [n \in Nat |-> InitialMission]
  OBVIOUS
<1>8. Lived(H)'
  <2>1. H \in [Nat -> Missions] /\ H[0] = InitialMission /\ \A n \in 0..0 : n = 0
    BY <1>7, InitialIs
  <2> QED  BY <1>1, <2>1, InitialIs DEF Lived
<1>9. Carried(H)'
  BY <1>1, <1>2, <1>3, <1>6, NothingIs DEF Carried
<1>10. Rebuilt'
  <2>1. mission'.runs = << >> /\ DOMAIN << >> = {}
    BY <1>1, InitialIs
  <2> QED  BY <2>1 DEF Rebuilt, Agree
<1> QED  BY <1>1, <1>4, <1>5, <1>8, <1>9, <1>10 DEF MInv, Mirrored, Rises

LEMMA BootKeeps ==
  ASSUME MInv, Boot
  PROVE  MInv'
<1>1. /\ tab = NewTab /\ stream = Cut /\ requests = {} /\ ~tab.booted
      /\ stream' = stream /\ requests' = requests /\ synced' = synced
      /\ life' = life /\ script' = script /\ lastSeq' = lastSeq /\ ring' = ring /\ mission' = mission /\ replay' = replay
  BY DEF Boot, daemon, MInv, Linked
<1>2. PICK H : Lived(H) /\ Carried(H)
  BY DEF MInv, Mirrored
<1>3. ~Streaming /\ ~Streaming' /\ stream'.frames = << >>
  BY <1>1, CutIs DEF Streaming
<1>4. /\ tab' \in Tabs /\ tab'.booted /\ tab'.whole =< life /\ AllRising(tab'.feeds, tab'.mission.seq) /\ trouble' \in Nat
      /\ tab'.whole = life => tab'.mission.seq \in 0..lastSeq /\ tab'.mission = H[tab'.mission.seq]
  <2>1. tab \in Tabs /\ trouble \in Nat /\ AllRising(tab.feeds, tab.mission.seq)
    BY DEF MInv, WellTyped, Rises
  <2>2. CASE tab' = [ResetMission(tab, mission, life, TRUE) EXCEPT !.booted = TRUE, !.resume = mission.seq] /\ trouble' = trouble
    <3>1. tab' = [tab EXCEPT !.mission = mission, !.whole = life, !.booted = TRUE, !.resume = mission.seq]
      BY <2>1, <2>2 DEF ResetMission, Tabs
    <3>2. tab' \in Tabs /\ tab'.booted /\ tab'.whole = life /\ tab'.mission = mission /\ tab'.feeds = tab.feeds
      <4>1. life \in Int /\ mission \in Missions /\ mission.seq \in Nat
        BY Known
      <4> QED  BY <2>1, <3>1, <4>1 DEF Tabs
    <3>3. AllRising(tab.feeds, mission.seq)
      <4>1. tab.mission.seq = 0 /\ tab.feeds \in Maps(Seq(Nat)) /\ 0 \in Nat
        BY <1>1, <2>1, NewTabIs, InitialIs DEF Tabs
      <4> QED  BY <2>1, <4>1, Known, RisingLater
    <3>4. mission = H[lastSeq] /\ mission.seq = lastSeq
      BY <1>2, Known DEF Lived
    <3>5. lastSeq \in 0..lastSeq /\ life =< life
      BY Known
    <3> QED  BY <2>1, <2>2, <3>2, <3>3, <3>4, <3>5
  <2>3. CASE tab' = [tab EXCEPT !.booted = TRUE] /\ trouble' = trouble + 1
    <3>1. tab' \in Tabs /\ tab'.booted /\ tab'.whole = tab.whole /\ tab'.mission = tab.mission /\ tab'.feeds = tab.feeds
      BY <2>1, <2>3 DEF Tabs
    <3> QED  BY <1>2, <2>1, <2>3, <3>1 DEF MInv, Linked, Carried
  <2> QED  BY <2>2, <2>3 DEF Boot, Troubled
<1>5. WellTyped'
  BY <1>1, <1>4 DEF MInv, WellTyped
<1>6. Linked'
  BY <1>1, <1>3, <1>4 DEF MInv, Linked
<1>7. Lived(H)' /\ Carried(H)'
  BY <1>1, <1>2, <1>3, <1>4 DEF Lived, Carried
<1> QED  BY <1>1, <1>4, <1>5, <1>6, <1>7 DEF MInv, Mirrored, Rises, Rebuilt

LEMMA OpenKeeps ==
  ASSUME MInv, Open
  PROVE  MInv'
<1>1. /\ stream.state = "opening" /\ stream' = [stream EXCEPT !.state = "open"]
      /\ tab' = [tab EXCEPT !.buffering = TRUE, !.buffer = << >>]
      /\ requests' = {[r EXCEPT !.alone = FALSE] : r \in requests} \union {AskedNow}
      /\ synced' = FALSE /\ trouble' = trouble
      /\ life' = life /\ script' = script /\ lastSeq' = lastSeq /\ ring' = ring /\ mission' = mission /\ replay' = replay
  BY DEF Open, daemon, AskedNow
<1>2. PICK H : Lived(H) /\ Carried(H)
  BY DEF MInv, Mirrored
<1>3. stream'.state = "open" /\ stream'.frames = stream.frames /\ stream' \in [state : {"down", "opening", "open"}, frames : Seq(Stamps)]
  BY <1>1 DEF MInv, WellTyped
<1>4. /\ tab' \in Tabs /\ tab'.buffering /\ tab'.buffer = << >> /\ tab'.booted = tab.booted /\ tab'.whole = tab.whole
      /\ tab'.mission = tab.mission /\ tab'.feeds = tab.feeds
  <2> DEFINE none == << >>
  <2>1. none \in Seq(Stamps) /\ tab' = [tab EXCEPT !.buffering = TRUE, !.buffer = none] /\ tab \in Tabs
    BY <1>1 DEF MInv, WellTyped
  <2> HIDE DEF none
  <2>2. tab' \in Tabs /\ tab'.buffering /\ tab'.buffer = none /\ tab'.booted = tab.booted /\ tab'.whole = tab.whole
        /\ tab'.mission = tab.mission /\ tab'.feeds = tab.feeds
    BY <2>1 DEF Tabs
  <2> QED  BY <2>2 DEF none
<1>5. Streaming' /\ Unread' = stream.frames
  BY <1>3, <1>4, Known, ConcatEmptySeq DEF Streaming, Unread
<1>6. requests' \subseteq Asked
  BY <1>1, AskedIs DEF MInv
<1>7. ASSUME NEW q \in requests'
      PROVE  /\ q.life =< life /\ (~q.served => q.life = life)
             /\ q.alone => q = AskedNow /\ requests' = {q}
  <2>1. CASE q = AskedNow
    <3>1. q.life = life /\ (q.alone <=> requests = {})
      BY <2>1 DEF AskedNow
    <3>2. requests = {} => requests' = {AskedNow}
      BY <1>1
    <3> QED  BY <2>1, <3>1, <3>2, Known
  <2>2. CASE \E r \in requests : q = [r EXCEPT !.alone = FALSE]
    <3>1. PICK r \in requests : q = [r EXCEPT !.alone = FALSE]
      BY <2>2
    <3>2. r \in Asked /\ r.life =< life /\ (~r.served => r.life = life)
      BY Known DEF MInv, Linked
    <3>3. q.life = r.life /\ q.served = r.served /\ ~q.alone
      BY <3>1, <3>2 DEF Asked
    <3> QED  BY <3>2, <3>3
  <2> QED  BY <1>1, <1>7, <2>1, <2>2
<1>8. AskedNow.life = life /\ ~AskedNow.served
  BY DEF AskedNow
<1>9. tab.booted
  BY <1>1, CutIs DEF MInv, Linked
<1>10. WellTyped'
  BY <1>1, <1>3, <1>4, <1>6 DEF MInv, WellTyped
<1>11. Linked'
  BY <1>1, <1>3, <1>4, <1>7, <1>8, <1>9 DEF MInv, Linked
<1>12. Lived(H)' /\ Carried(H)'
  BY <1>1, <1>2, <1>3, <1>4, <1>5, <1>7, <1>8 DEF Lived, Carried
<1> QED  BY <1>1, <1>4, <1>10, <1>11, <1>12 DEF MInv, Mirrored, Rises, Rebuilt

LEMMA MessageKeeps ==
  ASSUME MInv, Message
  PROVE  MInv'
<1> DEFINE e == Head(stream.frames)
           later == Tail(stream.frames)
           one == << e >>
<1>1. /\ stream.state = "open" /\ stream.frames # << >>
      /\ tab' = [IF tab.buffering THEN [tab EXCEPT !.buffer = Append(@, e)] ELSE Fold(tab, e) EXCEPT !.resume = e.seq]
      /\ stream' = [stream EXCEPT !.frames = later]
      /\ requests' = requests /\ synced' = synced /\ trouble' = trouble
      /\ life' = life /\ script' = script /\ lastSeq' = lastSeq /\ ring' = ring /\ mission' = mission /\ replay' = replay
  BY DEF Message, daemon
<1>2. PICK H : Lived(H) /\ Carried(H)
  BY DEF MInv, Mirrored
<1>3. /\ e \in Stamps /\ later \in Seq(Stamps) /\ one \in Seq(Stamps) /\ stream.frames = one \o later /\ e.seq \in Nat
      /\ Len(one) = 1 /\ one[1] = e /\ one # << >> /\ DOMAIN one = {1}
  <2>1. stream.frames \in Seq(Stamps)
    BY Known
  <2>2. e \in Stamps /\ later \in Seq(Stamps)
    BY <1>1, <2>1, HeadTailProperties
  <2>3. stream.frames = one \o later
    BY <1>1, <2>1, ConcatSimplifications
  <2> QED  BY <2>2, <2>3, HeardIs
<1> HIDE DEF e, later, one
<1>4. stream'.state = "open" /\ stream'.frames = later /\ stream' \in [state : {"down", "opening", "open"}, frames : Seq(Stamps)]
  BY <1>1, <1>3 DEF MInv, WellTyped
<1>5. Streaming /\ Streaming' /\ tab.booted
  BY <1>1, <1>4, CutIs DEF Streaming, MInv, Linked
<1>6. Genuine(one \o later, H, lastSeq) /\ Genuine(one, H, lastSeq) /\ Genuine(later, H, lastSeq)
  <2>1. Genuine(one \o later, H, lastSeq)
    BY <1>2, <1>3 DEF Carried
  <2> QED  BY <1>3, <2>1, FrontKept
<1>7. tab \in Tabs
  BY DEF MInv, WellTyped
<1>8. H[0] = InitialMission /\ (\A n \in 0..lastSeq : H[n].seq = n) /\ lastSeq \in Nat
  BY <1>2, Known DEF Lived
<1>9. CASE tab.buffering
  <2> DEFINE more == Append(tab.buffer, e)
  <2>1. more \in Seq(Stamps)
    BY <1>3, Known, AppendProperties
  <2>2. tab' = [tab EXCEPT !.buffer = more, !.resume = e.seq]
    BY <1>1, <1>7, <1>9 DEF Tabs
  <2> HIDE DEF more
  <2>3. /\ tab' \in Tabs /\ tab'.buffer = more /\ tab'.buffering /\ tab'.booted /\ tab'.whole = tab.whole
        /\ tab'.mission = tab.mission /\ tab'.feeds = tab.feeds
    BY <1>3, <1>5, <1>7, <1>9, <2>1, <2>2 DEF Tabs
  <2>4. Unread' = Unread
    <3>1. more \o later = tab.buffer \o stream.frames
      BY <1>1, Known, Shift DEF more, e, later
    <3> QED  BY <1>4, <1>5, <2>3, <3>1 DEF Unread
  <2>5. WellTyped'
    BY <1>1, <1>4, <2>3 DEF MInv, WellTyped
  <2>6. Linked'
    BY <1>1, <1>4, <1>5, <1>9, <2>3 DEF MInv, Linked
  <2>7. Lived(H)' /\ Carried(H)'
    BY <1>1, <1>2, <1>4, <1>5, <1>6, <2>3, <2>4 DEF Lived, Carried
  <2> QED  BY <1>1, <2>3, <2>5, <2>6, <2>7 DEF MInv, Mirrored, Rises, Rebuilt
<1>10. CASE ~tab.buffering
  <2> DEFINE t == Fold(tab, e)
  <2>1. /\ t \in Tabs /\ Aside(tab, t) /\ AllRising(t.feeds, t.mission.seq)
    BY <1>3, <1>7, FoldIs DEF MInv, Rises
  <2>2. tab' = [t EXCEPT !.resume = e.seq]
    BY <1>1, <1>10
  <2>3. t.booted = tab.booted /\ t.whole = tab.whole /\ t.buffering = tab.buffering /\ t.buffer = tab.buffer
    <3> HIDE DEF t
    <3> QED  BY <1>7, <2>1 DEF Aside, Tabs
  <2>4. /\ tab' \in Tabs /\ tab'.mission = t.mission /\ tab'.feeds = t.feeds
        /\ tab'.booted = t.booted /\ tab'.whole = t.whole /\ tab'.buffering = t.buffering
    <3> HIDE DEF t
    <3> QED  BY <1>3, <2>1, <2>2 DEF Tabs
  <2>5. ASSUME tab.whole = life
        PROVE  /\ t.mission.seq \in 0..lastSeq /\ t.mission = H[t.mission.seq]
               /\ Follows(later, t.mission.seq) /\ Reaches(later, t.mission.seq, lastSeq)
    <3> DEFINE s == tab.mission.seq
               x == EndOf(one, s)
    <3>1. s \in 0..lastSeq /\ tab.mission = H[s] /\ Follows(one \o later, s) /\ Reaches(one \o later, s, lastSeq)
      BY <1>2, <1>3, <1>5, <1>10, <2>5 DEF Carried
    <3>2. x \in 0..lastSeq /\ Follows(later, x) /\ Reaches(later, x, lastSeq) /\ Follows(one, s)
      <4> HIDE DEF s
      <4> QED  BY <1>3, <1>6, <1>8, <3>1, Onward, FrontKept
    <3>3. x = IF e.seq > s THEN e.seq ELSE s
      BY <1>3 DEF EndOf
    <3>4. e.seq \in 1..lastSeq /\ H[e.seq] = ApplyEvent(H[e.seq - 1], e) /\ (e.seq > s => e.seq = s + 1)
      <4> HIDE DEF s
      <4> QED  BY <1>3, <1>6, <3>2 DEF Genuine, Follows
    <3>5. t.mission = H[x]
      <4> HIDE DEF s, x
      <4>1. H[s].seq = s
        BY <1>8, <3>1
      <4>2. s \in 0..lastSeq /\ lastSeq \in Nat /\ e \in Stamps /\ tab \in Tabs /\ tab.mission = H[s]
        BY <1>3, <1>7, <1>8, <3>1
      <4>3. LET y == IF e.seq > s THEN e.seq ELSE s IN Fold(tab, e).mission = H[y]
        BY <3>4, <4>1, <4>2, FoldCopies
      <4> QED  BY <3>3, <4>3
    <3>6. t.mission.seq = x
      <4> HIDE DEF t, x
      <4> QED  BY <1>8, <3>2, <3>5
    <3> HIDE DEF t, x
    <3> QED  BY <3>2, <3>5, <3>6
  <2> HIDE DEF t
  <2>6. \A r \in requests : ~r.alone
    BY <1>10 DEF MInv, Linked
  <2>7. WellTyped'
    BY <1>1, <1>4, <2>4 DEF MInv, WellTyped
  <2>8. Linked'
    BY <1>1, <1>4, <1>5, <2>3, <2>4, <2>6 DEF MInv, Linked
  <2>9. Lived(H)' /\ Carried(H)'
    BY <1>1, <1>2, <1>4, <1>6, <2>3, <2>4, <2>5, <2>6 DEF Lived, Carried
  <2> QED  BY <1>1, <2>1, <2>4, <2>7, <2>8, <2>9 DEF MInv, Mirrored, Rises, Rebuilt
<1> QED  BY <1>9, <1>10

LEMMA ServeKeeps ==
  ASSUME MInv, NEW r \in requests, ServeState(r)
  PROVE  MInv'
<1> DEFINE a == [r EXCEPT !.served = TRUE, !.answer = mission, !.life = life]
<1>1. /\ ~r.served /\ requests' = (requests \ {r}) \union {a}
      /\ stream' = stream /\ tab' = tab /\ synced' = synced /\ trouble' = trouble
      /\ life' = life /\ script' = script /\ lastSeq' = lastSeq /\ ring' = ring /\ mission' = mission /\ replay' = replay
  BY DEF ServeState, daemon
<1>2. PICK H : Lived(H) /\ Carried(H)
  BY DEF MInv, Mirrored
<1>3. a \in Asked /\ a.served /\ a.answer = mission /\ a.life = life /\ a.alone = r.alone
  <2>1. r \in Asked /\ a \in Asked
    BY Known, AskedIs DEF MInv
  <2> QED  BY <2>1 DEF Asked
<1> HIDE DEF a
<1>4. r.life = life
  BY <1>1 DEF MInv, Linked
<1>5. ASSUME NEW q \in requests', q.alone
      PROVE  q = a /\ r.alone /\ requests' = {a}
  <2>1. q = a
    <3> SUFFICES ASSUME q # a PROVE FALSE
      OBVIOUS
    <3>1. q \in requests /\ q # r
      BY <1>1, <1>5
    <3> QED  BY <1>5, <3>1 DEF MInv, Linked
  <2>2. r.alone
    BY <1>3, <1>5, <2>1
  <2>3. requests = {r}
    BY <2>2 DEF MInv, Linked
  <2> QED  BY <1>1, <2>1, <2>2, <2>3
<1>6. Streaming' = Streaming /\ Unread' = Unread
  BY <1>1 DEF Streaming, Unread
<1>7. WellTyped'
  BY <1>1, <1>3 DEF MInv, WellTyped
<1>8. Linked'
  <2>1. ASSUME NEW q \in requests'
        PROVE  q.life =< life /\ (~q.served => q.life = life)
    BY <1>1, <1>3, Known DEF MInv, Linked
  <2>2. ASSUME NEW q \in requests', q.alone
        PROVE  requests' = {q} /\ tab.buffering /\ tab.whole =< q.life /\ q.life = life
    BY <1>3, <1>4, <1>5, <2>2 DEF MInv, Linked
  <2>3. requests # {}
    OBVIOUS
  <2> QED  BY <1>1, <1>6, <2>1, <2>2, <2>3 DEF MInv, Linked
<1>9. Lived(H)' /\ Carried(H)'
  <2>1. ASSUME NEW q \in requests', q.alone
        PROVE  /\ Genuine(Unread, H, lastSeq) /\ q.answer.seq \in 0..lastSeq /\ q.answer = H[q.answer.seq]
               /\ Follows(Unread, q.answer.seq) /\ Reaches(Unread, q.answer.seq, lastSeq)
    <3>1. Genuine(Unread, H, lastSeq) /\ q = a
      BY <1>2, <1>4, <1>5, <2>1 DEF Carried
    <3>2. q.answer.seq = lastSeq /\ q.answer = H[lastSeq] /\ lastSeq \in Nat
      BY <1>2, <1>3, <3>1, Known DEF Lived
    <3>3. Follows(Unread, lastSeq)
      BY <3>1, <3>2 DEF Follows, Genuine
    <3>4. Reaches(Unread, lastSeq, lastSeq)
      BY DEF Reaches
    <3> QED  BY <3>1, <3>2, <3>3, <3>4
  <2> QED  BY <1>1, <1>2, <1>6, <2>1 DEF Lived, Carried
<1> QED  BY <1>1, <1>7, <1>8, <1>9 DEF MInv, Mirrored, Rises, Rebuilt

\* After an answer, or its failure, no request is known to be alone.
LEMMA NoneAlone ==
  ASSUME MInv, NEW r \in requests, requests' = requests \ {r}
  PROVE  (\A q \in requests' : ~q.alone) /\ (r.alone => requests' = {})
BY DEF MInv, Linked

LEMMA ResyncedKeeps ==
  ASSUME MInv, NEW r \in requests, Resynced(r)
  PROVE  MInv'
<1> DEFINE t == Resync(tab, r)
           u == Unbuffered(t)
           w == [u EXCEPT !.whole = -1]
<1>1. /\ r.served /\ tab' = (IF r.alone THEN u ELSE w)
      /\ (synced' <=> stream.state = "open" /\ r.alone /\ (r.answer.seq = tab.mission.seq => r.life = tab.whole))
      /\ requests' = requests \ {r} /\ stream' = stream /\ trouble' = trouble
      /\ life' = life /\ script' = script /\ lastSeq' = lastSeq /\ ring' = ring /\ mission' = mission /\ replay' = replay
  BY Zenon DEF Resynced, daemon
<1>2. synced' \in BOOLEAN
  BY DEF Resynced
<1>3. PICK H : Lived(H) /\ Carried(H)
  BY DEF MInv, Mirrored
<1>4. tab \in Tabs /\ r \in Asked
  BY DEF MInv, WellTyped
<1>5. /\ t \in Tabs /\ t.buffer = tab.buffer /\ t.booted = tab.booted
      /\ r.answer.seq = tab.mission.seq => t = tab
      /\ r.answer.seq # tab.mission.seq => t.mission = r.answer /\ t.whole = r.life
      /\ AllRising(t.feeds, t.mission.seq)
  BY <1>4, ResyncTyped DEF MInv, Rises
<1> HIDE DEF t
<1>6. /\ u \in Tabs /\ u.booted = t.booted /\ u.whole = t.whole /\ ~u.buffering
      /\ u.mission = FoldOver(t, t.buffer).mission
      /\ AllRising(u.feeds, u.mission.seq)
      /\ w \in Tabs /\ w.booted = t.booted /\ w.whole = -1 /\ ~w.buffering /\ w.mission = u.mission /\ w.feeds = u.feeds
  BY <1>5, UnbufferedTyped
<1> HIDE DEF u, w
<1>7. /\ tab' \in Tabs /\ tab'.booted = tab.booted /\ ~tab'.buffering /\ tab'.mission = u.mission /\ tab'.feeds = u.feeds
      /\ tab'.whole = IF r.alone THEN t.whole ELSE -1
  BY <1>1, <1>5, <1>6
<1>8. (\A q \in requests' : ~q.alone) /\ (r.alone => requests' = {})
  BY <1>1, NoneAlone
<1>9. /\ tab.booted /\ r.life =< life /\ tab.whole =< life /\ life \in Nat /\ r.life \in Nat /\ tab.whole \in Int
      /\ r.alone => tab.whole =< r.life
      /\ r.alone /\ Streaming => r.life = life
  BY Known DEF MInv, Linked
<1>10. tab'.whole =< life /\ (tab'.whole = life => r.alone /\ r.life = life)
  <2>1. CASE r.answer.seq = tab.mission.seq
    BY <1>5, <1>7, <1>9, <2>1
  <2>2. CASE r.answer.seq # tab.mission.seq
    BY <1>5, <1>7, <1>9, <2>2
  <2> QED  BY <2>1, <2>2
<1>11. Streaming' = Streaming
  BY <1>1 DEF Streaming
<1>12. synced' => requests' = {} /\ Streaming /\ tab'.whole = life
  <2> SUFFICES ASSUME synced' PROVE requests' = {} /\ Streaming /\ tab'.whole = life
    OBVIOUS
  <2>1. Streaming /\ r.alone /\ (r.answer.seq = tab.mission.seq => r.life = tab.whole)
    BY <1>1 DEF Streaming
  <2> QED  BY <1>5, <1>7, <1>8, <1>9, <2>1
<1>13. ASSUME tab'.whole = life
       PROVE  /\ tab'.mission.seq \in 0..lastSeq /\ tab'.mission = H[tab'.mission.seq]
              /\ Streaming => Follows(stream.frames, tab'.mission.seq) /\ Reaches(stream.frames, tab'.mission.seq, lastSeq)
  <2> DEFINE s == r.answer.seq
             x == EndOf(tab.buffer, s)
  <2>1. r.alone /\ r.life = life
    BY <1>10, <1>13
  <2>2. /\ Genuine(Unread, H, lastSeq) /\ s \in 0..lastSeq /\ r.answer = H[s] /\ Follows(Unread, s)
        /\ Streaming => Reaches(Unread, s, lastSeq)
    BY <1>1, <1>3, <2>1 DEF Carried
  <2>3. lastSeq \in Nat /\ tab.buffer \in Seq(Stamps) /\ stream.frames \in Seq(Stamps) /\ \A n \in 0..lastSeq : H[n].seq = n
    BY <1>3, Known DEF Lived
  <2>4. t.mission = H[s]
    <3>1. CASE r.answer.seq # tab.mission.seq
      BY <1>5, <2>2, <3>1
    <3>2. CASE r.answer.seq = tab.mission.seq
      <4>1. t = tab /\ tab.whole = life
        BY <1>5, <1>7, <1>13, <2>1, <3>2
      <4> QED  BY <1>3, <3>2, <4>1 DEF Carried
    <3> QED  BY <3>1, <3>2
  <2> HIDE DEF s, x
  <2>5. CASE Streaming
    <3>1. Unread = tab.buffer \o stream.frames
      BY <2>5 DEF Unread
    <3>2. Genuine(tab.buffer, H, lastSeq) /\ Follows(tab.buffer, s)
      BY <2>2, <2>3, <3>1, FrontKept
    <3>3. x \in 0..lastSeq /\ Follows(stream.frames, x) /\ Reaches(stream.frames, x, lastSeq)
      BY <2>2, <2>3, <2>5, <3>1, Onward DEF x
    <3>4. FoldOver(t, tab.buffer).mission = H[x]
      BY <1>5, <2>2, <2>3, <2>4, <3>2, FoldOverCopies DEF x
    <3>5. tab'.mission = H[x] /\ H[x].seq = x
      BY <1>5, <1>6, <1>7, <2>3, <3>3, <3>4
    <3> QED  BY <3>3, <3>5
  <2>6. CASE ~Streaming
    <3>1. Unread = tab.buffer
      BY <2>6 DEF Unread
    <3>2. tab.buffer # << >> => Len(tab.buffer) \in DOMAIN tab.buffer
      BY <2>3, StampSeq, EmptySeq
    <3>3. x \in 0..lastSeq
      BY <2>2, <2>3, <3>1, <3>2 DEF x, EndOf, Genuine
    <3>4. FoldOver(t, tab.buffer).mission = H[x]
      BY <1>5, <2>2, <2>3, <2>4, <3>1, FoldOverCopies DEF x
    <3>5. tab'.mission = H[x] /\ H[x].seq = x
      BY <1>5, <1>6, <1>7, <2>3, <3>3, <3>4
    <3> QED  BY <2>6, <3>3, <3>5
  <2> QED  BY <2>5, <2>6
<1>14. WellTyped'
  BY <1>1, <1>2, <1>7 DEF MInv, WellTyped
<1>15. Linked'
  BY <1>1, <1>7, <1>8, <1>9, <1>10, <1>11, <1>12 DEF MInv, Linked
<1>16. Lived(H)' /\ Carried(H)'
  BY <1>1, <1>3, <1>8, <1>11, <1>13 DEF Lived, Carried
<1> QED  BY <1>1, <1>6, <1>7, <1>14, <1>15, <1>16 DEF MInv, Mirrored, Rises, Rebuilt

LEMMA ResyncFailedKeeps ==
  ASSUME MInv, NEW r \in requests, ResyncFailed(r)
  PROVE  MInv'
<1> DEFINE w == [Unbuffered(tab) EXCEPT !.whole = -1]
<1>1. /\ tab' = w /\ trouble' = trouble + 1 /\ requests' = requests \ {r} /\ stream' = stream /\ synced' = synced
      /\ life' = life /\ script' = script /\ lastSeq' = lastSeq /\ ring' = ring /\ mission' = mission /\ replay' = replay
  BY DEF ResyncFailed, Troubled, daemon
<1>2. PICK H : Lived(H) /\ Carried(H)
  BY DEF MInv, Mirrored
<1>3. /\ w \in Tabs /\ w.booted = tab.booted /\ w.whole = -1 /\ ~w.buffering /\ AllRising(w.feeds, w.mission.seq)
  <2>1. tab \in Tabs /\ AllRising(tab.feeds, tab.mission.seq)
    BY DEF MInv, WellTyped, Rises
  <2> QED  BY <2>1, UnbufferedTyped
<1> HIDE DEF w
<1>4. (\A q \in requests' : ~q.alone) /\ ~synced /\ tab.booted
  BY <1>1, NoneAlone DEF MInv, Linked
<1>5. -1 =< life /\ -1 # life
  BY Known
<1>6. WellTyped'
  BY <1>1, <1>3 DEF MInv, WellTyped
<1>7. Linked'
  BY <1>1, <1>3, <1>4, <1>5 DEF MInv, Linked
<1>8. Lived(H)' /\ Carried(H)'
  BY <1>1, <1>2, <1>3, <1>4, <1>5 DEF Lived, Carried
<1> QED  BY <1>1, <1>3, <1>6, <1>7, <1>8 DEF MInv, Mirrored, Rises, Rebuilt

LEMMA MStutter ==
  ASSUME MInv, UNCHANGED missionVars
  PROVE  MInv'
<1>1. Streaming' = Streaming /\ Unread' = Unread
  BY DEF missionVars, Streaming, Unread
<1>2. WellTyped' /\ Linked' /\ Rises' /\ Rebuilt'
  BY <1>1 DEF MInv, missionVars, WellTyped, Linked, Rises, Rebuilt
<1>3. PICK H : Lived(H) /\ Carried(H)
  BY DEF MInv, Mirrored
<1>4. Lived(H)' /\ Carried(H)'
  BY <1>1, <1>3 DEF missionVars, Lived, Carried
<1> QED  BY <1>2, <1>4 DEF MInv, Mirrored

\* What a tab shows is a mission of the life it belongs to, and what is on its way to it
\* leads on from there; over emits, drops, restarts, boots and answers.
THEOREM MirrorInvariant == MissionSpec => []MInv
<1>1. MissionInit => MInv
  BY InitHolds
<1>2. MInv /\ [MissionNext]_missionVars => MInv'
  <2> SUFFICES ASSUME MInv, [MissionNext]_missionVars PROVE MInv'
    OBVIOUS
  <2>1. CASE BusEmit
    BY <2>1, EmitKeeps
  <2>2. CASE Connect
    BY <2>2, ConnectKeeps
  <2>3. CASE Drop
    BY <2>3, DropKeeps
  <2>4. CASE Restart
    BY <2>4, RestartKeeps
  <2>5. CASE Boot
    BY <2>5, BootKeeps
  <2>6. CASE Open
    BY <2>6, OpenKeeps
  <2>7. CASE Message
    BY <2>7, MessageKeeps
  <2>8. ASSUME NEW r \in requests, ServeState(r) PROVE MInv'
    BY <2>8, ServeKeeps
  <2>9. ASSUME NEW r \in requests, Resynced(r) PROVE MInv'
    BY <2>9, ResyncedKeeps
  <2>10. ASSUME NEW r \in requests, ResyncFailed(r) PROVE MInv'
    BY <2>10, ResyncFailedKeeps
  <2>11. CASE UNCHANGED missionVars
    BY <2>11, MStutter
  <2> QED  BY <2>1, <2>2, <2>3, <2>4, <2>5, <2>6, <2>7, <2>8, <2>9, <2>10, <2>11 DEF MissionNext
<1> QED  BY <1>1, <1>2, PTL DEF MissionSpec

\* Once the request of an open connection is answered, and every frame taken, the mirror is
\* the daemon's mission: the resync of sse.ts neither loses an event nor folds one twice.
THEOREM MirrorIsExact == MissionSpec => []MirrorExact
<1>1. MInv => MirrorExact
  <2> SUFFICES ASSUME MInv, stream.state = "open", synced, stream.frames = << >> PROVE tab.mission = mission
    BY DEF MirrorExact
  <2>1. PICK H : Lived(H) /\ Carried(H)
    BY DEF MInv, Mirrored
  <2>2. Streaming /\ tab.whole = life /\ ~tab.buffering
    BY DEF Streaming, MInv, Linked
  <2>3. tab.mission = H[tab.mission.seq] /\ Reaches(stream.frames, tab.mission.seq, lastSeq)
    BY <2>1, <2>2 DEF Carried
  <2>4. tab.mission.seq = lastSeq
    BY <2>3 DEF Reaches
  <2> QED  BY <2>1, <2>3, <2>4 DEF Lived
<1> QED  BY <1>1, MirrorInvariant, PTL

\* The activity of a run is shown once each and in order: fold skips what the mirror has,
\* and a daemon that restarted empties the feeds.
THEOREM FeedsStayInOrder == MissionSpec => []FeedsInOrder
<1>1. MInv => FeedsInOrder
  <2> SUFFICES ASSUME MInv, NEW k \in DOMAIN tab.feeds, NEW i \in 1 .. Len(tab.feeds[k]) - 1
               PROVE  tab.feeds[k][i] < tab.feeds[k][i + 1]
    BY DEF FeedsInOrder
  <2>1. tab.feeds \in Maps(Seq(Nat)) /\ Rising(tab.feeds[k], tab.mission.seq)
    BY DEF MInv, WellTyped, Tabs, Rises, AllRising
  <2>2. tab.feeds[k] \in Seq(Nat)
    BY <2>1, MapIs
  <2>3. Len(tab.feeds[k]) \in Nat /\ DOMAIN tab.feeds[k] = 1..Len(tab.feeds[k])
    BY <2>2, LenProperties
  <2>4. i \in DOMAIN tab.feeds[k] /\ i + 1 \in DOMAIN tab.feeds[k] /\ i < i + 1
    BY <2>3
  <2> QED  BY <2>1, <2>4 DEF Rising
<1> QED  BY <1>1, MirrorInvariant, PTL

\* A run the daemon saw start is on the board what its rows rebuild.
THEOREM ReplaysAgree == MissionSpec => []ReplayAgrees
<1>1. MInv => ReplayAgrees
  BY DEF MInv, Rebuilt, Agree, ReplayAgrees
<1> QED  BY <1>1, MirrorInvariant, PTL
=============================================================================
