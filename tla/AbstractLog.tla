----------------------------- MODULE AbstractLog -----------------------------
(***************************************************************************)
(* What the event log of factory.ai promises to those who emit and those   *)
(* who read (src/src/db.ts 448-715), without queues, batches or retries:   *)
(* an event is pending until it is acknowledged or given up; what becomes  *)
(* a row is a whole prefix of what is pending, in emit order.  A write     *)
(* whose answer is lost is written again, so a prefix may land twice; but  *)
(* the newest row is never older than one before it.                       *)
(***************************************************************************)
EXTENDS Integers, Sequences

VARIABLES emitted,  \* how many events were emitted; events are numbered from 1
          pending,  \* the events accepted and not settled, oldest first
          log,      \* the rows, by id
          lost      \* the events that were refused or given up

vars == <<emitted, pending, log, lost>>

Elems(s)    == {s[i] : i \in DOMAIN s}
Front(s, n) == SubSeq(s, 1, n)
Rest(s, n)  == SubSeq(s, n + 1, Len(s))

Init == emitted = 0 /\ pending = <<>> /\ log = <<>> /\ lost = {}

Accept ==
  /\ emitted' = emitted + 1
  /\ pending' = Append(pending, emitted + 1)
  /\ UNCHANGED <<log, lost>>

Refuse ==
  /\ emitted' = emitted + 1
  /\ lost' = lost \union {emitted + 1}
  /\ UNCHANGED <<pending, log>>

\* The first n pending events become rows, the last of them the newest row there is.
Land(n) ==
  /\ \A i \in DOMAIN log : log[i] =< pending[n]
  /\ log' = log \o Front(pending, n)

Acknowledge(n) ==
  /\ Land(n)
  /\ pending' = Rest(pending, n)
  /\ UNCHANGED <<emitted, lost>>

LandUnanswered(n) ==
  /\ Land(n)
  /\ UNCHANGED <<emitted, pending, lost>>

GiveUp(n) ==
  /\ Land(n) \/ UNCHANGED log
  /\ lost' = lost \union Elems(Front(pending, n))
  /\ pending' = Rest(pending, n)
  /\ UNCHANGED emitted

Next ==
  \/ Accept
  \/ Refuse
  \/ \E n \in 1 .. Len(pending) : Acknowledge(n) \/ LandUnanswered(n) \/ GiveUp(n)

Spec == Init /\ [][Next]_vars
=============================================================================
