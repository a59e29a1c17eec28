--------------------------- MODULE Planning_proofs ---------------------------
(***************************************************************************)
(* The safety properties of Planning, for any starting tickets, plans,     *)
(* follow-ups, globs, limits and bounds.                                   *)
(*                                                                         *)
(* The invariant says of the tick that it has the shape of a state of the  *)
(* program (Typed); that what is left of a list of board calls, whichever  *)
(* suffix of it, still does what the list is for (Calling); that the tick  *)
(* is where its call list belongs (Placed); that what is queued or in      *)
(* flight is still what was read, and no two tickets in flight meet        *)
(* (Scheduled); that what was filed for a ticket, or closed, or canceled,  *)
(* has its label or its call still to come, unless the pass was cut        *)
(* (FiledWell, ClosedWell, OffWell); and that no set of tickets waits for  *)
(* itself (Rooted).                                                        *)
(***************************************************************************)
EXTENDS Planning, FiniteSetTheorems, WellFoundedInduction, TLAPS

MoveLanes == {"queue", "working", "done"} \union (IF HoldColumns THEN {"blocked", "needs_human"} ELSE {})
Passes == [plan : Nat, followup : Nat, build : Nat]
Tix == [lane : Lanes, labels : SUBSET Labels, meta : Metas, parent : 0..MaxTickets, deps : SUBSET Ticket,
        touches : SUBSET Globs, writes : SUBSET Globs, premises : SUBSET PremiseStatus,
        pr : {"none", "open", "merged"}]
Readings == [route : Metas, deps : SUBSET Ticket, touches : SUBSET Globs]

\* What a child, a follow-up or a build epic is filed with.
Contents == [deps : SUBSET Nat, touches : SUBSET Globs, mentions : SUBSET Glue, premises : SUBSET PremiseStatus]
Orders == [meta : {"task", "epic"}, spec : Contents, writes : SUBSET Globs, why : {"plan", "followup", "build"}]
CallOps == {"label", "unlabel", "move", "describe", "create", "link", "comment"}
Args == Labels \union Lanes \union Metas \union Orders \union {0}
Calls == [op : CallOps, t : Ticket, arg : Args, strict : BOOLEAN]
Ticks == [pc : Places, queue : UNION {[Q -> Readings] : Q \in SUBSET Ticket}, cur : 0..MaxTickets,
          calls : Seq(Calls), catch : Seq(Calls), then : Places, made : Seq(Ticket),
          filing : {"none", "begun"}, list : SUBSET Ticket]

-----------------------------------------------------------------------------
(* Lists of board calls. *)

Files(c, why) == c.op = "create" /\ c.arg.why = why
Adds(c, l) == c.op = "label" /\ c.arg = l
HandsOver(c) == Adds(c, "NeedsHuman")

\* What call c does is one of the things a list may do.
Proper(c) ==
  /\ c.op = "create" => c.arg \in Orders /\ c.arg.writes \subseteq c.arg.spec.touches
  /\ c.op = "label" => c.arg \in Labels
  /\ c.op = "unlabel" => c.arg \in {"Bootstrap", "Intake"}
  /\ c.op = "move" => c.arg \in MoveLanes
  /\ c.op = "describe" => c.arg = "epic"

\* Call i of a list over t: children are followed by the label that ends their pass, a label
\* that says a failed closeout by the one that hands it over.
Link(t, cs, i) ==
  /\ cs[i].t = t /\ Proper(cs[i])
  /\ Files(cs[i], "plan") => cs[i].strict /\ \E j \in i + 1..Len(cs) : Adds(cs[j], "Planned")
  /\ Files(cs[i], "followup") => cs[i].strict /\ \E j \in i + 1..Len(cs) : Adds(cs[j], "Stewarded")
  /\ Files(cs[i], "build") => i = 1
  /\ Adds(cs[i], "Stewarded") /\ ~cs[i].strict => \E j \in i + 1..Len(cs) : HandsOver(cs[j])
  /\ HandsOver(cs[i]) => \A j \in 1..Len(cs) : ~cs[j].strict
Chain(t, cs) == cs \in Seq(Calls) /\ \A i \in 1..Len(cs) : Link(t, cs, i)

\* The catch list of calls cs.
Catches(cs, catch) ==
  /\ \A i \in 1..Len(catch) : catch[i].op # "create" /\ ~catch[i].strict
  /\ \A i \in 1..Len(cs) : Adds(cs[i], "Stewarded") /\ cs[i].strict =>
        \E j \in 1..Len(catch) : HandsOver(catch[j])

\* What a creation c over t rests on.
Fresh(t, c) ==
  /\ Files(c, "plan") => tick.then = "schedule" /\ (tick.filing = "none" /\ t \notin cut => passes[t].plan = 0)
  /\ Files(c, "followup") => (tick.filing = "none" /\ t \notin cut => passes[t].followup = 0)
  /\ Files(c, "build") => tick.filing = "none" /\ t \in repos /\ passes[t].build = 0

\* The call that adds label l to t is still to be made.
Pending(t, l) == tick.pc = "calls" /\ tick.cur = t /\ \E i \in 1..Len(tick.calls) : Adds(tick.calls[i], l)

Calling ==
  tick.pc = "calls" =>
    /\ tick.calls # << >>
    /\ Chain(tick.cur, tick.calls) /\ Chain(tick.cur, tick.catch)
    /\ Catches(tick.calls, tick.catch)
    /\ \A i \in 1..Len(tick.calls) : Fresh(tick.cur, tick.calls[i])
    /\ tick.cur \in Ticket /\ Exists(tick.cur)
    /\ tick.then \in {"idea", "epic", "schedule", "reconcile", "review", "epics"}
    /\ tick.then = "epics" => tick.cur \in good \union torn

-----------------------------------------------------------------------------
(* The parts. *)

\* The place to which the tick is, or goes when its calls are made.
Ahead == IF tick.pc = "calls" THEN tick.then ELSE tick.pc

Typed ==
  /\ board \in [Ticket -> Tix]
  /\ \A t \in Ticket : board[t].lane \in {"blocked", "needs_human"} => HoldColumns
  /\ \A t \in Ticket : ~Exists(t) => board[t] = Absent
  /\ repos \subseteq Ticket
  /\ tick \in Ticks
  /\ inFlight \in UNION {[Q -> SUBSET Globs] : Q \in SUBSET Ticket}
  /\ calledOff \subseteq Ticket
  /\ passes \in [Ticket -> Passes]
  /\ cut \subseteq Ticket /\ torn \subseteq Ticket /\ closed \subseteq Ticket /\ good \subseteq Ticket

\* Where the tick is, it has a ticket to work at.
Placed ==
  /\ Ahead \in {"bootstrap", "idea", "epic"} => Routed(tick.queue, Ahead) # {}
  /\ tick.pc = "scaffold" => tick.cur \in repos /\ Exists(tick.cur) /\ passes[tick.cur].build = 0
  /\ tick.pc = "closeout" => /\ tick.cur \in Ticket /\ Exists(tick.cur)
                             /\ tick.cur \notin cut => passes[tick.cur].followup = 0
  /\ tick.pc \notin {"calls"} => tick.made = << >> /\ tick.filing = "none" /\ tick.catch = << >>
  /\ tick.pc \notin {"calls", "scaffold", "closeout"} => tick.cur = 0
  /\ \A i \in 1..Len(tick.made) : Exists(tick.made[i])
  /\ \A t \in tick.list : Exists(t)
  /\ Ahead = "epics" => tick.list \subseteq good \union torn
  /\ Ahead \in {"bootstrap", "scaffold", "idea", "epic"} =>
        \A t \in Routed(tick.queue, "epic") : t \notin cut => passes[t].plan = 0

Scheduled ==
  /\ \A t \in Ticket : board[t].writes \subseteq board[t].touches
  /\ \A t \in DOMAIN tick.queue : Exists(t) /\ tick.queue[t].touches = board[t].touches
  /\ \A t \in DOMAIN inFlight : Exists(t) /\ inFlight[t] = board[t].touches
  /\ \A t, u \in DOMAIN inFlight : t # u => ~GlobsOverlap(inFlight[t], inFlight[u])

FiledWell ==
  /\ \A t \in Ticket : ~Exists(t) => passes[t].plan = 0 /\ passes[t].followup = 0
  /\ \A t \in Ticket : passes[t].build <= 1 /\ (t \notin repos => passes[t].build = 0)
  /\ \A t \in Ticket \ cut :
        /\ passes[t].plan <= 1 /\ (passes[t].plan = 1 => "Planned" \in board[t].labels \/ Pending(t, "Planned"))
        /\ passes[t].followup <= 1
        /\ passes[t].followup = 1 => "Stewarded" \in board[t].labels \/ Pending(t, "Stewarded")

ClosedWell ==
  /\ closed \subseteq good \union torn
  /\ \A t \in Ticket : "Stewarded" \in board[t].labels /\ "NeedsHuman" \notin board[t].labels =>
        t \in good \union torn \/ Pending(t, "NeedsHuman")

OffWell == \A t \in calledOff :
  board[t].lane = "canceled" /\ t # tick.cur /\ t \notin DOMAIN tick.queue /\ t \notin tick.list /\ t \notin DOMAIN inFlight

Rooted ==
  /\ \A t \in Ticket : \A d \in board[t].deps : Exists(d)
  /\ \A S \in SUBSET Ticket : S # {} => \E t \in S : board[t].deps \intersect S = {}

IInv == Typed /\ Calling /\ Placed /\ Scheduled /\ FiledWell /\ ClosedWell /\ OffWell /\ Rooted

-----------------------------------------------------------------------------
(* The operators: numbers, sequences, globs. *)

LEMMA Least ==
  ASSUME NEW S \in SUBSET Nat, S # {}
  PROVE  \E n \in S : \A m \in S : n =< m
<1>1. PICK n \in S : \A m \in S : ~(<<m, n>> \in OpToRel(<, Nat))
  BY WFMin, NatLessThanWellFounded
<1>2. ASSUME NEW m \in S
      PROVE  n =< m
  <2>1. m \in Nat /\ n \in Nat
    OBVIOUS
  <2>2. ~(m < n)
    BY <1>1, <2>1, Zenon DEF OpToRel
  <2> QED  BY <2>1, <2>2
<1> QED  BY <1>2

\* The function on 0..N that a base and a step make: there is one.
Steps(S) == [Nat -> [S -> S]]
Folds(A, S, base, N, step) ==
  /\ A \in [0..N -> S] /\ A[0] = base
  /\ \A n \in 1..N : A[n] = step[n][A[n - 1]]

LEMMA FoldExists ==
  ASSUME NEW S, NEW base \in S, NEW N \in Nat, NEW step \in Steps(S)
  PROVE  \E A : Folds(A, S, base, N, step)
<1> DEFINE Made(n, A) == A \in [0..n -> S] /\ A[0] = base /\ \A k \in 1..n : A[k] = step[k][A[k - 1]]
           Bad == {n \in 0..N : ~\E A : Made(n, A)}
<1> USE DEF Steps
<1>1. Bad = {}
  <2> SUFFICES ASSUME Bad # {} PROVE FALSE
    OBVIOUS
  <2>1. PICK m \in Bad : \A k \in Bad : m =< k
    <3>1. Bad \in SUBSET Nat
      OBVIOUS
    <3> HIDE DEF Bad
    <3> QED  BY <3>1, Least
  <2>2. CASE m = 0
    <3>1. Made(0, [n \in 0..0 |-> base])
      OBVIOUS
    <3> QED  BY <2>1, <2>2, <3>1
  <2>3. CASE m # 0
    <3>1. m - 1 \in 0..N /\ m - 1 \notin Bad /\ m \in Nat
      <4>1. m \in 0..N /\ m - 1 \in 0..N /\ ~(m =< m - 1)
        BY <2>3
      <4> HIDE DEF Bad
      <4> QED  BY <2>1, <4>1
    <3>2. PICK B : Made(m - 1, B)
      BY <3>1
    <3> DEFINE A == [n \in 0..m |-> IF n = m THEN step[m][B[m - 1]] ELSE B[n]]
    <3>3. B[m - 1] \in S /\ step[m][B[m - 1]] \in S
      BY <3>1, <3>2
    <3>4. A \in [0..m -> S]
      BY <3>1, <3>2, <3>3
    <3>5. A[0] = base
      BY <3>1, <3>2, <2>3
    <3>6. ASSUME NEW k \in 1..m
          PROVE  A[k] = step[k][A[k - 1]]
      <4>1. CASE k = m
        BY <3>1, <4>1
      <4>2. CASE k # m
        BY <3>1, <3>2, <4>2
      <4> QED  BY <4>1, <4>2
    <3>7. Made(m, A)
      BY <3>4, <3>5, <3>6
    <3> QED  BY <3>7, <2>1
  <2> QED  BY <2>2, <2>3
<1>2. \E A : Made(N, A)
  BY <1>1
<1> QED  BY <1>2 DEF Folds

LEMMA TicketNat == MaxTickets \in Nat \ {0} /\ Ticket \subseteq Nat /\ 0 \notin Ticket
BY PlanningAssumption DEF Ticket

LEMMA OldestIs ==
  ASSUME NEW S \in SUBSET Ticket, S # {}
  PROVE  Oldest(S) \in S
BY Least, TicketNat DEF Oldest

LEMMA FreeIs ==
  ASSUME Room
  PROVE  FreeId \in Ticket /\ ~Exists(FreeId)
<1> DEFINE S == {t \in Ticket : ~Exists(t)}
<1>1. PICK n \in S : \A m \in S : n =< m
  BY Least, TicketNat DEF Room
<1>2. n \in Ticket /\ ~Exists(n) /\ \A u \in Ticket : u < n => Exists(u)
  BY <1>1, TicketNat
<1> QED  BY <1>2 DEF FreeId

\* Globs overlap both ways, and fewer of them overlap less.
LEMMA OverlapSym ==
  ASSUME NEW a, NEW b, GlobsOverlap(a, b)
  PROVE  GlobsOverlap(b, a)
BY DEF GlobsOverlap

LEMMA OverlapMono ==
  ASSUME NEW a, NEW b, NEW c, NEW d, a \subseteq c, b \subseteq d, GlobsOverlap(a, b)
  PROVE  GlobsOverlap(c, d)
BY DEF GlobsOverlap

-----------------------------------------------------------------------------
(* The scheduler. *)

\* The candidates come one by one: f[n] is who is admitted among the first n tickets.
Selects(f, cands, edges, done, busy, capacity) ==
  /\ f[0] = {}
  /\ \A n \in 1..MaxTickets :
        f[n] = f[n - 1] \union {t \in {n} : Admits(cands, edges, done, busy, capacity, f[n - 1], t)}
  /\ SelectRunnable(cands, edges, done, busy, capacity) = f[MaxTickets]

LEMMA SelectUnfolds ==
  ASSUME NEW cands, NEW edges, NEW done, NEW busy, NEW capacity
  PROVE  \E f : Selects(f, cands, edges, done, busy, capacity)
<1> DEFINE Pick(run, n) == {t \in {n} : Admits(cands, edges, done, busy, capacity, run, t)}
           S == SUBSET Nat
           step == [n \in Nat |-> [R \in S |-> R \union Pick(R, n)]]
           f == CHOOSE A : A = [n \in 0..MaxTickets |->
                  IF n = 0 THEN {} ELSE UNION {run \union Pick(run, n) : run \in {A[n - 1]}}]
<1>1. {} \in S
  OBVIOUS
<1>2. \A n \in Nat : \A R \in S : R \union Pick(R, n) \in S
  OBVIOUS
<1>3. step \in Steps(S) /\ \A n \in Nat : \A R \in S : step[n][R] = R \union Pick(R, n)
  <2> HIDE DEF S, Pick
  <2> QED  BY <1>2 DEF Steps
<1>4. PICK A : Folds(A, S, {}, MaxTickets, step)
  <2> HIDE DEF S, step
  <2> QED  BY <1>1, <1>3, FoldExists, TicketNat
<1>5. A = [n \in 0..MaxTickets |-> IF n = 0 THEN {} ELSE UNION {run \union Pick(run, n) : run \in {A[n - 1]}}]
  <2> HIDE DEF S, step, Pick
  <2> USE DEF Folds
  <2>1. \A n \in 1..MaxTickets : A[n - 1] \in S /\ n \in Nat
    BY <1>4, TicketNat
  <2>2. ASSUME NEW n \in 1..MaxTickets
        PROVE  A[n] = UNION {run \union Pick(run, n) : run \in {A[n - 1]}}
    <3>1. A[n] = A[n - 1] \union Pick(A[n - 1], n)
      BY <1>3, <1>4, <2>1
    <3> QED  BY <3>1
  <2>3. \A n \in 0..MaxTickets : A[n] = IF n = 0 THEN {} ELSE UNION {run \union Pick(run, n) : run \in {A[n - 1]}}
    BY <1>4, <2>2, TicketNat
  <2> QED  BY <1>4, <2>3
<1>6. f = [n \in 0..MaxTickets |-> IF n = 0 THEN {} ELSE UNION {run \union Pick(run, n) : run \in {f[n - 1]}}]
  <2> HIDE DEF Pick
  <2> QED  BY <1>5
<1>7. SelectRunnable(cands, edges, done, busy, capacity) = f[MaxTickets]
  BY DEF SelectRunnable
<1> HIDE DEF f
<1>8. 0 \in 0..MaxTickets /\ \A n \in 1..MaxTickets : n \in 0..MaxTickets /\ n # 0
  BY TicketNat
<1>9. f[0] = {}
  BY <1>6, <1>8
<1>10. ASSUME NEW n \in 1..MaxTickets
       PROVE  f[n] = f[n - 1] \union Pick(f[n - 1], n)
  <2> HIDE DEF Pick
  <2>1. f[n] = UNION {run \union Pick(run, n) : run \in {f[n - 1]}}
    BY <1>6, <1>8
  <2> QED  BY <2>1
<1> QED  BY <1>7, <1>9, <1>10 DEF Selects

\* Whoever is selected is a candidate, and meets neither the busy nor another one selected.
LEMMA SelectedApart ==
  ASSUME NEW cands, NEW edges, NEW done, NEW busy, NEW capacity
  PROVE  LET R == SelectRunnable(cands, edges, done, busy, capacity)
         IN  /\ R \subseteq DOMAIN cands
             /\ \A t \in R : \A g \in busy : ~GlobsOverlap(cands[t].touches, g)
             /\ \A t, u \in R : t # u => ~GlobsOverlap(cands[t].touches, cands[u].touches)
<1> DEFINE Fine(R) == /\ R \subseteq DOMAIN cands
                      /\ \A t \in R : \A g \in busy : ~GlobsOverlap(cands[t].touches, g)
                      /\ \A t, u \in R : t # u => ~GlobsOverlap(cands[t].touches, cands[u].touches)
           Pick(run, n) == {t \in {n} : Admits(cands, edges, done, busy, capacity, run, t)}
<1>0. PICK f : Selects(f, cands, edges, done, busy, capacity)
  BY SelectUnfolds
<1>1. /\ f[0] = {}
      /\ \A n \in 1..MaxTickets : f[n] = f[n - 1] \union Pick(f[n - 1], n)
      /\ SelectRunnable(cands, edges, done, busy, capacity) = f[MaxTickets]
  BY <1>0 DEF Selects
<1>2. ASSUME NEW n, NEW R, Fine(R)
      PROVE  Fine(R \union Pick(R, n))
  <2>1. CASE Pick(R, n) = {}
    BY <1>2, <2>1
  <2>2. CASE Pick(R, n) # {}
    <3>1. Pick(R, n) = {n} /\ Admits(cands, edges, done, busy, capacity, R, n)
      BY <2>2
    <3>2. n \in DOMAIN cands /\ \A g \in busy \union {cands[r].touches : r \in R} : ~GlobsOverlap(cands[n].touches, g)
      BY <3>1 DEF Admits
    <3>3. \A r \in R : ~GlobsOverlap(cands[n].touches, cands[r].touches) /\ ~GlobsOverlap(cands[r].touches, cands[n].touches)
      BY <3>2, OverlapSym
    <3>4. Fine(R \union {n})
      BY <1>2, <3>2, <3>3
    <3> QED  BY <3>1, <3>4
  <2> QED  BY <2>1, <2>2
<1> DEFINE Off == {n \in 0..MaxTickets : ~Fine(f[n])}
<1>3. Off = {}
  <2> SUFFICES ASSUME Off # {} PROVE FALSE
    OBVIOUS
  <2>1. PICK m \in Off : \A k \in Off : m =< k
    <3>1. Off \in SUBSET Nat
      BY TicketNat
    <3> HIDE DEF Off
    <3> QED  BY <3>1, Least
  <2>2. m \in 0..MaxTickets /\ ~Fine(f[m])
    BY <2>1
  <2>3. Fine(f[0])
    BY <1>1
  <2> HIDE DEF Fine
  <2>4. m \in 1..MaxTickets /\ m - 1 \in 0..MaxTickets /\ ~(m =< m - 1)
    BY <2>2, <2>3, TicketNat
  <2>5. Fine(f[m - 1])
    BY <2>1, <2>4
  <2>6. Fine(f[m])
    <3> HIDE DEF Pick
    <3> QED  BY <1>1, <1>2, <2>4, <2>5
  <2> QED  BY <2>2, <2>6
<1>4. Fine(f[MaxTickets])
  <2> HIDE DEF Fine
  <2> QED  BY <1>3, TicketNat
<1> QED  BY <1>1, <1>4

\* With nothing in the way, and a candidate whose dependences are done, some one is selected.
LEMMA SelectedSome ==
  ASSUME NEW cands, NEW edges, NEW done, NEW capacity \in Nat \ {0},
         NEW t \in Ticket, t \in DOMAIN cands, WaitsFor(edges, t) \subseteq done
  PROVE  SelectRunnable(cands, edges, done, {}, capacity) # {}
<1> DEFINE Pick(run, n) == {u \in {n} : Admits(cands, edges, done, {}, capacity, run, u)}
<1>0. PICK f : Selects(f, cands, edges, done, {}, capacity)
  BY SelectUnfolds
<1>1. /\ f[0] = {}
      /\ \A n \in 1..MaxTickets : f[n] = f[n - 1] \union Pick(f[n - 1], n)
      /\ SelectRunnable(cands, edges, done, {}, capacity) = f[MaxTickets]
  BY <1>0 DEF Selects
<1>2. t \in Pick({}, t)
  <2>1. Cardinality({}) < capacity
    BY FS_EmptySet
  <2> QED  BY <2>1 DEF Admits
<1> DEFINE Off == {n \in t..MaxTickets : f[n] = {}}
<1>3. Off = {}
  <2> SUFFICES ASSUME Off # {} PROVE FALSE
    OBVIOUS
  <2>1. PICK m \in Off : \A k \in Off : m =< k
    <3>1. Off \in SUBSET Nat
      BY TicketNat
    <3> HIDE DEF Off
    <3> QED  BY <3>1, Least
  <2>2. m \in t..MaxTickets /\ f[m] = {} /\ m \in 1..MaxTickets
    BY <2>1 DEF Ticket
  <2> HIDE DEF Pick
  <2>3. f[m] = f[m - 1] \union Pick(f[m - 1], m)
    BY <1>1, <2>2
  <2>4. f[m - 1] = {}
    BY <2>2, <2>3
  <2>5. m # t
    BY <1>2, <2>2, <2>3, <2>4
  <2>6. m - 1 \in t..MaxTickets /\ ~(m =< m - 1)
    BY <2>2, <2>5, TicketNat
  <2> QED  BY <2>1, <2>4, <2>6
<1> QED  BY <1>1, <1>3, TicketNat DEF Ticket

\* No set of tickets waits for itself.
Grounded(edges) == \A S \in SUBSET Ticket : S # {} => \E t \in S : WaitsFor(edges, t) \intersect S = {}

Fan(t, U) == {<<t, u>> : u \in U}

LEMMA WaitsMore ==
  ASSUME NEW edges, NEW t, NEW U, NEW x, NEW y
  PROVE  y \in WaitsFor(edges \union Fan(t, U), x) <=> (y \in WaitsFor(edges, x) \/ (x = t /\ y \in U))
<1> DEFINE new == Fan(t, U)
<1>1. \A E : y \in WaitsFor(E, x) <=> \E e \in E : e[1] = x /\ e[2] = y
  BY DEF WaitsFor
<1>2. (\E e \in new : e[1] = x /\ e[2] = y) <=> (x = t /\ y \in U)
  <2> USE DEF Fan
  <2>1. ASSUME NEW e \in new, e[1] = x /\ e[2] = y
        PROVE  x = t /\ y \in U
    <3>1. PICK u \in U : e = <<t, u>>
      BY <2>1
    <3> QED  BY <2>1, <3>1
  <2>2. ASSUME y \in U
        PROVE  \E e \in new : e[1] = t /\ e[2] = y
    <3>1. <<t, y>> \in new /\ <<t, y>>[1] = t /\ <<t, y>>[2] = y
      BY <2>2
    <3> QED  BY <3>1
  <2> QED  BY <2>1, <2>2
<1> HIDE DEF new
<1>3. (\E e \in edges \union new : e[1] = x /\ e[2] = y)
         <=> ((\E e \in edges : e[1] = x /\ e[2] = y) \/ (\E e \in new : e[1] = x /\ e[2] = y))
  OBVIOUS
<1>4. y \in WaitsFor(edges \union new, x) <=> \E e \in edges \union new : e[1] = x /\ e[2] = y
  BY <1>1
<1>5. y \in WaitsFor(edges, x) <=> \E e \in edges : e[1] = x /\ e[2] = y
  BY <1>1
<1> QED  BY <1>2, <1>3, <1>4, <1>5 DEF new

LEMMA WaitsIs ==
  ASSUME NEW edges, NEW t, NEW U
  PROVE  WaitsFor(edges \union Fan(t, U), t) = WaitsFor(edges, t) \union U
BY WaitsMore

LEMMA WaitsSame ==
  ASSUME NEW edges, NEW t, NEW U, NEW x, x # t
  PROVE  WaitsFor(edges \union Fan(t, U), x) = WaitsFor(edges, x)
<1>1. \A y : y \in WaitsFor(edges \union Fan(t, U), x) <=> y \in WaitsFor(edges, x)
  BY WaitsMore
<1> QED  BY <1>1

LEMMA WaitsExplicit ==
  ASSUME NEW cands, NEW t
  PROVE  WaitsFor(Explicit(cands), t) = IF t \in DOMAIN cands THEN cands[t].deps ELSE {}
<1>1. ASSUME NEW y \in WaitsFor(Explicit(cands), t)
      PROVE  t \in DOMAIN cands /\ y \in cands[t].deps
  <2>1. PICK e \in Explicit(cands) : e[1] = t /\ e[2] = y
    BY DEF WaitsFor
  <2>2. PICK x \in DOMAIN cands : e \in {<<x, d>> : d \in cands[x].deps}
    BY DEF Explicit
  <2>3. PICK d \in cands[x].deps : e = <<x, d>>
    BY <2>2
  <2> QED  BY <2>1, <2>3
<1>2. ASSUME t \in DOMAIN cands, NEW y \in cands[t].deps
      PROVE  y \in WaitsFor(Explicit(cands), t)
  <2>1. <<t, y>> \in Explicit(cands) /\ <<t, y>>[1] = t /\ <<t, y>>[2] = y
    BY <1>2 DEF Explicit
  <2> QED  BY <2>1 DEF WaitsFor
<1> QED  BY <1>1, <1>2

\* Edges out of t to where no walk leads back to t.
LEMMA GroundedMore ==
  ASSUME NEW edges, Grounded(edges), NEW t \in Ticket,
         NEW U \in SUBSET Ticket, \A u \in U : ~Reaches(edges, u, t)
  PROVE  Grounded(edges \union Fan(t, U))
<1> DEFINE R == {x \in Ticket : ~Reaches(edges, x, t)}
           more == edges \union Fan(t, U)
<1>1. t \notin R /\ U \subseteq R
  BY DEF Reaches
<1>2. ASSUME NEW x \in R
      PROVE  WaitsFor(edges, x) \subseteq R
  <2>1. PICK C \in SUBSET Ticket : x \in C /\ (\A y \in C : WaitsFor(edges, y) \subseteq C) /\ t \notin C
    BY DEF Reaches
  <2>2. \A y \in C : y \in Ticket /\ ~Reaches(edges, y, t)
    BY <2>1 DEF Reaches
  <2> QED  BY <2>1, <2>2
<1>3. SUFFICES ASSUME NEW S \in SUBSET Ticket, S # {}
               PROVE  \E x \in S : WaitsFor(more, x) \intersect S = {}
  BY DEF Grounded
<1>4. CASE S \intersect R # {}
  <2>1. PICK x \in S \intersect R : WaitsFor(edges, x) \intersect (S \intersect R) = {}
    BY <1>4 DEF Grounded
  <2>2. WaitsFor(edges, x) \intersect S = {}
    BY <1>2, <2>1
  <2>3. WaitsFor(more, x) = WaitsFor(edges, x)
    <3> HIDE DEF R
    <3> QED  BY <1>1, <2>1, WaitsSame
  <2> QED  BY <2>2, <2>3
<1>5. CASE S \intersect R = {}
  <2>1. PICK x \in S : WaitsFor(edges, x) \intersect S = {}
    BY <1>3 DEF Grounded
  <2>2. WaitsFor(more, x) \subseteq WaitsFor(edges, x) \union U
    <3> HIDE DEF R
    <3>1. CASE x = t
      BY <3>1, WaitsIs
    <3>2. CASE x # t
      BY <3>2, WaitsSame
    <3> QED  BY <3>1, <3>2
  <2> HIDE DEF R, more
  <2>3. U \intersect S = {}
    BY <1>1, <1>5
  <2> QED  BY <2>1, <2>2, <2>3
<1> QED  BY <1>4, <1>5

\* The derived edges come ticket by ticket.
Gained(cands, edges, n) == IF n \in DOMAIN cands THEN Implicit(cands, edges, n) ELSE {}
Derives(f, cands) ==
  /\ f[0] = Explicit(cands)
  /\ \A n \in 1..MaxTickets : f[n] = f[n - 1] \union Gained(cands, f[n - 1], n)
  /\ DeriveImplicitDeps(cands) = f[MaxTickets]

LEMMA DeriveUnfolds ==
  ASSUME NEW cands, DOMAIN cands \subseteq Ticket, \A t \in DOMAIN cands : cands[t].deps \subseteq Ticket
  PROVE  \E f : Derives(f, cands)
<1> DEFINE S == SUBSET (Ticket \X Ticket)
           step == [n \in Nat |-> [E \in S |-> E \union Gained(cands, E, n)]]
           Body(A, n) == UNION {edges \union (IF n \in DOMAIN cands THEN Implicit(cands, edges, n) ELSE {}) :
                                   edges \in {A[n - 1]}}
           f == CHOOSE A : A = [n \in 0..MaxTickets |-> IF n = 0 THEN Explicit(cands) ELSE Body(A, n)]
<1>1. Explicit(cands) \in S
  BY DEF Explicit
<1>2. \A n \in Nat : \A E \in S : E \union Gained(cands, E, n) \in S
  <2> SUFFICES ASSUME NEW n \in Nat, NEW E \in S
               PROVE  Gained(cands, E, n) \subseteq Ticket \X Ticket
    OBVIOUS
  <2>1. CASE n \in DOMAIN cands
    <3>1. Gained(cands, E, n) = Implicit(cands, E, n)
      BY <2>1 DEF Gained
    <3>2. ASSUME NEW e \in Implicit(cands, E, n)
          PROVE  \E u \in DOMAIN cands : e = <<n, u>>
      BY DEF Implicit
    <3> QED  BY <2>1, <3>1, <3>2
  <2>2. CASE n \notin DOMAIN cands
    BY <2>2 DEF Gained
  <2> QED  BY <2>1, <2>2
<1>3. step \in Steps(S) /\ \A n \in Nat : \A E \in S : step[n][E] = E \union Gained(cands, E, n)
  <2> HIDE DEF S
  <2> QED  BY <1>2 DEF Steps
<1>4. PICK A : Folds(A, S, Explicit(cands), MaxTickets, step)
  <2> HIDE DEF S, step
  <2> QED  BY <1>1, <1>3, FoldExists, TicketNat
<1>5. \A B, n : Body(B, n) = B[n - 1] \union Gained(cands, B[n - 1], n)
  BY DEF Gained
<1>6. A = [n \in 0..MaxTickets |-> IF n = 0 THEN Explicit(cands) ELSE Body(A, n)]
  <2> HIDE DEF S, step, Body
  <2> USE DEF Folds
  <2>1. \A n \in 1..MaxTickets : A[n - 1] \in S /\ n \in Nat
    BY <1>4, TicketNat
  <2>2. \A n \in 1..MaxTickets : A[n] = Body(A, n)
    BY <1>3, <1>4, <1>5, <2>1
  <2>3. \A n \in 0..MaxTickets : A[n] = IF n = 0 THEN Explicit(cands) ELSE Body(A, n)
    BY <1>4, <2>2, TicketNat
  <2> QED  BY <1>4, <2>3
<1>7. f = [n \in 0..MaxTickets |-> IF n = 0 THEN Explicit(cands) ELSE Body(f, n)]
  <2> HIDE DEF Body
  <2> QED  BY <1>6
<1>8. DeriveImplicitDeps(cands) = f[MaxTickets]
  BY DEF DeriveImplicitDeps
<1> HIDE DEF f, Body
<1>9. 0 \in 0..MaxTickets /\ \A n \in 1..MaxTickets : n \in 0..MaxTickets /\ n # 0
  BY TicketNat
<1>10. f[0] = Explicit(cands)
  BY <1>7, <1>9
<1>11. \A n \in 1..MaxTickets : f[n] = f[n - 1] \union Gained(cands, f[n - 1], n)
  BY <1>5, <1>7, <1>9
<1> QED  BY <1>8, <1>10, <1>11 DEF Derives

\* A derived edge leads to a candidate, and closes no cycle.
LEMMA DerivedGrounded ==
  ASSUME NEW cands, DOMAIN cands \subseteq Ticket, \A t \in DOMAIN cands : cands[t].deps \subseteq Ticket,
         Grounded(Explicit(cands))
  PROVE  LET D == DeriveImplicitDeps(cands)
         IN  /\ Grounded(D)
             /\ \A t \in DOMAIN cands : WaitsFor(D, t) \subseteq cands[t].deps \union DOMAIN cands
<1> DEFINE Fine(E) == /\ Grounded(E)
                      /\ \A t \in DOMAIN cands : WaitsFor(E, t) \subseteq cands[t].deps \union DOMAIN cands
<1>1. PICK f : Derives(f, cands)
  BY DeriveUnfolds
<1>2. Fine(f[0])
  BY <1>1, WaitsExplicit DEF Derives
<1>3. ASSUME NEW E, Fine(E), NEW n
      PROVE  Fine(E \union Gained(cands, E, n))
  <2>1. CASE n \notin DOMAIN cands
    <3>1. E \union Gained(cands, E, n) = E
      BY <2>1 DEF Gained
    <3> QED  BY <1>3, <3>1
  <2>2. CASE n \in DOMAIN cands
    <3>1. PICK U \in SUBSET DOMAIN cands : /\ Gained(cands, E, n) = Fan(n, U)
                                           /\ \A u \in U : ~Reaches(E, u, n)
      <4> DEFINE wanted == {u \in DOMAIN cands : /\ u < n /\ GlobsOverlap(cands[n].touches, cands[u].touches)
                                                  /\ <<n, u>> \notin E /\ ~Reaches(E, u, n)}
                 U == {u \in wanted : Cardinality({v \in wanted : v < u}) < MaxImplicit}
      <4>1. Gained(cands, E, n) = Fan(n, U)
        BY <2>2, Zenon DEF Gained, Implicit, Fan
      <4>2. U \in SUBSET DOMAIN cands /\ \A u \in U : ~Reaches(E, u, n)
        OBVIOUS
      <4> HIDE DEF U
      <4> QED  BY <4>1, <4>2
    <3>2. Grounded(E \union Fan(n, U))
      BY <1>3, <2>2, <3>1, GroundedMore
    <3>3. ASSUME NEW t \in DOMAIN cands
          PROVE  WaitsFor(E \union Fan(n, U), t) \subseteq cands[t].deps \union DOMAIN cands
      <4>1. CASE t = n
        BY <1>3, <4>1, WaitsIs
      <4>2. CASE t # n
        BY <1>3, <4>2, WaitsSame
      <4> QED  BY <4>1, <4>2
    <3> QED  BY <3>1, <3>2, <3>3
  <2> QED  BY <2>1, <2>2
<1> DEFINE Off == {n \in 0..MaxTickets : ~Fine(f[n])}
<1>4. Off = {}
  <2> SUFFICES ASSUME Off # {} PROVE FALSE
    OBVIOUS
  <2>1. PICK m \in Off : \A k \in Off : m =< k
    <3>1. Off \in SUBSET Nat
      BY TicketNat
    <3> HIDE DEF Off
    <3> QED  BY <3>1, Least
  <2> HIDE DEF Fine
  <2>2. m \in 0..MaxTickets /\ ~Fine(f[m])
    BY <2>1
  <2>3. m \in 1..MaxTickets /\ m - 1 \in 0..MaxTickets /\ ~(m =< m - 1)
    BY <1>2, <2>2, TicketNat
  <2>4. Fine(f[m - 1])
    BY <2>1, <2>3
  <2>5. Fine(f[m])
    BY <1>1, <1>3, <2>3, <2>4 DEF Derives
  <2> QED  BY <2>2, <2>5
<1>5. Fine(f[MaxTickets])
  <2> HIDE DEF Fine
  <2> QED  BY <1>4, TicketNat
<1> QED  BY <1>1, <1>5 DEF Derives

-----------------------------------------------------------------------------
(* The board calls of the passes. *)

LEMMA CallIs ==
  ASSUME NEW op \in CallOps, NEW t \in Ticket, NEW arg \in Args, NEW strict \in BOOLEAN
  PROVE  LET c == Call(op, t, arg, strict)
         IN  c \in Calls /\ c.op = op /\ c.t = t /\ c.arg = arg /\ (c.strict <=> strict)
BY DEF Call, Calls

LEMMA AddIs ==
  ASSUME NEW t \in Ticket, NEW l \in Labels
  PROVE  LET c == Add(t, l)
         IN  c \in Calls /\ c.op = "label" /\ c.t = t /\ c.arg = l /\ ~c.strict
<1>1. "label" \in CallOps /\ l \in Args /\ FALSE \in BOOLEAN
  BY DEF CallOps, Args
<1> QED  BY <1>1 DEF Add, Call, Calls

LEMMA DropIs ==
  ASSUME NEW t \in Ticket, NEW l \in Labels
  PROVE  LET c == Drop(t, l)
         IN  c \in Calls /\ c.op = "unlabel" /\ c.t = t /\ c.arg = l /\ ~c.strict
<1>1. "unlabel" \in CallOps /\ l \in Args /\ FALSE \in BOOLEAN
  BY DEF CallOps, Args
<1> QED  BY <1>1 DEF Drop, Call, Calls

LEMMA MoveIs ==
  ASSUME NEW t \in Ticket, NEW l \in Lanes
  PROVE  LET c == Move(t, l)
         IN  c \in Calls /\ c.op = "move" /\ c.t = t /\ c.arg = l /\ ~c.strict
<1>1. "move" \in CallOps /\ l \in Args /\ FALSE \in BOOLEAN
  BY DEF CallOps, Args
<1> QED  BY <1>1 DEF Move, Call, Calls

LEMMA StrictlyIs ==
  ASSUME NEW c \in Calls
  PROVE  LET d == Strictly(c)
         IN  d \in Calls /\ d.op = c.op /\ d.t = c.t /\ d.arg = c.arg /\ d.strict = TRUE
BY DEF Strictly, Calls

LEMMA HoldLaneIs ==
  ASSUME NEW kind \in {"blocked", "needs_human"}
  PROVE  HoldLane(kind) \in MoveLanes /\ HoldLane(kind) \in Lanes
BY DEF HoldLane, MoveLanes, Lanes

\* A list that files nothing, closes nothing out, and hands nothing over by a strict call.
Plain(t, cs) ==
  /\ cs \in Seq(Calls)
  /\ \A i \in 1..Len(cs) : cs[i].t = t /\ Proper(cs[i]) /\ cs[i].op # "create" /\ ~Adds(cs[i], "Stewarded")
  /\ (\A i \in 1..Len(cs) : ~cs[i].strict) \/ (\A i \in 1..Len(cs) : ~HandsOver(cs[i]))

LEMMA PlainChain ==
  ASSUME NEW t, NEW cs, Plain(t, cs)
  PROVE  Chain(t, cs)
BY DEF Plain, Chain, Link, Files

\* Two calls, neither strict.
LEMMA PairPlain ==
  ASSUME NEW t, NEW a \in Calls, NEW b \in Calls, a.t = t, b.t = t, Proper(a), Proper(b),
         a.op # "create", b.op # "create", ~Adds(a, "Stewarded"), ~Adds(b, "Stewarded"),
         ~a.strict, ~b.strict
  PROVE  Plain(t, <<a, b>>) /\ \A i \in 1..Len(<<a, b>>) : ~<<a, b>>[i].strict
<1> DEFINE cs == <<a, b>>
<1>1. cs \in Seq(Calls) /\ Len(cs) = 2 /\ cs[1] = a /\ cs[2] = b
  OBVIOUS
<1> HIDE DEF cs
<1>2. \A i \in 1..Len(cs) : cs[i] = a \/ cs[i] = b
  BY <1>1
<1>3. Plain(t, cs) /\ \A i \in 1..Len(cs) : ~cs[i].strict
  BY <1>1, <1>2 DEF Plain
<1> QED  BY <1>3 DEF cs

\* A label and a move that put a ticket on hold.
LEMMA HoldIs ==
  ASSUME NEW t \in Ticket, NEW l \in HOLD_LABELS, NEW kind \in {"blocked", "needs_human"}
  PROVE  LET cs == <<Add(t, l), Move(t, HoldLane(kind))>>
         IN  Plain(t, cs) /\ cs # << >> /\ \A i \in 1..Len(cs) : ~cs[i].strict
<1> DEFINE a == Add(t, l)
           b == Move(t, HoldLane(kind))
<1>1. l \in Labels /\ l # "Stewarded"
  BY DEF Labels, HOLD_LABELS
<1>2. a \in Calls /\ a.op = "label" /\ a.t = t /\ a.arg = l /\ ~a.strict
  BY <1>1, AddIs
<1>3. b \in Calls /\ b.op = "move" /\ b.t = t /\ b.arg \in MoveLanes /\ ~b.strict
  <2>1. HoldLane(kind) \in MoveLanes /\ HoldLane(kind) \in Lanes
    BY HoldLaneIs
  <2> QED  BY <2>1, MoveIs
<1> HIDE DEF a, b
<1>4. Proper(a) /\ Proper(b) /\ ~Adds(a, "Stewarded") /\ ~Adds(b, "Stewarded")
  BY <1>1, <1>2, <1>3 DEF Proper, Adds
<1>5. Plain(t, <<a, b>>) /\ \A i \in 1..Len(<<a, b>>) : ~<<a, b>>[i].strict
  BY <1>2, <1>3, <1>4, PairPlain
<1> QED  BY <1>5 DEF a, b

LEMMA HoldsAre ==
  ASSUME NEW t \in Ticket, NEW cs \in {NeedsHumanCalls(t), ParkCalls(t), AwaitCalls(t)}
  PROVE  Plain(t, cs) /\ cs # << >> /\ \A i \in 1..Len(cs) : ~cs[i].strict
<1>1. {"NeedsHuman", "Parked", "Awaiting"} \subseteq HOLD_LABELS
  BY DEF HOLD_LABELS
<1>2. PICK l \in HOLD_LABELS, kind \in {"blocked", "needs_human"} : cs = <<Add(t, l), Move(t, HoldLane(kind))>>
  BY <1>1 DEF NeedsHumanCalls, ParkCalls, AwaitCalls
<1> QED  BY <1>2, HoldIs, Zenon

LEMMA UpgradeIs ==
  ASSUME NEW t \in Ticket
  PROVE  Plain(t, UpgradeCalls(t)) /\ UpgradeCalls(t) # << >>
<1> DEFINE a == Call("describe", t, "epic", TRUE)
           b == Drop(t, "Intake")
           d == Add(t, "Epic")
           cs == <<a, b, d>>
<1>1. {"Intake", "Epic"} \subseteq Labels /\ "epic" \in Args /\ "describe" \in CallOps
  BY DEF Labels, Args, Metas, CallOps
<1>2. a \in Calls /\ a.op = "describe" /\ a.t = t /\ a.arg = "epic"
  BY <1>1 DEF Call, Calls
<1>3. b \in Calls /\ b.op = "unlabel" /\ b.t = t /\ b.arg = "Intake" /\ ~b.strict
  BY <1>1, DropIs
<1>4. d \in Calls /\ d.op = "label" /\ d.t = t /\ d.arg = "Epic" /\ ~d.strict
  BY <1>1, AddIs
<1> HIDE DEF a, b, d
<1>5. cs \in Seq(Calls) /\ Len(cs) = 3 /\ cs[1] = a /\ cs[2] = b /\ cs[3] = d
  BY <1>2, <1>3, <1>4
<1> HIDE DEF cs
<1>6. \A i \in 1..Len(cs) : cs[i] = a \/ cs[i] = b \/ cs[i] = d
  BY <1>5
<1>7. \A i \in 1..Len(cs) : cs[i].t = t /\ Proper(cs[i]) /\ cs[i].op # "create" /\ ~Adds(cs[i], "Stewarded")
                                /\ ~HandsOver(cs[i])
  BY <1>1, <1>2, <1>3, <1>4, <1>6 DEF Proper, Adds, HandsOver
<1>8. Plain(t, cs)
  BY <1>5, <1>7 DEF Plain
<1>9. cs # << >>
  BY <1>5
<1> QED  BY <1>8, <1>9 DEF cs, a, b, d, UpgradeCalls

LEMMA DoneIs ==
  ASSUME NEW t \in Ticket
  PROVE  Plain(t, <<Strictly(Move(t, "done"))>>)
<1> DEFINE a == Strictly(Move(t, "done"))
           cs == <<a>>
<1>1. "done" \in Lanes /\ "done" \in MoveLanes
  BY DEF Lanes, MoveLanes
<1>2. Move(t, "done") \in Calls /\ Move(t, "done").op = "move" /\ Move(t, "done").t = t /\ Move(t, "done").arg = "done"
  BY <1>1, MoveIs
<1>3. a \in Calls /\ a.op = "move" /\ a.t = t /\ a.arg = "done"
  BY <1>2, StrictlyIs
<1> HIDE DEF a
<1>4. cs \in Seq(Calls) /\ Len(cs) = 1 /\ cs[1] = a
  BY <1>3
<1> HIDE DEF cs
<1>5. \A i \in 1..Len(cs) : cs[i] = a
  BY <1>4
<1>6. Proper(a) /\ ~Adds(a, "Stewarded") /\ ~HandsOver(a)
  BY <1>1, <1>3 DEF Proper, Adds, HandsOver
<1>7. Plain(t, cs)
  BY <1>3, <1>4, <1>5, <1>6 DEF Plain
<1> QED  BY <1>7 DEF cs, a

LEMMA CloseoutFailedIs ==
  ASSUME NEW t \in Ticket
  PROVE  LET cs == CloseoutFailed(t)
         IN  /\ Chain(t, cs) /\ cs # << >>
             /\ \A i \in 1..Len(cs) : ~cs[i].strict /\ cs[i].op # "create"
             /\ \E i \in 1..Len(cs) : HandsOver(cs[i])
<1> DEFINE a == Add(t, "Stewarded")
           b == Add(t, "NeedsHuman")
           d == Move(t, HoldLane("needs_human"))
           cs == <<a, b, d>>
<1>1. {"Stewarded", "NeedsHuman"} \subseteq Labels /\ HoldLane("needs_human") \in MoveLanes \intersect Lanes
  BY HoldLaneIs DEF Labels, HOLD_LABELS
<1>2. a \in Calls /\ a.op = "label" /\ a.t = t /\ a.arg = "Stewarded" /\ ~a.strict
  BY <1>1, AddIs
<1>3. b \in Calls /\ b.op = "label" /\ b.t = t /\ b.arg = "NeedsHuman" /\ ~b.strict
  BY <1>1, AddIs
<1>4. d \in Calls /\ d.op = "move" /\ d.t = t /\ d.arg \in MoveLanes /\ ~d.strict
  BY <1>1, MoveIs
<1> HIDE DEF a, b, d
<1>5. cs \in Seq(Calls) /\ Len(cs) = 3 /\ cs[1] = a /\ cs[2] = b /\ cs[3] = d
  BY <1>2, <1>3, <1>4
<1> HIDE DEF cs
<1>6. \A i \in 1..Len(cs) : (i = 1 /\ cs[i] = a) \/ cs[i] = b \/ cs[i] = d
  BY <1>5
<1>7. \A i \in 1..Len(cs) : cs[i].t = t /\ Proper(cs[i]) /\ cs[i].op # "create" /\ ~cs[i].strict
  BY <1>1, <1>2, <1>3, <1>4, <1>6 DEF Proper
<1>8. 2 \in 1..Len(cs) /\ HandsOver(cs[2])
  BY <1>3, <1>5 DEF HandsOver, Adds
<1>9. ASSUME NEW i \in 1..Len(cs), Adds(cs[i], "Stewarded")
      PROVE  \E j \in i + 1..Len(cs) : HandsOver(cs[j])
  <2>1. i = 1
    BY <1>3, <1>4, <1>6, <1>9 DEF Adds
  <2> QED  BY <1>5, <1>8, <2>1
<1>10. Chain(t, cs)
  BY <1>5, <1>7, <1>9 DEF Chain, Link, Files
<1>11. cs # << >>
  BY <1>5
<1> QED  BY <1>7, <1>8, <1>10, <1>11 DEF cs, a, b, d, CloseoutFailed

LEMMA BootstrapIs ==
  ASSUME NEW t \in Ticket
  PROVE  LET cs == BootstrapCalls(t)
         IN  /\ Chain(t, cs) /\ cs # << >>
             /\ \A i \in 1..Len(cs) : /\ ~cs[i].strict
                                      /\ cs[i].op = "create" => Files(cs[i], "build")
<1> DEFINE order == [meta |-> "epic", spec |-> NoSpec, writes |-> {}, why |-> "build"]
           a == Create(t, order, FALSE)
           b == Call("link", t, 0, FALSE)
           d == Add(t, "Planned")
           e == Drop(t, "Bootstrap")
           g == Move(t, "working")
           cs == <<a, b, d, e, g>>
<1>1. {"Planned", "Bootstrap"} \subseteq Labels /\ "working" \in MoveLanes \intersect Lanes
  BY DEF Labels, HOLD_LABELS, MoveLanes, Lanes
<1>2. order \in Orders /\ order.writes \subseteq order.spec.touches /\ order.why = "build"
  BY DEF Orders, Contents, NoSpec
<1> HIDE DEF order
<1>3. a \in Calls /\ a.op = "create" /\ a.t = t /\ a.arg = order /\ ~a.strict
  <2>1. "create" \in CallOps /\ order \in Args
    BY <1>2 DEF CallOps, Args
  <2> QED  BY <2>1 DEF Create, Call, Calls
<1>4. b \in Calls /\ b.op = "link" /\ b.t = t /\ ~b.strict
  <2>1. "link" \in CallOps /\ 0 \in Args
    BY DEF CallOps, Args
  <2> QED  BY <2>1, CallIs
<1>5. d \in Calls /\ d.op = "label" /\ d.t = t /\ d.arg = "Planned" /\ ~d.strict
  BY <1>1, AddIs
<1>6. e \in Calls /\ e.op = "unlabel" /\ e.t = t /\ e.arg = "Bootstrap" /\ ~e.strict
  BY <1>1, DropIs
<1>7. g \in Calls /\ g.op = "move" /\ g.t = t /\ g.arg = "working" /\ ~g.strict
  BY <1>1, MoveIs
<1> HIDE DEF a, b, d, e, g
<1>8. cs \in Seq(Calls) /\ Len(cs) = 5 /\ cs[1] = a /\ cs[2] = b /\ cs[3] = d /\ cs[4] = e /\ cs[5] = g
  BY <1>3, <1>4, <1>5, <1>6, <1>7
<1> HIDE DEF cs
<1>9. \A i \in 1..Len(cs) : (i = 1 /\ cs[i] = a) \/ cs[i] \in {b, d, e, g}
  BY <1>8
<1>10. \A x \in {b, d, e, g} : x.t = t /\ Proper(x) /\ x.op # "create" /\ ~x.strict /\ ~Adds(x, "Stewarded") /\ ~HandsOver(x)
  BY <1>1, <1>4, <1>5, <1>6, <1>7 DEF Proper, Adds, HandsOver
<1>11. /\ a.t = t /\ Proper(a) /\ ~a.strict /\ ~Adds(a, "Stewarded") /\ ~HandsOver(a)
       /\ Files(a, "build") /\ ~Files(a, "plan") /\ ~Files(a, "followup")
  BY <1>2, <1>3 DEF Proper, Adds, HandsOver, Files
<1>12. \A x \in {b, d, e, g} : ~Files(x, "build") /\ ~Files(x, "plan") /\ ~Files(x, "followup")
  BY <1>10 DEF Files
<1>13. Chain(t, cs)
  BY <1>8, <1>9, <1>10, <1>11, <1>12 DEF Chain, Link
<1>14. \A i \in 1..Len(cs) : ~cs[i].strict /\ (cs[i].op = "create" => Files(cs[i], "build"))
  <2> TAKE i \in 1..Len(cs)
  <2> QED  BY <1>9, <1>10, <1>11
<1>15. cs # << >>
  BY <1>8
<1> QED  BY <1>13, <1>14, <1>15 DEF cs, a, b, d, e, g, order, BootstrapCalls

\* Children, and the calls that end their pass.
LEMMA FilingChain ==
  ASSUME NEW t \in Ticket, NEW why \in {"plan", "followup"}, NEW cs \in Seq(Calls),
         NEW n \in Nat, n < Len(cs),
         \A i \in 1..n : /\ cs[i].t = t /\ Proper(cs[i]) /\ cs[i].strict
                         /\ Files(cs[i], why),
         \A i \in n + 1..Len(cs) : cs[i].t = t /\ Proper(cs[i]) /\ cs[i].op # "create" /\ ~HandsOver(cs[i]),
         \A i \in n + 1..Len(cs) : Adds(cs[i], "Stewarded") => cs[i].strict,
         \E j \in n + 1..Len(cs) : Adds(cs[j], IF why = "plan" THEN "Planned" ELSE "Stewarded")
  PROVE  Chain(t, cs) /\ cs # << >>
<1>1. \A i \in 1..Len(cs) : i \in 1..n \/ i \in n + 1..Len(cs)
  OBVIOUS
<1>2. ASSUME NEW i \in 1..n
      PROVE  Link(t, cs, i)
  <2>1. cs[i].op = "create" /\ cs[i].arg.why = why
    BY DEF Files
  <2>2. \E j \in i + 1..Len(cs) : Adds(cs[j], IF why = "plan" THEN "Planned" ELSE "Stewarded")
    OBVIOUS
  <2> QED  BY <2>1, <2>2 DEF Link, Files, Adds, HandsOver
<1>3. ASSUME NEW i \in n + 1..Len(cs)
      PROVE  Link(t, cs, i)
  <2>1. cs[i].t = t /\ Proper(cs[i]) /\ cs[i].op # "create" /\ ~HandsOver(cs[i])
    OBVIOUS
  <2>2. Adds(cs[i], "Stewarded") => cs[i].strict
    OBVIOUS
  <2> QED  BY <2>1, <2>2 DEF Link, Files
<1>4. cs # << >>
  OBVIOUS
<1> QED  BY <1>1, <1>2, <1>3, <1>4 DEF Chain

LEMMA TaskIs ==
  ASSUME NEW c \in Contents, NEW why \in {"plan", "followup"}, c.mentions \subseteq c.touches
  PROVE  LET o == TaskOf(c, why)
         IN  o \in Orders /\ o.writes \subseteq o.spec.touches /\ o.why = why
<1>1. c.touches \subseteq Globs /\ c.touches \union c.mentions = c.touches
  BY DEF Contents
<1> QED  BY <1>1 DEF TaskOf, Orders

LEMMA GlueIs ==
  ASSUME NEW c \in Specs
  PROVE  LET g == WithGlue(c)
         IN  g \in Contents /\ g.mentions \subseteq g.touches /\ g.mentions = c.mentions
<1>1. c.touches \union c.mentions \subseteq Globs /\ c.mentions \subseteq Globs
  BY PlanningAssumption DEF Specs
<1> QED  BY <1>1 DEF WithGlue, Contents, Specs

LEMMA FileIs ==
  ASSUME NEW t \in Ticket, NEW g \in Contents, NEW why \in {"plan", "followup"}, g.mentions \subseteq g.touches
  PROVE  LET c == Create(t, TaskOf(g, why), TRUE)
         IN  c \in Calls /\ c.t = t /\ Proper(c) /\ c.strict /\ Files(c, why)
<1> DEFINE o == TaskOf(g, why)
<1>1. o \in Orders /\ o.writes \subseteq o.spec.touches /\ o.why = why
  BY TaskIs
<1> HIDE DEF o
<1>2. LET c == Create(t, o, TRUE)
      IN  c \in Calls /\ c.op = "create" /\ c.t = t /\ c.arg = o /\ c.strict
  <2>1. "create" \in CallOps /\ o \in Args
    BY <1>1 DEF CallOps, Args
  <2> QED  BY <2>1 DEF Create, Call, Calls
<1>3. LET c == Create(t, o, TRUE)
      IN  c \in Calls /\ c.t = t /\ Proper(c) /\ c.strict /\ Files(c, why)
  BY <1>1, <1>2 DEF Proper, Files
<1> QED  BY <1>3 DEF o

LEMMA CloseoutIs ==
  ASSUME NEW t \in Ticket, NEW f \in FollowUps
  PROVE  LET cs == CloseoutCalls(t, f)
         IN  /\ Chain(t, cs) /\ cs # << >>
             /\ \A i \in 1..Len(cs) : cs[i].op = "create" => Files(cs[i], "followup")
<1> DEFINE child(i) == Create(t, TaskOf(WithGlue(f[i]), "followup"), TRUE)
           front == [i \in DOMAIN f |-> child(i)]
           a == Call("comment", t, 0, TRUE)
           b == Strictly(Add(t, "Stewarded"))
           cs == front \o <<a, b>>
<1>1. f \in Seq(Specs) /\ Len(f) \in Nat
  BY PlanningAssumption
<1>2. ASSUME NEW i \in 1..Len(f)
      PROVE  child(i) \in Calls /\ child(i).t = t /\ Proper(child(i)) /\ child(i).strict /\ Files(child(i), "followup")
  <2>1. f[i] \in Specs
    BY <1>1
  <2>2. WithGlue(f[i]) \in Contents /\ WithGlue(f[i]).mentions \subseteq WithGlue(f[i]).touches
    BY <2>1, GlueIs
  <2> QED  BY <2>2, FileIs
<1> HIDE DEF child
<1>3. front \in Seq(Calls) /\ Len(front) = Len(f) /\ \A i \in 1..Len(f) : front[i] = child(i)
  BY <1>1, <1>2
<1>4. a \in Calls /\ a.op = "comment" /\ a.t = t
  <2>1. "comment" \in CallOps /\ 0 \in Args
    BY DEF CallOps, Args
  <2> QED  BY <2>1, CallIs
<1>5. b \in Calls /\ b.op = "label" /\ b.t = t /\ b.arg = "Stewarded" /\ b.strict
  <2>1. "Stewarded" \in Labels
    BY DEF Labels
  <2>2. LET c == Add(t, "Stewarded") IN c \in Calls /\ c.op = "label" /\ c.t = t /\ c.arg = "Stewarded"
    BY <2>1, AddIs
  <2> QED  BY <2>2, StrictlyIs
<1> HIDE DEF front, a, b
<1>6. /\ cs \in Seq(Calls) /\ Len(cs) = Len(f) + 2
      /\ \A i \in 1..Len(f) : cs[i] = child(i)
      /\ cs[Len(f) + 1] = a /\ cs[Len(f) + 2] = b
  BY <1>1, <1>3, <1>4, <1>5
<1> HIDE DEF cs
<1>7. \A i \in 1..Len(f) : cs[i].t = t /\ Proper(cs[i]) /\ cs[i].strict /\ Files(cs[i], "followup")
  BY <1>2, <1>6
<1>8. \A i \in Len(f) + 1..Len(cs) : cs[i] = a \/ cs[i] = b
  BY <1>1, <1>6
<1>9. Proper(a) /\ Proper(b) /\ ~HandsOver(a) /\ ~HandsOver(b) /\ Adds(b, "Stewarded") /\ ~Adds(a, "Stewarded")
  BY <1>4, <1>5 DEF Proper, HandsOver, Adds, Labels
<1>10. /\ \A i \in Len(f) + 1..Len(cs) : cs[i].t = t /\ Proper(cs[i]) /\ cs[i].op # "create" /\ ~HandsOver(cs[i])
       /\ \A i \in Len(f) + 1..Len(cs) : Adds(cs[i], "Stewarded") => cs[i].strict
  BY <1>4, <1>5, <1>8, <1>9
<1>11. \E j \in Len(f) + 1..Len(cs) : Adds(cs[j], "Stewarded")
  BY <1>1, <1>6, <1>9
<1>12. Chain(t, cs) /\ cs # << >>
  <2>1. "followup" \in {"plan", "followup"} /\ Len(f) < Len(cs)
    BY <1>1, <1>6
  <2> QED  BY <1>1, <1>6, <1>7, <1>10, <1>11, <2>1, FilingChain
<1>13. \A i \in 1..Len(cs) : i \in 1..Len(f) \/ i \in Len(f) + 1..Len(cs)
  BY <1>1, <1>6
<1>14. \A i \in 1..Len(cs) : cs[i].op = "create" => Files(cs[i], "followup")
  BY <1>7, <1>10, <1>13
<1> QED  BY <1>12, <1>14 DEF cs, front, child, a, b, CloseoutCalls

LEMMA PlanIs ==
  ASSUME NEW t \in Ticket, NEW p \in Plans
  PROVE  LET cs == PlanCalls(t, p)
         IN  /\ Chain(t, cs) /\ cs # << >>
             /\ \A i \in 1..Len(cs) : cs[i].op = "create" => Files(cs[i], "plan")
             /\ \A i \in 1..Len(cs) : ~Adds(cs[i], "Stewarded")
<1> DEFINE glued(i) == WithGlue(p[i])
           after(i) == {j \in 1..(i - 1) : GlobsOverlap(glued(i).touches, glued(j).touches)}
           content(i) == [glued(i) EXCEPT !.deps = @ \union after(i)]
           child(i) == Create(t, TaskOf(content(i), "plan"), TRUE)
           front == [i \in DOMAIN p |-> child(i)]
           a == Strictly(Add(t, "Planned"))
           b == Move(t, "working")
           cs == front \o <<a, b>>
<1>1. p \in Seq(Specs) /\ Len(p) \in Nat
  BY PlanningAssumption
<1>2. ASSUME NEW i \in 1..Len(p)
      PROVE  child(i) \in Calls /\ child(i).t = t /\ Proper(child(i)) /\ child(i).strict /\ Files(child(i), "plan")
  <2>1. p[i] \in Specs
    BY <1>1
  <2>2. glued(i) \in Contents /\ glued(i).mentions \subseteq glued(i).touches
    BY <2>1, GlueIs
  <2>3. after(i) \subseteq Nat
    OBVIOUS
  <2> HIDE DEF glued, after
  <2>4. content(i) \in Contents /\ content(i).mentions \subseteq content(i).touches
    BY <2>2, <2>3 DEF Contents
  <2> HIDE DEF content
  <2> QED  BY <2>4, FileIs
<1> HIDE DEF child
<1>3. front \in Seq(Calls) /\ Len(front) = Len(p) /\ \A i \in 1..Len(p) : front[i] = child(i)
  BY <1>1, <1>2
<1>4. a \in Calls /\ a.op = "label" /\ a.t = t /\ a.arg = "Planned"
  <2>1. "Planned" \in Labels
    BY DEF Labels, HOLD_LABELS
  <2>2. LET c == Add(t, "Planned") IN c \in Calls /\ c.op = "label" /\ c.t = t /\ c.arg = "Planned"
    BY <2>1, AddIs
  <2> QED  BY <2>2, StrictlyIs
<1>5. b \in Calls /\ b.op = "move" /\ b.t = t /\ b.arg = "working"
  <2>1. "working" \in Lanes
    BY DEF Lanes
  <2> QED  BY <2>1, MoveIs
<1> HIDE DEF front, a, b
<1>6. /\ cs \in Seq(Calls) /\ Len(cs) = Len(p) + 2
      /\ \A i \in 1..Len(p) : cs[i] = child(i)
      /\ cs[Len(p) + 1] = a /\ cs[Len(p) + 2] = b
  BY <1>1, <1>3, <1>4, <1>5
<1> HIDE DEF cs
<1>7. \A i \in 1..Len(p) : cs[i].t = t /\ Proper(cs[i]) /\ cs[i].strict /\ Files(cs[i], "plan")
  BY <1>2, <1>6
<1>8. \A i \in Len(p) + 1..Len(cs) : cs[i] = a \/ cs[i] = b
  BY <1>1, <1>6
<1>9. Proper(a) /\ Proper(b) /\ ~HandsOver(a) /\ ~HandsOver(b) /\ Adds(a, "Planned") /\ ~Adds(a, "Stewarded") /\ ~Adds(b, "Stewarded")
  BY <1>4, <1>5 DEF Proper, HandsOver, Adds, Labels, HOLD_LABELS, MoveLanes
<1>10. /\ \A i \in Len(p) + 1..Len(cs) : cs[i].t = t /\ Proper(cs[i]) /\ cs[i].op # "create" /\ ~HandsOver(cs[i])
       /\ \A i \in Len(p) + 1..Len(cs) : ~Adds(cs[i], "Stewarded")
  BY <1>4, <1>5, <1>8, <1>9
<1>11. \E j \in Len(p) + 1..Len(cs) : Adds(cs[j], "Planned")
  BY <1>1, <1>6, <1>9
<1>12. Chain(t, cs) /\ cs # << >>
  <2>1. "plan" \in {"plan", "followup"} /\ Len(p) < Len(cs)
    BY <1>1, <1>6
  <2> QED  BY <1>1, <1>6, <1>7, <1>10, <1>11, <2>1, FilingChain
<1>13. \A i \in 1..Len(cs) : i \in 1..Len(p) \/ i \in Len(p) + 1..Len(cs)
  BY <1>1, <1>6
<1>14. \A i \in 1..Len(cs) : cs[i].op = "create" => Files(cs[i], "plan")
  BY <1>7, <1>10, <1>13
<1>15. \A i \in 1..Len(cs) : ~Adds(cs[i], "Stewarded")
  BY <1>7, <1>10, <1>13 DEF Adds, Files
<1> QED  BY <1>12, <1>14, <1>15 DEF cs, front, child, content, after, glued, a, b, PlanCalls

-----------------------------------------------------------------------------
(* Steps of the tick that leave the board as it is. *)

Still == UNCHANGED <<board, calledOff, passes, cut, torn, closed, good>>

LEMMA OnwardIs ==
  ASSUME NEW q, NEW from \in {1, 2, 3}
  PROVE  \/ Onward(q, from) = "schedule"
         \/ /\ Onward(q, from) \in {"bootstrap", "idea", "epic"}
            /\ Routed(q, Onward(q, from)) # {}
            /\ from > 1 => Onward(q, from) # "bootstrap"
<1> DEFINE left == {r \in DOMAIN Place : Place[r] >= from /\ Routed(q, r) # {}}
<1>1. /\ DOMAIN Place = {"bootstrap", "idea", "epic"}
      /\ Place["bootstrap"] = 1 /\ Place["idea"] = 2 /\ Place["epic"] = 3
  BY DEF Place
<1>2. CASE left = {}
  BY <1>2 DEF Onward
<1>3. CASE left # {}
  <2> DEFINE first == CHOOSE r \in left : \A o \in left : Place[r] =< Place[o]
  <2>1. \A o \in left : o = "bootstrap" \/ o = "idea" \/ o = "epic"
    BY <1>1
  <2> HIDE DEF left
  <2>2. \E r \in left : \A o \in left : Place[r] =< Place[o]
    <3>1. CASE "bootstrap" \in left
      BY <1>1, <2>1, <3>1
    <3>2. CASE "bootstrap" \notin left /\ "idea" \in left
      BY <1>1, <2>1, <3>2
    <3>3. CASE "bootstrap" \notin left /\ "idea" \notin left
      BY <1>1, <1>3, <2>1, <3>3
    <3> QED  BY <3>1, <3>2, <3>3
  <2>3. first \in left
    BY <2>2
  <2>4. Onward(q, from) = first
    BY <1>3 DEF Onward, left
  <2> HIDE DEF first
  <2>5. first \in DOMAIN Place /\ Place[first] >= from /\ Routed(q, first) # {}
    BY <2>3 DEF left
  <2> QED  BY <1>1, <2>4, <2>5
<1> QED  BY <1>2, <1>3

LEMMA TickKeeps ==
  ASSUME IInv, tick.pc # "calls", Still, inFlight' = inFlight,
         repos \subseteq repos', repos' \subseteq Ticket, tick' \in Ticks,
         \A t \in DOMAIN tick'.queue : Exists(t) /\ tick'.queue[t].touches = board[t].touches
  PROVE  Typed' /\ Scheduled' /\ FiledWell' /\ ClosedWell' /\ Rooted'
<1> USE DEF Still, Exists
<1>1. \A t, l : ~Pending(t, l)
  BY DEF Pending
<1>2. Typed'
  BY DEF IInv, Typed
<1>3. Scheduled'
  BY DEF IInv, Scheduled
<1>4. FiledWell'
  <2>1. \A t \in Ticket : ~Exists(t)' => passes'[t].plan = 0 /\ passes'[t].followup = 0
    BY DEF IInv, FiledWell
  <2>2. \A t \in Ticket : passes'[t].build =< 1 /\ (t \notin repos' => passes'[t].build = 0)
    BY DEF IInv, FiledWell
  <2>3. ASSUME NEW t \in Ticket \ cut'
        PROVE  /\ passes'[t].plan =< 1 /\ (passes'[t].plan = 1 => "Planned" \in board'[t].labels)
               /\ passes'[t].followup =< 1
               /\ passes'[t].followup = 1 => "Stewarded" \in board'[t].labels
    BY <1>1 DEF IInv, FiledWell
  <2> QED  BY <2>1, <2>2, <2>3 DEF FiledWell
<1>5. ClosedWell'
  <2>1. \A t \in Ticket : "Stewarded" \in board'[t].labels /\ "NeedsHuman" \notin board'[t].labels => t \in good' \union torn'
    BY <1>1 DEF IInv, ClosedWell
  <2> QED  BY <2>1 DEF IInv, ClosedWell
<1>6. Rooted'
  BY DEF IInv, Rooted
<1> QED  BY <1>2, <1>3, <1>4, <1>5, <1>6

\* The tick sets out to make calls over t, and to go on from there.
Begun(t, calls, catch, then) ==
  /\ tick' \in Ticks
  /\ tick'.pc = "calls" /\ tick'.cur = t /\ tick'.calls = calls /\ tick'.catch = catch /\ tick'.then = then
  /\ tick'.queue = tick.queue /\ tick'.made = tick.made /\ tick'.filing = tick.filing
  /\ tick'.list \subseteq tick.list

LEMMA MakeKeeps ==
  ASSUME IInv, tick.pc # "calls", Still, inFlight' = inFlight,
         repos \subseteq repos', repos' \subseteq Ticket,
         NEW t \in Ticket, NEW calls, NEW catch, NEW then, Begun(t, calls, catch, then),
         Exists(t), t \notin calledOff,
         Chain(t, calls), calls # << >>, Chain(t, catch), Catches(calls, catch),
         \A i \in 1..Len(calls) :
            /\ Files(calls[i], "plan") => then = "schedule" /\ (t \notin cut => passes[t].plan = 0)
            /\ Files(calls[i], "followup") => (t \notin cut => passes[t].followup = 0)
            /\ Files(calls[i], "build") => t \in repos' /\ passes[t].build = 0,
         then \in {"idea", "epic", "schedule", "reconcile", "review", "epics"},
         then = "epics" => t \in good \union torn /\ tick.list \subseteq good \union torn,
         then \in {"idea", "epic"} =>
            /\ Routed(tick.queue, then) # {}
            /\ \A u \in Routed(tick.queue, "epic") : u \notin cut => passes[u].plan = 0
  PROVE  IInv'
<1> USE DEF Still
<1>1. tick.made = << >> /\ tick.filing = "none"
  BY DEF IInv, Placed
<1>2. Typed' /\ Scheduled' /\ FiledWell' /\ ClosedWell' /\ Rooted'
  <2>1. \A u \in DOMAIN tick'.queue : Exists(u) /\ tick'.queue[u].touches = board[u].touches
    BY DEF IInv, Scheduled, Begun
  <2>2. tick' \in Ticks
    BY DEF Begun
  <2> QED  BY <2>1, <2>2, TickKeeps
<1>3. Calling'
  <2>1. \A i \in 1..Len(calls) : Fresh(t, calls[i])'
    BY <1>1 DEF Fresh, Begun, Files
  <2>2. Exists(t)'
    BY DEF Exists
  <2>3. tick'.pc = "calls" /\ tick'.cur = t /\ tick'.calls = calls /\ tick'.catch = catch /\ tick'.then = then
    BY DEF Begun
  <2>4. t \in Ticket /\ (then = "epics" => t \in good' \union torn')
    OBVIOUS
  <2> QED  BY <2>1, <2>2, <2>3, <2>4 DEF Calling
<1>4. Placed'
  <2>1. Ahead' = then
    BY DEF Ahead, Begun
  <2>2. tick'.pc = "calls" /\ tick'.made = << >> /\ tick'.list \subseteq tick.list /\ tick'.queue = tick.queue
    BY <1>1 DEF Begun
  <2>3. \A u \in tick'.list : Exists(u)'
    BY <2>2 DEF IInv, Placed, Exists
  <2>4. Len(tick'.made) = 0
    BY <1>1, <2>2
  <2>5. then \in {"idea", "epic"} => Routed(tick'.queue, then) # {}
    BY <2>2
  <2>6. then \in {"idea", "epic"} => \A u \in Routed(tick'.queue, "epic") : u \notin cut' => passes'[u].plan = 0
    BY <2>2
  <2>7. then = "epics" => tick'.list \subseteq good' \union torn'
    BY <2>2
  <2> HIDE DEF Still
  <2> QED  BY <2>1, <2>2, <2>3, <2>4, <2>5, <2>6, <2>7 DEF Placed
<1>5. OffWell'
  BY DEF IInv, OffWell, Begun
<1> QED  BY <1>2, <1>3, <1>4, <1>5 DEF IInv

LEMMA MakeBegun ==
  ASSUME Typed, NEW t \in Ticket, NEW calls \in Seq(Calls), NEW catch \in Seq(Calls), NEW then \in Places,
         Make(t, calls, catch, then)
  PROVE  Begun(t, calls, catch, then)
<1>1. /\ "calls" \in Places /\ t \in 0..MaxTickets
      /\ tick.queue \in UNION {[Q -> Readings] : Q \in SUBSET Ticket}
      /\ tick.made \in Seq(Ticket) /\ tick.filing \in {"none", "begun"} /\ tick.list \in SUBSET Ticket
  BY TicketNat DEF Typed, Ticks, Places, Ticket
<1>2. tick' = [pc |-> "calls", queue |-> tick.queue, cur |-> t, calls |-> calls, catch |-> catch, then |-> then,
               made |-> tick.made, filing |-> tick.filing, list |-> tick.list]
  BY DEF Make, Typed, Ticks
<1>3. tick' \in Ticks
  BY <1>1, <1>2 DEF Ticks
<1> QED  BY <1>2, <1>3 DEF Begun

\* Lists that file nothing, with a catch list that only holds the ticket.
LEMMA PlainKeeps ==
  ASSUME IInv, tick.pc # "calls", Still, inFlight' = inFlight,
         repos \subseteq repos', repos' \subseteq Ticket,
         NEW t \in Ticket, NEW calls, NEW catch, NEW then,
         Make(t, calls, catch, then), Exists(t), t \notin calledOff,
         Plain(t, calls), calls # << >>,
         Plain(t, catch), \A i \in 1..Len(catch) : ~catch[i].strict,
         then \in {"idea", "epic", "schedule", "reconcile"},
         then \in {"idea", "epic"} =>
            /\ Routed(tick.queue, then) # {}
            /\ \A u \in Routed(tick.queue, "epic") : u \notin cut => passes[u].plan = 0
  PROVE  IInv'
<1>1. Chain(t, calls) /\ Chain(t, catch)
  BY PlainChain
<1>2. Begun(t, calls, catch, then)
  <2>1. then \in Places /\ calls \in Seq(Calls) /\ catch \in Seq(Calls)
    BY <1>1 DEF Places, Chain
  <2> QED  BY <2>1, MakeBegun DEF IInv
<1>3. Catches(calls, catch)
  BY DEF Plain, Catches
<1>4. \A i \in 1..Len(calls) : ~Files(calls[i], "plan") /\ ~Files(calls[i], "followup") /\ ~Files(calls[i], "build")
  BY DEF Plain, Files
<1> QED  BY <1>1, <1>2, <1>3, <1>4, MakeKeeps

LEMMA NothingPlain == \A t : Plain(t, << >>) /\ \A i \in 1..Len(<< >>) : ~<< >>[i].strict
BY DEF Plain

LEMMA QueuedIs ==
  ASSUME IInv, NEW r, Routed(tick.queue, r) # {}
  PROVE  LET t == Oldest(Routed(tick.queue, r))
         IN  t \in Ticket /\ t \in DOMAIN tick.queue /\ Exists(t) /\ t \notin calledOff /\ t \in Routed(tick.queue, r)
<1>1. DOMAIN tick.queue \subseteq Ticket
  BY DEF IInv, Typed, Ticks
<1>2. Routed(tick.queue, r) \in SUBSET Ticket /\ Routed(tick.queue, r) \subseteq DOMAIN tick.queue
  BY <1>1 DEF Routed
<1>3. Oldest(Routed(tick.queue, r)) \in Routed(tick.queue, r)
  BY <1>2, OldestIs
<1> QED  BY <1>2, <1>3 DEF IInv, Scheduled, OffWell

LEMMA FetchKeeps ==
  ASSUME IInv, Fetch
  PROVE  IInv'
<1> DEFINE q == [t \in {t \in Ticket : Claimable(t)} |-> ReadMeta(board[t])]
<1> USE DEF Hold
<1>1. /\ tick.pc = "idle" /\ tick' = [Resting EXCEPT !.queue = q, !.pc = Onward(q, 1)]
      /\ Still /\ inFlight' = inFlight /\ repos' = repos
  BY DEF Fetch, Still
<1>2. ASSUME NEW t \in Ticket, Claimable(t)
      PROVE  /\ Exists(t) /\ t \notin calledOff /\ "Planned" \notin board[t].labels
             /\ ReadMeta(board[t]) \in Readings /\ ReadMeta(board[t]).touches = board[t].touches
  <2>1. board[t] \in Tix
    BY DEF IInv, Typed
  <2>2. Route(board[t]) \in Metas
    BY DEF Route, Metas
  <2>3. ReadMeta(board[t]) \in Readings /\ ReadMeta(board[t]).touches = board[t].touches
    BY <2>1, <2>2 DEF ReadMeta, Readings, Tix
  <2>4. t \notin calledOff
    BY <1>2 DEF IInv, OffWell, Claimable
  <2>5. "Planned" \notin board[t].labels
    BY <1>2 DEF Claimable, Held, HOLD_LABELS
  <2>6. Exists(t)
    BY <1>2 DEF Claimable, Exists
  <2> QED  BY <2>3, <2>4, <2>5, <2>6
<1>3. /\ DOMAIN q \subseteq Ticket
      /\ \A t \in DOMAIN q : Claimable(t) /\ q[t] = ReadMeta(board[t]) /\ q[t] \in Readings
      /\ q \in UNION {[Q -> Readings] : Q \in SUBSET Ticket}
  <2>1. q \in [{t \in Ticket : Claimable(t)} -> Readings]
    BY <1>2
  <2> QED  BY <1>2, <2>1
<1> HIDE DEF q
<1>4. \/ Onward(q, 1) = "schedule"
      \/ Onward(q, 1) \in {"bootstrap", "idea", "epic"} /\ Routed(q, Onward(q, 1)) # {}
  BY OnwardIs
<1>5. /\ tick'.pc = Onward(q, 1) /\ tick'.queue = q /\ tick'.cur = 0 /\ tick'.list = {} /\ tick'.made = << >>
      /\ tick'.filing = "none" /\ tick'.catch = << >>
  BY <1>1 DEF Resting
<1>6. tick' \in Ticks
  <2>1. Onward(q, 1) \in Places /\ "idle" \in Places
    BY <1>4 DEF Places
  <2>2. 0 \in 0..MaxTickets
    BY TicketNat
  <2> HIDE DEF Hold
  <2>3. tick' = [pc |-> Onward(q, 1), queue |-> q, cur |-> 0, calls |-> << >>, catch |-> << >>,
                 then |-> "idle", made |-> << >>, filing |-> "none", list |-> {}]
    BY <1>1 DEF Resting
  <2> QED  BY <1>3, <2>1, <2>2, <2>3 DEF Ticks
<1>7. Typed' /\ Scheduled' /\ FiledWell' /\ ClosedWell' /\ Rooted'
  <2>1. \A t \in DOMAIN tick'.queue : Exists(t) /\ tick'.queue[t].touches = board[t].touches
    BY <1>2, <1>3, <1>5
  <2>2. repos \subseteq repos' /\ repos' \subseteq Ticket
    BY <1>1 DEF IInv, Typed
  <2> QED  BY <1>1, <1>6, <2>1, <2>2, TickKeeps
<1>8. Calling'
  BY <1>4, <1>5 DEF Calling
<1>9. ASSUME NEW t \in Routed(q, "epic"), t \notin cut
      PROVE  passes[t].plan = 0
  <2>1. t \in Ticket /\ "Planned" \notin board[t].labels
    BY <1>2, <1>3 DEF Routed
  <2>2. ~Pending(t, "Planned")
    BY <1>1 DEF Pending
  <2>3. passes[t].plan =< 1 /\ passes[t].plan # 1 /\ passes[t].plan \in Nat
    BY <1>9, <2>1, <2>2 DEF IInv, FiledWell, Typed, Passes
  <2> QED  BY <2>3
<1>10. Placed'
  <2>1. Ahead' = Onward(q, 1)
    BY <1>4, <1>5 DEF Ahead
  <2>2. \A t \in Routed(tick'.queue, "epic") : t \notin cut' => passes'[t].plan = 0
    BY <1>1, <1>5, <1>9 DEF Still
  <2> QED  BY <1>4, <1>5, <2>1, <2>2 DEF Placed
<1>11. OffWell'
  <2>1. \A t \in calledOff : t \in Ticket /\ t \notin DOMAIN q
    BY <1>2, <1>3 DEF IInv, Typed
  <2> QED  BY <1>1, <1>5, <2>1, TicketNat DEF IInv, OffWell, Still
<1> QED  BY <1>7, <1>8, <1>10, <1>11 DEF IInv

LEMMA EmptyIs ==
  ASSUME NEW S
  PROVE  DOMAIN << >> = {} /\ << >> \in UNION {[Q -> S] : Q \in SUBSET Ticket}
<1>1. << >> \in Seq(S) /\ Len(<< >>) = 0
  OBVIOUS
<1>2. DOMAIN << >> = {} /\ << >> = [i \in {} |-> << >>[i]]
  BY <1>1
<1>3. << >> \in [{} -> S] /\ {} \in SUBSET Ticket
  BY <1>2
<1> QED  BY <1>2, <1>3

\* The tick is then at place pc, with ticket cur in hand (or none).
Gone(pc, cur) ==
  /\ tick' \in Ticks
  /\ tick'.pc = pc /\ tick'.cur = cur
  /\ tick'.made = << >> /\ tick'.filing = "none" /\ tick'.catch = << >>
  /\ tick'.queue = tick.queue \/ DOMAIN tick'.queue = {}

LEMMA GoKeeps ==
  ASSUME IInv, tick.pc # "calls", Still, inFlight' = inFlight,
         repos \subseteq repos', repos' \subseteq Ticket,
         NEW pc \in {"idle", "scaffold", "schedule", "steward", "closeout", "reconcile", "review", "epics"},
         NEW cur, Gone(pc, cur), cur \notin calledOff,
         \A t \in tick'.list : Exists(t) /\ t \notin calledOff,
         pc = "scaffold" => /\ cur \in repos' /\ Exists(cur) /\ passes[cur].build = 0
                            /\ \A u \in Routed(tick'.queue, "epic") : u \notin cut => passes[u].plan = 0,
         pc = "closeout" => /\ cur \in Ticket /\ Exists(cur)
                            /\ cur \notin cut => passes[cur].followup = 0,
         pc \notin {"scaffold", "closeout"} => cur = 0,
         pc = "epics" => tick'.list \subseteq good \union torn
  PROVE  IInv'
<1> USE DEF Still
<1>1. Typed' /\ Scheduled' /\ FiledWell' /\ ClosedWell' /\ Rooted'
  <2>1. \A u \in DOMAIN tick'.queue : Exists(u) /\ tick'.queue[u].touches = board[u].touches
    BY DEF IInv, Scheduled, Gone
  <2>2. tick' \in Ticks
    BY DEF Gone
  <2> QED  BY <2>1, <2>2, TickKeeps
<1>2. Calling'
  BY DEF Calling, Gone
<1>3. Placed'
  <2>1. Ahead' = pc
    BY DEF Ahead, Gone
  <2>2. /\ tick'.pc = pc /\ tick'.cur = cur
        /\ tick'.made = << >> /\ tick'.filing = "none" /\ tick'.catch = << >>
    BY DEF Gone
  <2>3. \A u \in tick'.list : Exists(u)'
    BY DEF Exists
  <2>4. pc = "scaffold" => cur \in repos' /\ Exists(cur)' /\ passes'[cur].build = 0
    BY DEF Exists
  <2>5. pc = "closeout" => cur \in Ticket /\ Exists(cur)' /\ (cur \notin cut' => passes'[cur].followup = 0)
    BY DEF Exists
  <2>6. pc = "scaffold" => \A u \in Routed(tick'.queue, "epic") : u \notin cut' => passes'[u].plan = 0
    OBVIOUS
  <2>7. pc = "epics" => tick'.list \subseteq good' \union torn'
    OBVIOUS
  <2> HIDE DEF Still
  <2> QED  BY <2>1, <2>2, <2>3, <2>4, <2>5, <2>6, <2>7 DEF Placed
<1>4. OffWell'
  BY DEF IInv, OffWell, Gone
<1> QED  BY <1>1, <1>2, <1>3, <1>4 DEF IInv

Rested(pc, q, list) ==
  [pc |-> pc, queue |-> q, cur |-> 0, calls |-> << >>, catch |-> << >>,
   then |-> "idle", made |-> << >>, filing |-> "none", list |-> list]

LEMMA RestedGone ==
  ASSUME NEW pc \in Places, NEW list \in SUBSET Ticket, NEW q \in UNION {[Q -> Readings] : Q \in SUBSET Ticket},
         q = tick.queue \/ DOMAIN q = {}
  PROVE  tick' = Rested(pc, q, list) => Gone(pc, 0) /\ tick'.list = list /\ tick'.queue = q
<1>1. SUFFICES ASSUME tick' = Rested(pc, q, list)
               PROVE  Gone(pc, 0) /\ tick'.list = list /\ tick'.queue = q
  OBVIOUS
<1>3. "idle" \in Places /\ 0 \in 0..MaxTickets
  BY TicketNat DEF Places
<1>4. tick' \in Ticks
  BY <1>1, <1>3 DEF Ticks, Rested
<1> QED  BY <1>1, <1>4 DEF Gone, Rested

LEMMA RestingGone ==
  /\ tick' = Resting => Gone("idle", 0) /\ tick'.list = {}
  /\ tick' = [Resting EXCEPT !.pc = "steward"] => Gone("steward", 0) /\ tick'.list = {}
<1>1. PICK q : q = << >>
  OBVIOUS
<1>2. q \in UNION {[Q -> Readings] : Q \in SUBSET Ticket} /\ DOMAIN q = {}
  BY <1>1, EmptyIs
<1>3. "idle" \in Places /\ "steward" \in Places /\ {} \in SUBSET Ticket
  BY DEF Places
<1>4. Resting = Rested("idle", q, {})
  BY <1>1 DEF Resting, Rested
<1>5. ASSUME tick' = [Resting EXCEPT !.pc = "steward"]
      PROVE  tick' = Rested("steward", q, {})
  BY <1>1, <1>5 DEF Resting, Rested
<1>6. tick' = Rested("idle", q, {}) => Gone("idle", 0) /\ tick'.list = {}
  BY <1>2, <1>3, RestedGone
<1>7. tick' = Rested("steward", q, {}) => Gone("steward", 0) /\ tick'.list = {}
  BY <1>2, <1>3, RestedGone
<1> QED  BY <1>4, <1>5, <1>6, <1>7

LEMMA RestGone ==
  ASSUME Typed, NEW pc \in Places
  PROVE  tick' = Rest(pc) => Gone(pc, 0) /\ tick'.list = tick.list /\ tick'.queue = tick.queue
<1> DEFINE list == tick.list
           q == tick.queue
<1>1. list \in SUBSET Ticket /\ q \in UNION {[Q -> Readings] : Q \in SUBSET Ticket} /\ q = tick.queue
  BY DEF Typed, Ticks
<1>2. ASSUME tick' = Rest(pc)
      PROVE  tick' = Rested(pc, q, list)
  BY <1>2 DEF Rest, Resting, Rested
<1> HIDE DEF list, q
<1>3. tick' = Rested(pc, q, list) => Gone(pc, 0) /\ tick'.list = list /\ tick'.queue = q
  BY <1>1, RestedGone
<1> QED  BY <1>2, <1>3 DEF list, q

LEMMA GoneOn ==
  ASSUME IInv, tick.pc # "calls", NEW pc \in Places, NEW cur \in 0..MaxTickets, NEW list \in SUBSET Ticket,
         tick' = [tick EXCEPT !.pc = pc, !.cur = cur, !.list = list]
  PROVE  Gone(pc, cur) /\ tick'.list = list /\ tick'.queue = tick.queue
<1>1. tick \in Ticks /\ tick.made = << >> /\ tick.filing = "none" /\ tick.catch = << >>
  BY DEF IInv, Typed, Placed
<1>2. /\ tick'.pc = pc /\ tick'.cur = cur /\ tick'.list = list /\ tick'.queue = tick.queue
      /\ tick'.made = tick.made /\ tick'.filing = tick.filing /\ tick'.catch = tick.catch
  BY <1>1 DEF Ticks
<1>3. tick' \in Ticks
  BY <1>1 DEF Ticks
<1> QED  BY <1>1, <1>2, <1>3 DEF Gone

\* What is known where the tick takes a ticket from its queue.
LEMMA TakenIs ==
  ASSUME IInv, NEW r \in {"bootstrap", "idea", "epic"}, tick.pc = r
  PROVE  LET t == Oldest(Routed(tick.queue, r))
         IN  /\ t \in Ticket /\ Exists(t) /\ t \notin calledOff /\ t \in Routed(tick.queue, r)
             /\ \A u \in Routed(tick.queue, "epic") : u \notin cut => passes[u].plan = 0
<1>1. Ahead = r
  BY DEF Ahead
<1>2. Routed(tick.queue, r) # {} /\ \A u \in Routed(tick.queue, "epic") : u \notin cut => passes[u].plan = 0
  BY <1>1 DEF IInv, Placed
<1> QED  BY <1>2, QueuedIs

LEMMA BootstrapKeeps ==
  ASSUME IInv, Bootstrap
  PROVE  IInv'
<1> DEFINE t == Oldest(Routed(tick.queue, "bootstrap"))
           then == Onward(tick.queue, 2)
<1>1. tick.pc = "bootstrap" /\ Still /\ inFlight' = inFlight
  BY DEF Bootstrap, Still
<1>2. /\ t \in Ticket /\ Exists(t) /\ t \notin calledOff
      /\ \A u \in Routed(tick.queue, "epic") : u \notin cut => passes[u].plan = 0
  BY <1>1, TakenIs
<1>3. repos \subseteq Ticket
  BY DEF IInv, Typed
<1>4. then \in {"idea", "epic", "schedule"} /\ (then # "schedule" => Routed(tick.queue, then) # {})
  <2>1. 2 \in {1, 2, 3} /\ 2 > 1
    OBVIOUS
  <2> QED  BY <2>1, OnwardIs
<1>5. \/ Make(t, NeedsHumanCalls(t), << >>, then) /\ UNCHANGED repos
      \/ Make(t, ParkCalls(t), << >>, then) /\ repos' \in {repos, repos \union {t}}
      \/ t \notin repos /\ repos' = repos \union {t} /\ Go("scaffold", t)
  BY DEF Bootstrap
<1> HIDE DEF t, then
<1>6. repos \subseteq repos' /\ repos' \subseteq Ticket
  BY <1>2, <1>3, <1>5
<1>7. ASSUME NEW calls \in {NeedsHumanCalls(t), ParkCalls(t)}, Make(t, calls, << >>, then)
      PROVE  IInv'
  <2>1. Plain(t, calls) /\ calls # << >>
    BY <1>2, HoldsAre
  <2>2. Plain(t, << >>) /\ \A i \in 1..Len(<< >>) : ~<< >>[i].strict
    BY NothingPlain
  <2>3. then \in {"idea", "epic", "schedule", "reconcile"}
    BY <1>4
  <2>4. then \in {"idea", "epic"} => Routed(tick.queue, then) # {}
    BY <1>4
  <2> QED  BY <1>1, <1>2, <1>6, <1>7, <2>1, <2>2, <2>3, <2>4, PlainKeeps
<1>8. ASSUME t \notin repos, repos' = repos \union {t}, Go("scaffold", t)
      PROVE  IInv'
  <2>1. passes[t].build = 0
    BY <1>2, <1>8 DEF IInv, FiledWell
  <2>2. tick' = [tick EXCEPT !.pc = "scaffold", !.cur = t, !.list = tick.list]
    BY <1>8 DEF Go, IInv, Typed, Ticks
  <2>3. "scaffold" \in Places /\ t \in 0..MaxTickets /\ tick.list \in SUBSET Ticket /\ tick.pc # "calls"
    BY <1>1, <1>2 DEF Places, Ticket, IInv, Typed, Ticks
  <2>4. Gone("scaffold", t) /\ tick'.list = tick.list /\ tick'.queue = tick.queue
    BY <2>2, <2>3, GoneOn
  <2>5. \A u \in tick'.list : Exists(u) /\ u \notin calledOff
    BY <2>4 DEF IInv, Placed, OffWell
  <2> QED  BY <1>1, <1>2, <1>6, <1>8, <2>1, <2>3, <2>4, <2>5, GoKeeps
<1> QED  BY <1>5, <1>7, <1>8

LEMMA ScaffoldKeeps ==
  ASSUME IInv, Scaffold
  PROVE  IInv'
<1> DEFINE t == tick.cur
           then == Onward(tick.queue, 2)
<1>1. tick.pc = "scaffold" /\ Still /\ inFlight' = inFlight /\ repos' = repos
  BY DEF Scaffold, Still, Hold
<1>2. Ahead = "scaffold"
  BY <1>1 DEF Ahead
<1>3. /\ t \in Ticket /\ t \in repos /\ Exists(t) /\ passes[t].build = 0 /\ t \notin calledOff
      /\ \A u \in Routed(tick.queue, "epic") : u \notin cut => passes[u].plan = 0
  BY <1>1, <1>2 DEF IInv, Placed, Typed, OffWell
<1>4. then \in {"idea", "epic", "schedule"} /\ (then # "schedule" => Routed(tick.queue, then) # {})
  <2>1. 2 \in {1, 2, 3} /\ 2 > 1
    OBVIOUS
  <2> QED  BY <2>1, OnwardIs
<1>5. Make(t, BootstrapCalls(t), << >>, then) \/ Make(t, ParkCalls(t), << >>, then)
  BY DEF Scaffold
<1> HIDE DEF t, then
<1>6. repos \subseteq repos' /\ repos' \subseteq Ticket /\ tick.pc # "calls"
  BY <1>1 DEF IInv, Typed
<1>7. then \in {"idea", "epic", "schedule", "reconcile"} /\ then \in Places
  BY <1>4 DEF Places
<1>8. then \in {"idea", "epic"} =>
            /\ Routed(tick.queue, then) # {}
            /\ \A u \in Routed(tick.queue, "epic") : u \notin cut => passes[u].plan = 0
  BY <1>3, <1>4
<1>9. Plain(t, << >>) /\ \A i \in 1..Len(<< >>) : ~<< >>[i].strict
  BY NothingPlain
<1>10. CASE Make(t, ParkCalls(t), << >>, then)
  <2>1. Plain(t, ParkCalls(t)) /\ ParkCalls(t) # << >>
    BY <1>3, HoldsAre
  <2> QED  BY <1>1, <1>3, <1>6, <1>7, <1>8, <1>9, <1>10, <2>1, PlainKeeps
<1>11. CASE Make(t, BootstrapCalls(t), << >>, then)
  <2> DEFINE cs == BootstrapCalls(t)
  <2>1. /\ Chain(t, cs) /\ cs # << >>
        /\ \A i \in 1..Len(cs) : ~cs[i].strict /\ (cs[i].op = "create" => Files(cs[i], "build"))
    BY <1>3, BootstrapIs
  <2> HIDE DEF cs
  <2>2. Chain(t, << >>)
    BY <1>9, PlainChain
  <2>3. Catches(cs, << >>)
    BY <2>1 DEF Catches
  <2>4. \A i \in 1..Len(cs) :
            /\ Files(cs[i], "plan") => then = "schedule" /\ (t \notin cut => passes[t].plan = 0)
            /\ Files(cs[i], "followup") => (t \notin cut => passes[t].followup = 0)
            /\ Files(cs[i], "build") => t \in repos' /\ passes[t].build = 0
    BY <1>1, <1>3, <2>1 DEF Files
  <2>5. Begun(t, cs, << >>, then)
    <3>1. cs \in Seq(Calls) /\ << >> \in Seq(Calls)
      BY <2>1, <2>2 DEF Chain
    <3> QED  BY <1>3, <1>7, <1>11, <3>1, MakeBegun DEF cs, IInv
  <2>6. then \in {"idea", "epic", "schedule", "reconcile", "review", "epics"} /\ then # "epics"
    BY <1>7
  <2> QED  BY <1>1, <1>3, <1>6, <1>8, <2>1, <2>2, <2>3, <2>4, <2>5, <2>6, MakeKeeps
<1> QED  BY <1>5, <1>10, <1>11

LEMMA IdeaKeeps ==
  ASSUME IInv, Idea
  PROVE  IInv'
<1> DEFINE t == Oldest(Routed(tick.queue, "idea"))
           then == Onward(tick.queue, 3)
<1>1. tick.pc = "idea" /\ Still /\ inFlight' = inFlight /\ repos' = repos
  BY DEF Idea, Still, Hold
<1>2. /\ t \in Ticket /\ Exists(t) /\ t \notin calledOff
      /\ \A u \in Routed(tick.queue, "epic") : u \notin cut => passes[u].plan = 0
  BY <1>1, TakenIs
<1>3. then \in {"idea", "epic", "schedule"} /\ (then # "schedule" => Routed(tick.queue, then) # {})
  <2>1. 3 \in {1, 2, 3} /\ 3 > 1
    OBVIOUS
  <2> QED  BY <2>1, OnwardIs
<1>4. PICK d : Make(t, IntakeCalls(t, d), NeedsHumanCalls(t), then)
  BY DEF Idea
<1> HIDE DEF t, then
<1>5. Plain(t, IntakeCalls(t, d)) /\ IntakeCalls(t, d) # << >>
  <2>1. IntakeCalls(t, d) \in {AwaitCalls(t), NeedsHumanCalls(t), UpgradeCalls(t)}
    BY DEF IntakeCalls
  <2> QED  BY <1>2, <2>1, HoldsAre, UpgradeIs
<1>6. Plain(t, NeedsHumanCalls(t)) /\ \A i \in 1..Len(NeedsHumanCalls(t)) : ~NeedsHumanCalls(t)[i].strict
  BY <1>2, HoldsAre
<1>7. repos \subseteq repos' /\ repos' \subseteq Ticket /\ tick.pc # "calls"
  BY <1>1 DEF IInv, Typed
<1>8. /\ then \in {"idea", "epic", "schedule", "reconcile"}
      /\ then \in {"idea", "epic"} => Routed(tick.queue, then) # {}
  BY <1>3
<1> QED  BY <1>1, <1>2, <1>4, <1>5, <1>6, <1>7, <1>8, PlainKeeps

LEMMA EpicKeeps ==
  ASSUME IInv, Epic
  PROVE  IInv'
<1> DEFINE t == Oldest(Routed(tick.queue, "epic"))
<1>1. tick.pc = "epic" /\ Still /\ inFlight' = inFlight /\ repos' = repos
  BY DEF Epic, Still, Hold
<1>2. /\ t \in Ticket /\ Exists(t) /\ t \notin calledOff
      /\ t \notin cut => passes[t].plan = 0
  BY <1>1, TakenIs
<1>3. \/ Go("schedule", tick.cur)
      \/ \E calls \in {NeedsHumanCalls(t), ParkCalls(t)} : Make(t, calls, << >>, "schedule")
      \/ \E p \in Plans : Make(t, PlanCalls(t, p), ParkCalls(t), "schedule")
  BY DEF Epic
<1> HIDE DEF t
<1>4. repos \subseteq repos' /\ repos' \subseteq Ticket /\ tick.pc # "calls"
  BY <1>1 DEF IInv, Typed
<1>5. CASE Go("schedule", tick.cur)
  <2>1. tick.cur = 0 /\ tick \in Ticks
    BY <1>1 DEF IInv, Typed, Placed
  <2>2. tick' = [tick EXCEPT !.pc = "schedule", !.cur = 0, !.list = tick.list]
    BY <1>5, <2>1 DEF Go, Ticks
  <2>3. "schedule" \in Places /\ 0 \in 0..MaxTickets /\ tick.list \in SUBSET Ticket
    BY <2>1, TicketNat DEF Places, Ticks
  <2>4. Gone("schedule", 0) /\ tick'.list = tick.list
    BY <1>4, <2>2, <2>3, GoneOn
  <2>5. \A u \in tick'.list : Exists(u) /\ u \notin calledOff
    BY <2>4 DEF IInv, Placed, OffWell
  <2>6. 0 \notin calledOff
    BY TicketNat DEF IInv, Typed
  <2> QED  BY <1>1, <1>4, <2>4, <2>5, <2>6, GoKeeps
<1>6. ASSUME NEW calls \in {NeedsHumanCalls(t), ParkCalls(t)}, Make(t, calls, << >>, "schedule")
      PROVE  IInv'
  <2>1. Plain(t, calls) /\ calls # << >>
    BY <1>2, HoldsAre
  <2>2. Plain(t, << >>) /\ \A i \in 1..Len(<< >>) : ~<< >>[i].strict
    BY NothingPlain
  <2>3. "schedule" \in {"idea", "epic", "schedule", "reconcile"} /\ "schedule" \notin {"idea", "epic"}
    OBVIOUS
  <2> QED  BY <1>1, <1>2, <1>4, <1>6, <2>1, <2>2, <2>3, PlainKeeps
<1>7. ASSUME NEW p \in Plans, Make(t, PlanCalls(t, p), ParkCalls(t), "schedule")
      PROVE  IInv'
  <2> DEFINE cs == PlanCalls(t, p)
             catch == ParkCalls(t)
  <2>1. /\ Chain(t, cs) /\ cs # << >>
        /\ \A i \in 1..Len(cs) : cs[i].op = "create" => Files(cs[i], "plan")
        /\ \A i \in 1..Len(cs) : ~Adds(cs[i], "Stewarded")
    BY <1>2, PlanIs
  <2>2. Plain(t, catch) /\ \A i \in 1..Len(catch) : ~catch[i].strict
    BY <1>2, HoldsAre
  <2>3. Make(t, cs, catch, "schedule")
    BY <1>7
  <2> HIDE DEF cs, catch
  <2>4. Chain(t, catch)
    BY <2>2, PlainChain
  <2>5. Catches(cs, catch)
    BY <2>1, <2>2 DEF Catches, Plain
  <2>6. \A i \in 1..Len(cs) :
            /\ Files(cs[i], "plan") => "schedule" = "schedule" /\ (t \notin cut => passes[t].plan = 0)
            /\ Files(cs[i], "followup") => (t \notin cut => passes[t].followup = 0)
            /\ Files(cs[i], "build") => t \in repos' /\ passes[t].build = 0
    BY <1>2, <2>1 DEF Files
  <2>7. Begun(t, cs, catch, "schedule")
    <3>1. cs \in Seq(Calls) /\ catch \in Seq(Calls) /\ "schedule" \in Places
      BY <2>1, <2>4 DEF Chain, Places
    <3> QED  BY <1>2, <2>3, <3>1, MakeBegun DEF IInv
  <2>8. /\ "schedule" \in {"idea", "epic", "schedule", "reconcile", "review", "epics"}
        /\ "schedule" # "epics" /\ "schedule" \notin {"idea", "epic"}
    OBVIOUS
  <2> QED  BY <1>1, <1>2, <1>4, <2>1, <2>4, <2>5, <2>6, <2>7, <2>8, MakeKeeps
<1> QED  BY <1>3, <1>5, <1>6, <1>7

LEMMA StewardTickKeeps ==
  ASSUME IInv, StewardTick
  PROVE  IInv'
<1>1. tick.pc = "steward" /\ Still /\ inFlight' = inFlight /\ repos' = repos
  BY DEF StewardTick, Still, Hold
<1>2. repos \subseteq repos' /\ repos' \subseteq Ticket /\ tick.pc # "calls"
  BY <1>1 DEF IInv, Typed
<1>3. PICK pc \in {"reconcile", "closeout"}, cur \in 0..MaxTickets :
         /\ Go(pc, cur)
         /\ pc = "reconcile" => cur = 0
         /\ pc = "closeout" => cur \in Ticket /\ IsPlanned(cur) /\ StewardEligible(cur)
  <2>1. Go("reconcile", 0) \/ \E t \in Ticket : IsPlanned(t) /\ StewardEligible(t) /\ Go("closeout", t)
    BY DEF StewardTick
  <2>2. 0 \in 0..MaxTickets /\ \A t \in Ticket : t \in 0..MaxTickets
    BY TicketNat DEF Ticket
  <2> QED  BY <2>1, <2>2
<1>4. tick' = [tick EXCEPT !.pc = pc, !.cur = cur, !.list = tick.list]
  BY <1>3 DEF Go, IInv, Typed, Ticks
<1>5. pc \in Places /\ tick.list \in SUBSET Ticket
  BY DEF Places, IInv, Typed, Ticks
<1>6. Gone(pc, cur) /\ tick'.list = tick.list
  BY <1>2, <1>4, <1>5, GoneOn
<1>7. \A u \in tick'.list : Exists(u) /\ u \notin calledOff
  BY <1>6 DEF IInv, Placed, OffWell
<1>8. ASSUME pc = "closeout"
      PROVE  /\ cur \in Ticket /\ Exists(cur) /\ cur \notin calledOff
             /\ cur \notin cut => passes[cur].followup = 0
  <2>1. cur \in Ticket /\ "Planned" \in board[cur].labels /\ "Stewarded" \notin board[cur].labels /\ board[cur].lane # "canceled"
    BY <1>3, <1>8 DEF IsPlanned, StewardEligible
  <2>2. Exists(cur)
    BY <2>1 DEF IInv, Typed, Absent
  <2>3. ~Pending(cur, "Stewarded")
    BY <1>1 DEF Pending
  <2>4. cur \notin cut => passes[cur].followup =< 1 /\ passes[cur].followup # 1 /\ passes[cur].followup \in Nat
    BY <2>1, <2>3 DEF IInv, FiledWell, Typed, Passes
  <2>5. cur \notin calledOff
    BY <2>1 DEF IInv, OffWell
  <2> QED  BY <2>1, <2>2, <2>4, <2>5
<1>9. cur \notin calledOff
  BY <1>3, <1>8, TicketNat DEF IInv, Typed
<1>10. /\ pc \in {"idle", "scaffold", "schedule", "steward", "closeout", "reconcile", "review", "epics"}
       /\ pc # "scaffold" /\ pc # "epics" /\ (pc \notin {"scaffold", "closeout"} => cur = 0)
  BY <1>3
<1> QED  BY <1>1, <1>2, <1>6, <1>7, <1>8, <1>9, <1>10, GoKeeps

LEMMA ReconcileKeeps ==
  ASSUME IInv, Reconcile
  PROVE  IInv'
<1> DEFINE list == {t \in Ticket : board[t].lane = "review"}
<1>1. tick.pc = "reconcile" /\ Still /\ inFlight' = inFlight /\ repos' = repos
  BY DEF Reconcile, Still, Hold
<1>2. repos \subseteq repos' /\ repos' \subseteq Ticket /\ tick.pc # "calls"
  BY <1>1 DEF IInv, Typed
<1>3. tick.cur = 0 /\ tick \in Ticks
  BY <1>1 DEF IInv, Typed, Placed
<1>4. tick' = [tick EXCEPT !.pc = "review", !.cur = 0, !.list = list]
  BY <1>3 DEF Reconcile, Ticks
<1>5. "review" \in Places /\ 0 \in 0..MaxTickets /\ list \in SUBSET Ticket
  BY TicketNat DEF Places
<1>6. \A u \in list : Exists(u) /\ u \notin calledOff
  BY DEF Exists, IInv, OffWell
<1> HIDE DEF list
<1>7. Gone("review", 0) /\ tick'.list = list
  BY <1>2, <1>4, <1>5, GoneOn
<1>8. 0 \notin calledOff
  BY TicketNat DEF IInv, Typed
<1> QED  BY <1>1, <1>2, <1>6, <1>7, <1>8, GoKeeps

LEMMA CloseNextKeeps ==
  ASSUME IInv, tick.pc \in {"review", "epics"}, Hold, NEW t \in tick.list, CloseNext(t, tick.pc)
  PROVE  IInv'
<1> DEFINE cs == <<Strictly(Move(t, "done"))>>
<1>1. Still /\ inFlight' = inFlight /\ repos' = repos /\ tick.pc # "calls" /\ Ahead = tick.pc
  BY DEF Still, Hold, Ahead
<1>2. repos \subseteq repos' /\ repos' \subseteq Ticket
  BY <1>1 DEF IInv, Typed
<1>3. t \in Ticket /\ Exists(t) /\ t \notin calledOff
  BY DEF IInv, Typed, Ticks, Placed, OffWell
<1>4. tick.pc = "epics" => t \in good \union torn /\ tick.list \subseteq good \union torn
  BY <1>1 DEF IInv, Placed
<1>5. Plain(t, cs) /\ cs # << >>
  BY <1>3, DoneIs
<1>6. tick \in Ticks /\ tick.catch = << >>
  BY <1>1 DEF IInv, Typed, Placed
<1>7. tick' = [tick EXCEPT !.pc = "calls", !.cur = t, !.calls = cs, !.then = tick.pc, !.list = tick.list \ {t}]
  BY <1>6 DEF CloseNext, Ticks
<1> HIDE DEF cs
<1>8. Chain(t, cs) /\ Chain(t, << >>)
  BY <1>5, NothingPlain, PlainChain
<1>9. Begun(t, cs, << >>, tick.pc)
  <2>1. t \in 0..MaxTickets /\ cs \in Seq(Calls) /\ "calls" \in Places /\ tick.pc \in Places
    BY <1>3, <1>6, <1>8 DEF Chain, Places, Ticket, Ticks
  <2>2. tick' \in Ticks
    BY <1>6, <1>7, <2>1 DEF Ticks
  <2> QED  BY <1>6, <1>7, <2>2 DEF Begun, Ticks
<1>10. Catches(cs, << >>) /\ \A i \in 1..Len(cs) : ~Files(cs[i], "plan") /\ ~Files(cs[i], "followup") /\ ~Files(cs[i], "build")
  BY <1>5 DEF Catches, Plain, Files
<1>11. tick.pc \in {"idea", "epic", "schedule", "reconcile", "review", "epics"} /\ tick.pc \notin {"idea", "epic"}
  OBVIOUS
<1> QED  BY <1>1, <1>2, <1>3, <1>4, <1>5, <1>8, <1>9, <1>10, <1>11, MakeKeeps

LEMMA ReconcileReviewKeeps ==
  ASSUME IInv, ReconcileReview
  PROVE  IInv'
<1> DEFINE merged == {t \in tick.list : board[t].pr = "merged"}
<1>1. tick.pc = "review" /\ Hold
  BY DEF ReconcileReview
<1>2. Still /\ inFlight' = inFlight /\ repos' = repos
  BY <1>1 DEF Still, Hold
<1>3. repos \subseteq repos' /\ repos' \subseteq Ticket /\ tick.pc # "calls"
  BY <1>1, <1>2 DEF IInv, Typed
<1>4. tick.cur = 0 /\ tick \in Ticks
  BY <1>1 DEF IInv, Typed, Placed
<1>5. CASE merged = {}
  <2>1. tick' = [tick EXCEPT !.pc = "epics", !.cur = 0, !.list = Closing]
    BY <1>4, <1>5 DEF ReconcileReview, Ticks
  <2>2. "epics" \in Places /\ 0 \in 0..MaxTickets /\ Closing \in SUBSET Ticket
    BY TicketNat DEF Places, Closing
  <2>3. Gone("epics", 0) /\ tick'.list = Closing
    BY <1>3, <2>1, <2>2, GoneOn
  <2>4. ASSUME NEW u \in Closing
        PROVE  Exists(u) /\ u \notin calledOff /\ u \in good \union torn
    <3>1. /\ u \in Ticket /\ "Stewarded" \in board[u].labels /\ "NeedsHuman" \notin board[u].labels
          /\ board[u].lane # "canceled"
      BY DEF Closing, Closed
    <3>2. ~Pending(u, "NeedsHuman")
      BY <1>1 DEF Pending
    <3>3. Exists(u)
      BY <3>1 DEF IInv, Typed, Absent
    <3> QED  BY <3>1, <3>2, <3>3 DEF IInv, ClosedWell, OffWell
  <2>5. 0 \notin calledOff
    BY TicketNat DEF IInv, Typed
  <2>6. Closing \subseteq good \union torn
    BY <2>4
  <2> QED  BY <1>2, <1>3, <2>3, <2>4, <2>5, <2>6, GoKeeps
<1>6. CASE merged # {}
  <2>1. merged \in SUBSET Ticket
    BY <1>4 DEF Ticks
  <2>2. CloseNext(Oldest(merged), "review")
    BY <1>6 DEF ReconcileReview
  <2>3. Oldest(merged) \in tick.list
    <3> HIDE DEF merged
    <3>1. Oldest(merged) \in merged
      BY <1>6, <2>1, OldestIs
    <3> QED  BY <3>1 DEF merged
  <2> QED  BY <1>1, <2>2, <2>3, CloseNextKeeps
<1> QED  BY <1>5, <1>6

LEMMA ReconcileEpicsKeeps ==
  ASSUME IInv, ReconcileEpics
  PROVE  IInv'
<1> DEFINE over == {t \in tick.list : (\A k \in Kids(t) : Closed(k)) /\ ChildrenAllTerminal(t)}
<1>1. tick.pc = "epics" /\ Hold
  BY DEF ReconcileEpics
<1>2. Still /\ inFlight' = inFlight /\ repos' = repos
  BY <1>1 DEF Still, Hold
<1>3. repos \subseteq repos' /\ repos' \subseteq Ticket /\ tick.pc # "calls"
  BY <1>1, <1>2 DEF IInv, Typed
<1>4. CASE over = {}
  <2>1. tick' = Resting
    BY <1>4 DEF ReconcileEpics
  <2>3. Gone("idle", 0) /\ tick'.list = {}
    BY <2>1, RestingGone
  <2>4. 0 \notin calledOff
    BY TicketNat DEF IInv, Typed
  <2> QED  BY <1>2, <1>3, <2>3, <2>4, GoKeeps
<1>5. CASE over # {}
  <2>1. over \in SUBSET Ticket
    BY DEF IInv, Typed, Ticks
  <2>2. CloseNext(Oldest(over), "epics")
    BY <1>5 DEF ReconcileEpics
  <2>3. Oldest(over) \in tick.list
    <3> HIDE DEF over
    <3>1. Oldest(over) \in over
      BY <1>5, <2>1, OldestIs
    <3> QED  BY <3>1 DEF over
  <2> QED  BY <1>1, <2>2, <2>3, CloseNextKeeps
<1> QED  BY <1>4, <1>5

LEMMA CloseoutKeeps ==
  ASSUME IInv, Closeout
  PROVE  IInv'
<1> DEFINE t == tick.cur
<1>1. tick.pc = "closeout" /\ Still /\ inFlight' = inFlight /\ repos' = repos
  BY DEF Closeout, Still, Hold
<1>2. t \in Ticket /\ Exists(t) /\ t \notin calledOff /\ (t \notin cut => passes[t].followup = 0)
  BY <1>1 DEF IInv, Placed, OffWell
<1>3. \/ tick' = Rest("reconcile")
      \/ \E f \in FollowUps : Make(t, CloseoutCalls(t, f), CloseoutFailed(t), "reconcile")
      \/ Make(t, CloseoutFailed(t), << >>, "reconcile")
  BY DEF Closeout
<1> HIDE DEF t
<1>4. repos \subseteq repos' /\ repos' \subseteq Ticket /\ tick.pc # "calls"
  BY <1>1 DEF IInv, Typed
<1>5. /\ Chain(t, CloseoutFailed(t)) /\ CloseoutFailed(t) # << >>
      /\ \A i \in 1..Len(CloseoutFailed(t)) : ~CloseoutFailed(t)[i].strict /\ CloseoutFailed(t)[i].op # "create"
      /\ \E i \in 1..Len(CloseoutFailed(t)) : HandsOver(CloseoutFailed(t)[i])
  BY <1>2, CloseoutFailedIs
<1>6. "reconcile" \in Places /\ "reconcile" \in {"idea", "epic", "schedule", "reconcile", "review", "epics"}
  BY DEF Places
<1>7. CASE tick' = Rest("reconcile")
  <2>1. Gone("reconcile", 0) /\ tick'.list = tick.list
    BY <1>6, <1>7, RestGone DEF IInv
  <2>2. \A u \in tick'.list : Exists(u) /\ u \notin calledOff
    BY <2>1 DEF IInv, Placed, OffWell
  <2>3. 0 \notin calledOff
    BY TicketNat DEF IInv, Typed
  <2> QED  BY <1>1, <1>4, <2>1, <2>2, <2>3, GoKeeps
<1>8. ASSUME NEW f \in FollowUps, Make(t, CloseoutCalls(t, f), CloseoutFailed(t), "reconcile")
      PROVE  IInv'
  <2> DEFINE cs == CloseoutCalls(t, f)
             catch == CloseoutFailed(t)
  <2>1. /\ Chain(t, cs) /\ cs # << >>
        /\ \A i \in 1..Len(cs) : cs[i].op = "create" => Files(cs[i], "followup")
    BY <1>2, CloseoutIs
  <2>2. Make(t, cs, catch, "reconcile")
    BY <1>8
  <2>3. Chain(t, catch) /\ Catches(cs, catch)
    BY <1>5 DEF Catches
  <2> HIDE DEF cs, catch
  <2>4. \A i \in 1..Len(cs) :
            /\ Files(cs[i], "plan") => "reconcile" = "schedule" /\ (t \notin cut => passes[t].plan = 0)
            /\ Files(cs[i], "followup") => (t \notin cut => passes[t].followup = 0)
            /\ Files(cs[i], "build") => t \in repos' /\ passes[t].build = 0
    BY <1>2, <2>1 DEF Files
  <2>5. Begun(t, cs, catch, "reconcile")
    <3>1. cs \in Seq(Calls) /\ catch \in Seq(Calls)
      BY <2>1, <2>3 DEF Chain
    <3> QED  BY <1>2, <1>6, <2>2, <3>1, MakeBegun DEF IInv
  <2> QED  BY <1>1, <1>2, <1>4, <1>6, <2>1, <2>3, <2>4, <2>5, MakeKeeps
<1>9. CASE Make(t, CloseoutFailed(t), << >>, "reconcile")
  <2> DEFINE cs == CloseoutFailed(t)
  <2>1. Make(t, cs, << >>, "reconcile")
    BY <1>9
  <2>2. /\ Chain(t, cs) /\ cs # << >>
        /\ \A i \in 1..Len(cs) : ~cs[i].strict /\ cs[i].op # "create"
    BY <1>5
  <2> HIDE DEF cs
  <2>3. Chain(t, << >>)
    BY NothingPlain, PlainChain
  <2>4. Catches(cs, << >>)
    BY <2>2 DEF Catches
  <2>5. \A i \in 1..Len(cs) :
            /\ Files(cs[i], "plan") => "reconcile" = "schedule" /\ (t \notin cut => passes[t].plan = 0)
            /\ Files(cs[i], "followup") => (t \notin cut => passes[t].followup = 0)
            /\ Files(cs[i], "build") => t \in repos' /\ passes[t].build = 0
    BY <2>2 DEF Files
  <2>6. Begun(t, cs, << >>, "reconcile")
    <3>1. cs \in Seq(Calls) /\ << >> \in Seq(Calls)
      BY <2>2 DEF Chain
    <3> QED  BY <1>2, <1>6, <2>1, <3>1, MakeBegun DEF IInv
  <2> QED  BY <1>1, <1>2, <1>4, <1>6, <2>2, <2>3, <2>4, <2>5, <2>6, MakeKeeps
<1> QED  BY <1>3, <1>7, <1>8, <1>9

LEMMA ScheduleFailsKeeps ==
  ASSUME IInv, ScheduleFails
  PROVE  IInv'
<1>1. tick.pc = "schedule" /\ Still /\ inFlight' = inFlight /\ repos' = repos
  BY DEF ScheduleFails, Still
<1>2. Gone("idle", 0) /\ tick'.list = {}
  BY RestingGone DEF ScheduleFails
<1>3. repos \subseteq repos' /\ repos' \subseteq Ticket /\ tick.pc # "calls"
  BY <1>1 DEF IInv, Typed
<1>4. 0 \notin calledOff
  BY TicketNat DEF IInv, Typed
<1> QED  BY <1>1, <1>2, <1>3, <1>4, GoKeeps

LEMMA ScheduleKeeps ==
  ASSUME IInv, Schedule
  PROVE  IInv'
<1> DEFINE cands == Candidates
           edges == DeriveImplicitDeps(cands)
           busy == {inFlight[t] : t \in DOMAIN inFlight}
           run == SelectRunnable(cands, edges, TerminalTickets, busy, WipLimit - Cardinality(DOMAIN inFlight))
<1>1. tick.pc = "schedule" /\ Still /\ repos' = repos /\ tick' = [Resting EXCEPT !.pc = "steward"]
  BY DEF Schedule, Still
<1>2. inFlight' = [t \in run \union DOMAIN inFlight |-> IF t \in run THEN cands[t].touches ELSE inFlight[t]]
  BY Zenon DEF Schedule
<1>3. Gone("steward", 0) /\ tick'.list = {}
  BY <1>1, RestingGone
<1>4. /\ run \subseteq DOMAIN cands
      /\ \A t \in run : \A g \in busy : ~GlobsOverlap(cands[t].touches, g)
      /\ \A t, u \in run : t # u => ~GlobsOverlap(cands[t].touches, cands[u].touches)
  BY SelectedApart
<1>5. \A t \in DOMAIN cands : t \in DOMAIN tick.queue /\ cands[t] = tick.queue[t] /\ t \notin DOMAIN inFlight
  BY DEF Candidates, Routed
<1> HIDE DEF run, edges, cands
<1>6. DOMAIN tick.queue \subseteq Ticket /\ DOMAIN inFlight \subseteq Ticket
  BY DEF IInv, Typed, Ticks
<1>7. ASSUME NEW t \in run
      PROVE  /\ t \in Ticket /\ t \in DOMAIN tick.queue /\ t \notin DOMAIN inFlight /\ Exists(t)
             /\ cands[t].touches = board[t].touches /\ cands[t].touches \in SUBSET Globs
  <2>1. t \in Ticket /\ t \in DOMAIN tick.queue /\ t \notin DOMAIN inFlight /\ cands[t] = tick.queue[t]
    BY <1>4, <1>5, <1>6, <1>7
  <2>2. Exists(t) /\ tick.queue[t].touches = board[t].touches
    BY <2>1 DEF IInv, Scheduled
  <2>3. board[t].touches \in SUBSET Globs
    BY <2>1 DEF IInv, Typed, Tix
  <2> QED  BY <2>1, <2>2, <2>3
<1>8. /\ DOMAIN inFlight' = run \union DOMAIN inFlight
      /\ \A t \in run : inFlight'[t] = cands[t].touches
      /\ \A t \in DOMAIN inFlight : t \notin run => inFlight'[t] = inFlight[t]
  BY <1>2
<1>9. inFlight' \in UNION {[Q -> SUBSET Globs] : Q \in SUBSET Ticket}
  <2> DEFINE Q == run \union DOMAIN inFlight
  <2>1. Q \in SUBSET Ticket
    BY <1>6, <1>7
  <2>2. \A t \in DOMAIN inFlight : inFlight[t] \in SUBSET Globs
    BY DEF IInv, Typed
  <2>3. inFlight' \in [Q -> SUBSET Globs]
    BY <1>2, <1>7, <2>2
  <2> QED  BY <2>1, <2>3
<1>10. Typed'
  <2>1. Typed /\ tick' \in Ticks
    BY <1>3 DEF IInv, Gone
  <2> QED  BY <1>1, <1>9, <2>1 DEF Typed, Still, Exists
<1>11. Scheduled'
  <2>1. \A t \in Ticket : board'[t].writes \subseteq board'[t].touches
    BY <1>1 DEF IInv, Scheduled, Still
  <2>2. \A t \in DOMAIN tick'.queue : Exists(t)' /\ tick'.queue[t].touches = board'[t].touches
    BY <1>1, <1>3 DEF IInv, Scheduled, Still, Exists, Gone
  <2>3. \A t \in DOMAIN inFlight' : Exists(t)' /\ inFlight'[t] = board'[t].touches
    BY <1>1, <1>7, <1>8 DEF IInv, Scheduled, Still, Exists
  <2>4. ASSUME NEW t \in DOMAIN inFlight', NEW u \in DOMAIN inFlight', t # u
        PROVE  ~GlobsOverlap(inFlight'[t], inFlight'[u])
    <3>1. CASE t \in run /\ u \in run
      BY <1>4, <1>8, <2>4, <3>1
    <3>2. CASE t \in run /\ u \notin run
      <4>1. inFlight'[t] = cands[t].touches /\ inFlight'[u] = inFlight[u] /\ inFlight[u] \in busy
        BY <1>8, <3>2
      <4> QED  BY <1>4, <3>2, <4>1
    <3>3. CASE t \notin run /\ u \in run
      <4>1. inFlight'[u] = cands[u].touches /\ inFlight'[t] = inFlight[t] /\ inFlight[t] \in busy
        BY <1>8, <3>3
      <4>2. ~GlobsOverlap(cands[u].touches, inFlight[t])
        BY <1>4, <3>3, <4>1
      <4> QED  BY <4>1, <4>2, OverlapSym
    <3>4. CASE t \notin run /\ u \notin run
      BY <1>8, <2>4, <3>4 DEF IInv, Scheduled
    <3> QED  BY <3>1, <3>2, <3>3, <3>4
  <2> QED  BY <2>1, <2>2, <2>3, <2>4 DEF Scheduled
<1>12. FiledWell' /\ ClosedWell' /\ Rooted'
  <2>1. \A t, l : ~Pending(t, l) /\ ~Pending(t, l)'
    BY <1>1, <1>3 DEF Pending, Gone
  <2>2. FiledWell'
    BY <1>1, <2>1 DEF IInv, FiledWell, Still, Exists
  <2>3. ClosedWell'
    BY <1>1, <2>1 DEF IInv, ClosedWell, Still
  <2>4. Rooted'
    BY <1>1 DEF IInv, Rooted, Still, Exists
  <2> QED  BY <2>2, <2>3, <2>4
<1>13. Calling' /\ Placed'
  BY <1>1, <1>3 DEF Calling, Placed, Gone, Ahead
<1>14. OffWell'
  <2>1. 0 \notin calledOff
    BY TicketNat DEF IInv, Typed
  <2>2. tick'.cur = 0 /\ tick'.list = {} /\ DOMAIN tick'.queue \subseteq DOMAIN tick.queue
    BY <1>3 DEF Gone
  <2> QED  BY <1>1, <1>7, <1>8, <2>1, <2>2 DEF IInv, OffWell, Still
<1> QED  BY <1>10, <1>11, <1>12, <1>13, <1>14 DEF IInv

-----------------------------------------------------------------------------
(* The calls. *)

\* What a call of the tick may do to the board.
Altered ==
  /\ board' \in [Ticket -> Tix]
  /\ \A t \in Ticket : board'[t].lane \in {"blocked", "needs_human"} => HoldColumns
  /\ \A t \in Ticket : board'[t].lane = "none" => board'[t] = Absent
  /\ \A t \in Ticket : board'[t].writes \subseteq board'[t].touches
  /\ \A t \in Ticket : Exists(t) => /\ board'[t].lane # "none" /\ board'[t].deps = board[t].deps
                                    /\ board'[t].touches = board[t].touches
  /\ \A t \in Ticket : ~Exists(t) => \A d \in board'[t].deps : Exists(d)
  /\ \A t \in Ticket : t # tick.cur => /\ board'[t].labels = board[t].labels
                                       /\ Exists(t) => board'[t].lane = board[t].lane
  /\ board[tick.cur].labels \ {"Bootstrap", "Intake"} \subseteq board'[tick.cur].labels

LEMMA OneAltered ==
  ASSUME IInv, tick.pc = "calls", NEW x \in Ticket, NEW r \in Tix, board' = [board EXCEPT ![x] = r],
         r.lane # "none", r.lane \in {"blocked", "needs_human"} => HoldColumns, r.writes \subseteq r.touches,
         Exists(x) => r.deps = board[x].deps /\ r.touches = board[x].touches,
         ~Exists(x) => r.labels = {} /\ \A d \in r.deps : Exists(d),
         Exists(x) /\ x # tick.cur => r.labels = board[x].labels /\ r.lane = board[x].lane,
         x = tick.cur => board[x].labels \ {"Bootstrap", "Intake"} \subseteq r.labels
  PROVE  Altered
<1>1. board \in [Ticket -> Tix] /\ tick.cur \in Ticket /\ Exists(tick.cur)
  BY DEF IInv, Typed, Calling
<1>2. board'[x] = r /\ \A t \in Ticket : t # x => board'[t] = board[t]
  BY <1>1
<1>3. \A t \in Ticket : ~Exists(t) => board[t] = Absent /\ board[t].labels = {} /\ board[t].deps = {}
  BY DEF IInv, Typed, Absent
<1>4. board' \in [Ticket -> Tix]
  BY <1>1
<1>5. \A t \in Ticket : board'[t].lane \in {"blocked", "needs_human"} => HoldColumns
  BY <1>2 DEF IInv, Typed
<1>6. \A t \in Ticket : board'[t].lane = "none" => board'[t] = Absent
  BY <1>2 DEF IInv, Typed, Exists
<1>7. \A t \in Ticket : board'[t].writes \subseteq board'[t].touches
  BY <1>2 DEF IInv, Scheduled
<1>8. \A t \in Ticket : Exists(t) => /\ board'[t].lane # "none" /\ board'[t].deps = board[t].deps
                                     /\ board'[t].touches = board[t].touches
  BY <1>2 DEF Exists
<1>9. \A t \in Ticket : ~Exists(t) => \A d \in board'[t].deps : Exists(d)
  BY <1>2, <1>3
<1>10. \A t \in Ticket : t # tick.cur => /\ board'[t].labels = board[t].labels
                                         /\ Exists(t) => board'[t].lane = board[t].lane
  BY <1>2, <1>3
<1>11. board[tick.cur].labels \ {"Bootstrap", "Intake"} \subseteq board'[tick.cur].labels
  BY <1>1, <1>2
<1> QED  BY <1>4, <1>5, <1>6, <1>7, <1>8, <1>9, <1>10, <1>11 DEF Altered

LEMMA SameAltered ==
  ASSUME IInv, tick.pc = "calls", board' = board
  PROVE  Altered
<1>1. \A t \in Ticket : ~Exists(t) => board[t] = Absent /\ board[t].deps = {}
  BY DEF IInv, Typed, Absent
<1> QED  BY <1>1 DEF IInv, Typed, Scheduled, Altered, Exists

\* The labels call c leaves on its ticket.
Labelled(c) ==
  board'[tick.cur].labels = IF c.op = "label" THEN board[tick.cur].labels \union {c.arg}
                            ELSE IF c.op = "unlabel" THEN board[tick.cur].labels \ {c.arg}
                            ELSE board[tick.cur].labels

LEMMA HeadIs ==
  ASSUME IInv, tick.pc = "calls"
  PROVE  LET c == Head(tick.calls)
         IN  /\ c = tick.calls[1] /\ 1 \in 1..Len(tick.calls) /\ tick.calls \in Seq(Calls)
             /\ c \in Calls /\ c.t = tick.cur /\ Proper(c) /\ Fresh(tick.cur, c)
             /\ tick.cur \in Ticket /\ Exists(tick.cur) /\ board[tick.cur] \in Tix
<1>1. /\ tick.calls # << >> /\ Chain(tick.cur, tick.calls) /\ tick.cur \in Ticket /\ Exists(tick.cur)
      /\ \A i \in 1..Len(tick.calls) : Fresh(tick.cur, tick.calls[i])
  BY DEF IInv, Calling
<1>2. tick.calls \in Seq(Calls) /\ \A i \in 1..Len(tick.calls) : Link(tick.cur, tick.calls, i)
  BY <1>1 DEF Chain
<1>3. Head(tick.calls) = tick.calls[1] /\ 1 \in 1..Len(tick.calls) /\ tick.calls[1] \in Calls
  BY <1>1, <1>2
<1>4. board[tick.cur] \in Tix
  BY <1>1 DEF IInv, Typed
<1> QED  BY <1>1, <1>2, <1>3, <1>4 DEF Link

LEMMA NewIs ==
  ASSUME IInv, tick.pc = "calls", Head(tick.calls).op = "create"
  PROVE  LET r == New(Head(tick.calls))
         IN  /\ r \in Tix /\ r.lane = "queue" /\ r.writes \subseteq r.touches /\ r.labels = {}
             /\ \A d \in r.deps : Exists(d)
<1> DEFINE c == Head(tick.calls)
           ids == {tick.made[i] : i \in c.arg.spec.deps \intersect DOMAIN tick.made}
<1>1. c.t \in Ticket /\ c.arg \in Orders /\ c.arg.writes \subseteq c.arg.spec.touches
  BY HeadIs DEF Proper
<1>2. tick.made \in Seq(Ticket) /\ \A i \in 1..Len(tick.made) : Exists(tick.made[i])
  BY DEF IInv, Typed, Ticks, Placed
<1>3. \A d \in ids : d \in Ticket /\ Exists(d)
  BY <1>2
<1> HIDE DEF c, ids
<1>4. /\ c.arg.meta \in Metas /\ c.arg.writes \in SUBSET Globs
      /\ c.arg.spec.touches \in SUBSET Globs /\ c.arg.spec.premises \in SUBSET PremiseStatus
  BY <1>1 DEF Orders, Contents, Metas
<1>5. PICK r : r = New(c)
  OBVIOUS
<1>6. r = [lane |-> "queue", labels |-> {}, meta |-> c.arg.meta,
                parent |-> IF c.arg.meta = "task" THEN c.t ELSE 0, deps |-> ids,
                touches |-> c.arg.spec.touches, writes |-> c.arg.writes, premises |-> c.arg.spec.premises,
                pr |-> "none"]
  BY <1>5 DEF New, Filed, Absent, ids
<1>7. (IF c.arg.meta = "task" THEN c.t ELSE 0) \in 0..MaxTickets
  BY <1>1, TicketNat DEF Ticket
<1>8. r \in Tix
  BY <1>3, <1>4, <1>6, <1>7 DEF Tix, Lanes
<1> QED  BY <1>1, <1>3, <1>5, <1>6, <1>8 DEF c

LEMMA LandedIs ==
  ASSUME IInv, tick.pc = "calls",
         Head(tick.calls).op = "create" => Room, board' = Landed(Head(tick.calls))
  PROVE  /\ Altered /\ Labelled(Head(tick.calls))
         /\ Head(tick.calls).op = "create" => FreeId \in Ticket /\ board'[FreeId].lane # "none"
<1> DEFINE c == Head(tick.calls)
           x == tick.cur
<1>1. /\ c \in Calls /\ c.t = x /\ Proper(c) /\ x \in Ticket /\ Exists(x) /\ board[x] \in Tix
      /\ board \in [Ticket -> Tix] /\ (board[x].lane \in {"blocked", "needs_human"} => HoldColumns)
      /\ board[x].writes \subseteq board[x].touches /\ board[x].lane # "none"
  BY HeadIs DEF IInv, Typed, Scheduled, Exists
<1>2. board' = Landed(c) /\ c = Head(tick.calls) /\ x = tick.cur /\ (c.op = "create" => Room)
  OBVIOUS
<1> HIDE DEF c, x
<1>3. CASE c.op = "label"
  <2> DEFINE r == [board[x] EXCEPT !.labels = @ \union {c.arg}]
  <2>1. board' = [board EXCEPT ![x] = r]
    BY <1>1, <1>2, <1>3 DEF Landed
  <2>2. c.arg \in Labels
    BY <1>1, <1>3 DEF Proper
  <2>3. r \in Tix /\ r.labels = board[x].labels \union {c.arg}
    BY <1>1, <2>2 DEF Tix
  <2>4. /\ r.lane = board[x].lane /\ r.deps = board[x].deps /\ r.touches = board[x].touches
        /\ r.writes = board[x].writes
    BY <1>1 DEF Tix
  <2> HIDE DEF r
  <2>5. Altered
    BY <1>1, <1>2, <2>1, <2>3, <2>4, OneAltered
  <2>6. Labelled(c)
    BY <1>1, <1>2, <1>3, <2>1, <2>3 DEF Labelled
  <2> QED  BY <1>2, <1>3, <2>5, <2>6
<1>4. CASE c.op = "unlabel"
  <2> DEFINE r == [board[x] EXCEPT !.labels = @ \ {c.arg}]
  <2>1. board' = [board EXCEPT ![x] = r]
    BY <1>1, <1>2, <1>4 DEF Landed
  <2>2. c.arg \in {"Bootstrap", "Intake"}
    BY <1>1, <1>4 DEF Proper
  <2>3. r \in Tix /\ r.labels = board[x].labels \ {c.arg}
    BY <1>1 DEF Tix
  <2>4. /\ r.lane = board[x].lane /\ r.deps = board[x].deps /\ r.touches = board[x].touches
        /\ r.writes = board[x].writes
    BY <1>1 DEF Tix
  <2> HIDE DEF r
  <2>5. Altered
    BY <1>1, <1>2, <2>1, <2>2, <2>3, <2>4, OneAltered
  <2>6. Labelled(c)
    BY <1>1, <1>2, <1>4, <2>1, <2>3 DEF Labelled
  <2> QED  BY <1>2, <1>4, <2>5, <2>6
<1>5. CASE c.op = "move"
  <2> DEFINE r == [board[x] EXCEPT !.lane = c.arg]
  <2>1. board' = [board EXCEPT ![x] = r]
    BY <1>1, <1>2, <1>5 DEF Landed
  <2>2. c.arg \in Lanes /\ c.arg # "none" /\ (c.arg \in {"blocked", "needs_human"} => HoldColumns)
    BY <1>1, <1>5 DEF Proper, MoveLanes, Lanes
  <2>3. r \in Tix /\ r.labels = board[x].labels /\ r.lane = c.arg
    BY <1>1, <2>2 DEF Tix
  <2>4. r.deps = board[x].deps /\ r.touches = board[x].touches /\ r.writes = board[x].writes
    BY <1>1 DEF Tix
  <2> HIDE DEF r
  <2>5. Altered
    BY <1>1, <1>2, <2>1, <2>2, <2>3, <2>4, OneAltered
  <2>6. Labelled(c)
    BY <1>1, <1>2, <1>5, <2>1, <2>3 DEF Labelled
  <2> QED  BY <1>2, <1>5, <2>5, <2>6
<1>6. CASE c.op = "describe"
  <2> DEFINE r == [board[x] EXCEPT !.meta = c.arg]
  <2>1. board' = [board EXCEPT ![x] = r]
    BY <1>1, <1>2, <1>6 DEF Landed
  <2>2. c.arg \in Metas
    BY <1>1, <1>6 DEF Proper, Metas
  <2>3. r \in Tix /\ r.labels = board[x].labels /\ r.lane = board[x].lane
    BY <1>1, <2>2 DEF Tix
  <2>4. r.deps = board[x].deps /\ r.touches = board[x].touches /\ r.writes = board[x].writes
    BY <1>1 DEF Tix
  <2> HIDE DEF r
  <2>5. Altered
    BY <1>1, <1>2, <2>1, <2>2, <2>3, <2>4, OneAltered
  <2>6. Labelled(c)
    BY <1>1, <1>2, <1>6, <2>1, <2>3 DEF Labelled
  <2> QED  BY <1>2, <1>6, <2>5, <2>6
<1>7. CASE c.op = "create"
  <2> DEFINE r == New(c)
             y == FreeId
  <2>1. board' = [board EXCEPT ![y] = r]
    BY <1>1, <1>2, <1>7 DEF Landed
  <2>2. y \in Ticket /\ ~Exists(y) /\ y # x
    BY <1>1, <1>2, <1>7, FreeIs
  <2>3. /\ r \in Tix /\ r.lane = "queue" /\ r.writes \subseteq r.touches /\ r.labels = {}
        /\ \A d \in r.deps : Exists(d)
    BY <1>2, <1>7, NewIs
  <2> HIDE DEF r, y
  <2>4. Altered
    BY <1>1, <1>2, <2>1, <2>2, <2>3, OneAltered
  <2>5. Labelled(c)
    BY <1>1, <1>2, <1>7, <2>1, <2>2 DEF Labelled
  <2>6. board'[y].lane # "none"
    BY <1>1, <2>1, <2>2, <2>3
  <2> QED  BY <1>2, <2>2, <2>4, <2>5, <2>6 DEF y
<1>8. CASE c.op = "link" /\ tick.made # << >>
  <2> DEFINE y == tick.made[Len(tick.made)]
             r == [board[y] EXCEPT !.parent = c.t]
  <2>1. board' = [board EXCEPT ![y] = r]
    <3>1. y \in Ticket
      BY <1>8 DEF IInv, Typed, Ticks
    <3> QED  BY <1>1, <1>2, <1>8, <3>1 DEF Landed
  <2>2. y \in Ticket /\ Exists(y)
    BY <1>8 DEF IInv, Typed, Ticks, Placed
  <2>3. /\ board[y] \in Tix /\ (board[y].lane \in {"blocked", "needs_human"} => HoldColumns)
        /\ board[y].writes \subseteq board[y].touches /\ board[y].lane # "none" /\ c.t \in 0..MaxTickets
    BY <1>1, <2>2, TicketNat DEF IInv, Typed, Scheduled, Exists, Ticket
  <2> HIDE DEF y
  <2>4. /\ r \in Tix /\ r.labels = board[y].labels /\ r.lane = board[y].lane
        /\ r.deps = board[y].deps /\ r.touches = board[y].touches /\ r.writes = board[y].writes
    BY <2>3 DEF Tix
  <2> HIDE DEF r
  <2>5. Altered
    BY <1>1, <1>2, <2>1, <2>2, <2>3, <2>4, OneAltered
  <2>6. Labelled(c)
    BY <1>1, <1>2, <1>8, <2>1, <2>2, <2>4 DEF Labelled
  <2> QED  BY <1>2, <1>8, <2>5, <2>6
<1>9. CASE c.op = "comment" \/ (c.op = "link" /\ tick.made = << >>)
  <2>1. board' = board
    BY <1>2, <1>9 DEF Landed
  <2> QED  BY <1>2, <1>9, <2>1, SameAltered DEF Labelled
<1> QED  BY <1>1, <1>3, <1>4, <1>5, <1>6, <1>7, <1>8, <1>9 DEF Calls, CallOps

LEMMA CountIs ==
  ASSUME IInv, tick.pc = "calls", CountPass(Head(tick.calls)) \/ passes' = passes
  PROVE  LET c == Head(tick.calls)
             t == tick.cur
         IN  /\ passes' \in [Ticket -> Passes]
             /\ \A u \in Ticket : u # t => passes'[u] = passes[u]
             /\ passes'[t].build =< 1 /\ (t \notin repos => passes'[t].build = 0)
             /\ t \notin cut =>
                  /\ passes'[t].plan = passes[t].plan \/ (Files(c, "plan") /\ passes'[t].plan = 1)
                  /\ passes'[t].followup = passes[t].followup \/ (Files(c, "followup") /\ passes'[t].followup = 1)
             /\ tick.then # "schedule" => passes'[t].plan = passes[t].plan
             /\ c.op # "create" \/ tick.filing # "none" => passes' = passes
<1> DEFINE c == Head(tick.calls)
           t == tick.cur
<1>1. /\ t \in Ticket /\ c.t = t /\ Fresh(t, c) /\ (c.op = "create" => c.arg \in Orders)
      /\ passes \in [Ticket -> Passes] /\ passes[t] \in Passes
      /\ passes[t].build =< 1 /\ (t \notin repos => passes[t].build = 0)
  BY HeadIs DEF Proper, IInv, Typed, FiledWell
<1>2. CASE passes' = passes
  BY <1>1, <1>2
<1>3. CASE CountPass(c) /\ passes' # passes
  <2>1. c.op = "create" /\ tick.filing = "none" /\ c.arg.why \in {"plan", "followup", "build"}
    BY <1>1, <1>3 DEF CountPass, Orders
  <2>2. passes' = [passes EXCEPT ![t][c.arg.why] = @ + 1]
    BY <1>1, <1>3, <2>1 DEF CountPass
  <2> HIDE DEF c, t
  <2>3. \A u \in Ticket : u # t => passes'[u] = passes[u]
    BY <1>1, <2>2
  <2>4. CASE c.arg.why = "plan"
    <3>1. passes'[t] = [plan |-> passes[t].plan + 1, followup |-> passes[t].followup, build |-> passes[t].build]
      BY <1>1, <2>2, <2>4 DEF Passes
    <3>2. passes' \in [Ticket -> Passes]
      BY <1>1, <2>2, <2>3, <3>1 DEF Passes
    <3>3. Files(c, "plan") /\ tick.then = "schedule" /\ (t \notin cut => passes[t].plan = 0)
      BY <1>1, <2>1, <2>4 DEF Fresh, Files
    <3>4. t \notin cut => passes'[t].plan = 1
      BY <3>1, <3>3
    <3>5. passes'[t].build = passes[t].build /\ passes'[t].followup = passes[t].followup
      BY <3>1
    <3> QED  BY <1>1, <2>1, <2>3, <3>2, <3>3, <3>4, <3>5 DEF c, t
  <2>5. CASE c.arg.why = "followup"
    <3>1. passes'[t] = [plan |-> passes[t].plan, followup |-> passes[t].followup + 1, build |-> passes[t].build]
      BY <1>1, <2>2, <2>5 DEF Passes
    <3>2. passes' \in [Ticket -> Passes]
      BY <1>1, <2>2, <2>3, <3>1 DEF Passes
    <3>3. Files(c, "followup") /\ (t \notin cut => passes[t].followup = 0)
      BY <1>1, <2>1, <2>5 DEF Fresh, Files
    <3>4. t \notin cut => passes'[t].followup = 1
      BY <3>1, <3>3
    <3>5. passes'[t].build = passes[t].build /\ passes'[t].plan = passes[t].plan
      BY <3>1
    <3> QED  BY <1>1, <2>1, <2>3, <3>2, <3>3, <3>4, <3>5 DEF c, t
  <2>6. CASE c.arg.why = "build"
    <3>1. passes'[t] = [plan |-> passes[t].plan, followup |-> passes[t].followup, build |-> passes[t].build + 1]
      BY <1>1, <2>2, <2>6 DEF Passes
    <3>2. passes' \in [Ticket -> Passes]
      BY <1>1, <2>2, <2>3, <3>1 DEF Passes
    <3>3. t \in repos /\ passes[t].build = 0
      BY <1>1, <2>1, <2>6 DEF Fresh, Files
    <3>4. passes'[t].build = 1 /\ passes'[t].plan = passes[t].plan /\ passes'[t].followup = passes[t].followup
      BY <3>1, <3>3
    <3> QED  BY <1>1, <2>1, <2>3, <3>2, <3>3, <3>4 DEF c, t
  <2> QED  BY <2>1, <2>4, <2>5, <2>6
<1> QED  BY <1>2, <1>3

\* What a call changes besides the tick, whether it lands or fails.
Called ==
  /\ Altered
  /\ passes' \in [Ticket -> Passes] /\ \A t \in Ticket : t # tick.cur => passes'[t] = passes[t]
  /\ inFlight' = inFlight /\ repos' = repos /\ calledOff' = calledOff
  /\ cut \subseteq cut' /\ torn \subseteq torn' /\ good \subseteq good'
  /\ cut' \subseteq Ticket /\ torn' \subseteq Ticket /\ good' \subseteq Ticket /\ closed' \subseteq Ticket
  /\ closed' \subseteq good' \union torn'
  /\ tick' \in Ticks
  /\ tick'.queue = tick.queue \/ DOMAIN tick'.queue = {}
  /\ tick'.cur \in {0, tick.cur} /\ tick'.list \subseteq tick.list

LEMMA CalledKeeps ==
  ASSUME IInv, tick.pc = "calls", Called
  PROVE  Typed' /\ Scheduled' /\ Rooted' /\ OffWell'
<1>1. \A t \in Ticket : Exists(t) => Exists(t)' /\ board'[t].deps = board[t].deps /\ board'[t].touches = board[t].touches
  BY DEF Called, Altered, Exists
<1>2. Typed'
  BY DEF IInv, Typed, Called, Altered, Exists
<1>3. Scheduled'
  <2>1. \A t \in Ticket : board'[t].writes \subseteq board'[t].touches
    BY DEF Called, Altered
  <2>2. DOMAIN tick.queue \subseteq Ticket /\ DOMAIN inFlight \subseteq Ticket
    BY DEF IInv, Typed, Ticks
  <2>3. \A t \in DOMAIN tick'.queue : Exists(t)' /\ tick'.queue[t].touches = board'[t].touches
    BY <1>1, <2>2 DEF IInv, Scheduled, Called
  <2>4. \A t \in DOMAIN inFlight' : Exists(t)' /\ inFlight'[t] = board'[t].touches
    BY <1>1, <2>2 DEF IInv, Scheduled, Called
  <2>5. \A t, u \in DOMAIN inFlight' : t # u => ~GlobsOverlap(inFlight'[t], inFlight'[u])
    BY DEF IInv, Scheduled, Called
  <2> QED  BY <2>1, <2>3, <2>4, <2>5 DEF Scheduled
<1>4. Rooted'
  <2>1. \A t \in Ticket : \A d \in board'[t].deps : Exists(d)
    BY <1>1 DEF IInv, Rooted, Called, Altered
  <2>2. \A t \in Ticket : \A d \in board'[t].deps : d \in Ticket
    BY DEF Called, Altered, Tix
  <2>3. ASSUME NEW S \in SUBSET Ticket, S # {}
        PROVE  \E t \in S : board'[t].deps \intersect S = {}
    <3> DEFINE E == {t \in S : Exists(t)}
    <3>1. CASE E = {}
      BY <2>1, <2>3, <3>1
    <3>2. CASE E # {}
      <4>1. PICK t \in E : board[t].deps \intersect E = {}
        BY <3>2 DEF IInv, Rooted
      <4> QED  BY <1>1, <2>1, <4>1
    <3> QED  BY <3>1, <3>2
  <2> QED  BY <1>1, <2>1, <2>2, <2>3 DEF Rooted
<1>5. OffWell'
  <2>1. 0 \notin calledOff
    BY TicketNat DEF IInv, Typed
  <2>2. ASSUME NEW t \in calledOff
        PROVE  board'[t].lane = "canceled"
    <3>1. t \in Ticket /\ board[t].lane = "canceled" /\ t # tick.cur
      BY DEF IInv, Typed, OffWell
    <3> QED  BY <3>1 DEF Called, Altered, Exists
  <2> QED  BY <2>1, <2>2 DEF IInv, OffWell, Called
<1> QED  BY <1>2, <1>3, <1>4, <1>5

\* The other tickets' records stay as they were; what is due of the ticket in hand decides.
LEMMA FiledKeeps ==
  ASSUME IInv, tick.pc = "calls", Called, NEW c \in Ticket, c = tick.cur,
         passes'[c].build =< 1, c \notin repos => passes'[c].build = 0,
         c \notin cut' =>
            /\ passes'[c].plan =< 1
            /\ passes'[c].plan = 1 => "Planned" \in board'[c].labels \/ Pending(c, "Planned")'
            /\ passes'[c].followup =< 1
            /\ passes'[c].followup = 1 => "Stewarded" \in board'[c].labels \/ Pending(c, "Stewarded")'
  PROVE  FiledWell'
<1>1. Exists(c)
  BY HeadIs
<1>2. ASSUME NEW t \in Ticket, t # c
      PROVE  /\ passes'[t] = passes[t] /\ board'[t].labels = board[t].labels /\ (Exists(t) => Exists(t)')
             /\ \A l : ~Pending(t, l)
  <2>1. \A l : ~Pending(t, l)
    BY <1>2 DEF Pending
  <2> QED  BY <1>2, <2>1 DEF Called, Altered, Exists
<1>3. repos' = repos /\ cut \subseteq cut' /\ Exists(c)'
  BY <1>1 DEF Called, Altered, Exists
<1>4. \A t \in Ticket : ~Exists(t)' => passes'[t].plan = 0 /\ passes'[t].followup = 0
  BY <1>2, <1>3 DEF IInv, FiledWell
<1>5. \A t \in Ticket : passes'[t].build =< 1 /\ (t \notin repos' => passes'[t].build = 0)
  BY <1>2, <1>3 DEF IInv, FiledWell
<1>6. ASSUME NEW t \in Ticket \ cut'
      PROVE  /\ passes'[t].plan =< 1
             /\ passes'[t].plan = 1 => "Planned" \in board'[t].labels \/ Pending(t, "Planned")'
             /\ passes'[t].followup =< 1
             /\ passes'[t].followup = 1 => "Stewarded" \in board'[t].labels \/ Pending(t, "Stewarded")'
  <2>1. CASE t = c
    BY <2>1, Zenon
  <2>2. CASE t # c
    BY <1>2, <1>3, <2>2 DEF IInv, FiledWell
  <2> QED  BY <2>1, <2>2
<1> QED  BY <1>4, <1>5, <1>6 DEF FiledWell

LEMMA ClosedKeeps ==
  ASSUME IInv, tick.pc = "calls", Called, NEW c \in Ticket, c = tick.cur,
         "Stewarded" \in board'[c].labels /\ "NeedsHuman" \notin board'[c].labels =>
            c \in good' \union torn' \/ Pending(c, "NeedsHuman")'
  PROVE  ClosedWell'
<1>1. ASSUME NEW t \in Ticket, "Stewarded" \in board'[t].labels, "NeedsHuman" \notin board'[t].labels
      PROVE  t \in good' \union torn' \/ Pending(t, "NeedsHuman")'
  <2>1. CASE t = c
    BY <1>1, <2>1, Zenon
  <2>2. CASE t # c
    <3>1. ~Pending(t, "NeedsHuman")
      BY <2>2 DEF Pending
    <3>2. board'[t].labels = board[t].labels
      BY <2>2 DEF Called, Altered
    <3> QED  BY <1>1, <3>1, <3>2 DEF IInv, ClosedWell, Called
  <2> QED  BY <2>1, <2>2
<1> QED  BY <1>1 DEF ClosedWell, Called

\* List rest is the rest of list cs over t.
RestOf(rest, cs, t) ==
  /\ rest \in Seq(Calls) /\ Len(rest) = Len(cs) - 1
  /\ \A i \in 1..Len(rest) : rest[i] = cs[i + 1] /\ i + 1 \in 1..Len(cs)
  /\ \A j \in 2..Len(cs) : j - 1 \in 1..Len(rest) /\ rest[j - 1] = cs[j]
  /\ Chain(t, rest)
  /\ \A i \in 1..Len(rest) : ~Files(rest[i], "build")

LEMMA TailIs ==
  ASSUME NEW t, NEW cs, Chain(t, cs), cs # << >>, NEW catch, Catches(cs, catch)
  PROVE  RestOf(Tail(cs), cs, t) /\ Catches(Tail(cs), catch)
<1> DEFINE rest == Tail(cs)
<1>1. cs \in Seq(Calls) /\ \A i \in 1..Len(cs) : Link(t, cs, i)
  BY DEF Chain
<1>2. rest \in Seq(Calls) /\ Len(rest) = Len(cs) - 1 /\ Len(cs) \in Nat /\ Len(rest) \in Nat
  BY <1>1
<1>3. \A i \in 1..Len(rest) : rest[i] = cs[i + 1]
  BY <1>1, <1>2
<1> HIDE DEF rest
<1>4. \A i \in 1..Len(rest) : i + 1 \in 1..Len(cs) /\ i + 1 # 1
  BY <1>2
<1>5. \A j \in 2..Len(cs) : j - 1 \in 1..Len(rest) /\ rest[j - 1] = cs[j]
  BY <1>2, <1>3
<1>6. ASSUME NEW i \in 1..Len(rest)
      PROVE  Link(t, rest, i) /\ ~Files(rest[i], "build")
  <2>1. Link(t, cs, i + 1) /\ rest[i] = cs[i + 1] /\ i + 1 # 1
    BY <1>1, <1>3, <1>4
  <2>2. ~Files(rest[i], "build")
    BY <2>1 DEF Link
  <2>3. \A j \in i + 1 + 1..Len(cs) : j - 1 \in i + 1..Len(rest) /\ rest[j - 1] = cs[j]
    BY <1>2, <1>5
  <2>4. Files(rest[i], "plan") => rest[i].strict /\ \E j \in i + 1..Len(rest) : Adds(rest[j], "Planned")
    <3>1. (\E j \in i + 1 + 1..Len(cs) : Adds(cs[j], "Planned")) => \E j \in i + 1..Len(rest) : Adds(rest[j], "Planned")
      BY <2>3
    <3> QED  BY <2>1, <3>1 DEF Link
  <2>5. Files(rest[i], "followup") => rest[i].strict /\ \E j \in i + 1..Len(rest) : Adds(rest[j], "Stewarded")
    <3>1. (\E j \in i + 1 + 1..Len(cs) : Adds(cs[j], "Stewarded")) => \E j \in i + 1..Len(rest) : Adds(rest[j], "Stewarded")
      BY <2>3
    <3> QED  BY <2>1, <3>1 DEF Link
  <2>6. Adds(rest[i], "Stewarded") /\ ~rest[i].strict => \E j \in i + 1..Len(rest) : HandsOver(rest[j])
    <3>1. (\E j \in i + 1 + 1..Len(cs) : HandsOver(cs[j])) => \E j \in i + 1..Len(rest) : HandsOver(rest[j])
      BY <2>3
    <3> QED  BY <2>1, <3>1 DEF Link
  <2>7. HandsOver(rest[i]) => \A j \in 1..Len(rest) : ~rest[j].strict
    BY <1>3, <1>4, <2>1 DEF Link
  <2>8. rest[i].t = t /\ Proper(rest[i])
    BY <2>1 DEF Link
  <2> QED  BY <2>2, <2>4, <2>5, <2>6, <2>7, <2>8 DEF Link
<1>7. Chain(t, rest)
  BY <1>2, <1>6 DEF Chain
<1>8. Catches(rest, catch)
  BY <1>3, <1>4 DEF Catches
<1> QED  BY <1>2, <1>3, <1>4, <1>5, <1>6, <1>7, <1>8 DEF rest, RestOf

\* What is due of the ticket in hand is on it once the call is made, or still to be made.
LEMMA StillDue ==
  ASSUME IInv, tick.pc = "calls", Altered, Labelled(Head(tick.calls)),
         NEW t, t = tick.cur, NEW l \in {"Planned", "Stewarded", "NeedsHuman"},
         l \in board[t].labels \/ \E i \in 1..Len(tick.calls) : Adds(tick.calls[i], l)
  PROVE  l \in board'[t].labels \/ \E i \in 1..Len(Tail(tick.calls)) : Adds(Tail(tick.calls)[i], l)
<1>1. CASE l \in board[t].labels
  BY <1>1 DEF Altered
<1>2. CASE \E i \in 1..Len(tick.calls) : Adds(tick.calls[i], l)
  <2>1. PICK i \in 1..Len(tick.calls) : Adds(tick.calls[i], l)
    BY <1>2
  <2>2. CASE i = 1
    BY <2>1, <2>2, HeadIs DEF Labelled, Adds
  <2>3. CASE i # 1
    <3>1. tick.calls # << >> /\ Chain(t, tick.calls) /\ Catches(tick.calls, tick.catch)
      BY DEF IInv, Calling
    <3>2. \A j \in 2..Len(tick.calls) : j - 1 \in 1..Len(Tail(tick.calls)) /\ Tail(tick.calls)[j - 1] = tick.calls[j]
      BY <3>1, TailIs DEF RestOf
    <3>3. i \in 2..Len(tick.calls)
      BY <2>3
    <3> QED  BY <2>1, <3>2, <3>3
  <2> QED  BY <2>2, <2>3
<1> QED  BY <1>1, <1>2

LEMMA PlacedKeeps ==
  ASSUME IInv, tick.pc = "calls", Called, tick.then # "schedule" => passes'[tick.cur].plan = passes[tick.cur].plan,
         (Ahead' = tick.then /\ tick'.queue = tick.queue) \/ (Ahead' = "idle" /\ tick'.pc = "idle"),
         tick'.pc \notin {"scaffold", "closeout"},
         tick'.pc # "calls" => tick'.made = << >> /\ tick'.filing = "none" /\ tick'.catch = << >> /\ tick'.cur = 0,
         \A i \in 1..Len(tick'.made) : board'[tick'.made[i]].lane # "none"
  PROVE  Placed'
<1>1. Ahead = tick.then /\ tick.then \in {"idea", "epic", "schedule", "reconcile", "review", "epics"}
  BY DEF Ahead, IInv, Calling
<1>2. \A t \in tick'.list : board'[t].lane # "none"
  <2>1. \A t \in tick.list : t \in Ticket /\ Exists(t)
    BY DEF IInv, Typed, Ticks, Placed
  <2> QED  BY <2>1 DEF Called, Altered
<1>3. CASE Ahead' = "idle" /\ tick'.pc = "idle"
  BY <1>2, <1>3 DEF Placed, Exists
<1>4. CASE Ahead' = tick.then /\ tick'.queue = tick.queue
  <2>1. tick.then \in {"bootstrap", "idea", "epic"} => Routed(tick.queue, tick.then) # {}
    BY <1>1 DEF IInv, Placed
  <2>2. tick.then = "epics" => tick'.list \subseteq good' \union torn'
    BY <1>1 DEF IInv, Placed, Called
  <2>3. ASSUME tick.then \in {"bootstrap", "scaffold", "idea", "epic"},
               NEW t \in Routed(tick.queue, "epic"), t \notin cut'
        PROVE  passes'[t].plan = 0
    <3>1. t \in Ticket
      BY DEF IInv, Typed, Ticks, Routed
    <3>2. t \notin cut /\ passes[t].plan = 0
      BY <1>1, <2>3 DEF IInv, Placed, Called
    <3>3. passes'[t].plan = passes[t].plan
      BY <2>3, <3>1 DEF Called
    <3> QED  BY <3>2, <3>3
  <2> HIDE DEF Called
  <2> QED  BY <1>1, <1>2, <1>4, <2>1, <2>2, <2>3 DEF Placed, Exists
<1> QED  BY <1>3, <1>4

LEMMA CallingKeeps ==
  ASSUME IInv, tick.pc = "calls", Called, NEW t, t = tick.cur, NEW L, NEW K, L # << >>,
         Chain(t, L), Chain(t, K), Catches(L, K),
         \A i \in 1..Len(L) :
            /\ Files(L[i], "plan") => tick.then = "schedule" /\ (tick'.filing = "none" /\ t \notin cut' => passes'[t].plan = 0)
            /\ Files(L[i], "followup") => (tick'.filing = "none" /\ t \notin cut' => passes'[t].followup = 0)
            /\ ~Files(L[i], "build"),
         tick'.pc = "calls", tick'.cur = t, tick'.then = tick.then, tick'.calls = L, tick'.catch = K
  PROVE  Calling'
<1>1. t \in Ticket /\ Exists(t) /\ tick.then \in {"idea", "epic", "schedule", "reconcile", "review", "epics"}
      /\ (tick.then = "epics" => t \in good \union torn)
  BY DEF IInv, Calling
<1>2. Exists(t)'
  BY <1>1 DEF Called, Altered, Exists
<1>3. tick.then = "epics" => t \in good' \union torn'
  BY <1>1 DEF Called
<1>4. \A i \in 1..Len(L) : Fresh(t, L[i])'
  BY DEF Fresh
<1> HIDE DEF Called
<1> QED  BY <1>1, <1>2, <1>3, <1>4 DEF Calling

\* The tick goes on with calls L and catch list K.
GoesOn(L, K) ==
  /\ tick' \in Ticks
  /\ tick'.pc = "calls" /\ tick'.cur = tick.cur /\ tick'.then = tick.then
  /\ tick'.calls = L /\ tick'.catch = K
  /\ tick'.queue = tick.queue /\ tick'.list = tick.list

LEMMA CallLandsKeeps ==
  ASSUME IInv, CallLands
  PROVE  IInv'
<1> DEFINE c == Head(tick.calls)
           rest == Tail(tick.calls)
<1> PICK t : t = tick.cur
  OBVIOUS
<1>1. /\ tick.pc = "calls" /\ (c.op = "create" => Room) /\ board' = Landed(c)
      /\ CountPass(c) /\ NoteEnd(c)
      /\ UNCHANGED <<repos, inFlight, calledOff, cut, torn, human, faults>>
      /\ \/ rest = << >> /\ tick' = Rest(tick.then)
         \/ rest # << >> /\ tick' = [tick EXCEPT !.calls = rest,
                                     !.filing = IF c.op = "create" THEN "begun" ELSE @,
                                     !.made = IF c.op = "create" THEN Append(@, FreeId) ELSE @]
  BY DEF CallLands
<1>2. /\ c = tick.calls[1] /\ 1 \in 1..Len(tick.calls) /\ c \in Calls /\ c.t = t /\ Proper(c)
      /\ Fresh(t, c) /\ t \in Ticket /\ Exists(t)
  BY <1>1, HeadIs
<1>3. /\ tick.calls # << >> /\ Chain(t, tick.calls) /\ Chain(t, tick.catch) /\ Catches(tick.calls, tick.catch)
      /\ tick.then \in {"idea", "epic", "schedule", "reconcile", "review", "epics"}
      /\ (tick.then = "epics" => t \in good \union torn)
      /\ \A i \in 1..Len(tick.calls) : Fresh(t, tick.calls[i])
  BY <1>1 DEF IInv, Calling
<1>4. RestOf(rest, tick.calls, t) /\ Catches(rest, tick.catch)
  BY <1>3, TailIs
<1>5. Altered /\ Labelled(c) /\ (c.op = "create" => FreeId \in Ticket /\ board'[FreeId].lane # "none")
  BY <1>1, LandedIs
<1>6. /\ passes' \in [Ticket -> Passes]
      /\ \A u \in Ticket : u # t => passes'[u] = passes[u]
      /\ passes'[t].build =< 1 /\ (t \notin repos => passes'[t].build = 0)
      /\ t \notin cut =>
            /\ passes'[t].plan = passes[t].plan \/ (Files(c, "plan") /\ passes'[t].plan = 1)
            /\ passes'[t].followup = passes[t].followup \/ (Files(c, "followup") /\ passes'[t].followup = 1)
      /\ tick.then # "schedule" => passes'[t].plan = passes[t].plan
      /\ c.op # "create" \/ tick.filing # "none" => passes' = passes
  BY <1>1, CountIs
<1>7. /\ tick.then \in Places /\ tick \in Ticks /\ tick.pc = "calls"
      /\ tick.made \in Seq(Ticket) /\ (\A i \in 1..Len(tick.made) : Exists(tick.made[i]))
  BY <1>1 DEF IInv, Typed, Placed, Ticks
<1>8. \A l \in {"Planned", "Stewarded", "NeedsHuman"} :
         (l \in board[t].labels \/ \E i \in 1..Len(tick.calls) : Adds(tick.calls[i], l)) =>
            l \in board'[t].labels \/ \E i \in 1..Len(rest) : Adds(rest[i], l)
  BY <1>1, <1>5, StillDue
<1> HIDE DEF c, rest
<1>9. rest # << >> =>
         /\ GoesOn(rest, tick.catch)
         /\ tick'.filing = IF c.op = "create" THEN "begun" ELSE tick.filing
         /\ \A i \in 1..Len(tick'.made) : board'[tick'.made[i]].lane # "none"
  <2> SUFFICES ASSUME rest # << >>
               PROVE  /\ GoesOn(rest, tick.catch)
                      /\ tick'.filing = IF c.op = "create" THEN "begun" ELSE tick.filing
                      /\ \A i \in 1..Len(tick'.made) : board'[tick'.made[i]].lane # "none"
    OBVIOUS
  <2> DEFINE made == IF c.op = "create" THEN Append(tick.made, FreeId) ELSE tick.made
             filing == IF c.op = "create" THEN "begun" ELSE tick.filing
  <2>1. made \in Seq(Ticket) /\ \A i \in 1..Len(made) : board'[made[i]].lane # "none"
    <3>1. \A i \in 1..Len(tick.made) : board'[tick.made[i]].lane # "none"
      BY <1>5, <1>7 DEF Altered
    <3> QED  BY <1>5, <1>7, <3>1
  <2>2. filing \in {"none", "begun"}
    BY <1>7 DEF Ticks
  <2>3. tick' = [tick EXCEPT !.calls = rest, !.filing = filing, !.made = made]
    BY <1>1
  <2> HIDE DEF made, filing
  <2>4. tick' = [pc |-> "calls", queue |-> tick.queue, cur |-> tick.cur, calls |-> rest, catch |-> tick.catch,
                 then |-> tick.then, made |-> made, filing |-> filing, list |-> tick.list]
    BY <1>7, <2>3 DEF Ticks
  <2>5. tick' \in Ticks
    BY <1>4, <1>7, <2>1, <2>2, <2>4 DEF Ticks, RestOf
  <2> QED  BY <2>1, <2>4, <2>5 DEF GoesOn, filing
<1>10. rest = << >> => Gone(tick.then, 0) /\ tick'.list = tick.list /\ tick'.queue = tick.queue
  BY <1>1, <1>7, RestGone DEF IInv
<1>11. Called
  <2>1. closed' \subseteq good' \union torn' /\ good \subseteq good' /\ good' \subseteq Ticket /\ closed' \subseteq Ticket
    BY <1>1, <1>2, <1>3 DEF NoteEnd, IInv, Typed, ClosedWell
  <2>2. /\ tick' \in Ticks /\ (tick'.queue = tick.queue \/ DOMAIN tick'.queue = {})
        /\ tick'.cur \in {0, tick.cur} /\ tick'.list \subseteq tick.list
    BY <1>9, <1>10 DEF GoesOn, Gone
  <2> QED  BY <1>1, <1>5, <1>6, <2>1, <2>2 DEF Called, IInv, Typed
<1>12. \A l : (\E i \in 1..Len(rest) : Adds(rest[i], l)) => Pending(t, l)'
  <2> SUFFICES ASSUME NEW l, NEW i \in 1..Len(rest), Adds(rest[i], l)
               PROVE  Pending(t, l)'
    OBVIOUS
  <2>1. rest # << >>
    OBVIOUS
  <2>2. tick'.pc = "calls" /\ tick'.cur = tick.cur /\ tick'.calls = rest
    BY <1>9, <2>1 DEF GoesOn
  <2> QED BY <2>2 DEF Pending
<1>13. FiledWell'
  <2>1. ASSUME t \notin cut'
        PROVE  /\ passes'[t].plan =< 1
               /\ passes'[t].plan = 1 => "Planned" \in board'[t].labels \/ Pending(t, "Planned")'
    <3>1. t \notin cut /\ passes[t].plan =< 1 /\ (passes[t].plan = 1 => "Planned" \in board[t].labels \/ Pending(t, "Planned"))
      BY <1>1, <1>2, <2>1 DEF IInv, FiledWell
    <3>2. CASE passes'[t].plan = passes[t].plan
      BY <1>8, <1>12, <3>1, <3>2 DEF Pending
    <3>3. CASE Files(c, "plan") /\ passes'[t].plan = 1
      <4>1. PICK j \in 2..Len(tick.calls) : Adds(tick.calls[j], "Planned")
        BY <1>2, <1>3, <3>3 DEF Chain, Link
      <4> QED  BY <1>4, <1>12, <3>3, <4>1 DEF RestOf
    <3> QED  BY <1>6, <3>1, <3>2, <3>3
  <2>2. ASSUME t \notin cut'
        PROVE  /\ passes'[t].followup =< 1
               /\ passes'[t].followup = 1 => "Stewarded" \in board'[t].labels \/ Pending(t, "Stewarded")'
    <3>1. /\ t \notin cut /\ passes[t].followup =< 1
          /\ passes[t].followup = 1 => "Stewarded" \in board[t].labels \/ Pending(t, "Stewarded")
      BY <1>1, <1>2, <2>2 DEF IInv, FiledWell
    <3>2. CASE passes'[t].followup = passes[t].followup
      BY <1>8, <1>12, <3>1, <3>2 DEF Pending
    <3>3. CASE Files(c, "followup") /\ passes'[t].followup = 1
      <4>1. PICK j \in 2..Len(tick.calls) : Adds(tick.calls[j], "Stewarded")
        BY <1>2, <1>3, <3>3 DEF Chain, Link
      <4> QED  BY <1>4, <1>12, <3>3, <4>1 DEF RestOf
    <3> QED  BY <1>6, <3>1, <3>2, <3>3
  <2> QED  BY <1>1, <1>2, <1>6, <1>11, <2>1, <2>2, FiledKeeps
<1>14. ClosedWell'
  <2>1. ASSUME "Stewarded" \in board'[t].labels, "NeedsHuman" \notin board'[t].labels
        PROVE  t \in good' \union torn' \/ Pending(t, "NeedsHuman")'
    <3>1. CASE "Stewarded" \in board[t].labels
      <4>1. t \in good \union torn \/ "NeedsHuman" \in board[t].labels \/ Pending(t, "NeedsHuman")
        BY <1>2, <3>1 DEF IInv, ClosedWell
      <4> QED  BY <1>8, <1>11, <1>12, <2>1, <4>1 DEF Pending, Called
    <3>2. CASE "Stewarded" \notin board[t].labels
      <4>1. Adds(c, "Stewarded")
        BY <1>5, <2>1, <3>2 DEF Labelled, Adds
      <4>2. CASE c.strict
        BY <1>1, <1>2, <4>1, <4>2 DEF NoteEnd, Adds
      <4>3. CASE ~c.strict
        <5>1. PICK j \in 2..Len(tick.calls) : HandsOver(tick.calls[j])
          BY <1>2, <1>3, <4>1, <4>3 DEF Chain, Link
        <5> QED  BY <1>4, <1>12, <5>1 DEF HandsOver, RestOf
      <4> QED  BY <4>2, <4>3
    <3> QED  BY <3>1, <3>2
  <2> QED  BY <1>1, <1>2, <1>11, <2>1, ClosedKeeps
<1>15. Calling'
  <2>1. CASE rest = << >>
    BY <1>3, <1>10, <2>1 DEF Calling, Gone
  <2>2. CASE rest # << >>
    <3>1. \A i \in 1..Len(rest) :
            /\ Files(rest[i], "plan") =>
                  tick.then = "schedule" /\ (tick'.filing = "none" /\ t \notin cut' => passes'[t].plan = 0)
            /\ Files(rest[i], "followup") => (tick'.filing = "none" /\ t \notin cut' => passes'[t].followup = 0)
            /\ ~Files(rest[i], "build")
      BY <1>1, <1>3, <1>4, <1>6, <1>9, <2>2 DEF Fresh, RestOf
    <3>2. /\ tick'.pc = "calls" /\ tick'.cur = t /\ tick'.then = tick.then /\ tick'.calls = rest
          /\ tick'.catch = tick.catch
      BY <1>9, <2>2 DEF GoesOn
    <3> QED  BY <1>1, <1>3, <1>4, <1>11, <2>2, <3>1, <3>2, CallingKeeps DEF RestOf
  <2> QED  BY <2>1, <2>2
<1>16. Placed'
  <2>1. CASE rest = << >>
    <3>1. tick'.pc = tick.then /\ tick'.made = << >> /\ tick'.filing = "none" /\ tick'.catch = << >> /\ tick'.cur = 0
      BY <1>10, <2>1 DEF Gone
    <3>2. Ahead' = tick.then
      BY <1>3, <3>1 DEF Ahead
    <3> QED  BY <1>1, <1>3, <1>6, <1>10, <1>11, <2>1, <3>1, <3>2, PlacedKeeps
  <2>2. CASE rest # << >>
    <3>1. Ahead' = tick.then /\ tick'.pc = "calls" /\ tick'.queue = tick.queue
      BY <1>9, <2>2 DEF GoesOn, Ahead
    <3> QED  BY <1>1, <1>6, <1>9, <1>11, <2>2, <3>1, PlacedKeeps
  <2> QED  BY <2>1, <2>2
<1> QED  BY <1>1, <1>11, <1>13, <1>14, <1>15, <1>16, CalledKeeps DEF IInv

LEMMA ThrownKeeps ==
  ASSUME IInv, tick.pc = "calls", Thrown(Head(tick.calls)),
         Altered, Labelled(Head(tick.calls)) \/ board' = board,
         CountPass(Head(tick.calls)) \/ passes' = passes,
         UNCHANGED <<repos, inFlight, calledOff, closed, good>>
  PROVE  IInv'
<1> DEFINE c == Head(tick.calls)
<1> PICK t : t = tick.cur
  OBVIOUS
<1> PICK L : L = Remaining(Head(tick.calls))
  OBVIOUS
<1> PICK K : K = IF Head(tick.calls).strict THEN << >> ELSE tick.catch
  OBVIOUS
<1>1. /\ c = tick.calls[1] /\ 1 \in 1..Len(tick.calls) /\ c \in Calls /\ c.t = t /\ Proper(c)
      /\ Fresh(t, c) /\ t \in Ticket /\ Exists(t)
  BY HeadIs
<1>2. /\ tick.calls # << >> /\ Chain(t, tick.calls) /\ Chain(t, tick.catch) /\ Catches(tick.calls, tick.catch)
      /\ tick.then \in {"idea", "epic", "schedule", "reconcile", "review", "epics"}
      /\ (tick.then = "epics" => t \in good \union torn)
      /\ \A i \in 1..Len(tick.calls) : Fresh(t, tick.calls[i])
  BY DEF IInv, Calling
<1>3. /\ L = (IF c.strict THEN tick.catch ELSE Tail(tick.calls))
      /\ cut' = cut \union {t}
      /\ torn' = (IF c.strict /\ tick.catch # << >> THEN torn ELSE torn \union {t})
  BY <1>1 DEF Thrown, Remaining
<1>4. /\ Chain(t, L) /\ Chain(t, K) /\ Catches(L, K) /\ (\A i \in 1..Len(L) : ~Files(L[i], "build"))
      /\ (\A i \in 1..Len(L) : Files(L[i], "plan") => tick.then = "schedule")
  <2>1. CASE c.strict
    <3>1. L = tick.catch /\ K = << >>
      BY <1>3, <2>1
    <3>2. \A i \in 1..Len(L) : L[i].op # "create" /\ ~L[i].strict
      BY <1>2, <3>1 DEF Catches
    <3>3. Chain(t, K)
      BY <3>1, NothingPlain, PlainChain
    <3>4. Catches(L, K)
      BY <3>1, <3>2 DEF Catches
    <3> QED  BY <1>2, <3>1, <3>2, <3>3, <3>4 DEF Files
  <2>2. CASE ~c.strict
    <3>1. L = Tail(tick.calls) /\ K = tick.catch
      BY <1>3, <2>2
    <3>2. RestOf(L, tick.calls, t) /\ Catches(L, K)
      BY <1>2, <3>1, TailIs
    <3>3. \A i \in 1..Len(L) : Files(L[i], "plan") => tick.then = "schedule"
      BY <1>2, <3>2 DEF RestOf, Fresh
    <3> QED  BY <1>2, <3>1, <3>2, <3>3 DEF RestOf
  <2> QED  BY <2>1, <2>2
<1>5. /\ passes' \in [Ticket -> Passes]
      /\ \A u \in Ticket : u # t => passes'[u] = passes[u]
      /\ passes'[t].build =< 1 /\ (t \notin repos => passes'[t].build = 0)
      /\ tick.then # "schedule" => passes'[t].plan = passes[t].plan
  BY CountIs
<1>6. /\ tick.then \in Places /\ tick \in Ticks
      /\ tick.made \in Seq(Ticket) /\ (\A i \in 1..Len(tick.made) : Exists(tick.made[i]))
  BY DEF IInv, Typed, Placed, Ticks
<1>7. \/ c.strict /\ tick.catch = << >> /\ tick' = Resting
      \/ ~(c.strict /\ tick.catch = << >>) /\ L = << >> /\ tick' = Rest(tick.then)
      \/ L # << >> /\ tick' = [tick EXCEPT !.calls = L, !.catch = K, !.filing = IF c.op = "create" THEN "begun" ELSE @]
  <2>1. CASE c.strict /\ tick.catch = << >>
    BY <2>1 DEF Thrown
  <2>2. CASE ~(c.strict /\ tick.catch = << >>) /\ L = << >>
    BY <2>2 DEF Thrown
  <2>3. CASE ~(c.strict /\ tick.catch = << >>) /\ L # << >>
    <3>1. tick' = [tick EXCEPT !.calls = L, !.catch = IF c.strict THEN << >> ELSE @,
                               !.filing = IF c.op = "create" THEN "begun" ELSE @]
      BY <2>3 DEF Thrown
    <3> QED  BY <1>6, <2>3, <3>1 DEF Ticks
  <2> QED  BY <2>1, <2>2, <2>3
<1> HIDE DEF c
<1>8. CASE L # << >> /\ tick' = [tick EXCEPT !.calls = L, !.catch = K, !.filing = IF c.op = "create" THEN "begun" ELSE @]
  <2> DEFINE filing == IF c.op = "create" THEN "begun" ELSE tick.filing
  <2>1. filing \in {"none", "begun"} /\ L \in Seq(Calls) /\ K \in Seq(Calls)
    BY <1>4, <1>6 DEF Ticks, Chain
  <2>2. tick' = [tick EXCEPT !.calls = L, !.catch = K, !.filing = filing]
    BY <1>8
  <2> HIDE DEF filing
  <2>3. tick' = [pc |-> "calls", queue |-> tick.queue, cur |-> tick.cur, calls |-> L, catch |-> K,
                 then |-> tick.then, made |-> tick.made, filing |-> filing, list |-> tick.list]
    BY <1>6, <2>2 DEF Ticks
  <2>4. tick' \in Ticks
    BY <1>6, <2>1, <2>3 DEF Ticks
  <2>5. GoesOn(L, K) /\ tick'.made = tick.made
    BY <2>3, <2>4 DEF GoesOn
  <2>6. Called
    BY <1>1, <1>3, <1>5, <2>5 DEF Called, GoesOn, IInv, Typed, ClosedWell
  <2>7. FiledWell'
    BY <1>1, <1>3, <1>5, <2>6, FiledKeeps
  <2>8. ClosedWell'
    <3>1. ASSUME "Stewarded" \in board'[t].labels, "NeedsHuman" \notin board'[t].labels
          PROVE  t \in good' \union torn' \/ Pending(t, "NeedsHuman")'
      <4>1. CASE ~(c.strict /\ tick.catch # << >>)
        BY <1>3, <4>1 DEF c
      <4>2. CASE c.strict /\ tick.catch # << >>
        <5>1. L = tick.catch
          BY <1>3, <4>2 DEF c
        <5>2. CASE Adds(c, "Stewarded")
          <6>1. \E i \in 1..Len(L) : HandsOver(L[i])
            BY <1>1, <1>2, <4>2, <5>1, <5>2 DEF Catches
          <6> QED  BY <2>5, <6>1 DEF Pending, HandsOver, GoesOn
        <5>3. CASE ~Adds(c, "Stewarded")
          <6>1. "Stewarded" \in board[t].labels /\ "NeedsHuman" \notin board[t].labels
            BY <3>1, <5>3 DEF Labelled, Adds, Altered, c
          <6>2. ~Pending(t, "NeedsHuman")
            BY <1>1, <1>2, <4>2 DEF Pending, Chain, Link, HandsOver
          <6> QED  BY <1>1, <1>3, <4>2, <6>1, <6>2 DEF IInv, ClosedWell
        <5> QED  BY <5>2, <5>3
      <4> QED  BY <4>1, <4>2
    <3> QED  BY <1>1, <2>6, <3>1, ClosedKeeps
  <2>9. Calling'
    <3>1. \A i \in 1..Len(L) :
            /\ Files(L[i], "plan") =>
                  tick.then = "schedule" /\ (tick'.filing = "none" /\ t \notin cut' => passes'[t].plan = 0)
            /\ Files(L[i], "followup") => (tick'.filing = "none" /\ t \notin cut' => passes'[t].followup = 0)
            /\ ~Files(L[i], "build")
      BY <1>3, <1>4
    <3>2. /\ tick'.pc = "calls" /\ tick'.cur = t /\ tick'.then = tick.then /\ tick'.calls = L /\ tick'.catch = K
      BY <2>5 DEF GoesOn
    <3> QED  BY <1>4, <1>8, <2>6, <3>1, <3>2, CallingKeeps
  <2>10. Placed'
    <3>1. Ahead' = tick.then /\ tick'.pc = "calls" /\ tick'.queue = tick.queue
      BY <2>5 DEF GoesOn, Ahead
    <3>2. \A i \in 1..Len(tick'.made) : board'[tick'.made[i]].lane # "none"
      BY <1>6, <2>5 DEF Altered
    <3> QED  BY <1>5, <2>6, <3>1, <3>2, PlacedKeeps
  <2> QED  BY <2>6, <2>7, <2>8, <2>9, <2>10, CalledKeeps DEF IInv
<1>9. CASE \/ c.strict /\ tick.catch = << >> /\ tick' = Resting
           \/ ~(c.strict /\ tick.catch = << >>) /\ L = << >> /\ tick' = Rest(tick.then)
  <2>1. \/ Gone(tick.then, 0) /\ tick'.list = tick.list /\ tick'.queue = tick.queue
        \/ Gone("idle", 0) /\ tick'.list = {}
    BY <1>6, <1>9, RestGone, RestingGone DEF IInv
  <2>2. t \in torn'
    BY <1>3, <1>9 DEF c
  <2>3. Called
    BY <1>1, <1>3, <1>5, <2>1 DEF Called, Gone, IInv, Typed, ClosedWell
  <2>4. FiledWell'
    BY <1>1, <1>3, <1>5, <2>3, FiledKeeps
  <2>5. ClosedWell'
    BY <1>1, <2>2, <2>3, ClosedKeeps
  <2>6. Calling'
    BY <1>2, <2>1 DEF Calling, Gone
  <2>7. /\ tick'.pc \in {tick.then, "idle"} /\ tick'.made = << >> /\ tick'.filing = "none" /\ tick'.catch = << >>
        /\ tick'.cur = 0 /\ (tick'.pc = "idle" \/ tick'.queue = tick.queue)
    BY <2>1 DEF Gone
  <2>8. Ahead' = tick'.pc /\ tick'.pc \notin {"scaffold", "closeout", "calls"}
    BY <1>2, <2>7 DEF Ahead
  <2>9. Placed'
    BY <1>5, <2>3, <2>7, <2>8, PlacedKeeps
  <2> QED  BY <2>3, <2>4, <2>5, <2>6, <2>9, CalledKeeps DEF IInv
<1> QED  BY <1>7, <1>8, <1>9

LEMMA CallFailsKeeps ==
  ASSUME IInv, CallFails
  PROVE  IInv'
<1>1. PICK late \in BOOLEAN :
         /\ tick.pc = "calls" /\ (late /\ Head(tick.calls).op = "create" => Room)
         /\ board' = (IF late THEN Landed(Head(tick.calls)) ELSE board)
         /\ IF late THEN CountPass(Head(tick.calls)) ELSE UNCHANGED passes
         /\ Thrown(Head(tick.calls))
         /\ UNCHANGED <<repos, inFlight, calledOff, closed, good>>
  BY DEF CallFails
<1>2. CASE late
  BY <1>1, <1>2, LandedIs, ThrownKeeps
<1>3. CASE ~late
  BY <1>1, <1>3, SameAltered, ThrownKeeps
<1> QED  BY <1>2, <1>3

LEMMA NoRoomKeeps ==
  ASSUME IInv, NoRoom
  PROVE  IInv'
<1>1. /\ tick.pc = "calls" /\ board' = board /\ passes' = passes /\ Thrown(Head(tick.calls))
      /\ UNCHANGED <<repos, inFlight, calledOff, closed, good>>
  BY DEF NoRoom
<1> QED  BY <1>1, SameAltered, ThrownKeeps

-----------------------------------------------------------------------------
(* The runs, humans, and the end of the process. *)

LEMMA EditedKeeps ==
  ASSUME IInv, UNCHANGED <<repos, tick, passes, cut, closed, good>>,
         NEW x \in Ticket, Exists(x), NEW r \in Tix, board' = [board EXCEPT ![x] = r],
         r.lane # "none", r.lane \in {"blocked", "needs_human"} => HoldColumns,
         r.touches = board[x].touches, r.writes = board[x].writes,
         r.deps = board[x].deps \/ Rooted',
         board[x].labels \intersect {"Planned", "Stewarded"} \subseteq r.labels,
         "Stewarded" \in r.labels => "Stewarded" \in board[x].labels,
         "NeedsHuman" \in board[x].labels => "NeedsHuman" \in r.labels \/ x \in torn',
         inFlight' = inFlight \/ Leave(x),
         torn \subseteq torn', torn' \subseteq Ticket,
         calledOff' \subseteq calledOff \union {x},
         x \in calledOff' => r.lane = "canceled",
         x \in calledOff' \ calledOff => ~Busy(x) /\ x \notin DOMAIN inFlight
  PROVE  IInv'
<1>1. board \in [Ticket -> Tix] /\ board'[x] = r /\ (\A t \in Ticket : t # x => board'[t] = board[t])
  BY DEF IInv, Typed
<1>2. \A t \in Ticket : (Exists(t) <=> Exists(t)') /\ board'[t].touches = board[t].touches /\ board'[t].writes = board[t].writes
  BY <1>1 DEF Exists
<1>3. /\ inFlight' \in UNION {[Q -> SUBSET Globs] : Q \in SUBSET Ticket}
      /\ DOMAIN inFlight' \subseteq DOMAIN inFlight
      /\ \A t \in DOMAIN inFlight' : inFlight'[t] = inFlight[t]
  <2>1. inFlight \in UNION {[Q -> SUBSET Globs] : Q \in SUBSET Ticket}
    BY DEF IInv, Typed
  <2>2. CASE inFlight' = inFlight
    BY <2>1, <2>2
  <2>3. CASE Leave(x)
    <3> DEFINE Q == DOMAIN inFlight \ {x}
    <3>1. inFlight' = [u \in Q |-> inFlight[u]] /\ Q \in SUBSET Ticket
      BY <2>1, <2>3 DEF Leave
    <3>2. inFlight' \in [Q -> SUBSET Globs]
      BY <2>1, <3>1
    <3> QED  BY <3>1, <3>2
  <2> QED  BY <2>2, <2>3
<1>4. Typed'
  <2>1. board' \in [Ticket -> Tix]
    BY <1>1
  <2>2. \A t \in Ticket : board'[t].lane \in {"blocked", "needs_human"} => HoldColumns
    BY <1>1 DEF IInv, Typed
  <2>3. \A t \in Ticket : ~Exists(t)' => board'[t] = Absent
    BY <1>1 DEF IInv, Typed, Exists
  <2>4. calledOff' \subseteq Ticket
    BY DEF IInv, Typed
  <2> QED  BY <1>3, <2>1, <2>2, <2>3, <2>4 DEF IInv, Typed
<1>5. Scheduled'
  <2>1. DOMAIN tick.queue \subseteq Ticket /\ DOMAIN inFlight \subseteq Ticket
    BY DEF IInv, Typed, Ticks
  <2>2. \A t \in Ticket : board'[t].writes \subseteq board'[t].touches
    BY <1>2 DEF IInv, Scheduled
  <2>3. \A t \in DOMAIN tick'.queue : Exists(t)' /\ tick'.queue[t].touches = board'[t].touches
    BY <1>2, <2>1 DEF IInv, Scheduled
  <2>4. \A t \in DOMAIN inFlight' : Exists(t)' /\ inFlight'[t] = board'[t].touches
    BY <1>2, <1>3, <2>1 DEF IInv, Scheduled
  <2>5. \A t, u \in DOMAIN inFlight' : t # u => ~GlobsOverlap(inFlight'[t], inFlight'[u])
    BY <1>3 DEF IInv, Scheduled
  <2> QED  BY <2>2, <2>3, <2>4, <2>5 DEF Scheduled
<1>6. \A t, l : Pending(t, l) <=> Pending(t, l)'
  BY DEF Pending
<1>7. Calling'
  <2>1. tick.pc = "calls" => tick.cur \in Ticket /\ Exists(tick.cur)'
    BY <1>2 DEF IInv, Calling, Exists
  <2>2. \A t, c : Fresh(t, c) <=> Fresh(t, c)'
    BY DEF Fresh
  <2> QED  BY <2>1, <2>2 DEF IInv, Calling
<1>8. Placed'
  <2>1. tick \in Ticks /\ tick.list \subseteq Ticket /\ tick.made \in Seq(Ticket)
    BY DEF IInv, Typed, Ticks
  <2>2. \A t \in tick.list : Exists(t)'
    BY <1>2, <2>1 DEF IInv, Placed
  <2>3. \A i \in 1..Len(tick.made) : board'[tick.made[i]].lane # "none"
    BY <1>2, <2>1 DEF IInv, Placed, Exists
  <2>4. tick.pc \in {"scaffold", "closeout"} => tick.cur \in Ticket /\ board'[tick.cur].lane # "none"
    BY <1>2 DEF IInv, Typed, Placed, Exists
  <2>5. Ahead' = Ahead
    BY DEF Ahead
  <2> QED  BY <2>2, <2>3, <2>4, <2>5 DEF IInv, Placed, Exists
<1>9. FiledWell'
  <2>1. \A t \in Ticket : \A l \in {"Planned", "Stewarded"} : l \in board[t].labels => l \in board'[t].labels
    BY <1>1
  <2> QED  BY <1>2, <1>6, <2>1 DEF IInv, FiledWell
<1>10. ClosedWell'
  <2>1. ASSUME NEW t \in Ticket, "Stewarded" \in board'[t].labels, "NeedsHuman" \notin board'[t].labels
        PROVE  t \in good' \union torn' \/ Pending(t, "NeedsHuman")'
    BY <1>1, <1>6, <2>1 DEF IInv, ClosedWell
  <2> QED  BY <2>1 DEF IInv, ClosedWell
<1>11. OffWell'
  <2>1. ASSUME NEW t \in calledOff'
        PROVE  /\ board'[t].lane = "canceled" /\ t # tick.cur /\ t \notin DOMAIN tick.queue /\ t \notin tick.list
               /\ t \notin DOMAIN inFlight'
    <3>1. CASE t \in calledOff
      <4>1. t \in Ticket
        BY <3>1 DEF IInv, Typed
      <4> QED  BY <1>1, <1>3, <3>1, <4>1 DEF IInv, OffWell
    <3>2. CASE t \notin calledOff
      <4>1. t = x
        BY <3>2
      <4> QED  BY <1>1, <1>3, <3>2, <4>1 DEF Busy
    <3> QED  BY <3>1, <3>2
  <2> QED  BY <2>1 DEF OffWell
<1>12. Rooted'
  <2>1. CASE r.deps = board[x].deps
    <3>1. \A t \in Ticket : board'[t].deps = board[t].deps /\ board[t].deps \subseteq Ticket
      BY <1>1, <2>1 DEF Tix
    <3> QED  BY <1>2, <3>1 DEF IInv, Rooted
  <2> QED  BY <2>1
<1> QED  BY <1>4, <1>5, <1>7, <1>8, <1>9, <1>10, <1>11, <1>12 DEF IInv

LEMMA BecameIs ==
  ASSUME IInv, NEW x \in Ticket, NEW lane \in Lanes, NEW labels \in SUBSET Labels, Became(x, lane, labels)
  PROVE  \E r \in Tix : /\ board' = [board EXCEPT ![x] = r] /\ r.lane = lane /\ r.labels = labels
                        /\ r.touches = board[x].touches /\ r.writes = board[x].writes /\ r.deps = board[x].deps
<1> DEFINE r == [board[x] EXCEPT !.lane = lane, !.labels = labels]
<1>1. board \in [Ticket -> Tix] /\ board[x] \in Tix
  BY DEF IInv, Typed
<1>2. r \in Tix /\ r.lane = lane /\ r.labels = labels
  BY <1>1 DEF Tix
<1>3. r.touches = board[x].touches /\ r.writes = board[x].writes /\ r.deps = board[x].deps
  BY <1>1 DEF Tix
<1>4. board' = [board EXCEPT ![x] = r]
  BY <1>1 DEF Became
<1> QED  BY <1>2, <1>3, <1>4

LEMMA RunKeeps ==
  ASSUME IInv, NEW t \in Ticket, Run(t)
  PROVE  IInv'
<1>1. t \in DOMAIN inFlight /\ RunRest /\ (inFlight' = inFlight \/ Leave(t))
  BY DEF Run, RunBegins, RunRefused, RunEnds, Running
<1>2. Exists(t) /\ t \notin calledOff /\ board[t] \in Tix
  BY <1>1 DEF IInv, Scheduled, OffWell, Typed
<1>3. /\ UNCHANGED <<repos, tick, passes, cut, closed, good>> /\ torn \subseteq torn' /\ torn' \subseteq Ticket
      /\ calledOff' \subseteq calledOff \union {t} /\ t \notin calledOff'
  BY <1>1, <1>2 DEF RunRest, IInv, Typed
<1>4. HoldLane("blocked") \in Lanes /\ HoldLane("blocked") # "none"
      /\ (HoldLane("blocked") \in {"blocked", "needs_human"} => HoldColumns)
  BY DEF HoldLane, Lanes
<1>5. ASSUME NEW lane \in Lanes, NEW labels \in SUBSET Labels, Became(t, lane, labels),
             lane # "none", lane \in {"blocked", "needs_human"} => HoldColumns,
             board[t].labels \ {"Executing"} \subseteq labels,
             labels \subseteq board[t].labels \union {"Executing", "Stale", "Parked"}
      PROVE  IInv'
  <2>1. PICK r \in Tix : /\ board' = [board EXCEPT ![t] = r] /\ r.lane = lane /\ r.labels = labels
                         /\ r.touches = board[t].touches /\ r.writes = board[t].writes /\ r.deps = board[t].deps
    BY <1>5, BecameIs
  <2>2. /\ r.deps = board[t].deps \/ Rooted'
        /\ board[t].labels \intersect {"Planned", "Stewarded"} \subseteq r.labels
        /\ "Stewarded" \in r.labels => "Stewarded" \in board[t].labels
        /\ "NeedsHuman" \in board[t].labels => "NeedsHuman" \in r.labels \/ t \in torn'
    BY <1>5, <2>1
  <2>3. /\ t \in calledOff' => r.lane = "canceled"
        /\ t \in calledOff' \ calledOff => ~Busy(t) /\ t \notin DOMAIN inFlight
    BY <1>3
  <2> QED  BY <1>1, <1>2, <1>3, <1>5, <2>1, <2>2, <2>3, EditedKeeps
<1>6. board[t].lane \in Lanes /\ board[t].labels \subseteq Labels
      /\ (board[t].lane \in {"blocked", "needs_human"} => HoldColumns) /\ board[t].lane # "none"
      /\ board \in [Ticket -> Tix]
  BY <1>2 DEF IInv, Typed, Tix, Exists
<1>7. {"Executing", "Stale", "Parked"} \subseteq Labels /\ {"working", "canceled"} \subseteq Lanes
  BY DEF Labels, HOLD_LABELS, Lanes
<1>8. CASE RunBegins(t)
  <2>1. \/ Became(t, "working", board[t].labels \union {"Executing"})
        \/ Became(t, "canceled", board[t].labels \union {"Stale"})
        \/ Became(t, HoldLane("blocked"), board[t].labels \union {"Parked"})
    BY <1>8 DEF RunBegins
  <2> QED  BY <1>4, <1>5, <1>6, <1>7, <2>1
<1>9. CASE RunRefused(t)
  <2>1. Became(t, board[t].lane, board[t].labels \ {"Executing"})
    BY <1>9 DEF RunRefused
  <2> QED  BY <1>5, <1>6, <2>1
<1>10. CASE RunEnds(t)
  <2> DEFINE labels == board[t].labels \ {"Executing"}
  <2>1. CASE Became(t, HoldLane("blocked"), labels \union {"Parked"})
    BY <1>4, <1>5, <1>6, <1>7, <2>1
  <2>2. ASSUME NEW lane \in {"review", "done"}, NEW pr \in {"open", "merged"},
               board' = [board EXCEPT ![t].lane = lane, ![t].labels = labels, ![t].pr = pr]
        PROVE  IInv'
    <3> DEFINE r == [board[t] EXCEPT !.lane = lane, !.labels = labels, !.pr = pr]
    <3>1. board' = [board EXCEPT ![t] = r]
      BY <1>6, <2>2
    <3>2. r \in Tix /\ r.lane = lane /\ r.labels = labels
      BY <1>2, <1>6 DEF Tix, Lanes
    <3>3. r.touches = board[t].touches /\ r.writes = board[t].writes /\ r.deps = board[t].deps
      BY <1>2 DEF Tix
    <3>4. lane # "none" /\ lane \notin {"blocked", "needs_human"}
      BY <2>2
    <3> HIDE DEF r
    <3> QED  BY <1>1, <1>2, <1>3, <3>1, <3>2, <3>3, <3>4, EditedKeeps
  <2>3. \/ board' = [board EXCEPT ![t].lane = "review", ![t].labels = labels, ![t].pr = "open"]
        \/ board' = [board EXCEPT ![t].lane = "done", ![t].labels = labels, ![t].pr = "merged"]
        \/ Became(t, HoldLane("blocked"), labels \union {"Parked"})
    BY <1>10 DEF RunEnds
  <2> HIDE DEF labels
  <2> QED  BY <2>1, <2>2, <2>3
<1> QED  BY <1>8, <1>9, <1>10 DEF Run

LEMMA RequeueKeeps ==
  ASSUME IInv, NEW t \in Ticket, Requeue(t)
  PROVE  IInv'
<1> DEFINE labels == board[t].labels \ {"Parked", "NeedsHuman", "Stale", "Awaiting"}
<1>1. /\ Exists(t) /\ Became(t, "queue", labels) /\ calledOff' = calledOff \ {t} /\ torn' = torn \union {t}
      /\ UNCHANGED <<repos, tick, inFlight, passes, cut, closed, good>>
  BY DEF Requeue
<1>2. "queue" \in Lanes /\ labels \in SUBSET Labels /\ torn' \subseteq Ticket
  BY <1>1 DEF IInv, Typed, Tix, Lanes
<1>3. PICK r \in Tix : /\ board' = [board EXCEPT ![t] = r] /\ r.lane = "queue" /\ r.labels = labels
                       /\ r.touches = board[t].touches /\ r.writes = board[t].writes /\ r.deps = board[t].deps
  BY <1>1, <1>2, BecameIs
<1> QED  BY <1>1, <1>2, <1>3, EditedKeeps

LEMMA CallOffKeeps ==
  ASSUME IInv, NEW t \in Ticket, CallOff(t)
  PROVE  IInv'
<1>1. /\ Exists(t) /\ Became(t, "canceled", board[t].labels)
      /\ calledOff' = (IF Busy(t) \/ t \in DOMAIN inFlight THEN calledOff ELSE calledOff \union {t})
      /\ UNCHANGED <<repos, tick, inFlight, passes, cut, torn, closed, good>>
  BY DEF CallOff
<1>2. "canceled" \in Lanes /\ board[t].labels \in SUBSET Labels /\ torn' \subseteq Ticket
  BY <1>1 DEF IInv, Typed, Tix, Lanes
<1>3. PICK r \in Tix : /\ board' = [board EXCEPT ![t] = r] /\ r.lane = "canceled" /\ r.labels = board[t].labels
                       /\ r.touches = board[t].touches /\ r.writes = board[t].writes /\ r.deps = board[t].deps
  BY <1>1, <1>2, BecameIs
<1> QED  BY <1>1, <1>2, <1>3, EditedKeeps

LEMMA MergePrKeeps ==
  ASSUME IInv, NEW t \in Ticket, MergePr(t)
  PROVE  IInv'
<1> DEFINE r == [board[t] EXCEPT !.pr = "merged"]
<1>1. board[t].pr = "open" /\ board' = [board EXCEPT ![t].pr = "merged"] /\ UNCHANGED inFlight /\ RunRest
  BY DEF MergePr
<1>2. board \in [Ticket -> Tix] /\ board[t] \in Tix /\ (board[t].lane \in {"blocked", "needs_human"} => HoldColumns)
  BY DEF IInv, Typed
<1>3. Exists(t)
  BY <1>1 DEF IInv, Typed, Absent
<1>4. board' = [board EXCEPT ![t] = r]
  BY <1>1, <1>2
<1>5. r \in Tix /\ r.lane = board[t].lane /\ r.labels = board[t].labels
  BY <1>2 DEF Tix
<1>6. r.touches = board[t].touches /\ r.writes = board[t].writes /\ r.deps = board[t].deps
  BY <1>2 DEF Tix
<1>7. t \in calledOff => board[t].lane = "canceled"
  BY DEF IInv, OffWell
<1>8. UNCHANGED <<repos, tick, passes, cut, closed, good, torn, calledOff>> /\ torn' \subseteq Ticket
  BY <1>1 DEF RunRest, IInv, Typed
<1> HIDE DEF r
<1> QED  BY <1>1, <1>2, <1>3, <1>4, <1>5, <1>6, <1>7, <1>8, EditedKeeps DEF Exists

LEMMA GroundedBoard ==
  ASSUME IInv
  PROVE  Grounded(Explicit(board)) /\ \A t \in Ticket : WaitsFor(Explicit(board), t) = board[t].deps
<1>1. DOMAIN board = Ticket
  BY DEF IInv, Typed
<1>2. \A t \in Ticket : WaitsFor(Explicit(board), t) = board[t].deps
  BY <1>1, WaitsExplicit
<1> QED  BY <1>2 DEF IInv, Rooted, Grounded

LEMMA EditDepsKeeps ==
  ASSUME IInv, NEW t \in Ticket, NEW u \in Ticket, EditDeps(t, u)
  PROVE  IInv'
<1> DEFINE r == [board[t] EXCEPT !.deps = @ \union {u}]
           edges == Explicit(board)
<1>1. /\ Claimable(t) /\ Exists(u) /\ ~Reaches(edges, u, t) /\ board' = [board EXCEPT ![t].deps = @ \union {u}]
      /\ UNCHANGED <<repos, tick, inFlight, calledOff, passes, cut, torn, closed, good>>
  BY DEF EditDeps
<1>2. board \in [Ticket -> Tix] /\ board[t] \in Tix /\ (board[t].lane \in {"blocked", "needs_human"} => HoldColumns)
  BY DEF IInv, Typed
<1>3. Exists(t)
  BY <1>1 DEF Claimable, Exists
<1>4. board' = [board EXCEPT ![t] = r]
  BY <1>1, <1>2
<1>5. r \in Tix /\ r.lane = board[t].lane /\ r.labels = board[t].labels /\ r.deps = board[t].deps \union {u}
  BY <1>2 DEF Tix
<1>6. r.touches = board[t].touches /\ r.writes = board[t].writes
  BY <1>2 DEF Tix
<1> HIDE DEF r
<1>7. Rooted'
  <2>1. Grounded(edges) /\ \A x \in Ticket : WaitsFor(edges, x) = board[x].deps
    BY GroundedBoard
  <2> HIDE DEF edges
  <2> DEFINE U == {u}
             more == edges \union Fan(t, U)
  <2>2. U \in SUBSET Ticket /\ \A v \in U : ~Reaches(edges, v, t)
    BY <1>1
  <2> HIDE DEF U
  <2>3. Grounded(more)
    BY <2>1, <2>2, GroundedMore
  <2>4. \A x \in Ticket : board'[x].deps = WaitsFor(more, x)
    <3>1. \A x \in Ticket : x # t => WaitsFor(more, x) = board[x].deps
      BY <2>1, WaitsSame
    <3>2. WaitsFor(more, t) = board[t].deps \union U
      BY <2>1, WaitsIs
    <3> HIDE DEF more
    <3> QED  BY <1>2, <1>4, <1>5, <3>1, <3>2 DEF U
  <2> HIDE DEF more
  <2>5. \A x \in Ticket : \A d \in board'[x].deps : Exists(d)'
    <3>1. \A x \in Ticket : \A d \in board'[x].deps : Exists(d) /\ d \in Ticket
      BY <1>1, <1>2, <1>4, <1>5 DEF IInv, Rooted, Tix
    <3>2. \A d \in Ticket : Exists(d) => Exists(d)'
      BY <1>2, <1>4, <1>5 DEF Exists
    <3> QED  BY <3>1, <3>2
  <2> QED  BY <2>3, <2>4, <2>5 DEF Rooted, Grounded
<1>8. (t \in calledOff => board[t].lane = "canceled") /\ torn' \subseteq Ticket
  BY <1>1 DEF IInv, OffWell, Typed
<1>9. r.lane # "none" /\ r.deps = r.deps
  BY <1>3, <1>5 DEF Exists
<1> QED  BY <1>1, <1>2, <1>3, <1>4, <1>5, <1>6, <1>7, <1>8, <1>9, EditedKeeps DEF Exists

LEMMA CrashKeeps ==
  ASSUME IInv, Crash
  PROVE  IInv'
<1>1. /\ tick' = Resting /\ inFlight' = << >>
      /\ board' = [t \in Ticket |->
                     IF "Executing" \in board[t].labels
                     THEN [board[t] EXCEPT !.labels = @ \ {"Executing"}, !.lane = IF @ = "working" THEN "queue" ELSE @]
                     ELSE board[t]]
      /\ cut' = (IF tick.cur = 0 THEN cut ELSE cut \union {tick.cur})
      /\ torn' = (IF tick.cur = 0 THEN torn ELSE torn \union {tick.cur})
      /\ UNCHANGED <<repos, calledOff, passes, closed, good>>
  BY DEF Crash
<1>2. Gone("idle", 0) /\ tick'.list = {} /\ DOMAIN tick'.queue = {} /\ tick'.pc = "idle"
  <2>1. tick'.queue = << >> /\ DOMAIN << >> = {}
    BY <1>1, EmptyIs DEF Resting
  <2> QED  BY <1>1, <2>1, RestingGone DEF Gone
<1>3. tick \in Ticks /\ board \in [Ticket -> Tix] /\ tick.cur \in 0..MaxTickets
  BY DEF IInv, Typed, Ticks
<1>4. ASSUME NEW t \in Ticket
      PROVE  /\ board'[t] \in Tix /\ board'[t].labels = board[t].labels \ {"Executing"}
             /\ board'[t].touches = board[t].touches /\ board'[t].writes = board[t].writes /\ board'[t].deps = board[t].deps
             /\ board'[t].lane = board[t].lane \/ (board[t].lane = "working" /\ board'[t].lane = "queue")
             /\ ~Exists(t) => board'[t] = board[t]
  <2>1. board[t] \in Tix /\ (~Exists(t) => board[t].labels = {})
    BY <1>3 DEF IInv, Typed, Absent
  <2>2. CASE "Executing" \in board[t].labels
    <3> DEFINE lane == IF board[t].lane = "working" THEN "queue" ELSE board[t].lane
               labels == board[t].labels \ {"Executing"}
    <3>1. board'[t] = [board[t] EXCEPT !.labels = labels, !.lane = lane]
      BY <1>1, <2>1, <2>2 DEF Tix
    <3>2. lane \in Lanes /\ labels \in SUBSET Labels
      BY <2>1 DEF Tix, Lanes
    <3>3. lane = board[t].lane \/ (board[t].lane = "working" /\ lane = "queue")
      OBVIOUS
    <3> HIDE DEF lane
    <3>4. /\ board'[t] \in Tix /\ board'[t].labels = labels /\ board'[t].lane = lane
          /\ board'[t].touches = board[t].touches /\ board'[t].writes = board[t].writes /\ board'[t].deps = board[t].deps
      BY <2>1, <3>1, <3>2 DEF Tix
    <3> QED  BY <2>1, <2>2, <3>3, <3>4
  <2>3. CASE "Executing" \notin board[t].labels
    <3>1. board'[t] = board[t]
      BY <1>1, <2>3
    <3> QED  BY <2>1, <2>3, <3>1
  <2> QED  BY <2>2, <2>3
<1>5. \A t \in Ticket : Exists(t) <=> Exists(t)'
  BY <1>4 DEF Exists
<1>6. Typed'
  <2>1. board' \in [Ticket -> Tix]
    BY <1>1, <1>4
  <2>2. \A t \in Ticket : board'[t].lane \in {"blocked", "needs_human"} => HoldColumns
    BY <1>4 DEF IInv, Typed
  <2>3. \A t \in Ticket : ~Exists(t)' => board'[t] = Absent
    BY <1>4, <1>5 DEF IInv, Typed
  <2>4. inFlight' \in UNION {[Q -> SUBSET Globs] : Q \in SUBSET Ticket}
    BY <1>1, EmptyIs
  <2>5. cut' \subseteq Ticket /\ torn' \subseteq Ticket
    <3>1. tick.cur = 0 \/ tick.cur \in Ticket
      BY <1>3, TicketNat DEF Ticket
    <3>2. cut \subseteq Ticket /\ torn \subseteq Ticket
      BY DEF IInv, Typed
    <3> QED  BY <1>1, <3>1, <3>2
  <2> QED  BY <1>1, <1>2, <2>1, <2>2, <2>3, <2>4, <2>5 DEF IInv, Typed, Gone
<1>7. Scheduled'
  <2>1. DOMAIN inFlight' = {}
    BY <1>1, EmptyIs
  <2> QED  BY <1>2, <1>4, <2>1 DEF IInv, Scheduled
<1>8. Calling' /\ Placed'
  BY <1>2 DEF Calling, Placed, Gone, Ahead
<1>9. \A t \in Ticket : t \notin cut' \/ t \notin torn' => \A l : ~Pending(t, l)
  BY <1>1, TicketNat DEF Pending
<1>10. FiledWell'
  <2>1. \A t \in Ticket : \A l \in {"Planned", "Stewarded"} : l \in board[t].labels => l \in board'[t].labels
    BY <1>4
  <2>2. cut \subseteq cut'
    BY <1>1
  <2>3. \A t \in Ticket : ~Exists(t)' => passes'[t].plan = 0 /\ passes'[t].followup = 0
    BY <1>1, <1>5 DEF IInv, FiledWell
  <2>4. ASSUME NEW t \in Ticket \ cut'
        PROVE  /\ passes'[t].plan =< 1 /\ (passes'[t].plan = 1 => "Planned" \in board'[t].labels)
               /\ passes'[t].followup =< 1
               /\ passes'[t].followup = 1 => "Stewarded" \in board'[t].labels
    BY <1>1, <1>9, <2>1, <2>2 DEF IInv, FiledWell
  <2>5. \A t \in Ticket : passes'[t].build =< 1 /\ (t \notin repos' => passes'[t].build = 0)
    BY <1>1 DEF IInv, FiledWell
  <2> QED  BY <2>3, <2>4, <2>5 DEF FiledWell
<1>11. ClosedWell'
  <2>1. torn \subseteq torn'
    BY <1>1
  <2>2. ASSUME NEW t \in Ticket, "Stewarded" \in board'[t].labels, "NeedsHuman" \notin board'[t].labels
        PROVE  t \in good' \union torn'
    <3>1. "Stewarded" \in board[t].labels /\ "NeedsHuman" \notin board[t].labels
      BY <1>4, <2>2
    <3>2. t \in good \union torn \/ Pending(t, "NeedsHuman")
      BY <3>1 DEF IInv, ClosedWell
    <3>3. good' = good
      BY <1>1
    <3> QED  BY <1>9, <2>1, <3>2, <3>3
  <2> QED  BY <1>1, <2>1, <2>2 DEF IInv, ClosedWell
<1>12. OffWell'
  <2>1. DOMAIN inFlight' = {} /\ 0 \notin calledOff /\ calledOff \subseteq Ticket
    BY <1>1, EmptyIs, TicketNat DEF IInv, Typed
  <2>2. tick'.cur = 0 /\ calledOff' = calledOff
    BY <1>1, <1>2 DEF Gone
  <2>3. \A t \in calledOff : board'[t].lane = "canceled"
    <3>1. \A t \in calledOff : t \in Ticket /\ board[t].lane = "canceled"
      BY <2>1 DEF IInv, OffWell
    <3> QED  BY <1>4, <3>1
  <2> QED  BY <1>2, <2>1, <2>2, <2>3 DEF OffWell
<1>13. Rooted'
  <2>1. \A t \in Ticket : board[t].deps \subseteq Ticket
    BY <1>3 DEF Tix
  <2> QED  BY <1>4, <1>5, <2>1 DEF IInv, Rooted
<1> QED  BY <1>6, <1>7, <1>8, <1>10, <1>11, <1>12, <1>13 DEF IInv

-----------------------------------------------------------------------------
(* The invariant. *)

LEMMA InitHolds ==
  ASSUME Init
  PROVE  IInv
<1>1. PICK s \in Starts : board = [t \in Ticket |-> IF t \in DOMAIN s THEN s[t] ELSE Absent]
  BY DEF Init
<1>2. /\ repos = {} /\ tick = Resting /\ inFlight = << >> /\ calledOff = {}
      /\ passes = [t \in Ticket |-> [plan |-> 0, followup |-> 0, build |-> 0]]
      /\ cut = {} /\ torn = {} /\ closed = {} /\ good = {}
  BY DEF Init
<1>3. DOMAIN s \subseteq Ticket /\ \A t \in DOMAIN s : /\ s[t] \in Untouched(t) /\ s[t].deps \subseteq DOMAIN s
                                                    /\ s[t].writes \subseteq s[t].touches
  BY PlanningAssumption
<1>4. ASSUME NEW t \in DOMAIN s
      PROVE  /\ s[t] \in Tix /\ s[t].lane = "queue" /\ "Stewarded" \notin s[t].labels
             /\ s[t].deps \subseteq 1..(t - 1)
  <2>1. s[t] \in Untouched(t) /\ t \in Ticket
    BY <1>3
  <2>2. 1..(t - 1) \subseteq Ticket /\ 0 \in 0..MaxTickets
    BY <2>1, TicketNat DEF Ticket
  <2>3. "queue" \in Lanes /\ {"Bootstrap", "Intake", "Epic"} \subseteq Labels
    BY DEF Lanes, Labels
  <2>4. /\ s[t].lane = "queue" /\ s[t].labels \subseteq {"Bootstrap", "Intake", "Epic"}
        /\ s[t].deps \subseteq 1..(t - 1)
    BY <2>1 DEF Untouched
  <2>5. s[t] \in Tix
    BY <2>1, <2>2, <2>3 DEF Untouched, Tix
  <2> QED  BY <2>4, <2>5
<1>5. Absent \in Tix /\ Absent.lane = "none" /\ Absent.labels = {} /\ Absent.deps = {} /\ Absent.writes = {}
  BY TicketNat DEF Absent, Tix, Lanes, Metas
<1>6. \A t \in Ticket : board[t] = IF t \in DOMAIN s THEN s[t] ELSE Absent
  BY <1>1
<1>7. \A t \in Ticket : /\ board[t] \in Tix /\ board[t].lane \in {"queue", "none"} /\ "Stewarded" \notin board[t].labels
                        /\ board[t].writes \subseteq board[t].touches
                        /\ (Exists(t) <=> t \in DOMAIN s) /\ (~Exists(t) => board[t] = Absent)
  BY <1>3, <1>4, <1>5, <1>6 DEF Exists
<1>8. /\ tick \in Ticks /\ tick.pc = "idle" /\ tick.cur = 0 /\ tick.list = {} /\ DOMAIN tick.queue = {}
      /\ tick.made = << >> /\ tick.filing = "none" /\ tick.catch = << >>
  <2>1. PICK q, l : q = << >> /\ l = {}
    OBVIOUS
  <2>2. tick = Rested("idle", q, l)
    BY <1>2, <2>1 DEF Resting, Rested
  <2>3. q \in UNION {[Q -> Readings] : Q \in SUBSET Ticket} /\ DOMAIN q = {} /\ l \in SUBSET Ticket
    BY <2>1, EmptyIs
  <2>4. "idle" \in Places /\ 0 \in 0..MaxTickets
    BY TicketNat DEF Places
  <2>5. tick \in Ticks
    BY <2>2, <2>3, <2>4 DEF Ticks, Rested
  <2> QED  BY <2>1, <2>2, <2>3, <2>5 DEF Rested
<1>9. inFlight \in UNION {[Q -> SUBSET Globs] : Q \in SUBSET Ticket} /\ DOMAIN inFlight = {}
  BY <1>2, EmptyIs
<1>10. passes \in [Ticket -> Passes] /\ \A t \in Ticket : passes[t].plan = 0 /\ passes[t].followup = 0 /\ passes[t].build = 0
  BY <1>2 DEF Passes
<1>11. Typed
  <2>1. board \in [Ticket -> Tix]
    BY <1>1, <1>7
  <2> QED  BY <1>2, <1>7, <1>8, <1>9, <1>10, <2>1 DEF Typed
<1>12. Calling /\ Placed
  BY <1>8 DEF Calling, Placed, Ahead
<1>13. Scheduled
  BY <1>7, <1>8, <1>9 DEF Scheduled
<1>14. FiledWell
  BY <1>10 DEF FiledWell
<1>15. ClosedWell /\ OffWell
  BY <1>2, <1>7 DEF ClosedWell, OffWell
<1>16. Rooted
  <2>1. \A t \in Ticket : \A d \in board[t].deps : Exists(d)
    BY <1>3, <1>5, <1>6, <1>7
  <2>2. ASSUME NEW S \in SUBSET Ticket, S # {}
        PROVE  \E t \in S : board[t].deps \intersect S = {}
    <3>1. S \in SUBSET Nat
      BY TicketNat
    <3>2. PICK n \in S : \A m \in S : n =< m
      BY <2>2, <3>1, Least
    <3>3. board[n].deps \subseteq 1..(n - 1)
      BY <1>4, <1>5, <1>6
    <3> QED  BY <3>1, <3>2, <3>3
  <2> QED  BY <2>1, <2>2 DEF Rooted
<1> QED  BY <1>11, <1>12, <1>13, <1>14, <1>15, <1>16 DEF IInv

LEMMA SameKeeps ==
  ASSUME IInv, UNCHANGED vars
  PROVE  IInv'
<1> USE DEF vars
<1>1. Typed'
  BY DEF IInv, Typed, Exists
<1>2. Calling'
  BY DEF IInv, Calling, Fresh, Exists
<1>3. Placed'
  BY DEF IInv, Placed, Ahead, Exists
<1>4. Scheduled'
  BY DEF IInv, Scheduled, Exists
<1>5. FiledWell'
  BY DEF IInv, FiledWell, Pending, Exists
<1>6. ClosedWell' /\ OffWell' /\ Rooted'
  BY DEF IInv, ClosedWell, OffWell, Rooted, Pending, Exists
<1> QED  BY <1>1, <1>2, <1>3, <1>4, <1>5, <1>6 DEF IInv

LEMMA NextKeeps ==
  ASSUME IInv, [Next]_vars
  PROVE  IInv'
<1>1. CASE Tick
  BY <1>1, FetchKeeps, BootstrapKeeps, ScaffoldKeeps, IdeaKeeps, EpicKeeps, ScheduleKeeps, StewardTickKeeps,
     CloseoutKeeps, ReconcileKeeps, ReconcileReviewKeeps, ReconcileEpicsKeeps, CallLandsKeeps, NoRoomKeeps DEF Tick
<1>2. CASE CallFails \/ ScheduleFails \/ Crash
  BY <1>2, CallFailsKeeps, ScheduleFailsKeeps, CrashKeeps
<1>3. CASE \E t \in Ticket : Run(t) \/ Requeue(t) \/ CallOff(t) \/ MergePr(t) \/ \E u \in Ticket : EditDeps(t, u)
  BY <1>3, RunKeeps, RequeueKeeps, CallOffKeeps, MergePrKeeps, EditDepsKeeps
<1>4. CASE UNCHANGED vars
  BY <1>4, SameKeeps
<1> QED  BY <1>1, <1>2, <1>3, <1>4 DEF Next

LEMMA Invariance == Spec => []IInv
<1>1. Init => IInv
  BY InitHolds
<1>2. IInv /\ [Next]_vars => IInv'
  BY NextKeeps
<1> QED  BY <1>1, <1>2, PTL DEF Spec

-----------------------------------------------------------------------------
(* The properties. *)

\* The variables keep their types.
THEOREM TypeCorrect == Spec => []TypeOK
<1>1. ASSUME IInv
      PROVE  TypeOK
  <2>1. tick.pc \in Places /\ DOMAIN inFlight \subseteq Ticket
    BY <1>1 DEF IInv, Typed, Ticks
  <2>2. ASSUME NEW t \in Ticket
        PROVE  /\ board[t].lane \in Lanes /\ board[t].labels \subseteq Labels /\ board[t].parent \in 0..MaxTickets
               /\ board[t].deps \subseteq Ticket /\ board[t].touches \subseteq Globs
               /\ board[t].lane \in {"blocked", "needs_human"} => HoldColumns
    <3>1. board[t] \in Tix /\ (board[t].lane \in {"blocked", "needs_human"} => HoldColumns)
      BY <1>1 DEF IInv, Typed
    <3> QED  BY <3>1 DEF Tix
  <2> QED  BY <1>1, <2>1, <2>2 DEF IInv, Typed, TypeOK
<1> QED  BY <1>1, Invariance, PTL

\* steward.ts and plan.ts file once for an epic, and bootstrap.ts once for a bootstrap ticket.
THEOREM FiledAtMostOnce == Spec => []FiledOnce
<1>1. ASSUME IInv
      PROVE  FiledOnce
  BY <1>1 DEF IInv, FiledWell, FiledOnce
<1> QED  BY <1>1, Invariance, PTL

\* reconcile.ts closes an epic only over a complete closeout, or where a failed one was not surfaced.
THEOREM CloseoutFirst == Spec => []ClosedAfterCloseout
<1>1. IInv => ClosedAfterCloseout
  BY DEF IInv, ClosedWell, ClosedAfterCloseout
<1> QED  BY <1>1, Invariance, PTL

\* dag.ts 4-5: no two tickets in flight write the same files, the ones they only mention included.
THEOREM WritersApart == Spec => []DisjointWriters
<1>1. ASSUME IInv
      PROVE  DisjointWriters
  <2>1. ASSUME NEW t \in DOMAIN inFlight, NEW u \in DOMAIN inFlight, t # u
        PROVE  ~GlobsOverlap(board[t].writes, board[u].writes)
    <3>1. t \in Ticket /\ u \in Ticket
      BY <1>1 DEF IInv, Typed
    <3>2. board[t].writes \subseteq inFlight[t] /\ board[u].writes \subseteq inFlight[u]
      BY <1>1, <3>1 DEF IInv, Scheduled
    <3>3. ~GlobsOverlap(inFlight[t], inFlight[u])
      BY <1>1, <2>1 DEF IInv, Scheduled
    <3> QED  BY <3>2, <3>3, OverlapMono
  <2> QED  BY <2>1 DEF DisjointWriters
<1> QED  BY <1>1, Invariance, PTL

\* dag.ts 78-80: implicit edges never leave the queue without a ticket to start.
THEOREM NeverWedged == Spec => []NoWedge
<1>1. ASSUME IInv, Waiting # {}, \A t \in Waiting : \A d \in board[t].deps : Closed(d) \/ d \in Waiting
      PROVE  LET cands == [t \in Waiting |-> [deps |-> board[t].deps, touches |-> board[t].touches]]
             IN  SelectRunnable(cands, DeriveImplicitDeps(cands), TerminalTickets, {}, WipLimit) # {}
  <2> DEFINE cands == [t \in Waiting |-> [deps |-> board[t].deps, touches |-> board[t].touches]]
             edges == DeriveImplicitDeps(cands)
  <2>1. DOMAIN cands = Waiting /\ Waiting \in SUBSET Ticket
    BY DEF Waiting
  <2>2. \A t \in Waiting : cands[t].deps = board[t].deps
    OBVIOUS
  <2>3. \A t \in Ticket : board[t].deps \subseteq Ticket
    BY <1>1 DEF IInv, Typed, Tix
  <2> HIDE DEF cands
  <2>4. Grounded(Explicit(cands))
    <3>1. \A t \in Ticket : WaitsFor(Explicit(cands), t) \subseteq board[t].deps
      BY <2>1, <2>2, WaitsExplicit
    <3>2. \A S \in SUBSET Ticket : S # {} => \E t \in S : board[t].deps \intersect S = {}
      BY <1>1 DEF IInv, Rooted
    <3> QED  BY <3>1, <3>2 DEF Grounded
  <2>5. Grounded(edges) /\ \A t \in Waiting : WaitsFor(edges, t) \subseteq board[t].deps \union Waiting
    BY <2>1, <2>2, <2>3, <2>4, DerivedGrounded
  <2> HIDE DEF edges
  <2>6. PICK t \in Waiting : WaitsFor(edges, t) \intersect Waiting = {}
    BY <1>1, <2>1, <2>5 DEF Grounded
  <2>7. WaitsFor(edges, t) \subseteq TerminalTickets
    <3>1. ASSUME NEW d \in WaitsFor(edges, t)
          PROVE  d \in Ticket /\ Closed(d)
      BY <1>1, <2>1, <2>3, <2>5, <2>6
    <3> QED  BY <3>1 DEF TerminalTickets
  <2>8. WipLimit \in Nat \ {0} /\ t \in Ticket /\ t \in DOMAIN cands
    BY <2>1, PlanningAssumption
  <2>9. SelectRunnable(cands, edges, TerminalTickets, {}, WipLimit) # {}
    BY <2>7, <2>8, SelectedSome
  <2> QED  BY <2>9 DEF cands, edges
<1>2. IInv => NoWedge
  BY <1>1, Zenon DEF NoWedge
<1> QED  BY <1>2, Invariance, PTL

\* steward.ts 231-234: the tick never moves a ticket that was canceled before it looked at it, nor files for it.
THEOREM CancellationStands == Spec => CalledOffStays
<1>1. ASSUME IInv, [Next]_vars, NEW t \in Ticket, t # tick.cur
      PROVE  passes'[t] = passes[t]
  <2>1. CASE CallLands \/ CallFails
    <3>1. tick.pc = "calls" /\ (CountPass(Head(tick.calls)) \/ passes' = passes)
      BY <2>1 DEF CallLands, CallFails
    <3> QED  BY <1>1, <3>1, CountIs
  <2>2. CASE ~(CallLands \/ CallFails)
    <3>1. passes' = passes
      BY <1>1, <2>2 DEF Next, Tick, Fetch, Bootstrap, Scaffold, Idea, Epic, Schedule, StewardTick, Closeout, Reconcile,
         ReconcileReview, ReconcileEpics, NoRoom, ScheduleFails, Crash, Run, RunBegins, RunRefused, RunEnds, Requeue,
         CallOff, MergePr, EditDeps, RunRest, Hold, vars
    <3> QED  BY <3>1
  <2> QED  BY <2>1, <2>2
<1>2. ASSUME IInv, [Next]_vars
      PROVE  \A t \in calledOff \intersect calledOff' : board'[t].lane = "canceled" /\ passes'[t] = passes[t]
  <2>1. IInv'
    BY <1>2, NextKeeps
  <2>2. \A t \in calledOff' : board'[t].lane = "canceled"
    BY <2>1 DEF IInv, OffWell
  <2>3. \A t \in calledOff : t \in Ticket /\ t # tick.cur
    BY <1>2 DEF IInv, Typed, OffWell
  <2> QED  BY <1>1, <1>2, <2>2, <2>3
<1>3. IInv /\ [Next]_vars =>
         [\A t \in calledOff \intersect calledOff' : board'[t].lane = "canceled" /\ passes'[t] = passes[t]]_vars
  BY <1>2
<1> QED  BY <1>3, Invariance, PTL DEF Spec, CalledOffStays
=============================================================================
