------------------------------- MODULE Planning -------------------------------
(* From a rough idea to closed work: the tick's authoring, planning, scheduling and
   closeout passes (index.ts 92-230, intake.ts, bootstrap.ts, plan.ts, dag.ts, steward.ts,
   reconcile.ts 111-128) over the board.

   The tick is one sequential loop.  A handler decides on what it read and then makes a
   list of board calls, one step each; a call may be lost, or land and still throw.  The
   code swallows the failure of some calls and handles that of others.  Humans edit the
   board between any two steps, runs of tasks proceed beside the tick, and the daemon
   dies and restarts.  A run's own calls are the business of ClaimLifecycle. *)
EXTENDS Integers, Sequences, FiniteSets

CONSTANTS MaxTickets,   \* bound: tickets on the board; filing beyond it fails
          Starts,       \* the tickets a behaviour may start with
          Plans,        \* what the decomposer may write: sequences of child specifications
          FollowUps,    \* what the steward may file: sequences of specifications
          Globs,        \* path globs, as sequences of path tokens; "*" is a wildcard
          Glue,         \* the globs of KNOWN_GLUE_BASENAMES
          WipLimit,     \* config.caps.wipLimit
          MaxImplicit,  \* MAX_IMPLICIT_DEPS_PER_CHILD
          HoldColumns,  \* the board has the columns Blocked and Needs Human
          MaxHuman,     \* bound: edits of the board by humans
          MaxFaults,    \* bound: failed calls and deaths of the daemon
          MaxTrouble    \* bound: edits, failures and deaths together

Ticket == 1..MaxTickets
Lanes == {"none", "queue", "blocked", "needs_human", "working", "review", "done", "canceled"}
HOLD_LABELS == {"Executing", "Parked", "NeedsHuman", "Planned", "Stale", "Awaiting"}
Labels == HOLD_LABELS \union {"Bootstrap", "Intake", "Epic", "Stewarded"}
PremiseStatus == {"hold", "moot", "unknown"}   \* evaluateOne, of a premise in the world of the day
Specs == [deps : SUBSET (1..6), touches : SUBSET Globs, mentions : SUBSET Glue,
          premises : SUBSET PremiseStatus]

(* A ticket as it was filed: no pass of the factory has been over it, it waits for earlier
   ones only, and says which files it touches. *)
Metas == {"none", "task", "epic", "idea", "bootstrap"}
Untouched(t) == [lane : {"queue"}, labels : SUBSET {"Bootstrap", "Intake", "Epic"}, meta : Metas, parent : {0},
                 deps : SUBSET (1..(t - 1)), touches : SUBSET Globs, writes : SUBSET Globs,
                 premises : SUBSET PremiseStatus, pr : {"none"}]

ASSUME PlanningAssumption ==
    /\ {MaxTickets, WipLimit, MaxImplicit} \subseteq Nat \ {0} /\ {MaxHuman, MaxFaults, MaxTrouble} \subseteq Nat
    /\ Glue \subseteq Globs /\ HoldColumns \in BOOLEAN
    /\ Plans \union FollowUps \subseteq Seq(Specs)
    /\ \A s \in Starts : /\ DOMAIN s \subseteq Ticket
                          /\ \A t \in DOMAIN s : /\ s[t] \in Untouched(t) /\ s[t].deps \subseteq DOMAIN s
                                                 /\ s[t].writes \subseteq s[t].touches

VARIABLES
    board,    \* the tickets
    repos,    \* bootstrap tickets whose repository was created on GitHub
    tick,     \* the main loop: where it is and what it holds
    inFlight, \* the inFlight map: tickets handed to a run, and what they touch
    calledOff,\* history: tickets canceled by a human while the tick was not at work on them
    passes,   \* history: how often a ticket was filed for, per purpose
    cut,      \* history: tickets of which a pass was cut by a failed call or a death
    torn,     \* history: those where the failure itself was not handled
    closed,   \* history: epics that reconcile closed
    good,     \* history: epics with a complete closeout
    human, faults

vars == <<board, repos, tick, inFlight, calledOff, passes, cut, torn, closed, good, human, faults>>

Absent == [lane |-> "none", labels |-> {}, meta |-> "none", parent |-> 0, deps |-> {},
           touches |-> {}, writes |-> {}, premises |-> {}, pr |-> "none"]
Filed(meta, labels) == [Absent EXCEPT !.lane = "queue", !.meta = meta, !.labels = labels]

Resting == [pc |-> "idle", queue |-> << >>, cur |-> 0, calls |-> << >>, catch |-> << >>,
            then |-> "idle", made |-> << >>, filing |-> "none", list |-> {}]
Places == {"idle", "bootstrap", "repo", "scaffold", "idea", "epic", "decompose", "schedule",
           "steward", "closeout", "reconcile", "review", "epics", "calls"}

Init ==
    /\ \E s \in Starts : board = [t \in Ticket |-> IF t \in DOMAIN s THEN s[t] ELSE Absent]
    /\ repos = {} /\ tick = Resting /\ inFlight = << >> /\ calledOff = {}
    /\ passes = [t \in Ticket |-> [plan |-> 0, followup |-> 0, build |-> 0]]
    /\ cut = {} /\ torn = {} /\ closed = {} /\ good = {} /\ human = 0 /\ faults = 0

Exists(t) == board[t].lane /= "none"
Kids(t) == {k \in Ticket : board[k].parent = t}
Closed(t) == board[t].lane \in {"done", "canceled"}
Held(t) == board[t].labels \intersect HOLD_LABELS /= {}
HoldLane(kind) == IF HoldColumns THEN kind ELSE "queue"   \* transitionTarget degrades

-----------------------------------------------------------------------------
(* Routing and freshness. *)

(* resolveTicketRoute: the metadata block wins over the labels. *)
Route(t) ==
    IF t.meta \in {"epic", "idea", "bootstrap"} THEN t.meta
    ELSE IF "Epic" \in t.labels THEN "epic"
    ELSE IF "Intake" \in t.labels THEN "idea"
    ELSE IF "Bootstrap" \in t.labels THEN "bootstrap"
    ELSE "task"

(* decideFreshness over the implicit guard, the ticket's own pull request, and the
   authored premises: what is unknown never cancels. *)
DecideFreshness(delivered, premises) ==
    IF delivered \/ premises = {"moot"} THEN "cancel"
    ELSE IF premises \subseteq {"hold"} THEN "proceed" ELSE "park"

-----------------------------------------------------------------------------
(* Scheduling (dag.ts). *)

StaticPrefix(g) ==
    LET wild == {i \in DOMAIN g : g[i] = "*"}
    IN  IF wild = {} THEN g ELSE SubSeq(g, 1, (CHOOSE i \in wild : \A j \in wild : i <= j) - 1)
IsPathPrefix(short, long) ==
    \/ short = << >>
    \/ /\ Len(short) <= Len(long) /\ SubSeq(long, 1, Len(short)) = short
       /\ Len(short) = Len(long) \/ short[Len(short)] = "/" \/ long[Len(short) + 1] = "/"
GlobsOverlap(a, b) == \E x \in a, y \in b :
    \/ x = y
    \/ IsPathPrefix(StaticPrefix(x), StaticPrefix(y)) \/ IsPathPrefix(StaticPrefix(y), StaticPrefix(x))

(* Dependences as edges <<t, what t waits for>>. *)
Explicit(cands) == UNION {{<<t, d>> : d \in cands[t].deps} : t \in DOMAIN cands}
WaitsFor(edges, t) == {e[2] : e \in {e \in edges : e[1] = t}}
(* What a walk along the edges visits: to is in every set with from and all it waits for. *)
Reaches(edges, from, to) ==
    \A S \in SUBSET Ticket : (from \in S /\ \A x \in S : WaitsFor(edges, x) \subseteq S) => to \in S

(* deriveImplicitDeps: of two candidates whose globs overlap the later waits for the
   earlier, unless the earlier already waits for it; at most MaxImplicit new edges for
   one.  Edges out of a ticket lead to no new path to it, so one pass over the tickets
   takes all of its edges at once. *)
ImplicitBlind(cands, edges, t) ==
    {<<t, u>> : u \in {u \in DOMAIN cands : u < t /\ GlobsOverlap(cands[t].touches, cands[u].touches)}}
Implicit(cands, edges, t) ==
    LET wanted == {u \in DOMAIN cands : /\ u < t /\ GlobsOverlap(cands[t].touches, cands[u].touches)
                                        /\ <<t, u>> \notin edges /\ ~Reaches(edges, u, t)}
    IN  {<<t, u>> : u \in {u \in wanted : Cardinality({v \in wanted : v < u}) < MaxImplicit}}
DeriveImplicitDeps(cands) ==
    LET Upto[n \in 0..MaxTickets] ==
            IF n = 0 THEN Explicit(cands)
            ELSE UNION {edges \union (IF n \in DOMAIN cands THEN Implicit(cands, edges, n) ELSE {}) :
                           edges \in {Upto[n - 1]}}
    IN  Upto[MaxTickets]

(* selectRunnable: first come, first served, on the frontier of the dependences, within
   the capacity, and apart from everything in flight or admitted before. *)
AdmitsBesideBusy(cands, edges, done, busy, capacity, run, t) ==
    /\ t \in DOMAIN cands /\ WaitsFor(edges, t) \subseteq done
    /\ Cardinality(run) < capacity
    /\ \A g \in busy : ~GlobsOverlap(cands[t].touches, g)
Admits(cands, edges, done, busy, capacity, run, t) ==
    /\ t \in DOMAIN cands /\ WaitsFor(edges, t) \subseteq done
    /\ Cardinality(run) < capacity
    /\ \A g \in busy \union {cands[r].touches : r \in run} : ~GlobsOverlap(cands[t].touches, g)
SelectRunnable(cands, edges, done, busy, capacity) ==
    LET Admitted[n \in 0..MaxTickets] ==
            IF n = 0 THEN {}
            ELSE UNION {run \union {t \in {n} : Admits(cands, edges, done, busy, capacity, run, t)} :
                           run \in {Admitted[n - 1]}}
    IN  Admitted[MaxTickets]

-----------------------------------------------------------------------------
(* Board calls.  A strict call throws into the handler's catch; the failure of another is
   swallowed where it is made. *)

Fault == faults < MaxFaults /\ human + faults < MaxTrouble /\ faults' = faults + 1
Call(op, t, arg, strict) == [op |-> op, t |-> t, arg |-> arg, strict |-> strict]
Add(t, l) == Call("label", t, l, FALSE)
Drop(t, l) == Call("unlabel", t, l, FALSE)
Move(t, lane) == Call("move", t, lane, FALSE)
Create(t, new, strict) == Call("create", t, new, strict)
Strictly(c) == [c EXCEPT !.strict = TRUE]

FreeId == CHOOSE t \in Ticket : ~Exists(t) /\ \A u \in Ticket : u < t => Exists(u)
Room == \E t \in Ticket : ~Exists(t)

(* A new child's edges name its siblings by ordinal; createChildren knows their ids. *)
New(c) ==
    LET spec == c.arg.spec
        ids == {tick.made[i] : i \in spec.deps \intersect DOMAIN tick.made}
    IN  [Filed(c.arg.meta, {}) EXCEPT !.deps = ids, !.touches = spec.touches, !.writes = c.arg.writes,
            !.premises = spec.premises, !.parent = IF c.arg.meta = "task" THEN c.t ELSE 0]

Landed(c) ==
    CASE c.op = "label" -> [board EXCEPT ![c.t].labels = @ \union {c.arg}]
      [] c.op = "unlabel" -> [board EXCEPT ![c.t].labels = @ \ {c.arg}]
      [] c.op = "move" -> [board EXCEPT ![c.t].lane = c.arg]
      [] c.op = "describe" -> [board EXCEPT ![c.t].meta = c.arg]
      [] c.op = "create" -> [board EXCEPT ![FreeId] = New(c)]
      [] c.op = "link" /\ tick.made /= << >> -> [board EXCEPT ![tick.made[Len(tick.made)]].parent = c.t]
      [] c.op = "comment" \/ (c.op = "link" /\ tick.made = << >>) -> board

(* Every step of the tick that only moves the tick. *)
Hold == UNCHANGED <<board, repos, inFlight, calledOff, passes, cut, torn, closed, good, human, faults>>
Go(pc, t) == tick' = [tick EXCEPT !.pc = pc, !.cur = t]
Rest(pc) == [Resting EXCEPT !.pc = pc, !.queue = tick.queue, !.list = tick.list]
Make(t, calls, catch, then) ==
    tick' = [tick EXCEPT !.pc = "calls", !.cur = t, !.calls = calls, !.catch = catch, !.then = then]

CountPass(c) ==
    passes' = IF c.op = "create" /\ tick.filing = "none" THEN [passes EXCEPT ![c.t][c.arg.why] = @ + 1] ELSE passes
NoteEnd(c) ==
    /\ closed' = IF c.op = "move" /\ c.arg = "done" /\ tick.then = "epics" THEN closed \union {c.t} ELSE closed
    /\ good' = IF c.op = "label" /\ c.arg = "Stewarded" /\ c.strict THEN good \union {c.t} ELSE good

CallLands ==
    LET c == Head(tick.calls)
        rest == Tail(tick.calls)
    IN  /\ tick.pc = "calls" /\ (c.op = "create" => Room)
        /\ board' = Landed(c)
        /\ IF rest = << >> THEN tick' = Rest(tick.then)
           ELSE tick' = [tick EXCEPT !.calls = rest,
                                     !.filing = IF c.op = "create" THEN "begun" ELSE @,
                                     !.made = IF c.op = "create" THEN Append(@, FreeId) ELSE @]
        /\ CountPass(c) /\ NoteEnd(c)
        /\ UNCHANGED <<repos, inFlight, calledOff, cut, torn, human, faults>>

(* After a failure: the catch list when the call was strict (or the end of the tick, where
   nothing catches it), the next call when it was not. *)
Remaining(c) == IF c.strict THEN tick.catch ELSE Tail(tick.calls)
Thrown(c) ==
    /\ tick' = IF c.strict /\ tick.catch = << >> THEN Resting
               ELSE IF Remaining(c) = << >> THEN Rest(tick.then)
               ELSE [tick EXCEPT !.calls = Remaining(c), !.catch = IF c.strict THEN << >> ELSE @,
                                 !.filing = IF c.op = "create" THEN "begun" ELSE @]
    /\ cut' = cut \union {c.t}
    /\ torn' = IF c.strict /\ tick.catch /= << >> THEN torn ELSE torn \union {c.t}

CallFails == \E late \in BOOLEAN :
    LET c == Head(tick.calls) IN
    /\ tick.pc = "calls" /\ Fault
    /\ late /\ c.op = "create" => Room
    /\ board' = IF late THEN Landed(c) ELSE board
    /\ IF late THEN CountPass(c) ELSE UNCHANGED passes
    /\ Thrown(c)
    /\ UNCHANGED <<repos, inFlight, calledOff, closed, good, human>>

NoRoom ==
    /\ tick.pc = "calls" /\ Head(tick.calls).op = "create" /\ ~Room
    /\ Thrown(Head(tick.calls))
    /\ UNCHANGED <<board, repos, inFlight, calledOff, passes, closed, good, human, faults>>

-----------------------------------------------------------------------------
(* The tick: fetch, at most one bootstrap, one idea and one epic, then the schedule. *)

Routed(q, r) == {t \in DOMAIN q : q[t].route = r}
Oldest(S) == CHOOSE t \in S : \A u \in S : t <= u
Place == [bootstrap |-> 1, idea |-> 2, epic |-> 3]
Onward(q, from) ==
    LET left == {r \in DOMAIN Place : Place[r] >= from /\ Routed(q, r) /= {}}
    IN  IF left = {} THEN "schedule" ELSE CHOOSE r \in left : \A o \in left : Place[r] <= Place[o]
Claimable(t) == board[t].lane = "queue" /\ ~Held(t)

(* parseFactoryMeta; a block holds at most 32 globs of 200 characters, and the plans here
   stay below. *)
ReadMeta(t) == [route |-> Route(t), deps |-> t.deps, touches |-> t.touches]
Fetch ==
    /\ tick.pc = "idle"
    /\ LET q == [t \in {t \in Ticket : Claimable(t)} |-> ReadMeta(board[t])]
       IN  tick' = [Resting EXCEPT !.queue = q, !.pc = Onward(q, 1)]
    /\ Hold

NeedsHumanCalls(t) == <<Add(t, "NeedsHuman"), Move(t, HoldLane("needs_human"))>>
ParkCalls(t) == <<Add(t, "Parked"), Move(t, HoldLane("blocked"))>>
TaskOf(spec, why) == [meta |-> "task", spec |-> spec, writes |-> spec.touches \union spec.mentions, why |-> why]
NoSpec == [deps |-> {}, touches |-> {}, mentions |-> {}, premises |-> {}]

BootstrapAgain ==
    /\ tick.pc = "bootstrap"
    /\ LET t == Oldest(Routed(tick.queue, "bootstrap"))
       IN  repos' = repos \union {t} /\ Go("scaffold", t)
    /\ UNCHANGED <<board, inFlight, calledOff, passes, cut, torn, closed, good, human, faults>>

(* bootstrapProject *)
Bootstrap ==
    /\ tick.pc = "bootstrap"
    /\ LET t == Oldest(Routed(tick.queue, "bootstrap"))
           then == Onward(tick.queue, 2)
       IN  \/ Make(t, NeedsHumanCalls(t), << >>, then) /\ UNCHANGED repos  \* no organisation
           \/ Make(t, ParkCalls(t), << >>, then) /\ repos' \in {repos, repos \union {t}}  \* gh fails, or only says so
           \/ /\ t \notin repos /\ repos' = repos \union {t}
              /\ Go("scaffold", t)
    /\ UNCHANGED <<board, inFlight, calledOff, passes, cut, torn, closed, good, human, faults>>

BootstrapCalls(t) ==
    <<Create(t, [meta |-> "epic", spec |-> NoSpec, writes |-> {}, why |-> "build"], FALSE),
      Call("link", t, 0, FALSE), Add(t, "Planned"), Drop(t, "Bootstrap"), Move(t, "working")>>

ScaffoldGatesGreen(detected, green) == {"typecheck", "build", "test"} \subseteq detected \intersect green

(* The scaffold is pushed only over green gates; a failed stage has written none. *)
Scaffold ==
    /\ tick.pc = "scaffold"
    /\ \E detected, green \in SUBSET {"typecheck", "build", "test"} :
          Make(tick.cur, IF ScaffoldGatesGreen(detected, green) THEN BootstrapCalls(tick.cur) ELSE ParkCalls(tick.cur),
               << >>, Onward(tick.queue, 2))
    /\ Hold

(* decideIntake: open questions win over a contract. *)
DecideIntake(error, questions, contract) ==
    IF error THEN "needs_human" ELSE IF questions THEN "await" ELSE IF contract THEN "upgrade" ELSE "needs_human"

(* runIntake *)
UpgradeCalls(t) == <<Call("describe", t, "epic", TRUE), Drop(t, "Intake"), Add(t, "Epic")>>
AwaitCalls(t) == <<Add(t, "Awaiting"), Move(t, HoldLane("blocked"))>>
IntakeCalls(t, decision) ==
    IF decision = "await" THEN AwaitCalls(t)
    ELSE IF decision = "upgrade" THEN UpgradeCalls(t) ELSE NeedsHumanCalls(t)
Idea ==
    /\ tick.pc = "idea"
    /\ LET t == Oldest(Routed(tick.queue, "idea"))
       IN  \E error, questions, contract \in BOOLEAN :
              Make(t, IntakeCalls(t, DecideIntake(error, questions, contract)),
                   NeedsHumanCalls(t), Onward(tick.queue, 3))
    /\ Hold

(* readChildren: two to six children, edges only to lower ordinals; the shared files a
   child mentions count as touched. *)
ValidPlan(p) == Len(p) \in 2..6 /\ \A i \in DOMAIN p : p[i].deps \subseteq 1..(i - 1)
WithGlue(spec) == [spec EXCEPT !.touches = @ \union spec.mentions]

(* createChildren: a child also waits for the earlier ones whose globs meet its own. *)
PlanCalls(t, p) ==
    LET child(i) == WithGlue(p[i])
        after(i) == {j \in 1..(i - 1) : GlobsOverlap(child(i).touches, child(j).touches)}
    IN  [i \in DOMAIN p |-> Create(t, TaskOf([child(i) EXCEPT !.deps = @ \union after(i)], "plan"), TRUE)]
        \o <<Strictly(Add(t, "Planned")), Move(t, "working")>>

(* planIssue *)
Epic ==
    /\ tick.pc = "epic"
    /\ LET t == Oldest(Routed(tick.queue, "epic")) IN
       \/ Go("schedule", tick.cur)                                           \* registry unavailable
       \/ Make(t, NeedsHumanCalls(t), << >>, "schedule")                    \* unregistered
       \/ \E p \in Plans :
            IF ValidPlan(p) THEN Make(t, PlanCalls(t, p), ParkCalls(t), "schedule")
                            ELSE Make(t, ParkCalls(t), << >>, "schedule")
    /\ Hold

CompletedTickets == {t \in Ticket : board[t].lane = "done"}
TerminalTickets == {t \in Ticket : Closed(t)}
Candidates == [t \in Routed(tick.queue, "task") \ DOMAIN inFlight |-> tick.queue[t]]
Schedule ==
    /\ tick.pc = "schedule"
    /\ \E cands \in {Candidates} : \E edges \in {DeriveImplicitDeps(cands)} :
          LET run == SelectRunnable(cands, edges, TerminalTickets, {inFlight[t] : t \in DOMAIN inFlight},
                                    WipLimit - Cardinality(DOMAIN inFlight))
          IN  inFlight' = [t \in run \union DOMAIN inFlight |->
                              IF t \in run THEN cands[t].touches ELSE inFlight[t]]
    /\ tick' = [Resting EXCEPT !.pc = "steward"]
    /\ UNCHANGED <<board, repos, calledOff, passes, cut, torn, closed, good, human, faults>>

(* fetchStatesByIdentifiers throws: so does the tick. *)
ScheduleFails ==
    /\ tick.pc = "schedule" /\ Fault
    /\ tick' = Resting
    /\ UNCHANGED <<board, repos, inFlight, calledOff, passes, cut, torn, closed, good, human>>

-----------------------------------------------------------------------------
(* The background passes: closeout and reconcile. *)

ChildrenAllCompleted(t) ==
    /\ Kids(t) /= {}
    /\ \A k \in Kids(t) : "Executing" \notin board[k].labels /\ board[k].lane \in {"done", "review"}
ChildrenAllTerminal(t) ==
    /\ Kids(t) /= {}
    /\ \A k \in Kids(t) :
          /\ "Executing" \notin board[k].labels
          /\ \/ board[k].labels \intersect {"Parked", "NeedsHuman"} /= {}
             \/ Closed(k) \/ board[k].lane = "review"
StewardAnyPlanned(t) == "Stewarded" \notin board[t].labels
StewardEligible(t) == "Stewarded" \notin board[t].labels /\ board[t].lane /= "canceled"
IsPlanned(t) == "Planned" \in board[t].labels

StewardTick ==
    /\ tick.pc = "steward"
    /\ LET ready == {t \in Ticket : IsPlanned(t) /\ StewardEligible(t) /\ ChildrenAllTerminal(t)}
       IN  IF ready = {} THEN Go("reconcile", 0)
           ELSE \E t \in ready : Go("closeout", t)
    /\ Hold

CloseoutFailed(t) == <<Add(t, "Stewarded"), Add(t, "NeedsHuman"), Move(t, HoldLane("needs_human"))>>
CloseoutCalls(t, f) ==
    [i \in DOMAIN f |-> Create(t, TaskOf(WithGlue(f[i]), "followup"), TRUE)]
    \o <<Call("comment", t, 0, TRUE), Strictly(Add(t, "Stewarded"))>>

(* stewardEpic reads the children again, not the epic. *)
Closeout ==
    /\ tick.pc = "closeout"
    /\ IF ~ChildrenAllTerminal(tick.cur) THEN tick' = Rest("reconcile")
       ELSE \/ \E f \in FollowUps :
                 Make(tick.cur, CloseoutCalls(tick.cur, f), CloseoutFailed(tick.cur), "reconcile")
            \/ Make(tick.cur, CloseoutFailed(tick.cur), << >>, "reconcile")   \* the stage failed
    /\ Hold

Reconcile ==
    /\ tick.pc = "reconcile"
    /\ tick' = [tick EXCEPT !.pc = "review", !.list = {t \in Ticket : board[t].lane = "review"}]
    /\ Hold

ClosingAnyway == {t \in Ticket : IsPlanned(t) /\ "Stewarded" \in board[t].labels /\ ~Closed(t)}
Closing == {t \in Ticket : IsPlanned(t) /\ "Stewarded" \in board[t].labels
                           /\ "NeedsHuman" \notin board[t].labels /\ ~Closed(t)}
CloseNext(t, then) ==
    tick' = [tick EXCEPT !.pc = "calls", !.cur = t, !.calls = <<Strictly(Move(t, "done"))>>, !.then = then,
                         !.list = @ \ {t}]
ReconcileReview ==
    /\ tick.pc = "review"
    /\ LET merged == {t \in tick.list : board[t].pr = "merged"}
       IN  IF merged = {} THEN tick' = [tick EXCEPT !.pc = "epics", !.list = Closing]
           ELSE CloseNext(Oldest(merged), "review")
    /\ Hold

ReconcileEpics ==
    /\ tick.pc = "epics"
    /\ LET over == {t \in tick.list : (\A k \in Kids(t) : Closed(k)) /\ ChildrenAllTerminal(t)}
       IN  IF over = {} THEN tick' = Resting
           ELSE CloseNext(Oldest(over), "epics")
    /\ Hold

-----------------------------------------------------------------------------
(* The runs, humans, and the end of the process. *)

Leave(t) == inFlight' = [u \in DOMAIN inFlight \ {t} |-> inFlight[u]]
Became(t, lane, labels) == board' = [board EXCEPT ![t].lane = lane, ![t].labels = labels]
Running(t) == t \in DOMAIN inFlight /\ board[t].lane = "working" /\ "Executing" \in board[t].labels
RunRest == UNCHANGED <<repos, tick, calledOff, passes, cut, torn, closed, good, human, faults>>

(* The claim and the freshness check of processIssue. *)
RunBegins(t) ==
    /\ t \in DOMAIN inFlight /\ Claimable(t)
    /\ \E premises \in IF board[t].premises = {} THEN {{}} ELSE SUBSET board[t].premises \ {{}} :
          LET action == DecideFreshness(board[t].pr = "merged", premises) IN
          \/ action = "proceed" /\ Became(t, "working", board[t].labels \union {"Executing"}) /\ UNCHANGED inFlight
          \/ action = "cancel" /\ Became(t, "canceled", board[t].labels \union {"Stale"}) /\ Leave(t)
          \/ action = "park" /\ Became(t, HoldLane("blocked"), board[t].labels \union {"Parked"}) /\ Leave(t)
    /\ RunRest

RunRefused(t) ==
    /\ t \in DOMAIN inFlight /\ ~Claimable(t) /\ ~Running(t)
    /\ Became(t, board[t].lane, board[t].labels \ {"Executing"})
    /\ Leave(t) /\ RunRest

RunEnds(t) ==
    /\ Running(t)
    /\ LET labels == board[t].labels \ {"Executing"} IN
       \/ board' = [board EXCEPT ![t].lane = "review", ![t].labels = labels, ![t].pr = "open"]
       \/ board' = [board EXCEPT ![t].lane = "done", ![t].labels = labels, ![t].pr = "merged"]
       \/ Became(t, HoldLane("blocked"), labels \union {"Parked"})  \* or NeedsHuman: no pass tells them apart
    /\ Leave(t) /\ RunRest

Busy(t) == t = tick.cur \/ t \in DOMAIN tick.queue \/ t \in tick.list
HumanActs == human < MaxHuman /\ human + faults < MaxTrouble /\ human' = human + 1

Requeue(t) ==
    /\ Exists(t) /\ board[t].lane /= "working" /\ ~Claimable(t) /\ HumanActs
    /\ Became(t, "queue", board[t].labels \ {"Parked", "NeedsHuman", "Stale", "Awaiting"})
    /\ calledOff' = calledOff \ {t} /\ torn' = torn \union {t}
    /\ UNCHANGED <<repos, tick, inFlight, passes, cut, closed, good, faults>>

CallOff(t) ==
    /\ Exists(t) /\ ~Closed(t) /\ HumanActs
    /\ Became(t, "canceled", board[t].labels)
    /\ calledOff' = IF Busy(t) \/ t \in DOMAIN inFlight THEN calledOff ELSE calledOff \union {t}
    /\ UNCHANGED <<repos, tick, inFlight, passes, cut, torn, closed, good, faults>>

EditDeps(t, u) ==
    /\ Claimable(t) /\ Exists(u) /\ u /= t /\ board[t].meta = "task" /\ board[u].meta = "task"
    /\ u \notin board[t].deps /\ ~Reaches(Explicit(board), u, t)
    /\ HumanActs
    /\ board' = [board EXCEPT ![t].deps = @ \union {u}]
    /\ UNCHANGED <<repos, tick, inFlight, calledOff, passes, cut, torn, closed, good, faults>>

MergePr(t) ==
    /\ board[t].pr = "open"
    /\ board' = [board EXCEPT ![t].pr = "merged"]
    /\ UNCHANGED inFlight /\ RunRest

(* The next boot sweeps the claims of the dead process. *)
Crash ==
    /\ Fault
    /\ tick' = Resting /\ inFlight' = << >>
    /\ board' = [t \in Ticket |->
                   IF "Executing" \in board[t].labels
                   THEN [board[t] EXCEPT !.labels = @ \ {"Executing"}, !.lane = IF @ = "working" THEN "queue" ELSE @]
                   ELSE board[t]]
    /\ cut' = IF tick.cur = 0 THEN cut ELSE cut \union {tick.cur}
    /\ torn' = IF tick.cur = 0 THEN torn ELSE torn \union {tick.cur}
    /\ UNCHANGED <<repos, calledOff, passes, closed, good, human>>

Tick == \/ Fetch \/ Bootstrap \/ Scaffold \/ Idea \/ Epic \/ Schedule \/ StewardTick \/ Closeout
        \/ Reconcile \/ ReconcileReview \/ ReconcileEpics \/ CallLands \/ NoRoom
Run(t) == RunBegins(t) \/ RunRefused(t) \/ RunEnds(t)

Next == \/ Tick \/ CallFails \/ ScheduleFails \/ Crash
        \/ \E t \in Ticket : Run(t) \/ Requeue(t) \/ CallOff(t) \/ MergePr(t) \/ \E u \in Ticket : EditDeps(t, u)

Spec == Init /\ [][Next]_vars /\ WF_vars(Tick \/ CallFails \/ ScheduleFails) /\ \A t \in Ticket : WF_vars(Run(t))

-----------------------------------------------------------------------------
(* Properties. *)

TypeOK ==
    /\ \A t \in Ticket : /\ board[t].lane \in Lanes /\ board[t].labels \subseteq Labels
                          /\ board[t].lane \in {"blocked", "needs_human"} => HoldColumns
                          /\ board[t].parent \in 0..MaxTickets /\ board[t].deps \subseteq Ticket
                          /\ board[t].touches \subseteq Globs
    /\ tick.pc \in Places /\ repos \subseteq Ticket /\ DOMAIN inFlight \subseteq Ticket
    /\ UNION {calledOff, cut, torn, closed, good} \subseteq Ticket

(* dag.ts 4-5: no two tickets whose globs overlap run at once; the shared files a ticket
   only mentions count, declared or not. *)
DisjointWriters == \A t, u \in DOMAIN inFlight :
    t /= u => ~GlobsOverlap(board[t].writes, board[u].writes)

(* dag.ts 78-80: a derived edge never wedges the queue.  With nothing running, and every
   dependence closed or itself in the queue, the scheduler finds something to start. *)
Waiting == {t \in Ticket : Claimable(t) /\ Route(board[t]) = "task"}
NoWedge ==
    (inFlight = << >> /\ Waiting /= {} /\ \A t \in Waiting : \A d \in board[t].deps : Closed(d) \/ d \in Waiting) =>
        LET cands == [t \in Waiting |-> [deps |-> board[t].deps, touches |-> board[t].touches]]
        IN  SelectRunnable(cands, DeriveImplicitDeps(cands), TerminalTickets, {}, WipLimit) /= {}

(* An epic is decomposed once and closed out once, unless a pass over it was cut; a
   bootstrap files one build epic, cut or not: the repository can be created only once. *)
FiledOnce == \A t \in Ticket :
    /\ passes[t].build <= 1
    /\ t \notin cut => passes[t].plan <= 1 /\ passes[t].followup <= 1

(* steward.ts 231-234: cancellation is a terminal human decision.  The tick neither moves
   a ticket that was canceled before it looked, nor files work for it. *)
CalledOffStays == [][\A t \in calledOff \intersect calledOff' :
    board'[t].lane = "canceled" /\ passes'[t] = passes[t]]_vars

(* reconcile.ts 113-117: an epic is closed only over a complete closeout, unless what
   surfaces a failed one was itself lost, or a human cleared it. *)
ClosedAfterCloseout == closed \subseteq good \union torn

(* A planned epic whose children are closed is closed out, and closed or handed over. *)
Settling(t) == IsPlanned(t) /\ ~Closed(t) /\ "NeedsHuman" \notin board[t].labels
               /\ Kids(t) /= {} /\ \A k \in Kids(t) : Closed(k)
EpicsSettle == \A t \in Ticket : Settling(t) ~> ~Settling(t)

(* Queued tasks all start once nothing waits for a human any more. *)
Stuck(t) == \/ board[t].lane \in {"review", "blocked", "needs_human"}
            \/ board[t].labels \intersect {"Parked", "NeedsHuman", "Awaiting", "Stale"} /= {}
QueueDrains == <>[](\A t \in Ticket : ~Stuck(t)) => []<>(Waiting = {})
=============================================================================
