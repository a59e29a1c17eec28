--------------------------- MODULE ClaimLifecycle ---------------------------
(***************************************************************************)
(* The life of a ticket between the board (Linear), the daemon's tick and  *)
(* the runs the tick launches.  The board has no compare-and-swap: a claim *)
(* is a label and a column, written one call at a time by a process that   *)
(* may crash, over a network that may fail, on a board that humans edit at *)
(* any moment.                                                             *)
(*                                                                         *)
(* Three actors interleave, each call to Linear being one step:            *)
(*   - the tick (index.ts): orphan sweep, queue fetch, launch, reconcile;  *)
(*   - one run per claimed ticket (loop.ts processIssue, linear.ts claim), *)
(*     reduced here to its board-visible steps;                            *)
(*   - humans, who drag tickets, clear labels and merge pull requests.     *)
(***************************************************************************)
EXTENDS Integers, FiniteSets

CONSTANTS
    Issue,        \* tickets, numbered in creation order: the queue is FIFO
    WipLimit,     \* config.caps.wipLimit
    SweepEvery,   \* ORPHAN_SWEEP_EVERY_N_TICKS (20 in the code)
    Stages,       \* model stages between the claim and the delivery of a run
    BoardHas,     \* the optional columns, blocked and needs_human, a board has
    HumanTargets, \* columns a human may drag a ticket to
    Failures,     \* how a call may fail: "lost" (no effect), "late" (after its effect)
    MaxFaults,    \* bound: failed calls (outages) in a behaviour
    MaxEdits,     \* bound: human edits
    MaxCrashes,   \* bound: crashes of the daemon
    MaxTrouble    \* bound: faults, edits and crashes together

Optional == {"blocked", "needs_human"}
Terminal == {"done", "canceled"}
Unstarted == {"queue"} \cup Optional
Started == {"working", "review"}
Column == Unstarted \cup Started \cup Terminal

ASSUME IssueAssumption == Issue \subseteq Nat \ {0} /\ IsFiniteSet(Issue)
ASSUME BoundsAssumption ==
    /\ WipLimit \in Nat \ {0} /\ SweepEvery \in Nat \ {0, 1} /\ Stages \in Nat \ {0}
    /\ MaxFaults \in Nat /\ MaxEdits \in Nat /\ MaxCrashes \in Nat /\ MaxTrouble \in Nat
ASSUME FailureAssumption == Failures \subseteq {"lost", "late"}
ASSUME BoardAssumption == BoardHas \subseteq Optional /\ HumanTargets \subseteq Column

\* Labels.  Every one of them holds a ticket out of the queue.
Label == {"Executing", "Parked", "NeedsHuman", "Stale"}

VARIABLES
    column,     \* board: the column of a ticket
    labels,     \* board: its labels
    merged,     \* GitHub: its branch has a merged pull request
    phase,      \* tick: where the daemon's main loop is
    ticks,      \* tick: tickCount modulo SweepEvery
    orphans,    \* sweep: the tickets still to reset
    requeue,    \* sweep: those whose column, when read, said to requeue
    cur,        \* sweep: the ticket whose label is off and whose reset is due
    queue,      \* tick: the snapshot of fetchQueue, and then the candidates of it
    room,       \* tick: the capacity, as computed before the dependency states are read
    keys,       \* reconcile: the in-flight keys the pass was called with
    suspects,   \* reconcile: those of them the pass did not see as claimed
    toClose,    \* reconcile: tickets seen in review, whose PR is to be asked for
    pending,    \* reconcile: pendingClaimLoss, the debounce memory
    inFlight,   \* runs: the inFlight map's keys
    pc,         \* runs: where the run of a ticket is
    left,       \* runs: model stages still to run
    signal,     \* runs: a stage of it was aborted with CLAIM_LOST
    dirty,      \* ghost: actors that have not read a ticket since its last human edit
    byHand,     \* ghost: tickets that a human put in their present column
    faults, edits, crashes  \* the bounded counters

board == <<column, labels, merged>>
sweepVars == <<orphans, requeue, cur>>
reconVars == <<keys, suspects, toClose>>
tick == <<phase, ticks, sweepVars, queue, room, reconVars, pending>>
run == <<inFlight, pc, left, signal>>
ghost == <<dirty, byHand>>
bounds == <<faults, edits, crashes>>
vars == <<board, tick, run, ghost, bounds>>

None == 0 \* no ticket

Outcome == {"ok"} \cup Failures
Applied(o) == o # "lost"
Trouble == faults + edits + crashes < MaxTrouble
Spend(o) ==
    IF o = "ok" THEN UNCHANGED faults
                ELSE faults < MaxFaults /\ Trouble /\ faults' = faults + 1

\* transitionTarget: an optional lane that the board lacks degrades to the queue.
Target(kind) == IF kind \in Optional \ BoardHas THEN "queue" ELSE kind

\* issueUpdate by the daemon: a ticket that it moves is no longer where a human put it.
SetColumn(i, c, o) ==
    IF Applied(o)
      THEN column' = [column EXCEPT ![i] = c] /\ byHand' = byHand \ {i}
      ELSE UNCHANGED <<column, byHand>>

\* stillOurs, and the claim's verification: by label and state type.
IsOurs(i) == "Executing" \in labels[i] /\ column[i] \in Started

Read(who, S) == dirty' = [i \in Issue |-> IF i \in S THEN dirty[i] \ {who} ELSE dirty[i]]

-----------------------------------------------------------------------------
Init ==
    /\ column = [i \in Issue |-> "queue"]
    /\ labels = [i \in Issue |-> {}]
    /\ merged = [i \in Issue |-> FALSE]
    /\ phase = "down" /\ ticks = 0
    /\ orphans = {} /\ requeue = {} /\ cur = None
    /\ queue = {} /\ room = 0
    /\ keys = {} /\ suspects = {} /\ toClose = {} /\ pending = {}
    /\ inFlight = {}
    /\ pc = [i \in Issue |-> "idle"]
    /\ left = [i \in Issue |-> 0]
    /\ signal = [i \in Issue |-> FALSE]
    /\ dirty = [i \in Issue |-> {}] /\ byHand = {}
    /\ faults = 0 /\ edits = 0 /\ crashes = 0

-----------------------------------------------------------------------------
\* The daemon starts: recoverOrphanedClaims runs before the first tick.
Start ==
    /\ phase = "down"
    /\ phase' = "sweepRead" /\ ticks' = 1
    /\ UNCHANGED <<board, sweepVars, queue, room, reconVars, pending, run, ghost, bounds>>

\* The process ends.  Only the board survives.
Down ==
    /\ phase' = "down" /\ ticks' = 0
    /\ orphans' = {} /\ requeue' = {} /\ cur' = None
    /\ queue' = {} /\ room' = 0
    /\ keys' = {} /\ suspects' = {} /\ toClose' = {} /\ pending' = {}
    /\ inFlight' = {}
    /\ pc' = [i \in Issue |-> "idle"]
    /\ left' = [i \in Issue |-> 0]
    /\ signal' = [i \in Issue |-> FALSE]
    /\ UNCHANGED <<board, ghost, faults, edits>>

Crash ==
    /\ phase # "down" /\ crashes < MaxCrashes /\ Trouble
    /\ crashes' = crashes + 1
    /\ Down

\* SIGTERM, SIGINT or SIGHUP: the loop ends with this tick, and the process when
\* every run in flight has ended.
Stop ==
    /\ phase = "sleep" /\ phase' = "stopping"
    /\ UNCHANGED <<board, ticks, sweepVars, queue, room, reconVars, pending, run, ghost, bounds>>

Exit == phase = "stopping" /\ inFlight = {} /\ Down /\ UNCHANGED crashes

\* Mutant of TickBegin: recovery at startup only.
TickBeginNoSweep ==
    /\ phase = "sleep"
    /\ ticks' = (ticks + 1) % SweepEvery
    /\ phase' = "fetch"
    /\ UNCHANGED <<board, sweepVars, queue, room, reconVars, pending, run, ghost, bounds>>

\* One turn of main's loop: every SweepEvery-th tick starts with the orphan sweep.
TickBegin ==
    /\ phase = "sleep"
    /\ ticks' = (ticks + 1) % SweepEvery
    /\ phase' = IF ticks' = 0 THEN "sweepRead" ELSE "fetch"
    /\ UNCHANGED <<board, sweepVars, queue, room, reconVars, pending, run, ghost, bounds>>

\* filterOrphanedIssues: the runs of this very process are not orphans.
Orphaned(i) == "Executing" \in labels[i] /\ i \notin inFlight

\* Mutant of ShouldRequeue: the orphan's column does not matter.
ShouldRequeueAlways(i) == TRUE

\* orphanShouldRequeue: what a human finished or killed stays where it is.
ShouldRequeue(i) == column[i] \in Unstarted \cup Started

\* fetchByLabel; a failure reads as "no orphans".
SweepRead ==
    /\ phase = "sweepRead"
    /\ \E ok \in BOOLEAN :
         /\ Spend(IF ok THEN "ok" ELSE "lost")
         /\ orphans' = IF ok THEN {i \in Issue : Orphaned(i)} ELSE {}
         /\ requeue' = {i \in orphans' : ShouldRequeue(i)}
         /\ phase' = IF orphans' = {} THEN "fetch" ELSE "sweep"
         /\ Read("tick", orphans')
    /\ UNCHANGED <<board, ticks, cur, queue, room, reconVars, pending, run, edits, crashes, byHand>>

\* The sweep leaves ticket i and turns to the next one.
SweepNext(i) ==
    /\ orphans' = orphans \ {i}
    /\ requeue' = requeue \ {i}
    /\ cur' = None
    /\ phase' = IF orphans' = {} THEN "fetch" ELSE "sweep"

SweepStrip(i) ==
    /\ phase = "sweep" /\ cur = None /\ i \in orphans
    /\ \E o \in Outcome :
         /\ Spend(o)
         /\ labels' = IF Applied(o) THEN [labels EXCEPT ![i] = @ \ {"Executing"}] ELSE labels
         /\ IF o = "ok" /\ i \in requeue
              THEN cur' = i /\ UNCHANGED <<orphans, requeue, phase>>
              ELSE SweepNext(i)
    /\ UNCHANGED <<column, merged, ticks, queue, room, reconVars, pending, run, ghost, edits, crashes>>

SweepReset(i) ==
    /\ phase = "sweep" /\ cur = i
    /\ \E o \in Outcome :
         /\ Spend(o)
         /\ SetColumn(i, "queue", o)
         /\ SweepNext(i)
    /\ UNCHANGED <<labels, merged, ticks, queue, room, reconVars, pending, run, dirty, edits, crashes>>

-----------------------------------------------------------------------------
\* fetchQueue: the queue lane, less every held ticket.  Its failure ends the tick.
Claimable(i) == column[i] = "queue" /\ labels[i] = {}

Fetch ==
    /\ phase = "fetch"
    /\ \E ok \in BOOLEAN :
         /\ Spend(IF ok THEN "ok" ELSE "lost")
         /\ queue' = IF ok THEN {i \in Issue : Claimable(i)} ELSE {}
         /\ phase' = CASE ~ok -> "sleep" [] ok /\ queue' = {} -> "reconcile" [] OTHER -> "launch"
         /\ Read("tick", queue')
    /\ UNCHANGED <<board, ticks, sweepVars, room, reconVars, pending, run, edits, crashes, byHand>>

\* Mutant of Candidates: the runs in flight are not looked at.
CandidatesAll == queue

\* The bookends (bootstrap, intake, planner) may take hours between Fetch and
\* here; capacity and the in-flight filter are computed after them.
Candidates == queue \ inFlight
Capacity == WipLimit - Cardinality(inFlight)

\* The candidates and the room for them, before the read of the states of the
\* tickets that they depend on; its failure ends the tick.
Select ==
    /\ phase = "launch"
    /\ \/ /\ queue' = Candidates /\ room' = Capacity
          /\ phase' = "select"
          /\ UNCHANGED faults
       \/ /\ Spend("lost")
          /\ queue' = {} /\ room' = 0
          /\ phase' = "sleep"
    /\ UNCHANGED <<board, ticks, sweepVars, reconVars, pending, run, ghost, edits, crashes>>

\* The first candidates up to the room, oldest first: no ticket here waits for
\* another one or shares a path with it (Planning has those).
Batch == {i \in queue : Cardinality({j \in queue : j < i}) < room}

\* After the await: runs may have settled since Select, and nothing is asked again.
Launch ==
    /\ phase = "select"
    /\ inFlight' = inFlight \cup Batch
    /\ pc' = [i \in Issue |-> IF i \in Batch THEN "admit" ELSE pc[i]]
    /\ dirty' = [i \in Issue |-> IF i \notin Batch THEN dirty[i]   \* a run starts from
                                 ELSE IF "tick" \in dirty[i] THEN {"run", "tick"} ELSE {}]  \* the tick's read
    /\ queue' = {} /\ room' = 0
    /\ phase' = "reconcile"
    /\ UNCHANGED <<board, ticks, sweepVars, reconVars, pending, left, signal, bounds, byHand>>

-----------------------------------------------------------------------------
\* runBackgroundPasses hands the pass a copy of the in-flight keys.
ReconCall ==
    /\ phase = "reconcile"
    /\ keys' = inFlight
    /\ phase' = "reconRead"
    /\ UNCHANGED <<board, ticks, sweepVars, queue, room, suspects, toClose, pending, run, ghost, bounds>>

\* reconcileTick (1): the started tickets of a team.  A failed fetch reads as
\* an empty list, and the sweep at the end of the pass uses the same list.
ReconRead ==
    /\ phase = "reconRead"
    /\ \E ok \in BOOLEAN :
         /\ Spend(IF ok THEN "ok" ELSE "lost")
         /\ suspects' = {i \in keys : ~ok \/ ~IsOurs(i)}
         /\ toClose' = IF ok THEN {i \in Issue : column[i] = "review"} ELSE {}
         /\ Read("tick", IF ok THEN {i \in Issue : column[i] \in Started} ELSE {})
    /\ phase' = "close"
    /\ UNCHANGED <<board, ticks, sweepVars, queue, room, keys, pending, run, edits, crashes, byHand>>

PassEnd == phase' = "sleep" /\ keys' = {} /\ suspects' = {} /\ toClose' = {}

\* prMerged, where a failure reads as not merged, then the transition to done,
\* whose failure ends the whole pass.
ReconClose(i) ==
    /\ phase = "close" /\ i \in toClose
    /\ \/ merged[i] /\ \E o \in Outcome :
            /\ Spend(o)
            /\ SetColumn(i, "done", o)
            /\ IF o = "ok" THEN toClose' = toClose \ {i} /\ UNCHANGED <<phase, keys, suspects>>
                           ELSE PassEnd
       \/ /\ Spend(IF merged[i] THEN "lost" ELSE "ok")
          /\ toClose' = toClose \ {i}
          /\ UNCHANGED <<column, byHand, phase, keys, suspects>>
    /\ UNCHANGED <<labels, merged, ticks, sweepVars, queue, room, pending, run, dirty, edits, crashes>>

\* reconcileTick (4), claimLossSweep: the first suspicion is remembered, a second
\* one in a row aborts the stage that the run is in.  Keys seen as claimed, and
\* keys no longer in flight, are forgotten; a pass called with no key at all, or
\* ended by a failure on an epic or on the approvals inbox, leaves the memory alone.
Confirmed == suspects \cap pending
Warned == suspects \ pending

ClaimLoss ==
    /\ phase = "close" /\ toClose = {}
    /\ \/ /\ keys # {}
          /\ pending' = Warned
          /\ signal' = [i \in Issue |-> signal[i] \/ (i \in Confirmed /\ pc[i] = "stage")]
          /\ UNCHANGED faults
       \/ Spend(IF keys = {} THEN "ok" ELSE "lost") /\ UNCHANGED <<pending, signal>>
    /\ PassEnd
    /\ UNCHANGED <<board, ticks, sweepVars, queue, room, inFlight, pc, left, ghost, edits, crashes>>

TickStep ==
    \/ TickBegin \/ SweepRead \/ Fetch \/ Select \/ Launch \/ ReconCall \/ ReconRead \/ ClaimLoss
    \/ \E i \in Issue : SweepStrip(i) \/ SweepReset(i) \/ ReconClose(i)

-----------------------------------------------------------------------------
\* One call of a run that changes a label or a column, and where it leads.
Goto(i, l) == pc' = [pc EXCEPT ![i] = l]

LabelCall(i, at, new, okTo, errTo) ==
    /\ pc[i] = at
    /\ \E o \in Outcome :
         /\ Spend(o)
         /\ labels' = IF Applied(o) THEN [labels EXCEPT ![i] = new] ELSE labels
         /\ Goto(i, IF o = "ok" THEN okTo ELSE errTo)
    /\ UNCHANGED <<column, merged, tick, inFlight, left, signal, ghost, edits, crashes>>

MoveCall(i, at, kind, okTo, errTo) ==
    /\ pc[i] = at
    /\ \E o \in Outcome :
         /\ Spend(o)
         /\ SetColumn(i, Target(kind), o)
         /\ Goto(i, IF o = "ok" THEN okTo ELSE errTo)
    /\ UNCHANGED <<labels, merged, tick, inFlight, left, signal, dirty, edits, crashes>>

\* One read of the ticket (getIssue): what it shows leads to yes or no, its
\* failure to errTo.
ReadCall(i, at, shows, yes, no, errTo) ==
    /\ pc[i] = at
    /\ \/ /\ Goto(i, IF shows THEN yes ELSE no)
          /\ Read("run", {i})
          /\ UNCHANGED faults
       \/ Spend("lost") /\ Goto(i, errTo) /\ UNCHANGED dirty
    /\ UNCHANGED <<board, tick, inFlight, left, signal, byHand, edits, crashes>>

\* A step of a run that touches nothing but the run's own place.
Choose(i, at, next) ==
    /\ pc[i] = at
    /\ \E l \in next : Goto(i, l)
    /\ UNCHANGED <<board, tick, inFlight, left, signal, ghost, bounds>>

\* processIssue before the claim: the registry admits the repository, or
\* rejects it (markNeedsHuman, label before column, both best-effort), or is
\* unavailable and the ticket is left queued.
Admit(i) ==
    /\ pc[i] = "admit"
    /\ \/ UNCHANGED faults /\ \E l \in {"claimRead", "refuseLabel"} : Goto(i, l)
       \/ Spend("lost") /\ Goto(i, "settle")
    /\ UNCHANGED <<board, tick, inFlight, left, signal, ghost, edits, crashes>>
RefuseLabel(i) == LabelCall(i, "refuseLabel", labels[i] \cup {"NeedsHuman"}, "refuseMove", "refuseMove")
RefuseMove(i)  == MoveCall(i, "refuseMove", "needs_human", "settle", "settle")

\* linear.claim: read, label, move, read again; an error rolls the label back
\* and leaves the column as it is.
ClaimRefused(i) == column[i] \notin Unstarted \/ "Executing" \in labels[i]
ClaimRead(i)   == ReadCall(i, "claimRead", ClaimRefused(i), "settle", "claimLabel", "settle")
ClaimLabel(i)  == LabelCall(i, "claimLabel", labels[i] \cup {"Executing"}, "claimMove", "rollback")
ClaimMove(i)   == MoveCall(i, "claimMove", "working", "claimVerify", "rollback")
ClaimVerify(i) == ReadCall(i, "claimVerify", IsOurs(i), "prep", "rollback", "rollback")
Rollback(i)    == LabelCall(i, "rollback", labels[i] \ {"Executing"}, "settle", "settle")

\* Workspace, dependencies and the freshness gate: go on, park, or resolve stale.
Prepare(i) ==
    /\ pc[i] = "prep"
    /\ \E l \in {"stage", "parkLabel", "staleLabel"} :
         /\ Goto(i, l)
         /\ left' = [left EXCEPT ![i] = IF l = "stage" THEN Stages ELSE 0]
    /\ UNCHANGED <<board, tick, inFlight, signal, ghost, bounds>>

\* The model calls between two claim checks.  A stage that was aborted ends the
\* run quietly, or, where a session was resumed, is started again from cold, or,
\* where only its verdict is lost, lets the run go on.
StageEnd(i) ==
    /\ pc[i] = "stage"
    /\ \/ ~signal[i] /\ Goto(i, "parkLabel") /\ UNCHANGED left
       \/ Goto(i, "check") /\ left' = [left EXCEPT ![i] = @ - 1]
       \/ signal[i] /\ \E l \in {"release", "stage"} : Goto(i, l) /\ UNCHANGED left
    /\ signal' = [signal EXCEPT ![i] = FALSE]
    /\ UNCHANGED <<board, tick, inFlight, ghost, bounds>>

\* stillOurs between two stages, before the push, and before the merge decision.
Check(i) == ReadCall(i, "check", IsOurs(i), IF left[i] > 0 THEN "stage" ELSE "deliver", "release", "parkLabel")
Deliver(i) == Choose(i, "deliver", {"mergeCheck", "parkLabel"})
MergeCheck(i) == ReadCall(i, "mergeCheck", IsOurs(i), "decide", "release", "parkLabel")

\* The run's end: held for a human, left in review, merged, or a refused merge.
Decide(i) ==
    /\ pc[i] = "decide"
    /\ \E l \in {"holdLabel", "reviewMove", "doneMove", "fallbackMove"} :
         /\ Goto(i, l)
         /\ merged' = [merged EXCEPT ![i] = @ \/ l = "doneMove"]
    /\ UNCHANGED <<column, labels, tick, inFlight, left, signal, ghost, bounds>>

HoldLabel(i)    == LabelCall(i, "holdLabel", labels[i] \cup {"NeedsHuman"}, "holdMove", "holdMove")
HoldMove(i)     == MoveCall(i, "holdMove", "needs_human", "release", "release")
ReviewMove(i)   == MoveCall(i, "reviewMove", "review", "release", "parkLabel")
FallbackMove(i) == MoveCall(i, "fallbackMove", "review", "release", "release")
DoneMove(i)     == MoveCall(i, "doneMove", "done", "release", "parkLabel")
StaleLabel(i)   == LabelCall(i, "staleLabel", labels[i] \cup {"Stale"}, "staleMove", "staleMove")
StaleMove(i)    == MoveCall(i, "staleMove", "done", "release", "parkLabel")
Release(i)      == LabelCall(i, "release", labels[i] \ {"Executing"}, "settle", "settle")

\* park: label, column, release, each retried; one outage outlasts the retries.
ParkLabel(i)   == LabelCall(i, "parkLabel", labels[i] \cup {"Parked"}, "parkMove", "parkMove")
ParkMove(i)    == MoveCall(i, "parkMove", "blocked", "parkRelease", "parkRelease")
ParkRelease(i) == LabelCall(i, "parkRelease", labels[i] \ {"Executing"}, "settle", "settle")

\* Mutant of Settle: the key stays in the in-flight map.
SettleKeepsSlot(i) ==
    /\ pc[i] = "settle"
    /\ Goto(i, "idle")
    /\ left' = [left EXCEPT ![i] = 0]
    /\ signal' = [signal EXCEPT ![i] = FALSE]
    /\ UNCHANGED <<inFlight, board, tick, ghost, bounds>>

\* The finally of processIssue and of the launch: the key leaves the map.
Settle(i) ==
    /\ pc[i] = "settle"
    /\ Goto(i, "idle")
    /\ inFlight' = inFlight \ {i}
    /\ left' = [left EXCEPT ![i] = 0]
    /\ signal' = [signal EXCEPT ![i] = FALSE]
    /\ UNCHANGED <<board, tick, ghost, bounds>>

RunStep(i) ==
    \/ Admit(i) \/ RefuseLabel(i) \/ RefuseMove(i)
    \/ ClaimRead(i) \/ ClaimLabel(i) \/ ClaimMove(i) \/ ClaimVerify(i) \/ Rollback(i)
    \/ Prepare(i) \/ StageEnd(i) \/ Check(i) \/ Deliver(i) \/ MergeCheck(i) \/ Decide(i)
    \/ HoldLabel(i) \/ HoldMove(i) \/ ReviewMove(i) \/ FallbackMove(i) \/ DoneMove(i)
    \/ StaleLabel(i) \/ StaleMove(i) \/ Release(i)
    \/ ParkLabel(i) \/ ParkMove(i) \/ ParkRelease(i) \/ Settle(i)

-----------------------------------------------------------------------------
\* Humans, at any moment.
Edit(i) ==
    /\ edits < MaxEdits /\ Trouble /\ edits' = edits + 1
    /\ dirty' = [dirty EXCEPT ![i] = {"run", "tick"}]
    /\ UNCHANGED <<tick, run, faults, crashes>>

HumanMove(i) ==
    /\ \E c \in HumanTargets \ {column[i]} : column' = [column EXCEPT ![i] = c]
    /\ byHand' = byHand \cup {i}
    /\ Edit(i) /\ UNCHANGED <<labels, merged>>

\* "Remove the label to requeue", or take the ticket away from the factory.
HumanUnlabel(i) ==
    /\ \E S \in {Label \ {"Executing"}, {"Executing"}} :
         labels[i] \cap S # {} /\ labels' = [labels EXCEPT ![i] = @ \ S]
    /\ Edit(i) /\ UNCHANGED <<column, byHand, merged>>

HumanMerge(i) ==
    /\ column[i] = "review" /\ ~merged[i]
    /\ merged' = [merged EXCEPT ![i] = TRUE]
    /\ Edit(i) /\ UNCHANGED <<column, byHand, labels>>

Human == \E i \in Issue : HumanMove(i) \/ HumanUnlabel(i) \/ HumanMerge(i)

Next == Start \/ Crash \/ Stop \/ Exit \/ Human \/ TickStep \/ \E i \in Issue : RunStep(i)

Spec == Init /\ [][Next]_vars

\* The loop and the runs are awaited promises: each goes on while the process
\* lives.  Nobody promises that it is restarted, nor what humans do.
Fairness == WF_vars(TickStep \/ Exit) /\ \A i \in Issue : WF_vars(RunStep(i))
FairSpec == Spec /\ Fairness

-----------------------------------------------------------------------------
PC == {"idle", "admit", "refuseLabel", "refuseMove", "claimRead", "claimLabel",
       "claimMove", "claimVerify", "rollback", "prep", "stage", "check", "deliver",
       "mergeCheck", "decide", "holdLabel", "holdMove", "reviewMove", "fallbackMove",
       "doneMove", "staleLabel", "staleMove", "release", "parkLabel", "parkMove",
       "parkRelease", "settle"}
Phase == {"down", "sweepRead", "sweep", "fetch", "launch", "select", "reconcile",
          "reconRead", "close", "sleep", "stopping"}

\* Every variable keeps its type.
TypeOK ==
    /\ column \in [Issue -> Column]
    /\ labels \in [Issue -> SUBSET Label]
    /\ merged \in [Issue -> BOOLEAN]
    /\ phase \in Phase /\ ticks \in 0 .. SweepEvery
    /\ orphans \subseteq Issue /\ requeue \subseteq orphans /\ cur \in Issue \cup {None}
    /\ queue \subseteq Issue /\ room \in 0 .. WipLimit
    /\ keys \subseteq Issue /\ suspects \subseteq keys /\ toClose \subseteq Issue
    /\ pending \subseteq Issue
    /\ inFlight \subseteq Issue
    /\ pc \in [Issue -> PC]
    /\ left \in [Issue -> 0 .. Stages]
    /\ signal \in [Issue -> BOOLEAN]
    /\ dirty \in [Issue -> SUBSET {"run", "tick"}] /\ byHand \subseteq Issue
    /\ faults \in 0 .. MaxFaults /\ edits \in 0 .. MaxEdits /\ crashes \in 0 .. MaxCrashes

\* WIP is never exceeded.  The room is counted before an await and filled after
\* it, while runs settle; and once a run's slot is given away, the run itself is
\* over, however stale the snapshot is (index.ts 185-223).
WipBound == Cardinality(inFlight) <= WipLimit

\* Where a run believes that the ticket is its own.
Holding == {"prep", "stage", "check", "deliver", "mergeCheck", "decide"}

\* A claim is taken away by humans only: as long as no human touched the ticket
\* since the run last read it, it carries the executing label and is in a
\* started column, whatever the sweep, the reconcile pass or another run did.
\* (A ticket whose branch has a merged pull request may be closed under a run
\* that a human restarted and moved to review: reconcileTick (1).)
OwnClaimsIntact ==
    \A i \in Issue :
        pc[i] \in Holding /\ "run" \notin dirty[i] =>
            "Executing" \in labels[i] /\ (column[i] \in Started \/ merged[i])

\* No ticket is started while its previous run is still going: the queue
\* snapshot may be hours old by the time candidates are launched.
NeverStartedTwice ==
    [][\A i \in Issue : pc'[i] = "admit" => pc[i] \in {"idle", "admit"}]_vars

\* The daemon moves a ticket that a human finished or canceled only where it
\* raced the human: never out of a column that it had seen (linear.ts 884-890).
TerminalMovesAreRaces ==
    [][\A i \in Issue :
         i \in byHand /\ column[i] \in Terminal /\ column'[i] # column[i] =>
            \/ edits' # edits
            \/ pc'[i] # pc[i] /\ "run" \in dirty[i]
            \/ pc'[i] = pc[i] /\ "tick" \in dirty[i]]_vars

\* An executing label that no run of this process stands behind does not stay:
\* the periodic sweep takes it off, unless the daemon goes down for good.
OrphansHeal ==
    \A i \in Issue :
        (Orphaned(i) /\ phase # "down") ~> (~Orphaned(i) \/ phase = "down")

\* A ticket that waits in the queue, unheld, is started in the end (or stops
\* waiting, or the daemon is down): the older ones cannot starve it.
QueuedStarts ==
    \A i \in Issue :
        (Claimable(i) /\ phase # "down") ~> (i \in inFlight \/ ~Claimable(i) \/ phase = "down")

\* linear.ts 842-845: "Any partial failure rolls the label back so the issue can
\* never become invisible-but-unclaimed (C8)".
NeverInvisibleUnclaimed ==
    \A i \in Issue :
        ~(column[i] = "working" /\ "Executing" \notin labels[i] /\ i \notin inFlight /\ edits = 0)

\* reconcile.ts 61-63: an in-flight key that the pass does not find "has left the
\* started states entirely", taken away by a human.
AbortOnlyLost == edits = 0 => \A i \in Issue : ~signal[i]
=============================================================================
