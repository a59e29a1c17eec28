# factory.ai in TLA+

factory.ai is a daemon that turns Linear tickets into pull requests: it claims a
ticket on the board, drives a chain of model stages in a git worktree, gates the
result, opens the pull request and, where a repository has earned it, merges it.
Humans work on the same board and the same pull requests at the same time, the
network fails, the process dies. The modules here model what the daemon does in
that world; TLC checks them on small instances and TLAPS proves the central
invariants for every value of the constants.

Sections: 1 inventory, 2 plan, 3 to 14 the modules, 15 properties outside the runs,
16 known divergences, 17 what is proved and what is only model-checked, 18 what is
not modelled.

## 1. Inventory

Line numbers refer to `src/src/`.

| Part | State it keeps | Operations | Interacts with | What is hard, and what makes it correct | Module |
|---|---|---|---|---|---|
| Ticket claims and the tick: `linear.ts` 234-314, 707-741, 838-914, `index.ts`, `reconcile.ts` | labels and column on the board; `inFlight`, `tickCount`, `pendingClaimLoss` in memory | claim, release, transition, orphan sweep, queue fetch, launch, reconcile passes | Linear (no compare-and-swap), the runs, humans | five calls per claim, any of which may fail or be the last; an intact claim is never taken away by the daemon itself, orphans heal, the WIP limit holds | `ClaimLifecycle` |
| Pipeline of one run: `loop.ts` | the run's local variables, the worktree, the PR branch | stages with their retries, verdicts, rounds, budget and claim checks, delivery, decision, re-gate, merge, report | stage runner, control, git, GitHub, board, approvals inbox | sequential code over a world that moves at every await; only what was gated and reviewed merges, a stop stops | `PipelineRun` |
| Stage runner: `agents.ts`; drain and spend cap: `control.ts`, `spend-cap.ts` | active-stage table, cost so far; drain flag with its reason; ledger of 24 h | attempt, backoff, fail-over, abort of all or of one issue; enter a drain (first reason wins), resume (refused for the cap) | models through the proxy, tick, runs, dashboard | retries against a deadline, a cost ceiling and an abort; two triggers of one flag | `StageRunner` |
| Approvals inbox: `approvals.ts`, `db.ts` 1690-1839, `reconcile.ts` 138-151, `loop.ts` 420-436 | rows with status and gated SHA; one directive per issue | file, approve, push back, retire, take and settle a directive | runs, GitHub, board, two browser tabs | handlers that await between claim and outcome; merges are of the evidence shown, a directive is not lost | `ApprovalsInbox` |
| Merge ladder: `merge-ladder.ts`, `db.ts` 1525-1567; deploys: `postmerge.ts`, `db.ts` 1572-1620 | tier and clean streak per repository; deploy rows by SHA | record a decision, advance or demote; claim, deploy, smoke, revert, escalate | the ends of concurrent runs, main on GitHub | a lost update grants authority that was not earned; at most one deploy per SHA, a revert of the right one | `MergeLadder`, `MergeAuthority` |
| Event log: `db.ts` 448-715, `events.ts`, `store.ts` | queue, batch in flight, health flag, watermark | emit, drain, flush, overflow, close | every part; every read path | write-behind that must look like write-through | `EventLog`, `AbstractLog` |
| Registers: `register-io.ts`, `register-manager.ts`, `catalog.ts`, `db.ts` 2440-2700 | versioned rows, in-memory snapshot, memoised cards | save, attach, toggle, roll back, refresh, commit of a card file | dashboard, stages | reads and writes in separate awaits | `Registers` |
| Projects and policies: `project-config.ts`, `registry.ts`, `db.ts` 1980-2290 | project rows, repository rows, policy revisions | project a card, propose, approve, reject, overlay | dashboard, ladder, tick | statements that interleave, fail or die half way | `ProjectConfig` |
| Planning: `dag.ts`, `plan.ts`, `steward.ts`, `intake.ts`, `bootstrap.ts`, `precondition.ts` | labels of epics, dependences, path sets | route, author, bootstrap, decompose, select, close out | tick, board | exclusion by path, no deadlock among children, each epic filed once | `Planning` |
| Groundskeepers: `groundskeepers.ts`, `db.ts` 1013-1065, `linear.ts` 179-212 | ledger file, event rows | scan, gate, run, re-check, file | board, event log | four reads of a moving board, windows that must not be lost or run twice | `Groundskeeper` |
| Routing: `risk.ts`, `meta.ts`, `config.ts`, `routing.ts`, `gate.ts`, `verify.ts` | none | pure decisions | stage runner, pipeline | evidence that must never raise what it should lower | `StageRouting` |
| Dashboard stream: `events.ts`, `server.ts` 60-120, `../ui/src/lib/{sse,store,reconstruct}.ts` | ring, mission state; mirror, feeds and buffer of a tab | emit, stream, snapshot, resync, reconstruct | browser tabs | snapshot, replay and live frames reach the tab in any order | `MissionControl` |
| Transport: `linear.ts` 57-160, `backoff.ts` | failure counters | call with retry, back off | Linear | a call may take effect and fail | (in the faults of every model) |
| The rest: meta agent's prompts, catalog views, discovery, skills, lessons, repos, alerts, notify, report, pages of `ui/` | prompts, caches, files | reads, presentation | | pure input and output | - |

PROJECT.json lists every part with its status, and the hazards at their lines.

## 2. Plan

In order of importance; each module is written to be proved about as well as checked.

1. `ClaimLifecycle` (done, proved): who owns a ticket.
2. `PipelineRun` (done, proved): what one run may merge, spend and report.
3. `ApprovalsInbox` (done, proved): the human lane.
4. `EventLog` (done, proved, as an implementation of `AbstractLog`): the write-behind queue.
5. `MergeLadder`, `MergeAuthority` (done, proved): earned authority and what follows a merge.
6. `StageRunner` (done, proved): attempts under a deadline, a ceiling and two aborts; the caps.
7. `StageRouting` (done, proved): the pure decisions.
8. `Registers`, `ProjectConfig` (done, proved): what an operator edits.
9. `Planning` (done, proved): from an idea to closed work.
10. `Groundskeeper` (done, proved): work on a schedule.
11. `MissionControl` (done, proved): what the operator sees.

Left: opening and closing the event store. Compositions: `ClaimLifecycle` with the stage
outcomes of `PipelineRun` (both already agree on the places where a run reads its claim), and
`ApprovalsInbox` over the board moves of `ClaimLifecycle`.

Conventions. A definition that the specification of its module does not use, named after
another one (`AccumulateLast` beside `Accumulate`, `MyTurnAnyOrder` beside `MyTurn`), is a
broken variant of it: put in its place, one property of the module's run is violated.
Variables and record fields called history in a comment are read by properties only. Every
constant called a bound cuts the state space and stands for nothing in the code.

## 3. ClaimLifecycle

One step is one call to Linear, or the code between two of them. Three actors interleave:
the tick (`phase`: sweep, fetch, selection, launch, reconcile), one run per ticket (`pc`), and humans.

| Model | Code |
|---|---|
| `column`, `labels` | a ticket's state type and lane, and the four labels that hold it out of the queue |
| `merged` | its branch has a merged pull request (`prMerged`) |
| `phase`, `ticks`, `orphans`, `requeue`, `cur`, `queue` | `tick()` and `recoverOrphanedClaims` between two awaits |
| `Select`, `room`, `Launch` | `index.ts` 175-225: capacity and candidates, the await on the dependences' states (212), the launches that fill the room counted before it |
| `keys`, `suspects`, `toClose`, `pending` | `reconcileTick` and its debounce memory |
| `inFlight`, `pc`, `left`, `signal` | the map of `index.ts`, and one `processIssue` per key |
| `dirty`, `byHand` | history: which actor has not read a ticket since a human edited it, which tickets stand where a human put them |

A call ends "ok", "lost" (no effect) or "late" (its effect, then an error). Crashes lose the
memory and keep the board. The run between claim and release is reduced to its board-visible
steps; `PipelineRun` models what is in between.

Runs:

- `claims_one_ticket` (about 701 000 states): two failed calls, a human edit, a crash,
  SIGTERM; together at most three of them. `NeverStartedTwice`, `TerminalMovesAreRaces`, and
  under fairness `OrphansHeal`. One ticket is enough for these: neither relates two tickets, and the sweep,
  the tick and the run of one ticket are already three actors. `SweepEvery = 2` keeps both
  kinds of tick.
- `claims_two_tickets` (about 631 000 states): two tickets and one slot, on a board that
  lacks the optional columns, so that a parked ticket degrades to the queue. `QueuedStarts`
  under fairness.

`OwnClaimsIntact` and `WipBound` are theorems and part of no run.

Fairness: the loop of `main` and each run are chains of awaited promises with timeouts, so
each goes on while the process lives. Nothing is assumed of humans, of restarts, or of calls
succeeding; the bound on faults makes outages end.

### What is proved

`ClaimLifecycle_proofs.tla`, from the named assumptions on the constants only (any finite set
of tickets, any limits, any of the failure kinds):

- `TypeCorrectness`, `ClaimsIntact`, `WipNeverExceeded`, `StartedOnce`, `TerminalMoves`.

`WipNeverExceeded` is about a room that is counted, then kept over an await, then filled:
between the two, runs settle and calls fail. The part of the invariant that carries it is
`RoomLeft`: the runs in flight and the room add up to the limit at most, since nobody else
adds a run while the tick waits.

None of the invariants is inductive alone. The strengthening (`Invariance`) says which
tickets the sweep may work on (never one in flight, unless the run started after the sweep's
read and has not reached its claim, ...), that a run that is past its claim and has read the
ticket since the last edit sees it labelled and started, that the in-flight map is as large
as the runs that have not settled, and what the ghosts know of terminal tickets. The proof
has one step per action; actions that only move the program counter share frame lemmas.
Liveness (`OrphansHeal`, `QueuedStarts`) stays with TLC.

## 4. PipelineRun

`processIssue` after its claim, as one sequential process (`pc` is the stage or call being
awaited) in a world that moves: `Stop` and `Resume` (`control.ts`), the caps, a human taking
the ticket, pushes to the branch, siblings merging to main. Code between two awaits is one
step, so a decision and the start of the next stage are one step where the code has no await
between them and two where it has one; the divergences of section 16 live exactly there.

Of the commits only their relation to HEAD is kept: `green` (the gates passed on HEAD),
`gated` (the recorded SHA names HEAD, an older commit, nothing), `pr` (the branch on GitHub
is at HEAD, behind it, at somebody else's commit), `behind` (main has commits that HEAD
lacks). A new commit ages all of them. A verdict is what the decision tells apart: a pass, a
fail, none, none because of a provider error.

Run `pipeline` (about 805 000 states): each loop goes round and runs out (two taste rounds,
one repair after one escalation, two merge attempts), with at most two of: a failed call, a
stop, the cap, a lost claim, a foreign push; main moves at will.

- `MergedIsGated`: what is merged is the commit the gates passed, at the branch GitHub has.
- `MergedIsReviewed`: every review that was due passed. The design review may instead have
  been skipped on one condition, which the history variable `lateCut` records: the drain was
  entered, or a cap reached, in the one await between the two questions about the budget
  around the claim check (`loop.ts` 948 and 973). There the code forgets the review
  (`TasteNeverSkipped`, section 16); at any other time a spent budget parks the run or holds.
- `StopHaltsSoon`: after the kill switch at most three more stages start, until somebody
  resumes: the two reviewers, whom `Promise.all` starts together (`loop.ts` 883-888), and
  the fallback of one of them; or one stage whose start was under way and its cold retry.
- `OutcomeTruthful`: "merged" is never reported of a pull request that is not, whatever
  fails; and there is one report, "merged" exactly if merged, as long as no call fails.
- `RunEnds` under weak fairness of the run: every stage has a deadline, every loop an exit.

### What is proved

`PipelineRun_proofs.tla`, for any positive number of taste rounds and merge attempts and any
number of repair rounds, faults and stops: `PipelineTypes`, `GatedMerges`, `ReviewedMerges`,
`StopHalts`, `TruthfulOutcomes`. The invariant (`IInv`) has four parts besides the types. `Halting` names the
places where no stage can have started since the drain was entered (`Unspent`: before them
the budget is asked), and those where one may have. `Merging` says what is certain between
the decision and the merge: a run that still acts is clean, green at the decision, and at the
merge call pinned to HEAD; the re-gate may only go on with a fresh green. The merge
invariants need both: on its own "merged implies green" is broken by a commit after the
merge, which `Merging` excludes by the places a merged run can be at. `Reporting` follows the
outcome from the merge call to the report: until a run is recorded it is not merged, at the
record the merge call's result says whether it is, and afterwards the outcome does; no call
failed in any of this. `Skipping` says that `lateCut` holds wherever the design review
was passed over. `RunEnds` stays with TLC.

## 5. ApprovalsInbox

The human lane of one ticket. Five kinds of actors interleave: the run in flight, the
requests of the dashboard (`Owner`: as many as are under way at once), the reconcile pass,
humans on the board and on GitHub, and a crash. The handlers of the code run from one await
to the next; so do the steps here. Git and `gh` are called synchronously and belong to the
step that calls them. The store serves its callers over a pool of connections (`store.ts` 78),
so statements of two callers take effect in either order.

| Model | Code |
|---|---|
| `cards` | the `approvals` rows of the ticket: status, pull request, the SHA its gates passed |
| `prs`, `commits` | pull requests of its branch; a SHA is a commit's number |
| `directive`, `about` | the row of `pushback_feedback`, and what was ever recorded |
| `lane` | the ticket on the board, as far as the inbox and the claim care |
| `RunTakes`, `RunSettles` | `ownerFeedbackHandoff` (`loop.ts` 420-436): take at the prompt, give back in the `finally` |
| `RunSupersedes`, `RunInserts` | `insertApproval`: two statements, with the retry on the partial unique index |
| `Approve`, `Decide`, `Finalize`, `Closeout` | `approveItem`: the conditional claim, the check of the head and the merge, the outcome, the board |
| `Pushback`, `Comment`, `RecordFeedback`, `Requeue`, `Finalize` | `pushbackItem`, with its roll-back to pending |
| `List`, `Look`, `Write` | part 3 of `reconcileTick` |

Every statement to the store may fail before or after its commit (`Loses`): the take and the
give-back of the directive, the supersede and insert of a card, the claim, the outcome and
its roll-back, the write of the pass. The handlers do what the code does with the error, not
with the effect. `prs[p].for` records for which card the inbox merged a pull request, `spent`
the last directive a delivering run had taken, `burned` the directives that a failed
hand-over or a dying run lost, `stranded` the cards whose request ended without writing their
outcome (`db.ts` 1797-1801 can throw after the merge); no action reads these four. The evidence check of a request
is left out because the SHA of a row never changes: a request with other evidence is refused
and changes nothing. A push onto a branch that somebody else moved is allowed here and
refused by git in some of those cases, which the properties do not depend on.

Runs:

- `approvals` (about 517 000 states): two requests, two runs (so that a newer card can take
  the place of an older one, and a newer run meets the older card's leftovers), a directive,
  and any two of: a failed call, a human, a crash (`MaxTrouble`). `DecidedOnce`,
  `ApprovedIsMerged`, and `CardsRetire` under fairness; none of them tells two directives
  apart. `MergedStaysApproved` and `LastWordKept` are theorems; TLC finds them, and the
  three of the run, to hold with two directives as well (about 942 000 states).

The preconditions say where the code stops. `ApprovedIsMerged` allows one failed call or one
human besides any number of crashes, since a merge that takes effect although `gh` reports a
failure gives the card back and a later request may decide otherwise; and it is about the
cards that are not `stranded`: a claim whose request was cut off by a crash or by a failed
statement stays, and its card reads approved without a merge (hazards). A failure strands
the card it is about and no other. `MergedStaysApproved` needs that no call failed.
`LastWordKept` names what loses a word: `burned`.

Fairness: the run, each request and the pass are chains of awaited calls, and the daemon
starts a pass every few ticks; each goes on while the process lives. Nothing is assumed of
humans, of a click, or of a new run being launched.

### What is proved

`ApprovalsInbox_proofs.tla`, for any set of requests and any bounds: `InboxTypes`,
`DecidedOnceHolds`, `LastWordHolds`, `MergedStays`, `ApprovedAreMerged`. The proof first shows
that no step removes a row or changes what a row points to (`Grown`); the parts of the
invariant rest on it.
`Claims`: a card that a request works on is not pending, which is why nobody can claim it
again, and why the pass and a newer run, which do write to it, never make it claimable.
`Heard`: where a run holds a directive before it delivered, the last word is that or the one
stored since; after it delivered, what it held is spent. `MergeFacts`: a merge is recorded
only for the card of its own pull request, a request that has merged is on its way to write
"approved", and the pass writes "stale" only for a closed pull request, which a merged one
never is. `MergedStaysApproved` alone is not inductive for lack of the last two.
`ApprovedIsMerged` counts what went wrong, so its proof has to say whom each mishap can have
hurt: `Shas` (a SHA is of one card, and no two open cards stand for one head), `Outcomes` (only
a human closes a pull request, one each time; who is about to write "approved" has merged) and
`Returns` (a card that goes back to pending costs a failed call or a pull request closed by
hand, and there is at most one such card, so that the card the unique index then refuses is
never the newest). `CardsRetire` stays with TLC.

## 6. EventLog and AbstractLog

`bus.emit` is synchronous and Postgres is not, so events wait in a queue that one drain
serves, in batches, with one retry; a batch that fails twice is dropped and counted. The
transcript rows of the stages share the drain. Every read first flushes the queue; telemetry
readers share one computation, and its result is cached under the largest id. `AbstractLog`
is what this promises, without any of it: a set of pending events, of which a whole prefix
becomes rows or is given up.

| Model | Code (`db.ts`) |
|---|---|
| `queue`, `rows` | `queue`, `transcriptQueue` |
| `writing`, `batch`, `attempt` | where `drain` stands: what its INSERT is of, which try it is |
| `dropped`, `healthy`, `gen` | `droppedEvents` (as the set of the events), `writeHealthy`, `flushGeneration` |
| `log`, `stored` | the tables `events` and `stage_transcript` |
| `Emit`, `AppendRow` with `Kick` | `enqueue`, `appendStageTranscript`, and the call of `drain` in them |
| `EventsLand`, `EventsFail`; `RowsLand`, `RowsFail`, `RowByRow` | the end of an INSERT and what the code does up to the next await |
| `AskTelemetry`, `Adopt`, `Compute`, `ReadMark`, `ScanStages`, `ScanRuns` | `getTelemetry`: flush, share or start, watermark, the two scans, the cache |
| `GateOpens`, `BudgetFlush`, `BudgetQuery` | the gate of `groundskeeperTick`, then the read of the weekly spend |
| `slot`, `cache`, `follows` | `telemetryInFlight`, `telemetryCache`, whose promise a caller awaits |

An INSERT or a query ends well or fails; an INSERT may also fail after its effect ("late").
An event is its number, a row's id its position. `missed` is history, and nothing reads it.

Runs:

- `event_log` (about 500 000 states): two readers, batches of two, a queue of three, so that
  a full queue, a batch that leaves events behind and two batches in a row all occur; one bad
  transcript row, and one event that only the scan of run ends counts. `MaxWork = 6` bounds
  events, rows, calls and failures together: any two events can fail twice with both readers
  waiting, which every interplay of two actors needs. `NoSilentLoss`,
  `ReadersSeeTheirEvents` and the refinement `ImplementsLog`. `NewestRowLast` and
  `InnocentRowsKept` are theorems. Deadlock is not checked, because an idle log at the bound
  stops.

The log does not promise that a row is there once: a batch whose INSERT reports an error after
it took effect is written again, and its spend counted twice. `AbstractLog` says so
(`LandUnanswered`), and the order of the newest rows survives it.

Fairness: the connections carry a statement timeout, so an INSERT or a query ends; readers
are chains of awaits. Nothing is assumed of emitters. A drain that new events keep busy could
hold a reader for ever; the bound on work makes emitting pause, and `ReadsReturn` (section 15) is said
of that only.

Left out: opening and closing the store, the queue that a crash loses, the turn of the day in
the cache key, the row cap per stage, retention; the reads of one budget decision are one
query; every event counts for the watermark.

### What is proved

`EventLog_proofs.tla`, for any readers, limits, batch sizes, bad rows and numbers of failures:
`EventLogTypes`, `NothingLostSilently`, `NewestLast`, `ReadersSee`, `RowsKept`, and the
refinement `LogImplements`. Lemma `Turn` says what one turn of the drain keeps: the batch
followed by the queue is the queue it found. `WriterPending` sorts the steps of the writer
into five kinds (accept, refuse, settle, wait, give up), from which loss and refinement
follow. `Order` (table, batch and queue follow one another, except that a batch being retried
may be in the table already) makes `NewestRowLast` inductive. `Reading` is for the readers:
what a computation has seen covers what each of its callers asked about, and the rows beyond
the watermark of the shared computation belong to a later generation, to the batch being
written, or to the dropped. The last clause is what makes adoption sound, since a late
failure adds rows without a new generation. `ReadsReturn` stays with TLC.

## 7. MergeLadder and MergeAuthority

`MergeLadder` is `merge-ladder.ts` as operators without state: strength of the evidence,
`WouldMerge`, the bypass of the guard, the ceiling of a repository, the tier in force, and
what one decision does to tier and streak (`AdvanceLadder`). `MergeAuthority` uses it in the
two places where concurrency meets it: runs of one repository that end together and record
their decisions, and the post-merge watch that deploys what was merged.

| Model | Code |
|---|---|
| `cfg` | the environment variables the ladder and the watch read; the same after a restart |
| `ladder`, `lock` | the row of `merge_ladder`; the chain of promises `ladderLocks` |
| `Decide`, `Deliver` | the end of `processIssue` (`loop.ts`): evidence, policy and tier read, then the merge |
| `ReadLadder`, `AppendShadowLog`, `SaveLadder` | `recordShadowDecision`: read, audit row, upsert; each may fail, `finally` releases |
| `ReadHead` to `RecordDeploy` | `postMergeTick` and `deployAndVerify`, one step per await |
| `main`, `squashed` | heads of main by number, those the factory pushed |
| `tree` | `<repo>-deploy`: the head it was made at (a worktree that exists is never moved) and the reverts committed on it that the host refused or that only a pull request carries |
| `Revertible`, `Committed` | `git revert -m 1` (`repos.ts` 610-618): a merge commit that the tree contains, at its head or below, and has not undone already; a revert below the head may conflict and is then aborted |

`spawnSync` calls block the event loop, so while a deploy, smoke or revert runs no other step
of the daemon is enabled (`LoopFree`). `applied`, `attempts` and `wrongTree` are history.

Run `merge_authority` (about 1 308 000 states): two runs, promotion after two clean decisions
out of three (enough for a streak, a dirty decision in it, and a lost update, which needs
two), three heads (one claimed, one that overtakes it before the tree is made, and the
revert on top), one crash; three environments: in the
ladder, an auto repository with deploys, deploys only. Where deploys are on, `MCInit` leaves
one decision to take. `PromotionEarned`, `DeployedOnce`, `RevertedIsUndone`. No fairness: all
three are safety. Deadlock is not checked, for the bounds end everything.

Proved (`MergeAuthority_proofs.tla`, any runs, environments, streak length and bounds):
`AuthorityTypes`, `AuthorityIsEarned`, `DeploysOnce`, `RevertsAreReal`. `PromotionEarned` is
not inductive, for it says nothing of a row at shadow: `StreakIsClean` adds that the streak
of such a row are the newest decisions that reached it, and `OneWriter` that between the read
and the write of the row there is one run, the first of the chain, and the row is still what
it read. On the watch's side `PassInv` says that a pass behind its claim sees the row and
that no command ran before it, `RowInv` that a command has a row.

Left out: the clipping of the audit row, the loop over several cards (the first real deploy
ends a pass), the alert text of an escalation.

## 8. StageRunner

A stage is at most `RETRY_ATTEMPTS + 1` calls on its model and one on a fallback. Each call
is a step that starts it, time that passes, and a step that ends it: a result with its cost,
or a throw, whose cost is lost. Deadline, kill switch and lost claim abort it through its
controller; between two calls a stage sleeps and has no controller. Every end of a call
reaches the spend ledger before anything else happens, and the ledger drains the daemon over
the daily cap.

| Model | Code |
|---|---|
| `st`, `abort` | locals of `runStage`; `activeStages` with the reason of each controller |
| `Start`, `Result`, `Throw`, `Wake` | the audit of the grants and `runOneAttempt`; the retry decision with ceiling, deadline and fallback (`OnTransient`) |
| `RunwayShrinks`, `DeadlineReached` | the timer of an attempt; of the time left only ample, short and gone are told apart |
| `AbortIssueStages`, `KillSwitch`, `ResumeFromDrain` | `agents.ts` and `control.ts` |
| `OnStageFinished`, `ledger`, `drain` | `spend-cap.ts` on the bus; the first reason wins |

Money is counted in units of the smallest budget; a day of the window is one unit of `now`.

Run `stage_runner` (about 92 000 states): a writer with a fallback and a ceiling of 2, a
judge without one and a ceiling of 1, a daily cap of 2 (so that either alone can stay under
it and both can exceed it), one retry, issue budgets 0 and 2, a change of day, a crash.
`BilledInFull`, `SpendBounded`, `OverCapDrains`, and under fairness `StagesReturn`. Before
the run TLC evaluates the tables of `MCStageRouting` (section 14).

Fairness: timers fire (`Wake`, `RunwayShrinks`, `DeadlineReached`), a call whose controller
is aborted throws, and the supervisor restarts the daemon. Nothing is assumed of a call that
nobody aborts (the provider may hang for ever) nor of people; `StagesReturn` rests on the
deadline alone.

Proved (`StageRunner_proofs.tla`, any stages, ceilings, cap, retries, budgets): `StageTypes`,
`ReturnsBilledInFull`, `SpendHolds`, `AbortsAreFinal`, `CapDrains`. The invariant is one
predicate per stage (`Sound`: what it returned or carries is what was billed; while it goes on
its total is under the ceiling, and so is the budget of the call; a stage that sleeps has
attempts left) and one for the daemon. A call under the ceiling on top of a total under it
stays below twice the ceiling, which is the bound; that a stage goes on only below its
ceiling is what has to be added to make it inductive. `StagesReturn` stays with TLC.

Left out: prompts, streamed text and redaction, and the rows of the transcript, which are
`EventLog`'s.

## 9. Registers

One append-only history of versions per name, at most one of them active, edited by
dashboard requests that read, decide and write in separate awaits; mirrored in memory by a
snapshot, which the catalog memoises by generation.

| Model | Code |
|---|---|
| `reg`, `active` | `agent_register`, `skill_register`; the enabled row (partial unique index) |
| `snap`, `gen`, `cache` | `refreshRegisterSnapshot`'s assignment, `registerGen`, the cache of `catalog.ts` |
| `file`, `dirty` | `agents/<name>.md` in the working tree, and what git reports modified |
| `SaveAgent`, `SaveSkill`, `SetSkillAttach`, `SetSkillEnabledState`, `Rollback` | the operations of `register-manager.ts` |
| `ReadBaseline`, `ReadActive`, `InsertVersion`, `EnableVersion`, `DisableVersion`, `LoseRace`, `WriteFails` | their reads and statements (`register-io.ts`, `db.ts`), with the bounded retry on the unique index |
| `RefreshAgents`, `RefreshSkills`, `Publish`, `RefreshFails` | `refreshRegisterSnapshot`: two queries, then one assignment |
| `StageReadsCard`, `SaveCatalogEntry` | `getCard`; the save of a card file with its commit |

Run `registers` (about 167 000 states): two editors with two operations between them (a race
needs two), one agent card and one skill, three texts of which one is refused, two attempts,
one failed call, and two histories: empty, and one whose older card had another routing and a
wider grant, so that a rollback has something to be refused. `SnapshotMirrors`,
`CardsFollow`, `WiringKept`. All three carry the precondition under which the code keeps
them (no overlapping refresh; no other write between read and write), and section 16 names
what happens without it.

Fairness (`Progress` of each editor) is used outside the run only (section 15).

Proved (`Registers_proofs.tla`, any editors, contents, files, starting histories, number of
attempts and bounds): `TypeCorrect`, `SnapshotIsMirror`, `MemoFollows`, `WiringIsKept`.
`CardsFollow` is inductive beside the types. The others are not. `Mirrors` says why the
snapshot comes out right in the end: as long as the last refresh that finished met no other,
either somebody wrote and has still to refresh, or a refresh is under way, or the snapshot is
the rows; and `Reads` that a refresh that is alone holds what the rows hold, or another is to
follow it. `Tied` relates what a request is about to insert to the row it will replace, from
its read on and as long as no write landed in between; `Shaped` and `Listed` say what a
request carries at each of its places.

## 10. ProjectConfig

One project: its card file, the one-way projection of the card's repositories into the
database, and authority policies that are proposed, approved and rejected, and overlay the
card. Every statement is a step; the proposal is two, since requests run on a pool of
connections and the snapshot of its one statement is older than its commit.

| Model | Code |
|---|---|
| `card`, `row`, `repos`, `policy` | `projects/<name>.md`; the tables `projects`, `project_repos`, `project_policy` |
| `View`, `Create`, `Propose`, `SaveStatus`, `Approve`, `Reject` | the dashboard's requests |
| `Lookup`, `Ensure`, `ListRepos`, `DeleteRepos`, `InsertRepo`, `AuditRepos` | `resolveProject`, `syncProjects`, `replaceProjectRepos` |
| `ProposalSees`, `ProposalCommits` | `insertPendingPolicy` |
| `Claim`, `SupersedeActive`, `Activate` | `approveProjectPolicy` with its bounded rounds |
| `ProjectOwningRepo`, `ApplyPolicyOverlay`, `ActivePolicy` | what the tick, the ladder and the watch read |

Run `project_config` (about 209 000 states): two requests at once and four in all, two
repositories, one authority key (the statements of two keys touch different rows), two
activation rounds, one failed statement or death. `ForceStands`, `ProjectionMirrorsCard`.

Proved (second half of `MergeAuthority_proofs.tla`, which extends both modules: therefore
the `Config` in `ConfigInit`, `ConfigNext`, `ConfigSpec` and `configVars`; any requests, cards,
repositories, keys, values, rounds and bounds, from `ConfigAssumption`): `ConfigTypeCorrect`, `ConfigStands`, `CardWins`, `RetractedIsFinal`.
`ForceStands` excuses a key whose approval was overtaken, and is not inductive: that an
activation which finds its row no longer pending is such a case needs `Owned`, by which each
approval works on a claimed row of its own that is pending unless its key is excused. For
that a proposal must know that what it supersedes are rows of its own key (`Sound`).
`ProjectionMirrorsCard` rests on `Projected`: a projection that met no other has, at each of
its places, written that much of its card and is the only one.

Left out: goals, team, models and the rows of groundskeepers, each a single upsert.

## 11. Planning

From a rough idea to closed work. The tick is one loop: a handler reads, decides and then
makes a list of board calls, one step each. `strict` tells whether the code lets the failure
of a call throw into the handler's catch list or swallows it; any call may be lost, or land
and still throw.

| Model | Code |
|---|---|
| `board` | tickets: lane, labels, metadata kind, parent, dependences, `touches`; `writes` are the files a task will write, declared or not |
| `tick`, `inFlight` | the loop of `index.ts` and its map |
| `Bootstrap`, `Scaffold`; `Idea`; `Epic` | `bootstrapProject`; `runIntake`; `planIssue` with `readChildren` and `createChildren` |
| `DeriveImplicitDeps`, `SelectRunnable`, `GlobsOverlap` | `dag.ts`, as functions over the candidates |
| `Schedule`, `RunBegins` | the admission of a tick; claim and freshness check of a run |
| `StewardTick`, `Closeout` | `steward.ts` |
| `Reconcile`, `ReconcileReview`, `ReconcileEpics` | `reconcile.ts` 88-128 |
| `CallLands`, `CallFails`, `NoRoom` | the board calls |

Run `planning` (about 169 000 states): at most four tickets, starting from a bootstrap, an
idea, or an epic beside a task of its own; plans whose children share a glue file they only
mention, or wait for one another in the wrong direction (refused); two running at once; one
human edit, failed call or death. Four tickets are an epic, its two children and a ticket
that competes with them, or a follow-up. The board has no hold columns, so that a parked
ticket stands in the queue and only its label keeps it out. `DisjointWriters`, `NoWedge`,
`FiledOnce`, `ClosedAfterCloseout`, `CalledOffStays`, and under fairness `EpicsSettle` and
`QueueDrains`. `QueueDrains` is said of behaviours in which nothing waits for a human any
more, which the code cannot bring about alone.

Fairness: the tick is a loop over awaited calls with timeouts (it goes on by a call that
lands or fails), and so is each run. Nothing is assumed of humans or of outcomes.

Left out: what a model writes is nondeterministic; a run's own board calls are
`ClaimLifecycle`'s, here one step each.

### What is proved

`Planning_proofs.tla`, for any number of tickets, any starting boards, plans, follow-ups, globs,
WIP limit and cap on derived edges, with or without hold columns, and any number of edits,
failed calls and deaths: `TypeCorrect`, `WritersApart`, `NeverWedged`, `FiledAtMostOnce`,
`CloseoutFirst`, `CancellationStands`. The assumption on the starting tickets (`Untouched` in
`PlanningAssumption`) is that no pass has been over them, that they wait for earlier tickets
only, and that what they write is what they declare; what passes and humans do to them later
is the model's business. The assumption on plans is their type alone: what the reader of a
plan refuses is `ValidPlan`'s.

The invariant has eight parts, none of the five properties being inductive.

- `Calling` speaks of the suffix of a call list that is left. A list is made in one step and
  carried out in many, so every property about what a pass has done needs to know what it has
  still to do: `Chain` (what files work is followed by the call that sets the label of its pass, and the
  label of a failed closeout by the call that hands it over), `Catches` (a closeout whose label
  throws is handed over by its catch list), `Fresh` (what is filed was not filed before).
- `Placed` says on which ticket the tick is, and that a ticket it is about to plan, bootstrap
  or close out was not filed for before, if no pass over it was cut.
- `FiledWell`, `ClosedWell`, `OffWell`: what was filed for a ticket shows on its labels or in a
  call still to be made; a closeout that is incomplete shows too; a ticket that was called off
  is in no queue, list or run.
- `Scheduled` gives `DisjointWriters`: globs in flight are those of the board and pairwise
  apart, and the files of a ticket are among its globs (`WithGlue` is what keeps that true of
  a child).
- `Rooted` gives `NoWedge`: every nonempty set of tickets has one that waits for none of the
  set. A child is filed after all it waits for; a human's edit that would close a cycle by
  itself is left out of the model (`EditDeps`), since then the wedge is the human's.

`NoWedge` is about two functions of the scheduler, and its proof is mostly about these. The
derived edges are taken ticket by ticket, so the proof is by way of a least counterexample
that the edges so far, explicit ones included, leave every nonempty set of
candidates with one that waits for none of the set; an edge from a later to an earlier ticket
keeps it so because `Implicit` asks first whether the earlier one reaches the later. `Reaches`
is stated as "in every set closed under the edges", which the proof uses as it is; TLC agrees
that this is what the walk of `dag.ts` 111-122 visits. What waits for nothing is then runnable,
since a ticket that nothing in flight meets and the WIP limit are all that could stop it.

## 12. Groundskeeper

Cards with a cron schedule that write tickets. One tick evaluates the minutes since the last
one, at most a day back; a card that is due passes its veto and activity gates, its newest
window is marked on disk, and then budget, human, attention and serial gates stand before the
stage. One stage per tick; its drafts are filed one by one after another look at the queue.

| Model | Code |
|---|---|
| `LoadGroundskeepers`, `CronMatches`, `ValidateCron` | card files and cron grammar, as functions |
| `file`, `tick` | `.groundskeepers.json`; `groundskeeperTick` and `runGroundskeeper` |
| `TickBegin`, `NotDue`, `PassOver`, `Mark`, `TickEnd` | the scan; the cursor moves first, a mark is written before the run |
| `Budget`, `Humans`, `Piles`, `Serial`, `Workspace` | `runGovernance`, one step per read |
| `Try`, `StageEnd`, `Recheck`, `FileTicket` | the run; a try is an attempt of `runStage`, its fallback included |
| `rows`, `flushed` | the `run_stage_finished` rows, one for each try; those behind the last flush are queued, and lost with the process |
| `clock`, `Pass` | wall-clock minutes; they go by between any two steps, during a stage too |

Money is counted in units of the smallest stage budget. The module is extended together with
`StageRunner` by the proofs: therefore the `Keeper` in `KeeperInit`, `KeeperNext`, `KeeperSpec`
and `keeperVars`.

Run `groundskeepers` (about 740 000 states): five files of which two make live cards of one
repository, three minutes with a day and a week of one, so that windows fall out of the scan
and spend out of the envelope; an attention cap of one; a stage ceiling of one and two tries;
two tickets, two drafts, one human act, two moves and one fault, at most two of these
together. Cards, minutes, tries and tickets each occur more than once, and each property needs
two of them. `EnvelopeHolds`, `DuplicatesAreRaces`, `WindowsFire`. No fairness: nothing in the
code promises a stage.

Left out: the parks-spike directive and the telemetry block, which only change the prompt;
dry runs; the closed store, which returns before any state (its dynamics are `EventLog`'s
`GateOpens`). That the SDK stops a try at its `maxBudgetUsd` is assumed (`Try`); nothing is
assumed of where below it a try ends, nor of how long it takes.

### What is proved

Last part of `StageRunner_proofs.tla`, for any cards, cron fields and calendar, ceiling and
number of tries, any day, week and attention cap, and any number of tickets, drafts, human acts,
moves, failed calls, damaged ledgers and deaths, from `GroundskeeperAssumption`:
`KeeperTypeCorrect`, `EnvelopeKept`, `DuplicatesOnlyRace`, `HumansFirst`, `WindowsHandled`, and
the action property `MarkedOnce`. The assumption is types, that a stage has a ceiling and a
try, and that a minute has five cron fields.

The invariant `KInv` adds four parts to the types and to `Where` (what the tick holds at each
of its places: the copy of the ledger it carries is never older than the file).

- `Books`, for `OncePerMinute`: each of the two ledgers, the file and the copy of a tick, knows
  every mark. A tick does not reach a card twice, and the cards it has not reached were last
  marked in or before the first minute it scans, so that a newest window which is not the last
  marked one was never marked.
- `Scanned`, for `WindowsFire`: before its decision a card is settled up to where the scan
  began, after it up to where it ends, and the file's cursor is at one of these. A window behind
  a card that has a decision is marked, passed over, too old or cut off.
- `Watched`, for `DuplicatesAreRaces` and `HumansOutrank`: of the tickets seen at the first read,
  those that have not moved are in what the reads so far have returned. This is where the order
  of the four reads counts.
- `Metered`, for `EnvelopeHolds`: what is recorded of a card is under its envelope and one
  stage, and between the budget gate and the end of the stage under the envelope and what this
  stage has cost so far. A death takes away the newest rows, so that this is said of every
  number of rows from the flushed ones on: the rows a death leaves are still under the bound,
  but rows of other cards before them may be gone too.

A step has one of seven courses (`Courses`: the tick begins, marks a card, leaves one, ends, or
stays where it is with its card; the ledger is damaged, or made anew), and `Where`, `Books` and
`Scanned` are shown by course, not by action. The sums of `StageSpend` are recursive functions. That they exist is shown by taking the
least length that has none (`SumsExist`), since `WellFoundedInduction` can be used as a fact on
sets of numbers; from there on they are compared row by row, each comparison by a least
counterexample of its own (`TotalSums`, `TotalOrder`, `TotalPadded`).

## 13. MissionControl

The bus with its ring, the daemon's fold of the events into a mission state, the two ways it
is handed out (`GET /state`, `GET /events`), and a tab that keeps a mirror over connections
that come and go. The reducer is one operator used on both sides, as in the code the same
function is built into both.

| Model | Code |
|---|---|
| `Reduce`, `ApplyEvent` | the reducer: `server.ts` and `ui/src/lib/store.ts` |
| `BusEmit`, `Remember`, `HistorySince` | `bus.emit`: stamp, ring, fold and write to the stream in one synchronous step |
| `Boot`, `Connect`, `Open`, `Message`, `Resynced`, `ResyncFailed` | `sse.ts`: first snapshot, `EventSource`, `onopen` with its resync, the buffer, the two resets |
| `Drop`, `Restart` | the connection and the daemon |
| `replay` | `reconstructRun` over the rows of every life |

Run `mission_control` (about 3 170 000 states): one daemon and one tab (tabs share nothing),
two scripts (a run with a degraded stage whose row a second run prunes; the daemon's reports
of itself), a ring and feeds of two, so that both overflow, and two of: dropped connection,
restart, failed request. `MirrorExact`, `FeedsInOrder`, `ReplayAgrees`. Deadlock is not
checked, for a script ends.

Two things are history and part of the precondition of `MirrorExact`: `synced`, that the
resync of this connection was answered and met no other, and `whole`, of which life the mirror
is a full copy. Without them it is false in the ways section 16 lists.

Proved (in `EventLog_proofs.tla`, for any scripts of well-formed events, capacities, troubles
and number of requests under way): the three invariants. `SelectSeq` and the fold over the
buffer are recursive functions of the length here (`Filtered`, `FoldOver`), so that they can
be reasoned about: that they exist, and what they keep, is shown by `Reached`, a least
counterexample. The inductive invariant `MInv` has five parts:

- `WellTyped`: every mission, run, event, tab and request has its shape;
- `Linked`: connections and requests. A request that is alone is the only one, its tab is
  buffering, and while its connection is open it is of this life; a synced tab on an open
  connection is a full copy of this life and buffers nothing;
- `Mirrored`: there is a history H, the mission after each event of this life, of which the
  mirror (if it is a copy of this life) and the answer the tab waits for are members, and in
  which every event in the ring, on the way and in the buffer is genuine: it makes of the
  mission before it the one of its number. What is on the way follows the mirror or the answer
  without a gap after that number (`Follows`) and goes up to the daemon's last (`Reaches`); a
  gap before it, where a replay from the ring may have one, is skipped. Without `Reaches` the
  next event could leave a gap, so the two are kept together. H is existential: nothing in the
  model records it, an emit extends it and a restart begins another;
- `Rises`: no feed has an event later than the mirror, which is what makes an append keep the
  order. A resync that goes back empties the feeds, one that goes forward keeps them;
- `Rebuilt`: a run with a title is in the rebuilt rows, the same. `run_started` makes a run
  that does not depend on what was there (`StartedIs`), and every other event makes of equal
  runs equal runs; pruning only takes runs away.

## 14. StageRouting

No state: risk class of a diff, tier and model of a stage, pins and escalation, the vendor
check at load time, ceilings and selection of cards, the fold of a judge's answers, baselines,
verification, strength and ratchet of the gate scripts. What regular expressions read from
paths, fences and test output is input.

TLC evaluates the tables of `MCStageRouting` before the run `stage_runner`: the thresholds of
`tests/risk.test.ts` at and just below each, the cases of card selection, the left fold of
`gate.ts` against the set form for every short list, and that the strength of the evidence
depends on what was green before the change only.

Proved (`StageRunner_proofs.tla`, for every roster, tier configuration, diff, set of cards
and set of results): `WorseDiffsGetStrongerJudges`, `LoadCheckCoversEveryRun` with its
counterpart `ProjectRowEscapesLoadCheck`, `EscalationIsProgress` with `EscalationLeavesPin`,
`SpecialistsAreEarned`, `QuotesOnlyLowerAVerdict`, `GreenMeansNoRegression`. The counterparts
are theorems about what the code does not ensure: each exhibits the configuration.

## 15. Properties outside the runs

Not every definition under the properties of a module belongs to a run. These hold:

- proved for every instance, as theorems of the `_proofs` modules: the types of the eleven
  modules with state, `OwnClaimsIntact`, `WipBound`, `MergedStaysApproved`, `RetractedStays`,
  `LastWordKept`, `NewestRowLast`, `InnocentRowsKept`, `AbortIsFinal`,
  `OncePerMinute`, `HumansOutrank`;
- found to hold by TLC on the instances of the runs, and not checked in them since they
  follow the code line by line: `RecordersReturn` (under the `Spec` of `MergeAuthority`),
  `EditsReturn`, `RequestsReturn`, `ReadsReturn`.

These TLC refutes. They state what a comment or document says and the code does not do, and
section 16 tells each story: `NeverInvisibleUnclaimed`, `AbortOnlyLost` (needs two stages
and no edits), `TasteNeverSkipped`, `MergedOnCurrentMain`, `NoStaleDirective`,
`RequeueStands`, `GateFailsClosed`, `DeploysItsHead`, `CapOutlivesResume`, `PolicyStands`,
`OnePending`, `PassedOverStaysDue`.

## 16. Known divergences

Places where the code does not do what its comments, documents or names say, met while
modelling. The first table names a property that states the comment and that TLC refutes on
the instance of the module's run (for `AbortOnlyLost` with two stages); the second lists what
is seen in the code and in the models and has no property of its own.

| Property | Where | What happens |
|---|---|---|
| `ClaimLifecycle!NeverInvisibleUnclaimed` | `linear.ts` 858, comment 842-845 | the verification read of `claim()` fails after the move: the roll-back takes the label off and leaves the ticket in the working column, where neither the queue nor the sweep looks |
| `ClaimLifecycle!AbortOnlyLost` | `reconcile.ts` 92, comment 60-63 | a failed fetch of the started issues reads as an empty list, and a run is in flight before it has claimed: two passes can miss a key nobody touched, and its stage is aborted |
| `PipelineRun!TasteNeverSkipped` | `loop.ts` 973, comment 956-959 | the budget is asked again one await after the check that would have parked the run; a drain in between passes the design review over without a hold. `MergedIsReviewed` allows this path and no other |
| `PipelineRun!MergedOnCurrentMain` | `loop.ts` 1716, comment 1666-1668 | the distance to main is read once, the gates that follow take minutes, and the merge pins only the branch |
| `ApprovalsInbox!NoStaleDirective` | `approvals.ts` 365, `db.ts` 179-183 | the requeue fails after the directive is stored; the card is approved and merged, and a later run takes the directive |
| `ApprovalsInbox!RequeueStands` | `loop.ts` 1496, `approvals.ts` 338-346 | the run moves the ticket to review some calls after it filed the card, and undoes the owner's requeue made in between |
| `EventLog!GateFailsClosed` | `groundskeepers.ts` 374, `db.ts` 476-480 | the health of the store is read once, the flush of a later read drops a batch and closes the gate, and the budget is decided all the same |
| `MergeAuthority!DeploysItsHead` | `postmerge.ts` 69, 12-13; `repos.ts` 92-95 | the worktree of the deploys is made once and reused as it stands: from the second head on another tree is deployed and tested |
| `StageRunner!CapOutlivesResume` | `control.ts` 34, 42-47 | the first reason of a drain wins: spend that passes the cap while the kill switch drains is forgotten by a resume, until the next stage ends |
| `ProjectConfig!PolicyStands` | `db.ts` 2126, 2116-2119 | a proposal supersedes also a revision that is claimed and not active yet; its approval has demoted the active one by then and refuses, and no policy is in force. A failure or a death there does the same |
| `ProjectConfig!OnePending` | `db.ts` 2120, 2106 | two proposals at once each miss the other's row |
| `Groundskeeper!PassedOverStaysDue` | `groundskeepers.ts` 400, 392-394, 413-430 | the cursor moves on before the gates decide, so that a window a veto, the activity gate or another card's run kept from a card is behind the next scan |

Claims, runs and the inbox:

- `acquireLease` (`index.ts` 62) checks and then writes: two daemons started together both pass.
- A death between the claim of a card and its outcome leaves the claim (`approvals.ts` 243), and
  so does a claim that lands and reports an error, or an outcome whose write fails (`db.ts`
  1797-1801). A directive in a run's hands is lost when the process dies (`loop.ts` 783), or
  when the statement that takes it or gives it back fails (`db.ts` 1820-1839).
- The boot import of the registers may be half done when the daemon begins (`index.ts` 244).

Stages, routing and gates:

- A stage that sleeps before a retry has no controller (`agents.ts` 676): the kill switch, a
  lost claim and the deadline do not reach it until it wakes. A result that is under way when
  the abort comes decides for itself and may be retried.
- "Cumulative spend bounded by the ceiling" is less than twice the ceiling (`SpendBounded`),
  and the issue's remainder is not read again between attempts.
- A `project_models` row for a gate stage (`validateProjectModels`, `project-config.ts` 116)
  turns off that stage's risk tier (`meta.ts` 354), so the vendor check made at load time
  (`config.ts` 308, comment `meta.ts` 307-310) no longer covers the models that run:
  `ProjectRowEscapesLoadCheck`.
- Tier escalation overrides a pin of the fixer (`loop.ts` 1044 against `meta.ts` 352-354):
  `EscalationLeavesPin`. The escalated fix runs without the write-guard hooks that repairs
  get (`loop.ts` 1047 and 1063).
- Match terms after the eighth, or longer than 40 characters, are dropped (`routing.ts`
  188-194), so an unknown one there does not reject its card.
- "Can only ever DOWNGRADE" (`gate.ts` 187) holds where the judge's own verdict is readable.
- The risk class is derived once, from the implementer's diff (`loop.ts` 848); the security
  review of later fixes is bought at that class.

Authority and deploys:

- `git revert -m 1` fails on squash merges, which is what the factory makes: the revert of its
  own merges always ends as "failed" or with a person. Only merge commits of people revert.
- The revert acts on the head of when the pass began (`postmerge.ts` 98); a push on top of
  another head than the tree's is refused and a pull request is tried from the same tree,
  where the revert is committed already and the second one finds nothing to undo. A revert
  left on the tree goes out with the next one that is pushed from it.

Registers and projects:

- Of two overlapping refreshes the one that read first may publish last, and a failed refresh
  leaves the old snapshot: either outlives its rows until the next write (`db.ts` 2448).
- An attach edit, a tools edit and a roll-back each rest on a row read before their write: a
  write in between is undone (`register-io.ts` 126, `register-manager.ts` 281). A request to
  disable answers with success although another version became active meanwhile.
- `project_repos` follows the card only when a dashboard view syncs it, and is empty between
  the delete and the first insert: a ticket read there is "unregistered" (`db.ts` 1992).

Planning:

- Overlap of globs is decided on static prefixes: `src/a*` and `src/ab.ts` count as apart
  (`dag.ts` 7-12). A derived dependence vanishes once its target leaves the queue (70-73).
- Duplicate ordinals escape the overlap edge (`plan.ts`), and touches beyond 32 entries or 200
  characters are dropped.
- A decomposition cut half way parks its epic; planned again, it duplicates the children. A
  failed bootstrap is never retried, for the repository exists.
- The planner's and the steward's moves overwrite a cancellation made during their pass. When
  the NEEDS_HUMAN label of a failed closeout is lost, reconcile closes the epic over it.

Groundskeepers:

- "It never loses the window (the card re-checks every tick)" (505-518): the window is marked
  before the gate that comment is about.
- The lanes are read one after the other: a ticket that moves between two reads is in none,
  and its duplicate is filed (`DuplicatesAreRaces` says only then). A ticket in progress
  without the executing label is invisible, and `fetchByLabel` counts closed tickets against
  its page of 25.
- The pessimistic floor of the spend stops counting once a card's record exceeds one run; a
  death during the stage leaves no row at all.
- `stageRunCountForIssueSince` counts `run_stage_finished` rows, of which every try leaves one
  (`agents.ts` 882, 900): the floor counts a run that was tried twice as two. A stage starts a
  try while the tries before it cost less than its ceiling (669-704), so that it may cost the
  ceiling and nearly one try more; `EnvelopeHolds` allows for that.

Dashboard:

- A second `onopen` replaces the buffer of the first resync: events are lost, or a restart is
  seen where none was. After a failed resync the fold of the buffer may leave gaps, which the
  next resync keeps when the numbers are equal (`sse.ts` 77-78).
- A restarted daemon that has overtaken the tab's number is taken for a gap (stale feeds stay),
  one that is exactly there for the same daemon (a stale mirror stays).
- A late `run_stage_finished` of a pruned run makes it active again. "Acted and pr_open
  uniquely identifies the failed path" (`reconstruct.ts` 160-172) is false when an earlier run
  of the issue had an acted decision.

## 17. What is proved and what is only model-checked

Proofs are in the eight `_proofs` modules, one per component but for `StageRunner_proofs`,
which also has those of `StageRouting` and `Groundskeeper`, `MergeAuthority_proofs`, which
also has those of `ProjectConfig`, and `EventLog_proofs`, which also has those of
`MissionControl`; each theorem is from the named assumptions of its module only, for every
value of the constants. Model-checked only:

- liveness (`OrphansHeal`, `QueuedStarts`, `RunEnds`, `CardsRetire`, `StagesReturn`,
  `EpicsSettle`, `QueueDrains`), as the prover does not reason about fairness and ENABLED.

Every safety invariant and every action property of the runs is stated by a theorem.

## 18. Not modelled

- Linear transport and rate limits: every call of the models may fail before or after its
  effect, which is all the transport can do to a caller.
- Workspaces and git: the outcomes of `git` and `gh` are what `PipelineRun`, `MergeAuthority`
  and `ApprovalsInbox` choose from; the SHAs and trees they leave are variables there.
- Discovery, the carrying of skills and lessons: what goes into a prompt beside the ticket,
  selected from rows that are only read.
- Alerts, notifications, reports and pages: reads and presentation. Their handlers that change
  state (approve, pushback, stop, resume, register and policy edits) are modelled with their
  components.
- Prompts, models and diffs: what a model answers is nondeterministic wherever it is read.

Details that are folded on purpose, each with the reason that nothing is lost:

- `Planning!Schedule` is one step over the await at `index.ts` 212: there the in-flight set can
  only shrink meanwhile, and what is disjoint from more is disjoint from less. `ClaimLifecycle` has the two steps.
- `ProjectConfig!StatementFails` ends the request, where `db.ts` 2280-2290 catches the error of an
  activation and tries again up to `MAX_POLICY_ACTIVATE_ATTEMPTS` times: a retry that succeeds is
  the run without the failure, and the properties excuse a request that failed.
- `Groundskeeper!FileTicket`: a draft without a title or with too short a description
  (`groundskeepers.ts` 680) is a pass with fewer drafts, which the model has.
- `MissionControl`: `degraded` of `run_stage_finished` is data that both folds treat alike; the
  folds of the daemon (`server.ts`) and of the tab (`store.ts`) are two copies of one text at this
  commit, and the model has one operator for both.
- People, crashes and damaged files are external in the map: no line of `src/` performs them.
