---------------------------- MODULE StageRunner ----------------------------
(* runStage (agents.ts): one stage of work is up to three attempts on its model
   and one on a fallback, each of them a call of the agent SDK that costs money,
   that a deadline, the kill switch or a lost claim aborts, and that every bus
   subscriber hears of when it ends.  One of them is the rolling spend cap
   (spend-cap.ts), which drains the daemon (control.ts), as the kill switch does.

   Money is counted in units of the smallest stage budget.  A day of the trailing
   window is one unit of `now'. *)
EXTENDS Integers, FiniteSets

CONSTANTS Stages,          \* the stage runs in flight at once
          Label,           \* Stages -> Families
          Fallback,        \* Stages -> BOOLEAN: a fallback model other than the primary
          Grants,          \* tool grants a call site or a card may hand a stage
          CostCap,         \* Families -> in-code ceiling of one stage run
          DayCap,          \* caps.budgetUsdPerDay
          RetryAttempts,   \* RETRY_ATTEMPTS
          Budgets,         \* remaining issue budgets a stage is given
          MaxDays,         \* bound: days that pass
          MaxCrashes       \* bound: deaths of the daemon

Families == {"implementer", "fixer", "tester", "reviewer"}

(* What the audit tells apart in one entry of an allowlist. *)
GrantKinds == {"other", "subagent", "side-channel", "bash-unpinned", "bash-shell",
               "git-bare", "git-push-exact", "git-push-wild", "git-remote", "git-read",
               "gh-read", "gh-write"}

ASSUME StageAssumption ==
    /\ IsFiniteSet(Stages)
    /\ Label \in [Stages -> Families]
    /\ Fallback \in [Stages -> BOOLEAN]
    /\ Grants \subseteq SUBSET GrantKinds
    /\ CostCap \in [Families -> Nat \ {0}]
    /\ DayCap \in Nat
    /\ RetryAttempts \in Nat
    /\ Budgets \subseteq Nat
    /\ MaxDays \in Nat
    /\ MaxCrashes \in Nat

VARIABLES
    st,        \* per stage: [pc, attempt, budget, total, left] and a history, told:
               \* a call threw because of our own abort and was tried again
    abort,     \* activeStages: per stage the reason its controller carries
    drain,     \* drainRequested and drainTrigger
    ledger,    \* the rolling window: the day of its newest entry and the sum of that day
    now,       \* day
    billed,    \* history: sum of the costs the bus heard of, per stage
    resumed,   \* history: a kill-switch drain was resumed since a stage last finished
    crashes, up

vars == <<st, abort, drain, ledger, now, billed, resumed, crashes, up>>

\* "idle" before the run, "run" during an SDK call, "backoff" asleep between two.
Places == {"idle", "run", "backoff", "ok", "error", "refused"}
Returned == {"ok", "error", "refused"}
\* no controller; a controller that was not aborted; the reason of the abort.
Reasons == {"none", "live", "deadline", "kill", "claim"}
Drains == {"none", "kill_switch", "budget_cap"}
\* runway left until the deadline: over the wait and five seconds, less, nothing
Runways == {"ample", "short", "gone"}

MinStageBudget == 1
Attempts == 1 + RetryAttempts   \* on the primary model; the fallback adds one

StageBudget(requested) == IF requested > 0 THEN requested ELSE MinStageBudget

(* The SDK's maxBudgetUsd: the issue's remainder under the stage's ceiling, the same
   for every attempt. *)
AttemptBudget(s, requested) ==
    IF StageBudget(requested) <= CostCap[Label[s]] THEN StageBudget(requested) ELSE CostCap[Label[s]]

(* Judges never resume a session, whatever the caller passes. *)
StageMayResume(family) == family \notin {"reviewer", "tester"}

ForbiddenToolViolations(tools) ==
    tools \intersect {"side-channel", "bash-unpinned", "bash-shell", "git-bare",
                      "git-push-wild", "git-remote", "gh-write"}

(* A delegate holds a subset of its parent's tools, the parent's model, at most the
   in-code turns, and denies spawning and the side channels. *)
DelegateRosterViolations(delegate, parent) ==
    \/ delegate.name = "worker"
    \/ delegate.model # "inherit"
    \/ delegate.turns \notin 1..40
    \/ ~({"subagent", "side-channel"} \subseteq delegate.denied)
    \/ ~(delegate.tools \subseteq parent)
    \/ ForbiddenToolViolations(delegate.tools) # {}

Orchestrates(tools) == "subagent" \in tools
Denied(tools) == {"side-channel"} \union IF Orchestrates(tools) THEN {} ELSE {"subagent"}

Fresh == [pc |-> "idle", attempt |-> 0, budget |-> 0, total |-> 0, left |-> "ample",
          told |-> FALSE]

Empty == [at |-> 0, sum |-> 0]

TypeOK ==
    /\ st \in [Stages -> [pc : Places, attempt : 0..Attempts + 1, budget : Nat,
                          total : Nat, left : Runways, told : BOOLEAN]]
    /\ abort \in [Stages -> Reasons]
    /\ \A s \in Stages : (abort[s] # "none") = (st[s].pc = "run")
    /\ drain \in Drains
    /\ ledger \in [at : 0..MaxDays, sum : Nat]
    /\ now \in 0..MaxDays
    /\ billed \in [Stages -> Nat]
    /\ resumed \in BOOLEAN
    /\ crashes \in 0..MaxCrashes
    /\ up \in BOOLEAN

Init ==
    /\ st = [s \in Stages |-> Fresh]
    /\ abort = [s \in Stages |-> "none"]
    /\ drain = "none"
    /\ ledger = Empty
    /\ now = 0
    /\ billed = [s \in Stages |-> 0]
    /\ resumed = FALSE
    /\ crashes = 0
    /\ up = TRUE

-----------------------------------------------------------------------------
(* The rolling ledger, which lives in memory: what is older than the window is
   pruned when something is inserted. *)
Inserted(cost) == [at |-> now, sum |-> cost + IF ledger.at < now THEN 0 ELSE ledger.sum]

(* The first reason wins: a second call returns before it changes anything. *)
EnterDrain(trigger) == IF drain = "none" THEN trigger ELSE drain

OnStageFinishedAlone(s, cost) ==
    /\ billed' = [billed EXCEPT ![s] = @ + cost]
    /\ ledger' = Inserted(cost)
    /\ drain' = IF cost > DayCap THEN EnterDrain("budget_cap") ELSE drain
    /\ resumed' = FALSE

(* run_stage_finished reaches every subscriber before emit returns. *)
OnStageFinished(s, cost) ==
    /\ billed' = [billed EXCEPT ![s] = @ + cost]
    /\ ledger' = Inserted(cost)
    /\ drain' = IF ledger'.sum > DayCap THEN EnterDrain("budget_cap") ELSE drain
    /\ resumed' = FALSE

(* The audit precedes the first call: a grant it forbids ends the stage unspent. *)
Start(s) ==
    /\ up
    /\ st[s].pc = "idle"
    /\ \E tools \in Grants, budget \in Budgets :
         IF ForbiddenToolViolations(tools) # {}
         THEN /\ st' = [st EXCEPT ![s].pc = "refused"]
              /\ OnStageFinished(s, 0)
              /\ UNCHANGED abort
         ELSE /\ st' = [st EXCEPT ![s].pc = "run", ![s].attempt = 1, ![s].budget = AttemptBudget(s, budget)]
              /\ abort' = [abort EXCEPT ![s] = "live"]
              /\ UNCHANGED <<billed, ledger, drain, resumed>>
    /\ UNCHANGED <<now, crashes, up>>

AccumulateLast(total, cost) == cost
Accumulate(total, cost) == total + cost

RetriesUncapped(s, total) == st[s].attempt < Attempts /\ st[s].left = "ample"

(* The wait and five seconds must fit before the deadline. *)
Retries(s, total) ==
    /\ st[s].attempt < Attempts
    /\ total < CostCap[Label[s]]
    /\ st[s].left = "ample"

FailsOver(s, total) ==
    /\ ~Retries(s, total)
    /\ st[s].attempt <= Attempts
    /\ Fallback[s]
    /\ st[s].left # "gone"
    /\ total < CostCap[Label[s]]

Return(s, pc, total, told) ==
    /\ st' = [st EXCEPT ![s] = [Fresh EXCEPT !.pc = pc, !.total = total, !.told = told]]
    /\ abort' = [abort EXCEPT ![s] = "none"]

(* A transient error: wait for another attempt, or run once on the fallback. *)
OnTransient(s, total, told) ==
    LET next == [st[s] EXCEPT !.total = total, !.told = told]
    IN  \/ /\ Retries(s, total)
           /\ st' = [st EXCEPT ![s] = [next EXCEPT !.pc = "backoff"]]
           /\ abort' = [abort EXCEPT ![s] = "none"]
        \/ /\ FailsOver(s, total)
           /\ st' = [st EXCEPT ![s] = [next EXCEPT !.pc = "run", !.attempt = Attempts + 1]]
           /\ abort' = [abort EXCEPT ![s] = "live"]
        \/ /\ ~Retries(s, total)
           /\ ~FailsOver(s, total)
           /\ Return(s, "error", total, told)

(* The SDK's result message, with what the call cost.  It may have been on its way
   when the controller was aborted: its own subtype then decides. *)
Result(s) ==
    /\ up
    /\ st[s].pc = "run"
    /\ \E cost \in 0..st[s].budget :
         LET total == Accumulate(st[s].total, cost)
         IN  /\ OnStageFinished(s, cost)
             /\ \/ Return(s, "ok", total, st[s].told)
                \/ Return(s, "error", total, st[s].told)
                \/ OnTransient(s, total, st[s].told)
    /\ UNCHANGED <<now, crashes, up>>

(* The call throws.  When our own abort is the cause its reason is the error, and
   no reason of ours is transient.  The cost of the call is lost. *)
Throw(s) ==
    /\ up
    /\ st[s].pc = "run"
    /\ OnStageFinished(s, 0)
    /\ \/ Return(s, "error", st[s].total, st[s].told)
       \/ abort[s] = "live" /\ OnTransient(s, st[s].total, abort[s] # "live")
    /\ UNCHANGED <<now, crashes, up>>

(* After the sleep the next attempt starts: nothing is asked about the deadline, the
   claim or the drain, and a sleeping stage is not in activeStages. *)
Wake(s) ==
    /\ up
    /\ st[s].pc = "backoff"
    /\ st' = [st EXCEPT ![s].pc = "run", ![s].attempt = @ + 1]
    /\ abort' = [abort EXCEPT ![s] = "live"]
    /\ UNCHANGED <<drain, ledger, now, billed, resumed, crashes, up>>

RunwayShrinks(s) ==
    /\ up
    /\ st[s].pc \in {"run", "backoff"}
    /\ st[s].left # "gone"
    /\ st' = [st EXCEPT ![s].left = IF @ = "ample" THEN "short" ELSE "gone"]
    /\ UNCHANGED <<abort, drain, ledger, now, billed, resumed, crashes, up>>

DeadlineReachedOnce(s) ==
    /\ up
    /\ st[s].left = "gone"
    /\ st[s].attempt = 1
    /\ abort[s] = "live"
    /\ abort' = [abort EXCEPT ![s] = "deadline"]
    /\ UNCHANGED <<st, drain, ledger, now, billed, resumed, crashes, up>>

(* Every attempt arms a timer of its own. *)
DeadlineReached(s) ==
    /\ up
    /\ st[s].left = "gone"
    /\ abort[s] = "live"
    /\ abort' = [abort EXCEPT ![s] = "deadline"]
    /\ UNCHANGED <<st, drain, ledger, now, billed, resumed, crashes, up>>

-----------------------------------------------------------------------------
(* A controller keeps the reason of its first abort. *)
Aborted(S, reason) ==
    [s \in Stages |-> IF s \in S /\ abort[s] = "live" THEN reason ELSE abort[s]]

AbortIssueStages(s) ==
    /\ up
    /\ abort[s] = "live"
    /\ abort' = Aborted({s}, "claim")
    /\ UNCHANGED <<st, drain, ledger, now, billed, resumed, crashes, up>>

KillSwitch ==
    /\ up
    /\ drain = "none" \/ \E s \in Stages : abort[s] = "live"
    /\ abort' = Aborted(Stages, "kill")
    /\ drain' = EnterDrain("kill_switch")
    /\ UNCHANGED <<st, ledger, now, billed, resumed, crashes, up>>

(* A drain of the spend cap is refused. *)
ResumeFromDrain ==
    /\ up
    /\ drain = "kill_switch"
    /\ drain' = "none"
    /\ resumed' = (drain = "kill_switch")
    /\ UNCHANGED <<st, abort, ledger, now, billed, crashes, up>>

NextDay ==
    /\ now < MaxDays
    /\ now' = now + 1
    /\ UNCHANGED <<st, abort, drain, ledger, billed, resumed, crashes, up>>

Crash ==
    /\ up
    /\ crashes < MaxCrashes
    /\ up' = FALSE
    /\ crashes' = crashes + 1
    /\ st' = [s \in Stages |-> IF st[s].pc \in Returned THEN st[s] ELSE Fresh]
    /\ billed' = [s \in Stages |-> IF st[s].pc \in Returned THEN billed[s] ELSE 0]
    /\ abort' = [s \in Stages |-> "none"]
    /\ drain' = "none"
    /\ ledger' = Empty
    /\ resumed' = FALSE
    /\ UNCHANGED now

Restart ==
    /\ ~up
    /\ up' = TRUE
    /\ UNCHANGED <<st, abort, drain, ledger, now, billed, resumed, crashes>>

Attempt(s) == Start(s) \/ Result(s) \/ Throw(s) \/ Wake(s)

Next ==
    \/ \E s \in Stages : \/ Attempt(s) \/ RunwayShrinks(s) \/ DeadlineReached(s)
                         \/ AbortIssueStages(s)
    \/ KillSwitch \/ ResumeFromDrain \/ NextDay \/ Crash \/ Restart

(* Timers fire, and an aborted call throws.  Nothing is assumed of a call that
   nobody aborts, nor of people. *)
Fairness ==
    /\ \A s \in Stages : /\ WF_vars(Wake(s))
                         /\ WF_vars(RunwayShrinks(s))
                         /\ WF_vars(DeadlineReached(s))
                         /\ WF_vars(abort[s] # "live" /\ Throw(s))
    /\ WF_vars(Restart)

Spec == Init /\ [][Next]_vars /\ Fairness

-----------------------------------------------------------------------------
(* The caller is charged for every attempt: what runStage returns is what the bus
   heard of the attempts together (agents.ts:640-649). *)
BilledInFull == \A s \in Stages : st[s].pc \in Returned => st[s].total = billed[s]

(* Retries and the fallback multiply the ceiling by less than two: the total is
   under the ceiling when the last attempt starts, and that attempt is under it
   too (agents.ts:664-673, 754-757). *)
SpendBounded == \A s \in Stages : st[s].total < 2 * CostCap[Label[s]]

(* A call that throws after our own abort is the last one of its stage: neither the
   retries nor the fallback run for a ticket that was taken away or a daemon that
   was stopped (agents.ts:531-545, 889-896).  A result that was on its way when
   the abort came may still be retried. *)
AbortIsFinal == \A s \in Stages : st[s].told => st[s].pc \in Returned

(* Over the daily cap the daemon drains, unless an operator resumed a drain of the
   kill switch after the last stage finished (spend-cap.ts:36-46). *)
OverCapDrains == ledger.sum > DayCap => drain # "none" \/ resumed

(* The same as the code's comments have it: no resume lifts the spend cap
   (control.ts:42-47). *)
CapOutlivesResume == ledger.sum > DayCap => drain # "none"

(* A stage that runs returns, or dies with the daemon: the deadline bounds
   it whatever the provider does. *)
StagesReturn == \A s \in Stages : (st[s].pc \in {"run", "backoff"}) ~> (st[s].pc \notin {"run", "backoff"})
=============================================================================
