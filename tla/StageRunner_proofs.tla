------------------------- MODULE StageRunner_proofs -------------------------
(***************************************************************************)
(* The safety properties of StageRunner, for any stages, ceilings, daily   *)
(* cap, number of retries, budgets and grants.                             *)
(*                                                                         *)
(* The invariant speaks of one stage at a time (Sound) and of the daemon   *)
(* (Daemon).  A step of one stage leaves the others as they are, so that   *)
(* each action has one thing to show: the stage it moved is still sound.   *)
(*                                                                         *)
(* And what the pure decisions of StageRouting, taken before a stage runs, *)
(* promise for every roster, tier configuration, diff, set of cards and    *)
(* set of results.                                                         *)
(*                                                                         *)
(* And what the groundskeepers, who run one stage each, keep: for any      *)
(* cards, calendar, ceilings, number of tries and bounds.  Their invariant *)
(* (KInv) has one part for each promise; a step is first told apart by the *)
(* course it gives the tick, of which there are seven, and only then by    *)
(* its action.                                                             *)
(***************************************************************************)
EXTENDS StageRunner, StageRouting, Groundskeeper, SequenceTheorems, FiniteSetTheorems, WellFoundedInduction, TLAPS

Runs == [pc : Places, attempt : 0..Attempts + 1, budget : Nat, total : Nat,
         left : Runways, told : BOOLEAN]

Cap(s) == CostCap[Label[s]]

\* What holds of stage s with local state r, controller a and bill b.
Sound(s, r, a, b) ==
  /\ r \in Runs
  /\ a \in Reasons
  /\ b \in Nat
  /\ a # "none" <=> r.pc = "run"
  /\ b = r.total
  /\ r.told = FALSE
  /\ r.total < 2 * Cap(s)
  /\ r.pc = "idle" => r.total = 0
  /\ r.pc \in {"run", "backoff"} => r.total < Cap(s) /\ r.budget =< Cap(s)
  /\ r.pc = "backoff" => r.attempt =< Attempts

Sounds ==
  /\ st \in [Stages -> Runs]
  /\ abort \in [Stages -> Reasons]
  /\ billed \in [Stages -> Nat]
  /\ \A s \in Stages : Sound(s, st[s], abort[s], billed[s])

Daemon ==
  /\ drain \in Drains
  /\ ledger \in [at : 0..MaxDays, sum : Nat]
  /\ now \in 0..MaxDays
  /\ resumed \in BOOLEAN
  /\ crashes \in 0..MaxCrashes
  /\ up \in BOOLEAN
  /\ OverCapDrains

IInv == Sounds /\ Daemon

-----------------------------------------------------------------------------

LEMMA CapPositive == \A s \in Stages : Cap(s) \in Nat /\ Cap(s) > 0
BY StageAssumption DEF Cap

LEMMA AttemptsNat == Attempts \in Nat /\ Attempts >= 1
BY StageAssumption DEF Attempts

LEMMA AttemptRange == {0, 1, Attempts + 1} \subseteq 0..Attempts + 1
BY AttemptsNat

\* The budget of an attempt is a number under the ceiling of its stage.
LEMMA BudgetUnderCap ==
  ASSUME NEW s \in Stages, NEW requested \in Budgets
  PROVE  AttemptBudget(s, requested) \in Nat /\ AttemptBudget(s, requested) =< Cap(s)
BY CapPositive, StageAssumption DEF AttemptBudget, StageBudget, MinStageBudget, Cap

\* Only stage s moved, and it is sound.
LEMMA OneMoved ==
  ASSUME Sounds, NEW s \in Stages,
         NEW r, NEW a, NEW b,
         st' = [st EXCEPT ![s] = r],
         abort' = [abort EXCEPT ![s] = a],
         billed' = [billed EXCEPT ![s] = b],
         Sound(s, r, a, b)
  PROVE  Sounds'
<1>1. r \in Runs /\ a \in Reasons /\ b \in Nat  BY DEF Sound
<1>2. /\ st' \in [Stages -> Runs]
      /\ abort' \in [Stages -> Reasons]
      /\ billed' \in [Stages -> Nat]
  BY <1>1 DEF Sounds
<1>3. ASSUME NEW t \in Stages PROVE Sound(t, st'[t], abort'[t], billed'[t])
  <2>1. CASE t = s
    <3>1. st'[t] = r /\ abort'[t] = a /\ billed'[t] = b  BY <2>1 DEF Sounds
    <3>2. QED  BY <2>1, <3>1
  <2>2. CASE t # s
    <3>1. st'[t] = st[t] /\ abort'[t] = abort[t] /\ billed'[t] = billed[t]  BY <2>2 DEF Sounds
    <3>2. QED  BY <3>1 DEF Sounds
  <2>3. QED  BY <2>1, <2>2
<1>4. QED  BY <1>2, <1>3 DEF Sounds, Sound, Cap

\* A stage that returns, with what it has spent.
LEMMA Returning ==
  ASSUME Sounds, NEW s \in Stages, NEW place \in {"ok", "error"},
         NEW total \in Nat, total < 2 * Cap(s),
         Return(s, place, total, FALSE),
         billed' = [billed EXCEPT ![s] = total]
  PROVE  Sounds'
<1> DEFINE r == [Fresh EXCEPT !.pc = place, !.total = total, !.told = FALSE]
<1>1. st' = [st EXCEPT ![s] = r] /\ abort' = [abort EXCEPT ![s] = "none"]  BY DEF Return
<1>2. Fresh \in Runs  BY AttemptsNat DEF Fresh, Runs, Places, Runways
<1>3. r \in Runs /\ r.pc = place /\ r.total = total /\ r.told = FALSE  BY <1>2 DEF Runs, Places
<1>4. Sound(s, r, "none", total)
  BY <1>3 DEF Sound, Reasons
<1>5. QED  BY <1>1, <1>4, OneMoved

\* A stage that waits for another attempt, or goes to the fallback, is under its ceiling.
LEMMA Continuing ==
  ASSUME Sounds, NEW s \in Stages, st[s].pc = "run",
         NEW total \in Nat, total < 2 * Cap(s),
         OnTransient(s, total, FALSE),
         billed' = [billed EXCEPT ![s] = total]
  PROVE  Sounds'
<1> DEFINE old == st[s]
           next == [old EXCEPT !.total = total, !.told = FALSE]
           waits == [next EXCEPT !.pc = "backoff"]
           tries == [next EXCEPT !.pc = "run", !.attempt = Attempts + 1]
<1>1. old \in Runs /\ old.budget =< Cap(s)  BY DEF Sounds, Sound
<1>2. CASE Retries(s, total) /\ st' = [st EXCEPT ![s] = waits] /\ abort' = [abort EXCEPT ![s] = "none"]
  <2>1. /\ waits \in Runs /\ waits.pc = "backoff" /\ waits.total = total /\ waits.told = FALSE
        /\ waits.attempt = old.attempt /\ waits.budget = old.budget
    BY <1>1 DEF Runs, Places
  <2>2. old.attempt < Attempts /\ total < Cap(s)  BY <1>2 DEF Retries, Cap
  <2>3. old.attempt \in Int /\ Attempts \in Int  BY <1>1, AttemptsNat DEF Runs
  <2>4. Sound(s, waits, "none", total)
    BY <2>1, <2>2, <2>3, <1>1 DEF Sound, Reasons
  <2>5. QED  BY <1>2, <2>4, OneMoved
<1>3. CASE FailsOver(s, total) /\ st' = [st EXCEPT ![s] = tries] /\ abort' = [abort EXCEPT ![s] = "live"]
  <2>1. /\ tries \in Runs /\ tries.pc = "run" /\ tries.total = total /\ tries.told = FALSE
        /\ tries.budget = old.budget
    BY <1>1, AttemptRange DEF Runs, Places
  <2>2. Sound(s, tries, "live", total)
    BY <1>3, <2>1, <1>1 DEF Sound, FailsOver, Reasons, Cap
  <2>3. QED  BY <1>3, <2>2, OneMoved
<1>4. CASE Return(s, "error", total, FALSE)  BY <1>4, Returning
<1>5. QED  BY <1>2, <1>3, <1>4 DEF OnTransient

\* What the bus does with the end of an attempt: the bill, the ledger, the drain.
LEMMA Finishing ==
  ASSUME Sounds, Daemon, NEW s \in Stages, NEW cost \in Nat,
         OnStageFinished(s, cost), UNCHANGED <<now, crashes, up>>
  PROVE  Daemon' /\ billed' = [billed EXCEPT ![s] = billed[s] + cost]
<1>1. ledger' \in [at : 0..MaxDays, sum : Nat]
  BY DEF OnStageFinished, Inserted, Daemon
<1>2. drain' \in Drains /\ (ledger'.sum > DayCap => drain' # "none")
  BY DEF OnStageFinished, EnterDrain, Daemon, Drains
<1>3. QED  BY <1>1, <1>2 DEF OnStageFinished, Daemon, OverCapDrains

-----------------------------------------------------------------------------
(* One lemma per action of a stage. *)

LEMMA StartStep == ASSUME IInv, NEW s \in Stages, Start(s) PROVE IInv'
<1> USE DEF IInv
<1>1. PICK tools \in Grants, budget \in Budgets :
        IF ForbiddenToolViolations(tools) # {}
        THEN /\ st' = [st EXCEPT ![s].pc = "refused"]
             /\ OnStageFinished(s, 0)
             /\ UNCHANGED abort
        ELSE /\ st' = [st EXCEPT ![s].pc = "run", ![s].attempt = 1, ![s].budget = AttemptBudget(s, budget)]
             /\ abort' = [abort EXCEPT ![s] = "live"]
             /\ UNCHANGED <<billed, ledger, drain, resumed>>
  BY DEF Start
<1>2. st[s].pc = "idle" /\ UNCHANGED <<now, crashes, up>>  BY DEF Start
<1>3. st[s] \in Runs /\ Sound(s, st[s], abort[s], billed[s])  BY DEF Sounds
<1>4. billed[s] = 0 /\ abort[s] = "none" /\ st[s].total = 0 /\ st[s].told = FALSE
  BY <1>2, <1>3 DEF Sound
<1>5. CASE ForbiddenToolViolations(tools) # {}
  <2> DEFINE r == [st[s] EXCEPT !.pc = "refused"]
  <2>1. Daemon' /\ billed' = [billed EXCEPT ![s] = billed[s] + 0]
    BY <1>1, <1>2, <1>5, Finishing
  <2>2. r \in Runs /\ r.pc = "refused" /\ r.total = 0 /\ r.told = FALSE
    BY <1>3, <1>4 DEF Runs, Places
  <2>3. Sound(s, r, "none", 0)
    BY <2>2, CapPositive DEF Sound, Reasons
  <2>4. st' = [st EXCEPT ![s] = r] /\ abort' = [abort EXCEPT ![s] = "none"] /\ billed' = [billed EXCEPT ![s] = 0]
    BY <1>1, <1>4, <1>5, <2>1 DEF Sounds
  <2>5. QED  BY <2>1, <2>3, <2>4, OneMoved
<1>6. CASE ~(ForbiddenToolViolations(tools) # {})
  <2> DEFINE r == [st[s] EXCEPT !.pc = "run", !.attempt = 1, !.budget = AttemptBudget(s, budget)]
  <2>1. AttemptBudget(s, budget) \in Nat /\ AttemptBudget(s, budget) =< Cap(s)  BY BudgetUnderCap
  <2>2. /\ r \in Runs /\ r.pc = "run" /\ r.total = 0 /\ r.told = FALSE
        /\ r.budget =< Cap(s)
    BY <1>3, <1>4, <2>1, AttemptRange DEF Runs, Places
  <2>3. Sound(s, r, "live", 0)
    BY <2>2, CapPositive DEF Sound, Reasons
  <2>4. /\ st' = [st EXCEPT ![s] = r] /\ abort' = [abort EXCEPT ![s] = "live"]
        /\ billed' = billed
    BY <1>1, <1>6
  <2>5. UNCHANGED <<drain, ledger, now, resumed, crashes, up>>  BY <1>1, <1>2, <1>6
  <2>6. Daemon'  BY <2>5 DEF Daemon, OverCapDrains
  <2>7. billed' = [billed EXCEPT ![s] = 0]  BY <1>4, <2>4 DEF Sounds
  <2> HIDE DEF r
  <2>8. QED  BY <2>3, <2>4, <2>6, <2>7, OneMoved
<1>7. QED  BY <1>5, <1>6

LEMMA ResultStep == ASSUME IInv, NEW s \in Stages, Result(s) PROVE IInv'
<1> USE DEF IInv
<1>1. PICK cost \in 0..st[s].budget :
        LET total == Accumulate(st[s].total, cost)
        IN  /\ OnStageFinished(s, cost)
            /\ \/ Return(s, "ok", total, st[s].told)
               \/ Return(s, "error", total, st[s].told)
               \/ OnTransient(s, total, st[s].told)
  BY DEF Result
<1> DEFINE total == st[s].total + cost
<1>2. st[s].pc = "run" /\ UNCHANGED <<now, crashes, up>>  BY DEF Result
<1>3. st[s] \in Runs /\ Sound(s, st[s], abort[s], billed[s])  BY DEF Sounds
<1>4. /\ st[s].total < Cap(s) /\ st[s].budget =< Cap(s) /\ st[s].told = FALSE
      /\ billed[s] = st[s].total
  BY <1>2, <1>3 DEF Sound
<1>5. cost \in Nat /\ cost =< st[s].budget /\ st[s].total \in Nat /\ st[s].budget \in Nat
  BY <1>1, <1>3 DEF Runs
<1>6. total \in Nat /\ total < 2 * Cap(s)  BY <1>4, <1>5, CapPositive
<1>7. Daemon' /\ billed' = [billed EXCEPT ![s] = total]
  BY <1>1, <1>2, <1>4, <1>5, Finishing
<1>8. \/ Return(s, "ok", total, FALSE)
      \/ Return(s, "error", total, FALSE)
      \/ OnTransient(s, total, FALSE)
  BY <1>1, <1>4 DEF Accumulate
<1> HIDE DEF total
<1>9. Sounds'
  BY <1>2, <1>6, <1>7, <1>8, Returning, Continuing
<1>10. QED  BY <1>7, <1>9

LEMMA ThrowStep == ASSUME IInv, NEW s \in Stages, Throw(s) PROVE IInv'
<1> USE DEF IInv
<1>1. /\ st[s].pc = "run" /\ UNCHANGED <<now, crashes, up>>
      /\ OnStageFinished(s, 0)
      /\ \/ Return(s, "error", st[s].total, st[s].told)
         \/ abort[s] = "live" /\ OnTransient(s, st[s].total, abort[s] # "live")
  BY DEF Throw
<1> DEFINE total == st[s].total
<1>2. st[s] \in Runs /\ Sound(s, st[s], abort[s], billed[s])  BY DEF Sounds
<1>3. total \in Nat /\ total < 2 * Cap(s) /\ billed[s] = total /\ st[s].told = FALSE
  BY <1>2 DEF Sound, Runs
<1>4. Daemon' /\ billed' = [billed EXCEPT ![s] = billed[s] + 0]
  BY <1>1, Finishing
<1>5. billed[s] + 0 = total  BY <1>3
<1> HIDE DEF total
<1>6. billed' = [billed EXCEPT ![s] = total]  BY <1>4, <1>5
<1> USE DEF total
<1>7. CASE Return(s, "error", st[s].total, st[s].told)
  <2>1. Return(s, "error", total, FALSE)  BY <1>3, <1>7
  <2> HIDE DEF total
  <2>2. QED  BY <1>3, <1>4, <1>6, <2>1, Returning
<1>8. CASE abort[s] = "live" /\ OnTransient(s, st[s].total, abort[s] # "live")
  <2>1. (abort[s] # "live") = FALSE  BY <1>8
  <2>2. OnTransient(s, total, FALSE)  BY <1>8, <2>1
  <2> HIDE DEF total
  <2>3. QED  BY <1>1, <1>3, <1>4, <1>6, <2>2, Continuing
<1>9. QED  BY <1>1, <1>7, <1>8

LEMMA WakeStep == ASSUME IInv, NEW s \in Stages, Wake(s) PROVE IInv'
<1> USE DEF IInv
<1> DEFINE r == [st[s] EXCEPT !.pc = "run", !.attempt = @ + 1]
<1>1. /\ st[s].pc = "backoff"
      /\ st' = [st EXCEPT ![s] = r]
      /\ abort' = [abort EXCEPT ![s] = "live"]
      /\ UNCHANGED <<drain, ledger, now, billed, resumed, crashes, up>>
  BY DEF Wake
<1>2. st[s] \in Runs /\ Sound(s, st[s], abort[s], billed[s])  BY DEF Sounds
<1>3. st[s].attempt =< Attempts /\ st[s].attempt \in Nat  BY <1>1, <1>2 DEF Sound, Runs
<1>4. st[s].attempt + 1 \in 0..Attempts + 1  BY <1>3, AttemptsNat
<1>5. /\ r \in Runs /\ r.pc = "run" /\ r.total = st[s].total /\ r.told = st[s].told
      /\ r.budget = st[s].budget
  BY <1>2, <1>4 DEF Runs, Places
<1>6. Sound(s, r, "live", billed[s])  BY <1>1, <1>2, <1>5 DEF Sound, Reasons
<1>7. billed' = [billed EXCEPT ![s] = billed[s]]  BY <1>1 DEF Sounds
<1> HIDE DEF r
<1>8. Sounds'  BY <1>1, <1>6, <1>7, OneMoved
<1>9. QED  BY <1>1, <1>8 DEF Daemon, OverCapDrains

LEMMA RunwayStep == ASSUME IInv, NEW s \in Stages, RunwayShrinks(s) PROVE IInv'
<1> USE DEF IInv
<1> DEFINE r == [st[s] EXCEPT !.left = IF @ = "ample" THEN "short" ELSE "gone"]
<1>1. /\ st' = [st EXCEPT ![s] = r]
      /\ UNCHANGED <<abort, drain, ledger, now, billed, resumed, crashes, up>>
  BY DEF RunwayShrinks
<1>2. st[s] \in Runs /\ Sound(s, st[s], abort[s], billed[s])  BY DEF Sounds
<1>3. /\ r \in Runs /\ r.pc = st[s].pc /\ r.total = st[s].total /\ r.told = st[s].told
      /\ r.budget = st[s].budget /\ r.attempt = st[s].attempt
  BY <1>2 DEF Runs, Runways
<1>4. Sound(s, r, abort[s], billed[s])  BY <1>2, <1>3 DEF Sound
<1>5. billed' = [billed EXCEPT ![s] = billed[s]] /\ abort' = [abort EXCEPT ![s] = abort[s]]
  BY <1>1 DEF Sounds
<1> HIDE DEF r
<1>6. Sounds'  BY <1>1, <1>4, <1>5, OneMoved
<1>7. QED  BY <1>1, <1>6 DEF Daemon, OverCapDrains

\* An abort changes the reason of a live controller and nothing else.
LEMMA Aborting ==
  ASSUME Sounds, UNCHANGED <<st, billed>>, abort' \in [Stages -> Reasons],
         \A s \in Stages : abort'[s] # abort[s] => abort[s] = "live" /\ abort'[s] # "none"
  PROVE  Sounds'
<1>1. ASSUME NEW s \in Stages PROVE Sound(s, st'[s], abort'[s], billed'[s])
  <2>1. Sound(s, st[s], abort[s], billed[s])  BY DEF Sounds
  <2>2. abort'[s] \in Reasons /\ (abort'[s] # "none" <=> abort[s] # "none")
    BY DEF Reasons
  <2>3. QED  BY <2>1, <2>2 DEF Sound
<1>2. QED  BY <1>1 DEF Sounds, Sound, Cap

LEMMA AbortStep ==
  ASSUME IInv, NEW s \in Stages, DeadlineReached(s) \/ AbortIssueStages(s)
  PROVE  IInv'
<1> USE DEF IInv
<1>1. abort \in [Stages -> Reasons]  BY DEF Sounds
<1>2. /\ UNCHANGED <<st, drain, ledger, now, billed, resumed, crashes, up>>
      /\ abort[s] = "live"
      /\ \/ abort' = [abort EXCEPT ![s] = "deadline"]
         \/ abort' = Aborted({s}, "claim")
  BY DEF DeadlineReached, AbortIssueStages
<1>3. /\ abort' \in [Stages -> Reasons]
      /\ \A t \in Stages : abort'[t] # abort[t] => abort[t] = "live" /\ abort'[t] # "none"
  BY <1>1, <1>2 DEF Aborted, Reasons
<1>4. Sounds'  BY <1>2, <1>3, Aborting
<1>5. QED  BY <1>2, <1>4 DEF Daemon, OverCapDrains

-----------------------------------------------------------------------------
(* The actions of the daemon. *)

LEMMA DaemonStep ==
  ASSUME IInv, KillSwitch \/ ResumeFromDrain \/ NextDay \/ Restart
  PROVE  IInv'
<1> USE DEF IInv
<1>1. CASE KillSwitch
  <2>1. /\ UNCHANGED <<st, ledger, now, billed, resumed, crashes, up>>
        /\ abort' = Aborted(Stages, "kill")
        /\ drain' = EnterDrain("kill_switch")
    BY <1>1 DEF KillSwitch
  <2>2. /\ abort' \in [Stages -> Reasons]
        /\ \A t \in Stages : abort'[t] # abort[t] => abort[t] = "live" /\ abort'[t] # "none"
    BY <2>1 DEF Aborted, Reasons, Sounds
  <2>3. Sounds'  BY <2>1, <2>2, Aborting
  <2>4. QED  BY <2>1, <2>3 DEF Daemon, OverCapDrains, EnterDrain, Drains
<1>2. CASE ResumeFromDrain
  <2>1. Sounds'
    BY <1>2 DEF ResumeFromDrain, Sounds, Sound, Cap
  <2>2. Daemon'
    BY <1>2 DEF ResumeFromDrain, Daemon, OverCapDrains, Drains
  <2>3. QED  BY <2>1, <2>2
<1>3. CASE NextDay
  <2>1. Sounds'  BY <1>3 DEF NextDay, Sounds, Sound, Cap
  <2>2. now' \in 0..MaxDays  BY <1>3, StageAssumption DEF NextDay, Daemon
  <2>3. Daemon'  BY <1>3, <2>2 DEF NextDay, Daemon, OverCapDrains
  <2>4. QED  BY <2>1, <2>3
<1>4. CASE Restart
  <2>1. Sounds'  BY <1>4 DEF Restart, Sounds, Sound, Cap
  <2>2. Daemon'  BY <1>4 DEF Restart, Daemon, OverCapDrains
  <2>3. QED  BY <2>1, <2>2
<1>5. QED  BY <1>1, <1>2, <1>3, <1>4

LEMMA FreshSound == \A s \in Stages : Sound(s, Fresh, "none", 0)
<1>1. Fresh \in Runs  BY AttemptRange DEF Fresh, Runs, Places, Runways
<1>2. Fresh.pc = "idle" /\ Fresh.total = 0 /\ Fresh.told = FALSE  BY DEF Fresh
<1>3. QED  BY <1>1, <1>2, CapPositive DEF Sound, Reasons

LEMMA CrashStep == ASSUME IInv, Crash PROVE IInv'
<1> USE DEF IInv
<1>1. /\ st' = [s \in Stages |-> IF st[s].pc \in Returned THEN st[s] ELSE Fresh]
      /\ billed' = [s \in Stages |-> IF st[s].pc \in Returned THEN billed[s] ELSE 0]
      /\ abort' = [s \in Stages |-> "none"]
  BY DEF Crash
<1>2. ASSUME NEW s \in Stages PROVE Sound(s, st'[s], abort'[s], billed'[s])
  <2>1. CASE st[s].pc \in Returned
    <3>1. st'[s] = st[s] /\ abort'[s] = "none" /\ billed'[s] = billed[s]  BY <1>1, <2>1
    <3>2. Sound(s, st[s], abort[s], billed[s]) /\ st[s].pc # "run"
      BY <2>1 DEF Sounds, Returned
    <3>3. abort[s] = "none"  BY <3>2 DEF Sound
    <3>4. QED  BY <3>1, <3>2, <3>3
  <2>2. CASE st[s].pc \notin Returned
    <3>1. st'[s] = Fresh /\ abort'[s] = "none" /\ billed'[s] = 0  BY <1>1, <2>2
    <3>2. QED  BY <3>1, FreshSound
  <2>3. QED  BY <2>1, <2>2
<1>3. /\ st' \in [Stages -> Runs] /\ abort' \in [Stages -> Reasons]
      /\ billed' \in [Stages -> Nat]
  BY <1>1, <1>2 DEF Sound
<1>4. Sounds'  BY <1>2, <1>3 DEF Sounds, Sound, Cap
<1>5. ledger' \in [at : 0..MaxDays, sum : Nat] /\ ledger'.sum = 0
  BY StageAssumption DEF Crash, Empty
<1>6. crashes' \in 0..MaxCrashes  BY StageAssumption DEF Crash, Daemon
<1>7. OverCapDrains'  BY <1>5, StageAssumption DEF OverCapDrains
<1>8. Daemon'
  BY <1>5, <1>6, <1>7 DEF Crash, Daemon, Drains
<1>9. QED  BY <1>4, <1>8

-----------------------------------------------------------------------------

LEMMA Initially == Init => IInv
<1> SUFFICES ASSUME Init PROVE IInv  OBVIOUS
<1>1. \A s \in Stages : st[s] = Fresh /\ abort[s] = "none" /\ billed[s] = 0  BY DEF Init
<1>2. \A s \in Stages : Sound(s, st[s], abort[s], billed[s])  BY <1>1, FreshSound
<1>3. Sounds  BY <1>2 DEF Init, Sounds, Sound
<1>4. ledger \in [at : 0..MaxDays, sum : Nat] /\ ledger.sum = 0
  BY StageAssumption DEF Init, Empty
<1>5. 0 \in 0..MaxDays /\ 0 \in 0..MaxCrashes  BY StageAssumption
<1>6. OverCapDrains  BY <1>4, StageAssumption DEF OverCapDrains
<1>7. Daemon  BY <1>4, <1>5, <1>6 DEF Init, Daemon, Drains
<1>8. QED  BY <1>3, <1>7 DEF IInv

LEMMA Stuttering == ASSUME IInv, UNCHANGED vars PROVE IInv'
<1>1. UNCHANGED <<st, abort, drain, ledger, now, billed, resumed, crashes, up>>  BY DEF vars
<1>2. QED  BY <1>1 DEF IInv, Sounds, Sound, Cap, Daemon, OverCapDrains

LEMMA Steps == IInv /\ [Next]_vars => IInv'
<1> SUFFICES ASSUME IInv, [Next]_vars PROVE IInv'  OBVIOUS
<1>1. ASSUME NEW s \in Stages, Attempt(s) PROVE IInv'
  BY <1>1, StartStep, ResultStep, ThrowStep, WakeStep DEF Attempt
<1>2. ASSUME NEW s \in Stages, RunwayShrinks(s) PROVE IInv'  BY <1>2, RunwayStep
<1>3. ASSUME NEW s \in Stages, DeadlineReached(s) \/ AbortIssueStages(s) PROVE IInv'
  BY <1>3, AbortStep
<1>4. CASE KillSwitch \/ ResumeFromDrain \/ NextDay \/ Restart  BY <1>4, DaemonStep
<1>5. CASE Crash  BY <1>5, CrashStep
<1>6. CASE UNCHANGED vars  BY <1>6, Stuttering
<1>7. QED  BY <1>1, <1>2, <1>3, <1>4, <1>5, <1>6 DEF Next

LEMMA Invariance == Spec => []IInv
BY Initially, Steps, PTL DEF Spec

-----------------------------------------------------------------------------

(* Types, and that a controller is registered exactly while a call is in flight
   (activeStages, agents.ts:431-447). *)
THEOREM StageTypes == Spec => []TypeOK
<1>1. IInv => TypeOK
  <2> SUFFICES ASSUME IInv PROVE TypeOK  OBVIOUS
  <2>1. st \in [Stages -> Runs] /\ abort \in [Stages -> Reasons] /\ billed \in [Stages -> Nat]
    BY DEF IInv, Sounds
  <2>2. \A s \in Stages : abort[s] # "none" <=> st[s].pc = "run"  BY DEF IInv, Sounds, Sound
  <2>3. QED  BY <2>1, <2>2 DEF IInv, Daemon, TypeOK, Runs
<1>2. QED  BY <1>1, Invariance, PTL

(* The caller is charged for every attempt of its stage, whatever failed, was aborted
   or was tried again (runStage, agents.ts:640-649). *)
THEOREM ReturnsBilledInFull == Spec => []BilledInFull
<1>1. IInv => BilledInFull  BY DEF IInv, Sounds, Sound, BilledInFull
<1>2. QED  BY <1>1, Invariance, PTL

(* Retries and the fallback together stay under twice the ceiling of the stage, for
   any number of retries (agents.ts:658-681). *)
THEOREM SpendHolds == Spec => []SpendBounded
<1>1. IInv => SpendBounded  BY DEF IInv, Sounds, Sound, SpendBounded, Cap
<1>2. QED  BY <1>1, Invariance, PTL

(* No retry and no fallback after a call that our own abort ended. *)
THEOREM AbortsAreFinal == Spec => []AbortIsFinal
<1>1. IInv => AbortIsFinal  BY DEF IInv, Sounds, Sound, AbortIsFinal
<1>2. QED  BY <1>1, Invariance, PTL

(* Over the daily cap the daemon drains or was resumed from a kill switch. *)
THEOREM CapDrains == Spec => []OverCapDrains
<1>1. IInv => OverCapDrains  BY DEF IInv, Daemon
<1>2. QED  BY <1>1, Invariance, PTL

-----------------------------------------------------------------------------
(* Risk *)

\* t is at least as alarming as s in every signal
Dominates(t, s) ==
    /\ s.diffLines <= t.diffLines
    /\ s.files <= t.files
    /\ s.sensitive => t.sensitive
    /\ s.guarded => t.guarded
    /\ s.diffUnavailable => t.diffUnavailable
    /\ s.testFilesRemoved => t.testFilesRemoved

LEMMA MaxRiskClassIsMax ==
    ASSUME NEW S \in SUBSET RiskClasses, S # {}
    PROVE  MaxRiskClass(S) \in S /\ \A d \in S : RiskRank[d] <= RiskRank[MaxRiskClass(S)]
<1>1. \E c \in S : \A d \in S : RiskRank[d] <= RiskRank[c]
  <2>1. CASE "critical" \in S
    BY <2>1 DEF RiskClasses, RiskRank
  <2>2. CASE "critical" \notin S /\ "high" \in S
    BY <2>2 DEF RiskClasses, RiskRank
  <2>3. CASE "critical" \notin S /\ "high" \notin S /\ "medium" \in S
    BY <2>3 DEF RiskClasses, RiskRank
  <2>4. CASE "critical" \notin S /\ "high" \notin S /\ "medium" \notin S
    <3>1. S = {"low"}
      BY <2>4 DEF RiskClasses
    <3>2. QED BY <3>1 DEF RiskRank
  <2>5. QED BY <2>1, <2>2, <2>3, <2>4
<1>2. QED BY <1>1 DEF MaxRiskClass

LEMMA RaisedGrows ==
    ASSUME NEW s \in RiskSignals, NEW t \in RiskSignals, Dominates(t, s)
    PROVE  Raised(s) \subseteq Raised(t)
<1>1. /\ s.diffLines \in Nat /\ t.diffLines \in Nat /\ s.files \in Nat /\ t.files \in Nat
      /\ s.diffLines <= t.diffLines /\ s.files <= t.files
  BY DEF RiskSignals, Dominates
<1>2. /\ s.diffLines >= MediumDiffLines => t.diffLines >= MediumDiffLines
      /\ s.diffLines >= HighDiffLines => t.diffLines >= HighDiffLines
      /\ s.files >= MediumFiles => t.files >= MediumFiles
      /\ s.files >= HighFiles => t.files >= HighFiles
  BY <1>1, SMT DEF MediumDiffLines, HighDiffLines, MediumFiles, HighFiles
<1>3. /\ s.sensitive => t.sensitive
      /\ s.guarded => t.guarded
      /\ s.diffUnavailable => t.diffUnavailable
      /\ s.testFilesRemoved => t.testFilesRemoved
  BY DEF Dominates
<1>4. QED BY <1>2, <1>3, Zenon DEF Raised

LEMMA RaisedClasses ==
    ASSUME NEW s \in RiskSignals
    PROVE  Raised(s) \in SUBSET RiskClasses /\ Raised(s) # {}
<1>1. "low" \in Raised(s)
  BY Zenon DEF Raised, RiskClasses
<1>2. QED BY <1>1, Zenon DEF Raised

\* A judge's tier at a risk class is never below its tier at a lower class.
LEMMA TiersRise ==
    ASSUME NEW r \in RiskClasses, NEW q \in RiskClasses, RiskRank[r] <= RiskRank[q],
           NEW stage \in RoutedStages
    PROVE  TierRank[RiskModelTiers(r, stage)] <= TierRank[RiskModelTiers(q, stage)]
<1>1. CASE q = "critical"
  BY <1>1 DEF RiskClasses, RiskModelTiers, TierRank
<1>2. CASE q = "high"
  BY <1>2 DEF RiskClasses, RiskRank, RiskModelTiers, TierRank
<1>3. CASE q = "medium"
  BY <1>3 DEF RiskClasses, RiskRank, RiskModelTiers, TierRank
<1>4. CASE q = "low"
  BY <1>4 DEF RiskClasses, RiskRank, RiskModelTiers, TierRank
<1>5. QED BY <1>1, <1>2, <1>3, <1>4 DEF RiskClasses

\* A change that is larger, touches more, or hides more never gets weaker judges: the class
\* deriveRiskClass answers rises with every signal, the tier table rises with the class, and
\* no stage that gives a verdict is ever served by the cheap tier (risk.ts 105, 186).
THEOREM WorseDiffsGetStrongerJudges ==
    ASSUME NEW s \in RiskSignals, NEW t \in RiskSignals, Dominates(t, s), NEW stage \in JudgeStages
    PROVE  /\ TierRank[RiskModelTiers(DeriveRiskClass(s), stage)]
                <= TierRank[RiskModelTiers(DeriveRiskClass(t), stage)]
           /\ RiskModelTiers(DeriveRiskClass(s), stage) # "cheap"
<1> DEFINE c == DeriveRiskClass(s)
           d == DeriveRiskClass(t)
<1>1. c \in Raised(s) /\ c \in RiskClasses
  BY RaisedClasses, MaxRiskClassIsMax DEF DeriveRiskClass
<1>2. d \in RiskClasses /\ \A e \in Raised(t) : RiskRank[e] <= RiskRank[d]
  BY RaisedClasses, MaxRiskClassIsMax DEF DeriveRiskClass
<1>3. RiskRank[c] <= RiskRank[d]
  BY <1>1, <1>2, RaisedGrows
<1>4. stage \in RoutedStages /\ stage # "fixer"
  BY DEF RoutedStages, JudgeStages, GateStages
<1>5. RiskModelTiers(c, stage) # "cheap"
  BY <1>4 DEF RiskModelTiers
<1> HIDE DEF c, d
<1>6. TierRank[RiskModelTiers(c, stage)] <= TierRank[RiskModelTiers(d, stage)]
  BY <1>1, <1>2, <1>3, <1>4, TiersRise
<1>7. QED BY <1>5, <1>6 DEF c, d

-----------------------------------------------------------------------------
(* Vendors *)

\* The check config.ts runs once at load is enough for every run that follows: whatever
\* tickets ask for, and whatever the project's rows say of the other stages, the three
\* judgments of a high or critical diff do not all come from one vendor (risk.ts 279).
THEOREM LoadCheckCoversEveryRun ==
    ASSUME NEW roster \in Rosters, NEW tiers \in TierConfigs, NEW meta \in Pins, NEW project \in Pins,
           LoadPolicy(roster, tiers) = "ok",
           DOMAIN project \cap GateStages = {},
           NEW risk \in {"high", "critical"}
    PROVE  ~Collapsed([s \in GateStages |-> ResolveModelForRisk(s, risk, roster, tiers, meta, project)])
<1>1. VendorDiversityViolations(roster, tiers) = {}
  BY DEF LoadPolicy, VendorDiversityPolicy
<1>2. ~Collapsed([s \in GateStages |-> ResolveTierModel(s, risk, tiers, roster[s])])
  BY <1>1, Zenon DEF VendorDiversityViolations
<1>3. \A s \in GateStages : ResolveModelForRisk(s, risk, roster, tiers, meta, project)
                              = ResolveTierModel(s, risk, tiers, roster[s])
  <2>1. TAKE s \in GateStages
  <2>2. ResolveModel(s, roster, meta, project) = roster[s]
    BY <2>1 DEF ResolveModel
  <2>3. ~MetaPinsModel(s, meta) /\ s \notin DOMAIN project
    BY <2>1 DEF MetaPinsModel
  <2>4. QED BY <2>2, <2>3 DEF ResolveModelForRisk
<1>4. [s \in GateStages |-> ResolveModelForRisk(s, risk, roster, tiers, meta, project)]
        = [s \in GateStages |-> ResolveTierModel(s, risk, tiers, roster[s])]
  BY <1>3
<1>5. QED BY <1>2, <1>4

\* The hypothesis on the project's rows is needed.  A row for a gate stage does not change
\* the stage's standard model, but it turns the risk tier off (meta.ts 354), so the load
\* check, made on the strong tiers, no longer speaks of the models that run: with two
\* vendors in the roster there is a configuration that loads without a word and whose high
\* risk diffs are judged by one vendor alone.
THEOREM ProjectRowEscapesLoadCheck ==
    ASSUME NEW a \in Models, NEW b \in Models, VendorOf[a] # VendorOf[b]
    PROVE  \E roster \in Rosters, tiers \in TierConfigs, project \in Pins :
             /\ LoadPolicy(roster, tiers) = "ok"
             /\ DOMAIN project = {"securityReviewer"}
             /\ Collapsed([s \in GateStages |->
                             ResolveModelForRisk(s, "high", roster, tiers, [x \in {} |-> a], project)])
<1> DEFINE roster == [s \in RoutedStages |-> IF s = "reviewerClaude" THEN a ELSE b]
           strong(m) == [t \in {"strong"} |-> m]
           tiers == [s \in RoutedStages |-> IF s = "reviewerClaude" THEN strong(b)
                                         ELSE IF s = "securityReviewer" THEN strong(a)
                                         ELSE [t \in {} |-> a]]
           project == [s \in {"securityReviewer"} |-> a]
           none == [x \in {} |-> a]
<1>1. roster \in Rosters
  BY DEF Rosters
<1>2. project \in Pins /\ DOMAIN project = {"securityReviewer"}
  <2>1. {"securityReviewer"} \in SUBSET RoutedStages
    BY DEF RoutedStages, JudgeStages, GateStages
  <2>2. project \in [{"securityReviewer"} -> Models]
    OBVIOUS
  <2>3. QED BY <2>1, <2>2, Zenon DEF Pins
<1>3. tiers \in TierConfigs
  <2> DEFINE Offers == UNION {[D -> Models] : D \in SUBSET {"cheap", "strong"}}
  <2>1. \A m \in Models : strong(m) \in [{"strong"} -> Models]
    OBVIOUS
  <2>2. [t \in {} |-> a] \in [{} -> Models]
    OBVIOUS
  <2>3. {"strong"} \in SUBSET {"cheap", "strong"} /\ {} \in SUBSET {"cheap", "strong"}
    OBVIOUS
  <2>4. \A m \in Models : strong(m) \in Offers
    BY <2>1, <2>3, Zenon
  <2>5. [t \in {} |-> a] \in Offers
    BY <2>2, <2>3, Zenon
  <2> HIDE DEF Offers, strong
  <2>6. \A s \in RoutedStages : tiers[s] \in Offers
    BY <2>4, <2>5
  <2>7. tiers \in [RoutedStages -> Offers]
    BY <2>6
  <2>8. QED BY <2>7 DEF TierConfigs, Offers
<1>4. /\ \A s \in GateStages : s \in RoutedStages
      /\ GateStages = {"reviewerClaude", "reviewerCodex", "securityReviewer"}
  BY DEF RoutedStages, JudgeStages, GateStages
<1>5. /\ roster["reviewerClaude"] = a /\ roster["reviewerCodex"] = b /\ roster["securityReviewer"] = b
      /\ tiers["reviewerClaude"] = strong(b) /\ tiers["securityReviewer"] = strong(a)
      /\ tiers["reviewerCodex"] = [t \in {} |-> a]
  BY <1>4
<1>6. /\ \A m \in Models : DOMAIN strong(m) = {"strong"} /\ strong(m)["strong"] = m
      /\ DOMAIN [t \in {} |-> a] = {}
  OBVIOUS
<1> HIDE DEF roster, tiers, project, strong
<1>7. \A s \in GateStages : RiskModelTiers("high", s) = "strong" /\ RiskModelTiers("critical", s) = "strong"
  BY DEF RiskModelTiers
<1>8. \A risk \in {"high", "critical"} :
        /\ ResolveTierModel("reviewerClaude", risk, tiers, roster["reviewerClaude"]) = b
        /\ ResolveTierModel("reviewerCodex", risk, tiers, roster["reviewerCodex"]) = b
        /\ ResolveTierModel("securityReviewer", risk, tiers, roster["securityReviewer"]) = a
  <2>1. TAKE risk \in {"high", "critical"}
  <2>2. ResolveTierModel("reviewerClaude", risk, tiers, roster["reviewerClaude"]) = b
    BY <1>4, <1>5, <1>6, <1>7 DEF ResolveTierModel
  <2>3. ResolveTierModel("reviewerCodex", risk, tiers, roster["reviewerCodex"]) = b
    BY <1>4, <1>5, <1>6, <1>7 DEF ResolveTierModel
  <2>4. ResolveTierModel("securityReviewer", risk, tiers, roster["securityReviewer"]) = a
    BY <1>4, <1>5, <1>6, <1>7 DEF ResolveTierModel
  <2>5. QED BY <2>2, <2>3, <2>4
<1>9. LoadPolicy(roster, tiers) = "ok"
  <2>1. \A risk \in {"high", "critical"} :
          ~Collapsed([s \in GateStages |-> ResolveTierModel(s, risk, tiers, roster[s])])
    BY <1>4, <1>8 DEF Collapsed
  <2>2. VendorDiversityViolations(roster, tiers) = {}
    BY <2>1, Zenon DEF VendorDiversityViolations
  <2>3. QED BY <2>2 DEF LoadPolicy, VendorDiversityPolicy
<1>10. /\ \A s \in GateStages : ResolveModel(s, roster, none, project) = roster[s]
       /\ \A s \in GateStages : ~MetaPinsModel(s, none)
  BY DEF ResolveModel, MetaPinsModel
<1>11. /\ ResolveModelForRisk("reviewerClaude", "high", roster, tiers, none, project) = b
       /\ ResolveModelForRisk("reviewerCodex", "high", roster, tiers, none, project) = b
       /\ ResolveModelForRisk("securityReviewer", "high", roster, tiers, none, project) = b
  <2>1. /\ "reviewerClaude" \notin DOMAIN project /\ "reviewerCodex" \notin DOMAIN project
        /\ "securityReviewer" \in DOMAIN project
    BY <1>2
  <2> HIDE DEF none
  <2>2. ResolveModelForRisk("reviewerClaude", "high", roster, tiers, none, project) = b
    BY <1>4, <1>8, <1>10, <2>1 DEF ResolveModelForRisk
  <2>3. ResolveModelForRisk("reviewerCodex", "high", roster, tiers, none, project) = b
    BY <1>4, <1>8, <1>10, <2>1 DEF ResolveModelForRisk
  <2>4. ResolveModelForRisk("securityReviewer", "high", roster, tiers, none, project) = b
    BY <1>4, <1>5, <1>10, <2>1 DEF ResolveModelForRisk
  <2>5. QED BY <2>2, <2>3, <2>4
<1> HIDE DEF none
<1>12. Collapsed([s \in GateStages |-> ResolveModelForRisk(s, "high", roster, tiers, none, project)])
  BY <1>4, <1>11 DEF Collapsed
<1>13. QED BY <1>1, <1>2, <1>3, <1>9, <1>12 DEF none

-----------------------------------------------------------------------------
(* Escalation *)

\* The one retry a red gate buys is never spent on the model that just failed, is spent on
\* one model at most, and is not bought where the class already gave the strong tier.
THEOREM EscalationIsProgress ==
    ASSUME NEW stage \in RoutedStages, NEW risk \in RiskClasses, NEW tiers \in TierConfigs,
           NEW base \in Models, NEW current
    PROVE  LET raised == EscalationModel(stage, risk, tiers, base, current)
           IN /\ current \notin raised
              /\ \A m, n \in raised : m = n
              /\ RiskModelTiers(risk, stage) = "strong" => raised = {}
<1>1. \A t : \A m, n \in TierModel(stage, t, tiers, base) : m = n
  BY DEF TierModel
<1>2. TierRank["strong"] = 2 /\ TierRank["standard"] = 1
  BY DEF TierRank
<1> DEFINE raised == EscalationModel(stage, risk, tiers, base, current)
<1>3. RiskModelTiers(risk, stage) = "strong" => raised = {}
  BY <1>2 DEF EscalationModel
<1>4. \/ raised = {}
      \/ \E t : raised = TierModel(stage, t, tiers, base) \ {current}
  BY Zenon DEF EscalationModel
<1> HIDE DEF raised
<1>5. current \notin raised /\ \A m, n \in raised : m = n
  BY <1>1, <1>4
<1>6. QED BY <1>3, <1>5 DEF raised

\* But it leaves a pin behind.  A ticket's or a project's model for the fixer outranks the
\* risk tier (meta.ts 349), and the retry does not ask: with a strong model configured, a
\* red gate at medium risk runs the fixer on it, whatever the project pinned (loop.ts 1044).
THEOREM EscalationLeavesPin ==
    ASSUME NEW a \in Models, NEW b \in Models, a # b, NEW roster \in Rosters,
           NEW tiers \in TierConfigs, "strong" \in DOMAIN tiers["fixer"], tiers["fixer"]["strong"] = b,
           NEW project \in Pins, "fixer" \in DOMAIN project, project["fixer"] = a,
           NEW meta \in Pins, "fixer" \notin DOMAIN meta
    PROVE  LET base == ResolveModel("fixer", roster, meta, project)
               current == ResolveModelForRisk("fixer", "medium", roster, tiers, meta, project)
           IN current = a /\ EscalationModel("fixer", "medium", tiers, base, current) = {b}
<1>1. "fixer" \notin GateStages
  BY DEF GateStages
<1>2. ResolveModel("fixer", roster, meta, project) = a
  BY <1>1 DEF ResolveModel
<1>3. ResolveModelForRisk("fixer", "medium", roster, tiers, meta, project) = a
  BY <1>2 DEF ResolveModelForRisk
<1>4. RiskModelTiers("medium", "fixer") = "standard"
  BY <1>1 DEF RiskModelTiers
<1>5. TierModel("fixer", "strong", tiers, a) = {b}
  BY DEF TierModel
<1>6. EscalationModel("fixer", "medium", tiers, a, a) = {b}
  BY <1>4, <1>5 DEF EscalationModel, TierRank
<1>7. QED BY <1>2, <1>3, <1>6

-----------------------------------------------------------------------------
(* Cards *)

LEMMA LeastOf ==
    ASSUME NEW S \in SUBSET Nat, S # {}
    PROVE  \E n \in S : \A m \in S : n <= m
<1>1. \E n \in S : \A m \in S : ~(<<m, n>> \in OpToRel(<, Nat))
  BY WFMin, NatLessThanWellFounded
<1>2. PICK n \in S : \A m \in S : ~(<<m, n>> \in OpToRel(<, Nat))
  BY <1>1
<1>3. \A m \in S : n <= m
  <2>1. TAKE m \in S
  <2>2. m \in Nat /\ n \in Nat
    OBVIOUS
  <2>3. ~(m < n)
    BY <1>2, <2>2, Zenon DEF OpToRel
  <2>4. QED BY <2>2, <2>3
<1>4. QED BY <1>3

LEMMA TermCount ==
    ASSUME NEW match \in Seq(STRING)
    PROVE  Len(ParseTermList(match)) \in Nat /\ Len(ParseTermList(match)) <= MaxMatchTerms
<1> DEFINE kept == IF Len(match) < MaxMatchTerms THEN Len(match) ELSE MaxMatchTerms
<1>1. kept \in Nat /\ kept <= Len(match) /\ kept <= MaxMatchTerms
  BY DEF MaxMatchTerms
<1> HIDE DEF kept
<1>2. 1 \in Int /\ kept \in Int /\ \A i \in 1..kept : match[i] \in STRING
  BY <1>1
<1>3. Len(SubSeq(match, 1, kept)) = IF 1 <= kept THEN kept - 1 + 1 ELSE 0
  BY <1>2, SubSeqProperties
<1>4. ParseTermList(match) = SubSeq(match, 1, kept)
  BY DEF ParseTermList, kept
<1>5. QED BY <1>1, <1>3, <1>4 DEF MaxMatchTerms

Card == [name : Names, role : STRING, match : Seq(STRING)]

\* Among the cards that apply there is one that beats every other: the sort has a first.
LEMMA BestExists ==
    ASSUME NameOrder \in [Names -> Nat], NEW viable \in SUBSET Card, viable # {}
    PROVE  \E c \in viable : \A d \in viable : Beats(c, d)
<1> DEFINE n(c) == Len(ParseTermList(c.match))
           Gap == {MaxMatchTerms - n(c) : c \in viable}
<1>1. \A c \in viable : n(c) \in Nat /\ n(c) <= MaxMatchTerms /\ NameOrder[c.name] \in Nat
  <2>1. TAKE c \in viable
  <2>2. c.match \in Seq(STRING) /\ c.name \in Names
    BY DEF Card
  <2>3. n(c) \in Nat /\ n(c) <= MaxMatchTerms
    BY <2>2, TermCount
  <2>4. QED BY <2>2, <2>3
<1> HIDE DEF n
<1>2. Gap \in SUBSET Nat /\ Gap # {}
  BY <1>1 DEF MaxMatchTerms
<1>3. PICK gap \in Gap : \A g \in Gap : gap <= g
  BY <1>2, LeastOf
<1>4. PICK top \in viable : gap = MaxMatchTerms - n(top)
  BY <1>3
<1>5. \A d \in viable : n(d) <= n(top)
  <2>1. TAKE d \in viable
  <2>2. MaxMatchTerms - n(d) \in Gap
    OBVIOUS
  <2>3. MaxMatchTerms - n(top) <= MaxMatchTerms - n(d)
    BY <1>3, <1>4, <2>2
  <2>4. QED BY <1>1, <2>3 DEF MaxMatchTerms
<1> DEFINE tops == {c \in viable : n(c) = n(top)}
           Orders == {NameOrder[c.name] : c \in tops}
<1>6. Orders \in SUBSET Nat /\ Orders # {}
  BY <1>1
<1>7. PICK o \in Orders : \A p \in Orders : o <= p
  BY <1>6, LeastOf
<1>8. PICK c \in tops : o = NameOrder[c.name]
  BY <1>7
<1>9. \A d \in viable : n(c) > n(d) \/ (n(c) = n(d) /\ NameOrder[c.name] <= NameOrder[d.name])
  <2>1. TAKE d \in viable
  <2>2. CASE d \in tops
    <3>1. NameOrder[d.name] \in Orders
      BY <2>2
    <3>2. NameOrder[c.name] <= NameOrder[d.name]
      BY <1>7, <1>8, <3>1
    <3>3. QED BY <2>2, <3>2
  <2>3. CASE d \notin tops
    <3>1. n(d) # n(top) /\ n(d) <= n(top) /\ n(c) = n(top)
      BY <1>5, <1>8, <2>3
    <3>2. n(d) < n(c)
      BY <1>1, <1>4, <3>1
    <3>3. QED BY <1>1, <3>2
  <2>4. QED BY <2>2, <2>3
<1>10. c \in viable
  OBVIOUS
<1>11. QED BY <1>9, <1>10, Zenon DEF Beats, n

\* A stage is served by its role's default card unless a card earned it: it declares the
\* role, the role may have specialists, and every term of its that is looked at is known and
\* holds in this repository.  Whatever the cards declare, a judge is granted no tool that
\* writes, runs or delegates (routing.ts 301, 252, 83).
THEOREM SpecialistsAreEarned ==
    ASSUME NameOrder \in [Names -> Nat], NEW cards \in SUBSET Card, NEW role \in STRING,
           NEW declared, NEW facts
    PROVE  LET route == RouteStage(role, cards, declared, facts)
           IN /\ route.card # role =>
                   /\ role \in SpecialistRoles
                   /\ \E c \in cards : /\ c.name = route.card /\ c.role = role
                                       /\ Holding(c.match, facts)
              /\ role \in {"reviewer-spec", "reviewer-repo", "design-reviewer", "security-reviewer"} =>
                   \A t \in route.tools : t.base \in {"Read", "Glob", "Grep"} \/ t.arg = "git-read"
<1> DEFINE viable == IF role \in SpecialistRoles THEN Viable(role, cards, facts) ELSE {}
           card == SelectCard(role, cards, facts)
<1>1. viable \in SUBSET Card
  BY DEF Viable
<1>2. card # role => \E c \in viable : c.name = card
  <2>1. SUFFICES ASSUME card # role PROVE \E c \in viable : c.name = card
    OBVIOUS
  <2>2. viable # {} /\ card = (CHOOSE c \in viable : \A d \in viable : Beats(c, d)).name
    BY <2>1 DEF SelectCard
  <2> HIDE DEF viable, card
  <2>3. \E c \in viable : \A d \in viable : Beats(c, d)
    BY <1>1, <2>2, BestExists
  <2>4. (CHOOSE c \in viable : \A d \in viable : Beats(c, d)) \in viable
    BY <2>3
  <2>5. QED BY <2>2, <2>4
<1>3. \A c \in viable : role \in SpecialistRoles /\ c \in cards /\ c.role = role /\ Holding(c.match, facts)
  BY Zenon DEF Viable
<1>4. role \in {"reviewer-spec", "reviewer-repo", "design-reviewer", "security-reviewer"} =>
        \A t \in RoleCeilings(role) : t.base \in {"Read", "Glob", "Grep"} \/ t.arg = "git-read"
  <2>1. role \in {"reviewer-repo", "design-reviewer"} =>
          RoleCeilings(role) = Plain({"Read", "Glob", "Grep"}) \union Bash({"git-read"})
    BY DEF RoleCeilings
  <2>2. role \in {"reviewer-spec", "security-reviewer"} => RoleCeilings(role) = {}
    BY DEF RoleCeilings
  <2>3. \A t \in Plain({"Read", "Glob", "Grep"}) : t.base \in {"Read", "Glob", "Grep"}
    BY DEF Plain
  <2>4. \A t \in Bash({"git-read"}) : t.arg = "git-read"
    BY DEF Bash
  <2>5. QED BY <2>1, <2>2, <2>3, <2>4
<1>5. \A t \in ResolveTools(RoleCeilings(role), declared, card) : t \in RoleCeilings(role)
  BY Zenon DEF ResolveTools
<1> HIDE DEF viable, card
<1>6. /\ RouteStage(role, cards, declared, facts).card = card
      /\ RouteStage(role, cards, declared, facts).tools = ResolveTools(RoleCeilings(role), declared, card)
  BY DEF RouteStage, card
<1>7. QED BY <1>2, <1>3, <1>4, <1>5, <1>6

-----------------------------------------------------------------------------
(* Verdicts *)

LEMMA MostConservativeIsLeast ==
    ASSUME NEW S \in SUBSET Verdicts, S # {}
    PROVE  MostConservative(S) \in S /\ \A w \in S : VerdictRank[MostConservative(S)] <= VerdictRank[w]
<1>1. \E v \in S : \A w \in S : VerdictRank[v] <= VerdictRank[w]
  <2> VerdictRank["fail"] = 0 /\ VerdictRank["uncertain"] = 1 /\ VerdictRank["pass"] = 2
    BY DEF VerdictRank
  <2>1. CASE "fail" \in S
    BY <2>1 DEF Verdicts
  <2>2. CASE "fail" \notin S /\ "uncertain" \in S
    BY <2>2 DEF Verdicts
  <2>3. CASE "fail" \notin S /\ "uncertain" \notin S
    <3>1. S = {"pass"}
      BY <2>3 DEF Verdicts
    <3>2. QED BY <3>1
  <2>4. QED BY <2>1, <2>2, <2>3
<1>2. QED BY <1>1 DEF MostConservative

\* Once a judge's own answer is readable, the blocks its text quotes lower the resolved
\* verdict or leave it, and a pass is resolved only where no transport said anything else
\* (gate.ts 187, 270).  Where nothing of its own is readable a quoted block stands alone.
THEOREM QuotesOnlyLowerAVerdict ==
    ASSUME NEW errored \in BOOLEAN, NEW token \in Candidates, NEW structured \in Candidates,
           NEW fenced \in SUBSET Candidates, NEW quoted \in SUBSET Candidates,
           ResolveGateOutput(errored, token, structured, fenced) # "none"
    PROVE  LET before == ResolveGateOutput(errored, token, structured, fenced)
               after == ResolveGateOutput(errored, token, structured, fenced \union quoted)
           IN /\ after \in Verdicts
              /\ VerdictRank[after] <= VerdictRank[before]
              /\ after = "pass" => \A v \in {token, structured} \union fenced \union quoted : v \in {"pass", "none"}
<1> DEFINE C == ({token, structured} \union fenced) \ {"none"}
           D == ({token, structured} \union (fenced \union quoted)) \ {"none"}
<1>1. C \in SUBSET Verdicts /\ D \in SUBSET Verdicts /\ C \subseteq D
  BY DEF Candidates
<1>2. ~errored /\ C # {}
  BY DEF ResolveGateOutput
<1>3. D # {}
  BY <1>1, <1>2
<1>4. /\ ResolveGateOutput(errored, token, structured, fenced) = MostConservative(C)
      /\ ResolveGateOutput(errored, token, structured, fenced \union quoted) = MostConservative(D)
  BY <1>2, <1>3 DEF ResolveGateOutput
<1>5. /\ MostConservative(C) \in C
      /\ MostConservative(D) \in D
      /\ \A w \in D : VerdictRank[MostConservative(D)] <= VerdictRank[w]
  BY <1>1, <1>2, <1>3, MostConservativeIsLeast
<1>6. \A v \in {token, structured} \union fenced \union quoted : v = "none" \/ v \in D
  OBVIOUS
<1> HIDE DEF C, D
<1>7. VerdictRank[MostConservative(D)] <= VerdictRank[MostConservative(C)]
  BY <1>1, <1>5
<1>8. MostConservative(D) = "pass" => \A w \in D : w = "pass"
  BY <1>1, <1>5 DEF Verdicts, VerdictRank
<1>9. MostConservative(D) \in Verdicts
  BY <1>1, <1>5
<1>10. QED BY <1>4, <1>6, <1>7, <1>8, <1>9

-----------------------------------------------------------------------------
(* Gate scripts *)

\* Green means what the ladder takes it to mean: no script that passed before the change
\* fails after it, a strength other than "none" stands on a script that did run, and a
\* ratchet that says "ok" has read, for every test script that ran, a count no smaller than
\* the one before (verify.ts 204-280).  A script that was red before is not looked at.
THEOREM GreenMeansNoRegression ==
    ASSUME NEW gates \in SUBSET GateNames,
           NEW first \in [gates -> ScriptRuns], NEW second \in [gates -> ScriptRuns],
           NEW after \in [gates -> ScriptRuns]
    PROVE  LET base == Baseline(gates, first, second)
               results == Verify(gates, base, after)
           IN /\ GateSummary(results).green => \A g \in gates : base[g].ok => after[g].ok
              /\ GateSummary(results).strength # "none" => \E g \in gates : base[g].ok
              /\ TestCountRatchet(results) = "ok" =>
                   \A g \in gates \cap TestGates : base[g].ok =>
                      \E b \in base[g].testCount, n \in after[g].count : b <= n
<1> DEFINE base == Baseline(gates, first, second)
           results == Verify(gates, base, after)
<1>1. DOMAIN results = gates
  BY Zenon DEF Verify
<1>2. \A g \in gates : results[g].passed # "skipped" <=> base[g].ok
  <2> HIDE DEF base
  <2>1. QED BY DEF Verify
<1>3. \A g \in gates : base[g].ok => /\ results[g].passed = "no" <=> ~after[g].ok
                                     /\ results[g].baselineCount = base[g].testCount
                                     /\ g \in TestGates => results[g].count = after[g].count
  <2> HIDE DEF base
  <2>1. QED BY DEF Verify
<1>4. \A g \in gates : \A n \in base[g].testCount \union after[g].count : n \in Nat
  <2>1. TAKE g \in gates
  <2>2. /\ \A n \in first[g].count : n \in Nat
        /\ \A n \in second[g].count : n \in Nat
        /\ \A n \in after[g].count : n \in Nat
    BY DEF ScriptRuns
  <2>3. \A n \in base[g].testCount : n \in first[g].count \union second[g].count
    BY DEF Baseline, RunWithRetryOnError
  <2>4. QED BY <2>2, <2>3
<1> HIDE DEF base, results
<1>5. Usable(results) = {g \in gates : base[g].ok}
  BY <1>1, <1>2 DEF Usable
<1>6. GateSummary(results).green => \A g \in gates : base[g].ok => after[g].ok
  <2>1. SUFFICES ASSUME GateSummary(results).green, NEW g \in gates, base[g].ok
                 PROVE  after[g].ok
    OBVIOUS
  <2>2. Failures(results) = {}
    BY <2>1 DEF GateSummary
  <2>3. results[g].passed # "no"
    BY <1>5, <2>1, <2>2 DEF Failures
  <2>4. QED BY <1>3, <2>1, <2>3
<1>7. GateSummary(results).strength # "none" => \E g \in gates : base[g].ok
  BY <1>5 DEF GateSummary
<1>8. TestCountRatchet(results) = "ok" =>
        \A g \in gates \cap TestGates : base[g].ok => \E b \in base[g].testCount, n \in after[g].count : b <= n
  <2>1. SUFFICES ASSUME TestCountRatchet(results) = "ok", NEW g \in gates \cap TestGates, base[g].ok
                 PROVE  \E b \in base[g].testCount, n \in after[g].count : b <= n
    OBVIOUS
  <2>2. g \in Usable(results) \cap TestGates
    BY <1>5, <2>1
  <2>3. /\ ~(\E b \in results[g].baselineCount, n \in results[g].count : n < b)
        /\ results[g].baselineCount # {} /\ results[g].count # {}
    BY <2>1, <2>2 DEF TestCountRatchet
  <2>4. results[g].baselineCount = base[g].testCount /\ results[g].count = after[g].count
    BY <1>3, <2>1
  <2>5. PICK b \in base[g].testCount, n \in after[g].count : ~(n < b)
    BY <2>3, <2>4
  <2>6. b \in Nat /\ n \in Nat
    BY <1>4, <2>5
  <2>7. b <= n
    BY <2>5, <2>6
  <2>8. QED BY <2>5, <2>7
<1>9. QED BY <1>6, <1>7, <1>8 DEF base, results

-----------------------------------------------------------------------------
(* Groundskeepers. *)

Busy == tick.pc \notin {"idle", "cards"}
Undecided(i) == i > tick.i \/ (i = tick.i /\ tick.pc = "cards")

Where ==
  /\ tick.pc = "idle" => tick = NoTick
  /\ tick.pc = "cards" => tick.i \in Keepers \union {Last}
  /\ Busy => tick.i \in Keepers /\ ~tick.dirty
  /\ tick.pc # "idle" => tick.state.at = tick.at /\ tick.state.readable /\ (tick.dirty \/ ~file.readable \/ file.at = tick.at)
  /\ file.at =< clock /\ tick.at =< clock /\ tick.from =< tick.at

\* The ledger l knows every mark, and has no other.
Knows(l) == \A n \in KeeperNames :
  /\ l.last[n] # Never => <<n, l.last[n]>> \in marks
  /\ l.last[n] =< l.at
  /\ \A m \in Minutes : <<n, m>> \in marks => m =< l.last[n]
Books ==
  /\ file.readable => Knows(file)
  /\ tick.pc # "idle" => Knows(tick.state) /\ \A i \in Keepers : Undecided(i) => tick.state.last[Keeper(i).name] =< tick.from

Settled(i, to) == armed # Never => \A m \in Matched(i) : armed =< m /\ m < to => Handled(i, m)
Scanned ==
  /\ file.readable /\ (tick.pc = "idle" \/ tick.dirty) => \A i \in Keepers : Settled(i, file.at)
  /\ tick.pc # "idle" => \A i \in Keepers : Settled(i, IF Undecided(i) THEN tick.from ELSE tick.at)

Unmoved == tick.seen \ tick.moved
Watched ==
  /\ \A t \in tick.seen : board[t].lane # "none"
  /\ tick.pc \in {"piles", "serial"} => \A t \in Unmoved :
        /\ t \in SameRepo(OpenTickets) /\ (board[t].lane = "queue" => t \in tick.queue)
        /\ tick.pc = "serial" /\ t \in Attention => t \in tick.piles
  /\ tick.pc = "stage" /\ ~tick.blind => Unmoved = {}
  /\ tick.pc = "recheck" => Unmoved \subseteq Eligible(Lane("queue"))
  /\ tick.pc = "file" => \A t \in Unmoved : board[t].lane # "queue"

\* The same of the first n rows, all that a death may leave.
Upto(name, n) == {r \in RecentRows(name) : r =< n}
Blank(c, n) == c.perRun >= 0 /\ \A r \in 1..n : rows[r].card = c.name => rows[r].cost = 0
Under(c, n, spent, tries) ==
  /\ Total(Costs(c.name), n) < c.weekly + spent
  /\ Blank(c, n) => Cardinality(Upto(c.name, n)) * c.perRun < c.weekly + tries * c.perRun
Metered ==
  /\ \A n \in flushed..Len(rows) : \A i \in Keepers :
        (\E r \in 1..n : rows[r].card = Keeper(i).name) => Under(Keeper(i), n, StageCost(Keeper(i)), Tries)
  /\ tick.pc \in {"humans", "piles", "serial"} => Under(Cur, Len(rows), 0, 0)
  /\ tick.pc = "stage" => /\ Under(Cur, Len(rows), tick.spent, tick.tries)
                          /\ tick.spent =< StageCost(Cur) /\ (tick.tries = 0 => tick.spent = 0)

KInv == KeeperTypeOK /\ Where /\ Books /\ Scanned /\ Watched /\ Metered

-----------------------------------------------------------------------------
(* The operators: the next card, the newest window, the sum of the costs. *)

LEMMA Bounds ==
  /\ MaxMinute \in Nat /\ Day \in Nat /\ Week \in Nat /\ MaxTickets \in Nat \ {0} /\ Minutes \subseteq Nat /\ Never \notin Minutes
  /\ StageCeiling \in Nat \ {0} /\ Tries \in Nat \ {0} /\ Len(Files) \in Nat /\ DOMAIN Files = 1..Len(Files)
  /\ MaxDrafts \in Nat /\ MaxHuman \in Nat /\ MaxMoves \in Nat /\ MaxFaults \in Nat
BY GroundskeeperAssumption DEF Minutes, Never

LEMMA LeastExists ==
  ASSUME NEW S \in SUBSET Nat, S # {}
  PROVE  \E n \in S : \A m \in S : n =< m
<1>1. PICK n \in S : \A m \in S : ~(<<m, n>> \in OpToRel(<, Nat))
  BY WFMin, NatLessThanWellFounded
<1>2. ASSUME NEW m \in S
      PROVE  n =< m
  <2>1. m \in Nat /\ n \in Nat
    OBVIOUS
  <2>2. ~(m < n)
    BY <1>1, <2>1, Zenon DEF OpToRel
  <2> QED  BY <2>1, <2>2
<1> QED  BY <1>2

LEMMA NewestExists ==
  ASSUME NEW S \in SUBSET Minutes, S # {}
  PROVE  \E n \in S : \A m \in S : m =< n
<1> DEFINE back == {MaxMinute - m : m \in S}
<1>1. back \in SUBSET Nat /\ back # {}
  <2>1. \A m \in S : MaxMinute - m \in Nat
    BY Bounds DEF Minutes
  <2>2. PICK m \in S : TRUE
    OBVIOUS
  <2>3. MaxMinute - m \in back
    OBVIOUS
  <2> QED  BY <2>1, <2>3
<1>2. PICK b \in back : \A a \in back : b =< a
  BY <1>1, LeastExists
<1>3. PICK n \in S : b = MaxMinute - n
  OBVIOUS
<1>4. ASSUME NEW m \in S
      PROVE  m =< n
  <2>1. b =< MaxMinute - m
    BY <1>2
  <2> QED  BY <1>3, <2>1, Bounds DEF Minutes
<1> QED  BY <1>4

LEMMA KeeperFacts ==
  /\ Keepers \subseteq 1..Len(Files) /\ Last \in Nat /\ Last \notin Keepers
  /\ \A i \in Keepers : i \in Nat /\ i < Last /\ Keeper(i).name \in KeeperNames /\ Keeper(i).name \in STRING
  /\ \A i \in Keepers : Keeper(i).perRun \in Int /\ Keeper(i).weekly \in Int /\ Keeper(i).max \in Nat \ {0} /\ Keeper(i).repo \in STRING
  /\ \A i, j \in Keepers : Keeper(i).name = Keeper(j).name => i = j
<1>1. Keepers \subseteq 1..Len(Files) /\ Last \in Nat /\ Last \notin Keepers
  BY Bounds DEF Keepers, LoadGroundskeepers, Last
<1>2. ASSUME NEW i \in Keepers
      PROVE  /\ Keeper(i).name = Files[i].name
             /\ i \in Nat /\ i < Last /\ Keeper(i).name \in KeeperNames /\ Keeper(i).name \in STRING
             /\ Keeper(i).perRun \in Int /\ Keeper(i).weekly \in Int /\ Keeper(i).max \in Nat \ {0} /\ Keeper(i).repo \in STRING
  <2>1. Files[i] \in CardFiles /\ i \in Nat /\ i < Last
    BY <1>1, GroundskeeperAssumption, Bounds DEF Last
  <2> DEFINE f == Files[i]
  <2>2. f.name \in STRING /\ f.repo \in STRING /\ f.perRun \subseteq Int /\ f.weekly \subseteq Int /\ f.max \in Int
    BY <2>1 DEF CardFiles
  <2>3. OrElse(f.perRun, 6) \in Int /\ OrElse(f.weekly, 30) \in Int
    BY <2>2 DEF OrElse
  <2> QED  BY <2>1, <2>2, <2>3 DEF Keeper, ParseCard, KeeperNames
<1>3. ASSUME NEW i \in Keepers, NEW j \in Keepers, Keeper(i).name = Keeper(j).name
      PROVE  i = j
  <2>1. Files[i].name = Files[j].name /\ i \in Nat /\ j \in Nat
    BY <1>2, <1>3
  <2>2. \A a, b \in Keepers : a \in Nat /\ b \in Nat /\ b < a => Files[b].name # Files[a].name
    <3> SUFFICES ASSUME NEW a \in Keepers, NEW b \in Keepers, b < a, a \in Nat, b \in Nat
                 PROVE  Files[b].name # Files[a].name
      OBVIOUS
    <3>1. b \in 1..(a - 1)
      BY <1>1
    <3> QED  BY <3>1 DEF Keepers, LoadGroundskeepers
  <2> QED  BY <2>1, <2>2
<1> QED  BY <1>1, <1>2, <1>3

LEMMA AfterIs ==
  ASSUME NEW i \in Nat, i < Last
  PROVE  /\ After(i) \in Keepers \union {Last} /\ After(i) \in Nat /\ After(i) > i
         /\ \A j \in Keepers : j > i => After(i) =< j
<1> DEFINE S == {k \in Keepers \union {Last} : k > i}
<1>1. S \in SUBSET Nat /\ S # {}
  BY KeeperFacts, Bounds DEF Last
<1>2. PICK k \in S : \A j \in S : k =< j
  BY <1>1, LeastExists
<1>3. k \in Keepers \union {Last} /\ k > i /\ \A j \in Keepers : j > i => k =< j
  BY <1>2
<1>4. /\ After(i) \in Keepers \union {Last} /\ After(i) > i
      /\ \A j \in Keepers : j > i => After(i) =< j
  BY <1>3 DEF After
<1> QED  BY <1>4, KeeperFacts

Sums(A, f, n) == A[0] = 0 /\ \A k \in 1..n : A[k] \in Nat /\ A[k] = A[k - 1] + f[k]

LEMMA SumsExist ==
  ASSUME NEW f, NEW n \in Nat, \A k \in 1..n : f[k] \in Nat
  PROVE  \E A : A = [k \in 0..n |-> IF k = 0 THEN 0 ELSE A[k - 1] + f[k]] /\ Sums(A, f, n)
<1> DEFINE Made(m, A) == A \in [0..m -> Nat] /\ A = [k \in 0..m |-> IF k = 0 THEN 0 ELSE A[k - 1] + f[k]]
           Bad == {m \in 0..n : ~\E A : Made(m, A)}
<1>1. Bad = {}
  <2> SUFFICES ASSUME Bad # {} PROVE FALSE
    OBVIOUS
  <2>1. PICK m \in Bad : \A k \in Bad : m =< k
    <3>1. Bad \in SUBSET Nat
      OBVIOUS
    <3> HIDE DEF Bad
    <3> QED  BY <3>1, LeastExists
  <2>2. CASE m = 0
    <3>1. Made(0, [k \in 0..0 |-> 0])
      OBVIOUS
    <3> QED  BY <2>1, <2>2, <3>1
  <2>3. CASE m # 0
    <3>1. m - 1 \in 0..n /\ m - 1 \notin Bad /\ m \in Nat
      <4>1. m \in 0..n /\ m - 1 \in 0..n /\ ~(m =< m - 1)
        BY <2>3
      <4> HIDE DEF Bad
      <4> QED  BY <2>1, <4>1
    <3>2. PICK B : Made(m - 1, B)
      BY <3>1
    <3> DEFINE A == [k \in 0..m |-> IF k = m THEN B[m - 1] + f[m] ELSE B[k]]
    <3>3. B[m - 1] + f[m] \in Nat
      BY <3>1, <3>2
    <3>4. A \in [0..m -> Nat]
      BY <3>1, <3>2, <3>3
    <3>5. ASSUME NEW k \in 0..m
          PROVE  A[k] = IF k = 0 THEN 0 ELSE A[k - 1] + f[k]
      <4>1. CASE k = m
        BY <3>1, <4>1, <2>3
      <4>2. CASE k # m
        BY <3>1, <3>2, <4>2
      <4> QED  BY <4>1, <4>2
    <3>6. Made(m, A)
      BY <3>4, <3>5
    <3> QED  BY <3>6, <2>1
  <2> QED  BY <2>2, <2>3
<1>2. PICK A : Made(n, A)
  <2>1. n \in 0..n /\ n \notin Bad
    BY <1>1
  <2> QED  BY <2>1
<1>3. Sums(A, f, n)
  <2>1. A[0] = 0
    BY <1>2
  <2>2. ASSUME NEW k \in 1..n
        PROVE  A[k] \in Nat /\ A[k] = A[k - 1] + f[k]
    BY <1>2
  <2> QED  BY <2>1, <2>2 DEF Sums
<1> QED  BY <1>2, <1>3

LEMMA TotalSums ==
  ASSUME NEW f, NEW n \in Nat, \A k \in 1..n : f[k] \in Nat
  PROVE  \E A : Sums(A, f, n) /\ Total(f, n) = A[n]
<1> DEFINE s == CHOOSE A : A = [k \in 0..n |-> IF k = 0 THEN 0 ELSE A[k - 1] + f[k]]
<1>1. PICK A : A = [k \in 0..n |-> IF k = 0 THEN 0 ELSE A[k - 1] + f[k]] /\ Sums(A, f, n)
  BY SumsExist
<1>2. s = [k \in 0..n |-> IF k = 0 THEN 0 ELSE s[k - 1] + f[k]]
  BY <1>1, Zenon
<1>3. Total(f, n) = s[n]
  BY Zenon DEF Total
<1> HIDE DEF s
<1>4. \A k \in 0..n : s[k] = A[k] /\ s[k] \in Nat
  <2> DEFINE Bad == {k \in 0..n : ~(s[k] = A[k] /\ s[k] \in Nat)}
  <2> SUFFICES ASSUME Bad # {} PROVE FALSE
    OBVIOUS
  <2>1. PICK m \in Bad : \A k \in Bad : m =< k
    <3>1. Bad \in SUBSET Nat
      OBVIOUS
    <3> HIDE DEF Bad
    <3> QED  BY <3>1, LeastExists
  <2>2. s[0] = 0 /\ A[0] = 0 /\ m # 0
    BY <1>1, <1>2, <2>1 DEF Sums
  <2>3. m - 1 \in 0..n /\ m \in 1..n /\ m - 1 \notin Bad
    <3>1. m \in 0..n /\ m - 1 \in 0..n /\ ~(m =< m - 1)
      BY <2>2
    <3> HIDE DEF Bad
    <3> QED  BY <2>1, <2>2, <3>1
  <2>4. s[m - 1] = A[m - 1] /\ s[m - 1] \in Nat
    BY <2>3
  <2>5. s[m] = s[m - 1] + f[m]
    BY <1>2, <2>3
  <2>6. A[m] = A[m - 1] + f[m] /\ f[m] \in Nat
    BY <1>1, <2>3 DEF Sums
  <2> QED  BY <2>1, <2>4, <2>5, <2>6
<1> QED  BY <1>1, <1>3, <1>4

LEMMA SumsOrder ==
  ASSUME NEW f, NEW g, NEW n \in Nat, NEW A, NEW B, Sums(A, f, n), Sums(B, g, n),
         \A k \in 1..n : f[k] \in Nat /\ g[k] \in Nat /\ g[k] =< f[k]
  PROVE  \A k \in 0..n : A[k] \in Nat /\ B[k] \in Nat /\ B[k] =< A[k]
<1> DEFINE Good(k) == A[k] \in Nat /\ B[k] \in Nat /\ B[k] =< A[k]
           Bad == {k \in 0..n : ~Good(k)}
<1> SUFFICES ASSUME Bad # {} PROVE FALSE
  OBVIOUS
<1>1. PICK m \in Bad : \A k \in Bad : m =< k
  <2>1. Bad \in SUBSET Nat
    OBVIOUS
  <2> HIDE DEF Bad
  <2> QED  BY <2>1, LeastExists
<1>2. m # 0
  BY <1>1 DEF Sums
<1>3. m \in 1..n /\ m - 1 \in 0..n /\ m - 1 \notin Bad
  <2>1. m \in 0..n /\ m - 1 \in 0..n /\ ~(m =< m - 1)
    BY <1>2
  <2> HIDE DEF Bad
  <2> QED  BY <1>1, <1>2, <2>1
<1>4. A[m] \in Nat /\ A[m] = A[m - 1] + f[m] /\ B[m] \in Nat /\ B[m] = B[m - 1] + g[m]
  BY <1>3 DEF Sums
<1>5. Good(m - 1)
  BY <1>3
<1> QED  BY <1>1, <1>3, <1>4, <1>5

LEMMA TotalNat ==
  ASSUME NEW f, NEW n \in Nat, \A k \in 1..n : f[k] \in Nat
  PROVE  Total(f, n) \in Nat
<1>1. PICK A : Sums(A, f, n) /\ Total(f, n) = A[n]
  BY TotalSums
<1> QED  BY <1>1 DEF Sums

\* Fewer rows, or cheaper ones, do not add up to more.
LEMMA TotalOrder ==
  ASSUME NEW f, NEW g, NEW N \in Nat, NEW n \in 0..N, \A k \in 1..N : f[k] \in Nat,
         \A k \in 1..n : g[k] \in Nat /\ g[k] =< f[k]
  PROVE  Total(g, n) \in Nat /\ Total(f, N) \in Nat /\ Total(g, n) =< Total(f, N)
<1>1. PICK A : Sums(A, f, N) /\ Total(f, N) = A[N]
  BY TotalSums
<1>2. PICK B : Sums(B, g, n) /\ Total(g, n) = B[n]
  BY TotalSums
<1>3. B[n] =< A[n] /\ A[n] \in Nat
  <2>1. Sums(A, f, n)
    BY <1>1 DEF Sums
  <2>2. n \in Nat /\ n \in 0..n /\ \A k \in 1..n : f[k] \in Nat /\ g[k] \in Nat /\ g[k] =< f[k]
    OBVIOUS
  <2> QED  BY <1>2, <2>1, <2>2, SumsOrder
<1>4. A[n] =< A[N]
  <2> DEFINE Bad == {k \in n..N : ~(A[n] =< A[k])}
  <2> SUFFICES ASSUME Bad # {} PROVE FALSE
    OBVIOUS
  <2>1. PICK m \in Bad : \A k \in Bad : m =< k
    <3>1. Bad \in SUBSET Nat
      OBVIOUS
    <3> HIDE DEF Bad
    <3> QED  BY <3>1, LeastExists
  <2>2. m # n
    BY <1>3, <2>1
  <2>3. m \in 1..N /\ m - 1 \in n..N /\ m - 1 \notin Bad
    <3>1. m \in n..N /\ m - 1 \in n..N /\ ~(m =< m - 1)
      BY <2>2
    <3> HIDE DEF Bad
    <3> QED  BY <2>1, <2>2, <3>1
  <2>4. A[m] = A[m - 1] + f[m] /\ f[m] \in Nat /\ A[n] =< A[m - 1]
    BY <1>1, <2>3 DEF Sums
  <2>5. A[m - 1] \in Nat
    BY <1>1, <2>3 DEF Sums
  <2> QED  BY <1>3, <2>1, <2>4, <2>5
<1> QED  BY <1>1, <1>2, <1>3, <1>4, TotalNat

LEMMA TotalStep ==
  ASSUME NEW f, NEW g, NEW n \in Nat, \A k \in 1..n : f[k] \in Nat /\ g[k] = f[k], g[n + 1] \in Nat
  PROVE  Total(g, n + 1) = Total(f, n) + g[n + 1]
<1>1. PICK A : Sums(A, f, n) /\ Total(f, n) = A[n]
  BY TotalSums
<1>2. PICK B : Sums(B, g, n + 1) /\ Total(g, n + 1) = B[n + 1]
  <2>1. n + 1 \in Nat /\ \A k \in 1..(n + 1) : g[k] \in Nat
    OBVIOUS
  <2> QED  BY <2>1, TotalSums
<1>3. Sums(B, g, n) /\ B[n + 1] = B[n] + g[n + 1]
  BY <1>2 DEF Sums
<1>4. B[n] =< A[n] /\ A[n] =< B[n] /\ A[n] \in Nat /\ B[n] \in Nat
  <2>1. n \in 0..n
    OBVIOUS
  <2>2. \A k \in 1..n : f[k] \in Nat /\ g[k] \in Nat /\ g[k] =< f[k] /\ f[k] =< g[k]
    OBVIOUS
  <2>3. \A k \in 0..n : A[k] \in Nat /\ B[k] \in Nat /\ B[k] =< A[k]
    BY <1>1, <1>3, <2>2, SumsOrder
  <2>4. \A k \in 0..n : B[k] \in Nat /\ A[k] \in Nat /\ A[k] =< B[k]
    BY <1>1, <1>3, <2>2, SumsOrder
  <2> QED  BY <2>1, <2>3, <2>4
<1> QED  BY <1>1, <1>2, <1>3, <1>4

\* Rows that cost nothing add nothing.
LEMMA TotalPadded ==
  ASSUME NEW g, NEW n \in Nat, NEW m \in Nat, n =< m, \A k \in 1..m : g[k] \in Nat, \A k \in (n + 1)..m : g[k] = 0
  PROVE  Total(g, m) \in Nat /\ Total(g, n) \in Nat /\ Total(g, m) =< Total(g, n)
<1>1. PICK A : Sums(A, g, m) /\ Total(g, m) = A[m]
  BY TotalSums
<1>2. PICK B : Sums(B, g, n) /\ Total(g, n) = B[n]
  <2>1. \A k \in 1..n : g[k] \in Nat
    OBVIOUS
  <2> QED  BY <2>1, TotalSums
<1>3. A[n] =< B[n] /\ A[n] \in Nat /\ B[n] \in Nat
  <2>1. Sums(A, g, n) /\ n \in 0..n /\ \A k \in 1..n : g[k] \in Nat /\ g[k] =< g[k]
    BY <1>1 DEF Sums
  <2> QED  BY <1>2, <2>1, SumsOrder
<1> DEFINE Bad == {k \in n..m : A[k] # A[n]}
<1>4. Bad = {}
  <2> SUFFICES ASSUME Bad # {} PROVE FALSE
    OBVIOUS
  <2>1. PICK k \in Bad : \A j \in Bad : k =< j
    <3>1. Bad \in SUBSET Nat
      OBVIOUS
    <3> HIDE DEF Bad
    <3> QED  BY <3>1, LeastExists
  <2>2. k \in (n + 1)..m /\ A[k] # A[n] /\ k \in 1..m
    BY <2>1
  <2>3. k - 1 \notin Bad /\ k - 1 \in n..m
    BY <2>1, <2>2
  <2>4. A[k - 1] = A[n]
    BY <2>3
  <2>5. A[k] = A[k - 1] + g[k] /\ g[k] = 0
    BY <1>1, <2>2 DEF Sums
  <2> QED  BY <1>3, <2>2, <2>4, <2>5
<1>5. m \in n..m
  OBVIOUS
<1>6. A[m] = A[n]
  BY <1>4, <1>5
<1> QED  BY <1>1, <1>2, <1>3, <1>6

-----------------------------------------------------------------------------
(* Types. *)

Origins == Repos \union {"none", "elsewhere"}
Filed == [lane : Lanes, repo : Origins, eligible : BOOLEAN]

LEMMA NewIs == NewFile \in Ledgers /\ NoTick \in Ticks /\ NewFile.at = Never /\ NewFile.readable
BY Bounds DEF NewFile, NoTick, Ledgers, Ticks, Minutes, Never

LEMMA NextCardIs ==
  ASSUME tick \in Ticks, tick.i < Last
  PROVE  /\ NextCard \in Ticks /\ NextCard.pc = "cards" /\ NextCard.i = After(tick.i)
         /\ NextCard.from = tick.from /\ NextCard.at = tick.at /\ NextCard.state = tick.state
         /\ NextCard.dirty = tick.dirty /\ NextCard.seen = {} /\ NextCard.moved = {}
<1>1. After(tick.i) \in Nat
  BY AfterIs DEF Ticks
<1> QED  BY <1>1 DEF NextCard, Ticks

LEMMA CurIs ==
  ASSUME KeeperTypeOK, Where, Busy
  PROVE  /\ tick.i \in Keepers /\ Cur.name \in KeeperNames /\ Cur.repo \in Origins /\ Cur.max \in Nat \ {0}
         /\ Cur.perRun \in Int /\ Cur.weekly \in Int /\ tick.i < Last
BY KeeperFacts DEF Where, Cur, Origins, Repos

LEMMA AtCard ==
  ASSUME Where, tick.pc = "cards", tick.i < Last
  PROVE  tick.i \in Keepers
<1>1. tick.i \in Keepers \union {Last}
  BY DEF Where
<1>2. tick.i # Last
  BY KeeperFacts
<1> QED  BY <1>1, <1>2

LEMMA BudgetNat ==
  ASSUME NEW c, c.perRun \in Int
  PROVE  SdkBudget(c) \in Nat /\ SdkBudget(c) =< StageCost(c) /\ StageCost(c) \in Nat
         /\ SdkBudget(c) + StageCeiling - 1 = StageCost(c)
BY Bounds DEF SdkBudget, StageCost

LEMMA DueIs ==
  ASSUME NEW i \in Keepers
  PROVE  Due(i) \subseteq Windows(i) /\ Windows(i) \subseteq Minutes
BY DEF Due, Windows, Matched

LEMMA PendingIs ==
  ASSUME NEW i
  PROVE  PendingAfter(i) \subseteq KeeperNames \X Minutes /\ \A c \in Keepers : Pending(c) \subseteq KeeperNames \X Minutes
<1>1. ASSUME NEW c \in Keepers
      PROVE  Pending(c) \subseteq KeeperNames \X Minutes
  BY <1>1, DueIs, KeeperFacts DEF Pending
<1> QED  BY <1>1 DEF PendingAfter

LEMMA FreeIs ==
  ASSUME Lane("none") # {}
  PROVE  FreeTicket \in Tickets /\ board[FreeTicket].lane = "none"
<1>1. PICK t \in Lane("none") : \A u \in Lane("none") : t =< u
  <2>1. Lane("none") \in SUBSET Nat
    BY Bounds DEF Lane, Tickets
  <2> QED  BY <2>1, LeastExists
<1>2. FreeTicket \in Lane("none")
  BY <1>1 DEF FreeTicket
<1> QED  BY <1>2 DEF Lane

StageRows == [card : KeeperNames, at : Minutes, cost : Nat]

LEMMA Typed ==
  ASSUME KeeperTypeOK
  PROVE  /\ clock \in Minutes /\ file \in Ledgers /\ tick \in Ticks /\ vetoed \subseteq KeeperNames
         /\ pipeline \in Minutes \union {Never} /\ armed \in Minutes \union {Never}
         /\ rows \in Seq(StageRows) /\ flushed \in 0..Len(rows) /\ board \in [Tickets -> Filed]
         /\ marks \subseteq KeeperNames \X Minutes /\ passed \subseteq KeeperNames \X Minutes /\ lost \subseteq KeeperNames \X Minutes
         /\ human \in Nat /\ moves \in Nat /\ faults \in Nat
BY DEF KeeperTypeOK, Filed, Origins, StageRows

LEMMA Whole ==
  ASSUME KeeperTypeOK
  PROVE  /\ clock \in Nat /\ file.at \in Minutes \union {Never} /\ file.at \in Int
         /\ tick.i \in Nat /\ tick.from \in Int /\ tick.at \in Minutes /\ tick.at \in Nat /\ tick.state \in Ledgers
<1>1. file.at \in Minutes \union {Never} /\ tick.i \in Nat /\ tick.from \in Int /\ tick.at \in Minutes /\ tick.state \in Ledgers
  BY Typed DEF Ledgers, Ticks
<1>2. \A m \in Minutes : m \in Nat
  BY Bounds
<1>3. Never \in Int
  BY DEF Never
<1> QED  BY <1>1, <1>2, <1>3, Typed

LEMMA Retyped ==
  ASSUME clock' \in Minutes, file' \in Ledgers, tick' \in Ticks, vetoed' \subseteq KeeperNames,
         pipeline' \in Minutes \union {Never}, armed' \in Minutes \union {Never},
         rows' \in Seq(StageRows), flushed' \in 0..Len(rows'), board' \in [Tickets -> Filed],
         marks' \subseteq KeeperNames \X Minutes, passed' \subseteq KeeperNames \X Minutes, lost' \subseteq KeeperNames \X Minutes,
         human' \in Nat, moves' \in Nat, faults' \in Nat
  PROVE  KeeperTypeOK'
BY DEF KeeperTypeOK, Filed, Origins, StageRows

LEMMA FaultIs ==
  ASSUME faults \in Nat, Fault \/ UNCHANGED faults
  PROVE  faults' \in Nat
BY DEF Fault

LEMMA BoardSet ==
  ASSUME NEW b \in [Tickets -> Filed], NEW t \in Tickets, NEW r \in Filed
  PROVE  [b EXCEPT ![t] = r] \in [Tickets -> Filed]
OBVIOUS

LEMMA FiledIs ==
  /\ NoTicket \in Filed
  /\ \A l \in Lanes : [NoTicket EXCEPT !.lane = l] \in Filed
  /\ \A l \in Lanes, r \in Filed : [r EXCEPT !.lane = l] \in Filed
  /\ \A l \in Lanes, p \in Origins, e \in BOOLEAN : [lane |-> l, repo |-> p, eligible |-> e] \in Filed
<1>1. "none" \in Lanes
  BY DEF Lanes
<1>2. NoTicket \in Filed
  <2>1. "none" \in Origins
    BY DEF Origins
  <2> QED  BY <1>1, <2>1 DEF NoTicket, Filed
<1>3. \A l \in Lanes, r \in Filed : [r EXCEPT !.lane = l] \in Filed
  BY DEF Filed
<1>4. \A l \in Lanes, p \in Origins, e \in BOOLEAN : [lane |-> l, repo |-> p, eligible |-> e] \in Filed
  BY DEF Filed
<1> QED  BY <1>2, <1>3, <1>4

LEMMA InitTypes == KeeperInit => KeeperTypeOK
<1> SUFFICES ASSUME KeeperInit PROVE KeeperTypeOK
  OBVIOUS
<1>1. board \in [Tickets -> Filed]
  <2>1. board = [t \in Tickets |-> NoTicket]
    BY DEF KeeperInit
  <2> QED  BY <2>1, FiledIs
<1>2. rows = << >> /\ Len(rows) = 0 /\ flushed = 0 /\ rows \in Seq(StageRows)
  BY DEF KeeperInit
<1>3. clock \in Minutes /\ file \in Ledgers /\ tick \in Ticks /\ vetoed \subseteq KeeperNames
  BY NewIs, Bounds DEF KeeperInit, Minutes
<1>4. pipeline \in Minutes \union {Never} /\ armed \in Minutes \union {Never} /\ {human, moves, faults} \subseteq Nat
      /\ (marks \union passed \union lost) \subseteq KeeperNames \X Minutes
  BY DEF KeeperInit
<1>5. flushed \in 0..Len(rows)
  BY <1>2
<1> QED  BY <1>1, <1>2, <1>3, <1>4, <1>5 DEF KeeperTypeOK, Filed, Origins, StageRows

LEMMA ScanTypes ==
  ASSUME KeeperTypeOK, Where, TickBegin \/ NotDue \/ PassOver \/ Mark \/ TickEnd
  PROVE  KeeperTypeOK'
<1>1. CASE TickBegin
  <2>1. After(0) \in Nat
    <3>1. 0 \in Nat /\ 0 < Last
      BY Bounds DEF Last
    <3> QED  BY <3>1, AfterIs
  <2>0. clock' \in Minutes /\ vetoed' \subseteq KeeperNames /\ pipeline' \in Minutes \union {Never}
        /\ rows' \in Seq(StageRows) /\ flushed' \in 0..Len(rows') /\ board' \in [Tickets -> Filed]
        /\ human' \in Nat /\ moves' \in Nat /\ faults' \in Nat
    <3>1. rows' = rows /\ flushed' = Len(rows) /\ Len(rows) \in Nat
      BY <1>1, Typed DEF TickBegin, Flush
    <3>2. UNCHANGED <<clock, vetoed, pipeline, board, human, moves, faults>>
      BY <1>1 DEF TickBegin
    <3> QED  BY <3>1, <3>2, Typed
  <2>2. CASE file.readable
    <3>1. ScanFrom(file.at) \in Int
      BY <2>2, Typed, Bounds DEF ScanFrom, Ledgers, Minutes, Never
    <3>2. [file EXCEPT !.at = clock] \in Ledgers
      BY Typed DEF Ledgers
    <3>3. tick' \in Ticks
      <4>1. PICK s \in Ledgers : s = [file EXCEPT !.at = clock]
        BY <3>2
      <4>2. tick' = [NoTick EXCEPT !.pc = "cards", !.i = After(0), !.from = ScanFrom(file.at), !.at = clock,
                                    !.state = s, !.dirty = TRUE]
        BY <1>1, <2>2, <4>1 DEF TickBegin
      <4> QED  BY <2>1, <3>1, <4>2, NewIs, Typed DEF Ticks
    <3>4. TooOld \subseteq KeeperNames \X Minutes
      BY KeeperFacts DEF TooOld
    <3>5. armed' \in Minutes \union {Never} /\ lost' = lost \union TooOld /\ UNCHANGED <<file, marks, passed>>
      BY <1>1, <2>2, Typed DEF TickBegin
    <3> QED  BY <2>0, <3>3, <3>4, <3>5, Typed, Retyped
  <2>3. CASE ~file.readable
    <3>1. file' = NewFile /\ armed' = Never /\ marks' = {} /\ passed' = {} /\ lost' = {} /\ UNCHANGED tick
      BY <1>1, <2>3 DEF TickBegin
    <3> QED  BY <2>0, <3>1, NewIs, Typed, Retyped
  <2> QED  BY <2>2, <2>3
<1>2. CASE NotDue
  <2>1. tick' \in Ticks
    BY <1>2, NextCardIs, Typed DEF NotDue
  <2>2. UNCHANGED <<clock, file, vetoed, pipeline, rows, flushed, board, armed, marks, passed, lost, human, moves, faults>>
    BY <1>2 DEF NotDue
  <2> QED  BY <2>1, <2>2, Typed, Retyped
<1>3. CASE PassOver
  <2>1. tick.i \in Keepers
    BY <1>3, AtCard DEF PassOver
  <2>2. tick' \in Ticks
    BY <1>3, Typed, NextCardIs DEF PassOver
  <2>3. faults' \in Nat
    BY <1>3, Typed, FaultIs DEF PassOver
  <2>4. passed' = passed \union Pending(tick.i)
        /\ UNCHANGED <<clock, file, vetoed, pipeline, rows, flushed, board, armed, marks, lost, human, moves>>
    BY <1>3 DEF PassOver
  <2> QED  BY <2>1, <2>2, <2>3, <2>4, PendingIs, Typed, Retyped
<1>4. CASE Mark
  <2>1. tick.i \in Keepers /\ Cur.name \in KeeperNames
    <3>1. tick.i \in Keepers
      BY <1>4, AtCard DEF Mark
    <3> QED  BY <3>1, KeeperFacts DEF Cur
  <2>2. PICK bucket \in Due(tick.i) :
           \/ /\ tick' = [tick EXCEPT !.pc = "budget", !.state = MarkedState(bucket), !.dirty = FALSE]
              /\ file' = MarkedState(bucket) /\ marks' = marks \union {<<Cur.name, bucket>>}
              /\ UNCHANGED lost
           \/ tick' = NoTick /\ CutOff(tick.i - 1) /\ UNCHANGED <<file, marks>>
    BY <1>4 DEF Mark
  <2>3. bucket \in Minutes
    BY <2>1, <2>2, DueIs
  <2>4. faults' \in Nat
    <3>1. Fault \/ UNCHANGED faults
      BY <1>4 DEF Mark
    <3> QED  BY <3>1, Typed, FaultIs
  <2>7. UNCHANGED <<clock, vetoed, pipeline, rows, flushed, board, armed, passed, human, moves>>
    BY <1>4 DEF Mark
  <2>5. CASE /\ tick' = [tick EXCEPT !.pc = "budget", !.state = MarkedState(bucket), !.dirty = FALSE]
             /\ file' = MarkedState(bucket) /\ marks' = marks \union {<<Cur.name, bucket>>} /\ UNCHANGED lost
    <3>1. MarkedState(bucket) \in Ledgers
      <4>1. tick.state \in Ledgers /\ tick.at \in Minutes
        BY Typed DEF Ticks
      <4> QED  BY <2>1, <2>3, <4>1 DEF MarkedState, Ledgers
    <3>2. tick' \in Ticks
      <4>1. PICK s \in Ledgers : s = MarkedState(bucket)
        BY <3>1
      <4>2. tick' = [tick EXCEPT !.pc = "budget", !.state = s, !.dirty = FALSE]
        BY <2>5, <4>1
      <4> QED  BY <4>2, Typed DEF Ticks
    <3>3. <<Cur.name, bucket>> \in KeeperNames \X Minutes
      BY <2>1, <2>3
    <3> QED  BY <2>4, <2>5, <2>7, <3>1, <3>2, <3>3, Typed, Retyped
  <2>6. CASE tick' = NoTick /\ CutOff(tick.i - 1) /\ UNCHANGED <<file, marks>>
    <3>1. lost' \subseteq KeeperNames \X Minutes
      BY <2>6, PendingIs, Typed DEF CutOff
    <3> QED  BY <2>4, <2>6, <2>7, <3>1, NewIs, Typed, Retyped
  <2> QED  BY <2>2, <2>5, <2>6
<1>5. CASE TickEnd
  <2>1. tick' = NoTick /\ (file' = tick.state \/ file' = file) /\ (Fault \/ UNCHANGED faults)
        /\ UNCHANGED <<clock, vetoed, pipeline, rows, flushed, board, armed, marks, passed, lost, human, moves>>
    BY <1>5 DEF TickEnd
  <2>2. tick.state \in Ledgers
    BY Typed DEF Ticks
  <2> QED  BY <2>1, <2>2, NewIs, FaultIs, Typed, Retyped
<1> QED  BY <1>1, <1>2, <1>3, <1>4, <1>5

LEMMA GateTypes ==
  ASSUME KeeperTypeOK, Where, Budget \/ Humans \/ Piles \/ Serial \/ Workspace
  PROVE  KeeperTypeOK'
<1>1. NextCard \in Ticks
  <2>1. Busy
    BY DEF Busy, Budget, Humans, Piles, Serial, Workspace
  <2> QED  BY <2>1, CurIs, NextCardIs, Typed
<1>2. Lane("queue") \subseteq Tickets /\ SameRepo(OpenTickets) \subseteq Tickets /\ Attention \subseteq Tickets
  BY DEF Lane, SameRepo, OpenTickets, Attention
<1>3. faults' \in Nat
  <2>1. Fault \/ UNCHANGED faults
    BY DEF Budget, Humans, Piles, Serial, Workspace
  <2> QED  BY <2>1, Typed, FaultIs
<1>4. UNCHANGED <<clock, file, vetoed, pipeline, rows, board, armed, marks, passed, lost, human, moves>>
      /\ flushed' \in {flushed, Len(rows)}
  BY DEF Budget, Humans, Piles, Serial, Workspace, Flush
<1>5. flushed' \in 0..Len(rows')
  <2>1. Len(rows) \in Nat /\ flushed \in 0..Len(rows)
    BY Typed
  <2> QED  BY <1>4, <2>1
<1>6. tick' \in Ticks
  <2>1. \/ tick' = NextCard
        \/ tick' = [tick EXCEPT !.pc = "humans"]
        \/ tick' = [tick EXCEPT !.pc = "piles", !.queue = Lane("queue"), !.seen = SameRepo(OpenTickets)]
        \/ tick' = [tick EXCEPT !.pc = "serial", !.piles = Attention]
        \/ \E b \in BOOLEAN : tick' = [tick EXCEPT !.pc = "stage", !.queue = {}, !.piles = {}, !.tries = 0, !.spent = 0,
                                                   !.blind = b]
    BY DEF Budget, Humans, Piles, Serial, Workspace, Refused
  <2>2. [tick EXCEPT !.pc = "humans"] \in Ticks
    BY Typed DEF Ticks
  <2>3. [tick EXCEPT !.pc = "piles", !.queue = Lane("queue"), !.seen = SameRepo(OpenTickets)] \in Ticks
    BY <1>2, Typed DEF Ticks
  <2>4. [tick EXCEPT !.pc = "serial", !.piles = Attention] \in Ticks
    BY <1>2, Typed DEF Ticks
  <2>5. \A b \in BOOLEAN : [tick EXCEPT !.pc = "stage", !.queue = {}, !.piles = {}, !.tries = 0, !.spent = 0, !.blind = b] \in Ticks
    <3>1. 0 \in 0..Tries
      BY Bounds
    <3> QED  BY <3>1, Typed DEF Ticks
  <2> QED  BY <1>1, <2>1, <2>2, <2>3, <2>4, <2>5
<1> QED  BY <1>3, <1>4, <1>5, <1>6, Typed, Retyped

LEMMA RunTypes ==
  ASSUME KeeperTypeOK, Where, Try \/ StageEnd \/ Recheck \/ FileTicket
  PROVE  KeeperTypeOK'
<1>1. tick.i \in Keepers /\ Cur.name \in KeeperNames /\ Cur.repo \in Origins /\ Cur.max \in Nat \ {0} /\ Cur.perRun \in Int
  <2>1. Busy
    BY DEF Busy, Try, StageEnd, Recheck, FileTicket
  <2> QED  BY <2>1, CurIs
<1>2. faults' \in Nat
  <2>1. Fault \/ UNCHANGED faults
    BY DEF Try, StageEnd, Recheck, FileTicket
  <2> QED  BY <2>1, Typed, FaultIs
<1>3. UNCHANGED <<clock, file, vetoed, pipeline, flushed, armed, marks, lost, human, moves>>
  BY DEF Try, StageEnd, Recheck, FileTicket
<1>4. passed' \subseteq KeeperNames \X Minutes
  <2>1. UNCHANGED passed \/ passed' = passed \union PendingAfter(tick.i)
    BY DEF Try, StageEnd, Recheck, FileTicket, EndRun
  <2> QED  BY <2>1, Typed, PendingIs
<1>5. CASE Try
  <2>1. PICK cost \in 0..SdkBudget(Cur) :
           /\ rows' = Append(rows, [card |-> Cur.name, at |-> clock, cost |-> cost])
           /\ tick' = [tick EXCEPT !.tries = @ + 1, !.spent = @ + cost]
    BY <1>5 DEF Try
  <2>2. cost \in Nat /\ [card |-> Cur.name, at |-> clock, cost |-> cost] \in StageRows
    <3>1. cost \in Nat
      BY <1>1, BudgetNat
    <3> QED  BY <1>1, <3>1, Typed DEF StageRows
  <2>3. rows' \in Seq(StageRows) /\ Len(rows') = Len(rows) + 1 /\ Len(rows) \in Nat
    BY <2>1, <2>2, Typed
  <2>4. tick' \in Ticks
    <3>1. tick.tries + 1 \in 0..Tries /\ tick.spent + cost \in Nat
      <4>1. tick.tries < Tries
        BY <1>5 DEF Try
      <4>2. tick.tries \in 0..Tries /\ tick.spent \in Nat
        BY Typed DEF Ticks
      <4> QED  BY <2>2, <4>1, <4>2, Bounds
    <3> QED  BY <2>1, <3>1, Typed DEF Ticks
  <2>5. flushed' \in 0..Len(rows')
    BY <1>3, <2>3, Typed
  <2>6. board' = board
    BY <1>5 DEF Try
  <2> QED  BY <1>2, <1>3, <1>4, <2>3, <2>4, <2>5, <2>6, Typed, Retyped
<1>6. CASE StageEnd
  <2>1. tick' \in Ticks
    <3>1. \/ tick' = NoTick
          \/ \E drafts \in 1..MaxDrafts :
               tick' = [tick EXCEPT !.pc = "recheck", !.left = IF drafts < Cur.max THEN drafts ELSE Cur.max,
                                    !.seen = Eligible(Lane("queue")), !.moved = {}, !.tries = 0, !.spent = 0]
      BY <1>6 DEF StageEnd, EndRun
    <3>2. ASSUME NEW left \in Nat
          PROVE  [tick EXCEPT !.pc = "recheck", !.left = left,
                              !.seen = Eligible(Lane("queue")), !.moved = {}, !.tries = 0, !.spent = 0] \in Ticks
      <4>1. 0 \in 0..Tries /\ Eligible(Lane("queue")) \subseteq Tickets
        BY Bounds DEF Eligible, Lane
      <4> QED  BY <4>1, Typed DEF Ticks
    <3>3. \A drafts \in 1..MaxDrafts : (IF drafts < Cur.max THEN drafts ELSE Cur.max) \in Nat
      BY <1>1, Bounds
    <3> QED  BY <3>1, <3>2, <3>3, NewIs
  <2>2. UNCHANGED <<rows, board>>
    BY <1>6 DEF StageEnd
  <2> QED  BY <1>2, <1>3, <1>4, <2>1, <2>2, Typed, Retyped
<1>7. CASE Recheck
  <2>1. tick' = NoTick \/ tick' = [tick EXCEPT !.pc = "file"]
    BY <1>7 DEF Recheck, EndRun
  <2>2. [tick EXCEPT !.pc = "file"] \in Ticks
    BY Typed DEF Ticks
  <2>3. UNCHANGED <<rows, board>>
    BY <1>7 DEF Recheck
  <2> QED  BY <1>2, <1>3, <1>4, <2>1, <2>2, <2>3, NewIs, Typed, Retyped
<1>8. CASE FileTicket
  <2>1. tick' \in Ticks
    <3>1. tick' = NoTick \/ (tick.left > 1 /\ tick' = [tick EXCEPT !.left = @ - 1])
      BY <1>8 DEF FileTicket, EndRun
    <3>2. tick.left > 1 => [tick EXCEPT !.left = @ - 1] \in Ticks
      <4>1. tick.left > 1 => tick.left - 1 \in Nat
        BY Typed DEF Ticks
      <4> QED  BY <4>1, Typed DEF Ticks
    <3> QED  BY <3>1, <3>2, NewIs
  <2>2. board' \in [Tickets -> Filed]
    <3>1. \/ board' = board
          \/ Lane("none") # {} /\ \E eligible \in BOOLEAN :
                board' = [board EXCEPT ![FreeTicket] = [lane |-> "queue", repo |-> Cur.repo, eligible |-> eligible]]
      BY <1>8 DEF FileTicket
    <3>2. "queue" \in Lanes
      BY DEF Lanes
    <3>3. \A e \in BOOLEAN : [lane |-> "queue", repo |-> Cur.repo, eligible |-> e] \in Filed
      BY <1>1, <3>2, FiledIs
    <3> QED  BY <3>1, <3>3, FreeIs, BoardSet, Typed
  <2>3. UNCHANGED rows
    BY <1>8 DEF FileTicket
  <2> QED  BY <1>2, <1>3, <1>4, <2>1, <2>2, <2>3, Typed, Retyped
<1> QED  BY <1>5, <1>6, <1>7, <1>8

LEMMA CountsTyped ==
  ASSUME KeeperTypeOK, Pass \/ Arrive \/ Veto \/ Move \/ Damage \/ DaemonCrash
  PROVE  human' \in Nat /\ moves' \in Nat /\ faults' \in Nat
<1>1. (Fault \/ UNCHANGED faults) /\ human' \in {human, human + 1} /\ moves' \in {moves, moves + 1}
  BY DEF Pass, Arrive, Veto, Move, Damage, DaemonCrash
<1>2. faults' \in Nat
  BY <1>1, Typed, FaultIs
<1> QED  BY <1>1, <1>2, Typed

LEMMA MoveIs ==
  ASSUME KeeperTypeOK, Move
  PROVE  \E t \in OpenTickets : \E to \in Lanes :
            /\ to \in Onward[board[t].lane] /\ t \in Tickets /\ to # "none"
            /\ board' = [board EXCEPT ![t] = IF to = "closed" THEN [NoTicket EXCEPT !.lane = to] ELSE [board[t] EXCEPT !.lane = to]]
            /\ tick' = [tick EXCEPT !.moved = IF tick.seen = {} THEN {} ELSE @ \union {t}]
<1>1. PICK t \in OpenTickets, to \in Lanes :
            /\ to \in Onward[board[t].lane]
            /\ board' = [board EXCEPT ![t] = IF to = "closed" THEN [NoTicket EXCEPT !.lane = to] ELSE [board[t] EXCEPT !.lane = to]]
            /\ tick' = [tick EXCEPT !.moved = IF tick.seen = {} THEN {} ELSE @ \union {t}]
  <2>1. PICK t \in OpenTickets : \E to \in Onward[board[t].lane] :
            /\ board' = [board EXCEPT ![t] = IF to = "closed" THEN [NoTicket EXCEPT !.lane = to] ELSE [@ EXCEPT !.lane = to]]
            /\ tick' = [tick EXCEPT !.moved = IF tick.seen = {} THEN {} ELSE @ \union {t}]
    BY DEF Move
  <2>2. t \in Tickets /\ board[t].lane \in {"queue", "executing", "review", "parked", "needs_human"}
    <3>1. t \in Tickets /\ board[t] \in Filed /\ board[t].lane \notin {"none", "closed"}
      BY Typed DEF OpenTickets
    <3> QED  BY <3>1 DEF Filed, Lanes
  <2>3. Onward[board[t].lane] \subseteq Lanes
    BY <2>2 DEF Onward, Lanes
  <2> QED  BY <2>1, <2>2, <2>3, Typed
<1>2. t \in Tickets /\ board[t].lane \in {"queue", "executing", "review", "parked", "needs_human"}
  <2>1. t \in Tickets /\ board[t] \in Filed /\ board[t].lane \notin {"none", "closed"}
    BY Typed DEF OpenTickets
  <2> QED  BY <2>1 DEF Filed, Lanes
<1>3. to # "none"
  BY <1>1, <1>2 DEF Onward
<1> QED  BY <1>1, <1>2, <1>3

LEMMA BesideTypes ==
  ASSUME KeeperTypeOK, Where, Pass \/ Arrive \/ Veto \/ Move \/ Damage \/ DaemonCrash
  PROVE  KeeperTypeOK'
<1>1. human' \in Nat /\ moves' \in Nat /\ faults' \in Nat
  BY CountsTyped
<1>2. CASE Pass
  <2>1. clock' \in Minutes
    BY <1>2, Typed, Bounds DEF Pass, Minutes
  <2>2. UNCHANGED <<file, tick, vetoed, pipeline, rows, flushed, board, armed, marks, passed, lost>>
    BY <1>2 DEF Pass
  <2> QED  BY <1>1, <2>1, <2>2, Typed, Retyped
<1>3. CASE Arrive
  <2>1. PICK repo \in Repos \union {"elsewhere"}, eligible \in BOOLEAN :
          board' = [board EXCEPT ![FreeTicket] = [lane |-> "queue", repo |-> repo, eligible |-> eligible]]
    BY <1>3 DEF Arrive
  <2>2. repo \in Origins /\ "queue" \in Lanes
    BY DEF Lanes, Origins
  <2>3. board' \in [Tickets -> Filed]
    <3>1. FreeTicket \in Tickets
      BY <1>3, FreeIs DEF Arrive
    <3> QED  BY <2>1, <2>2, <3>1, FiledIs, BoardSet, Typed
  <2>4. UNCHANGED <<clock, file, tick, vetoed, pipeline, rows, flushed, armed, marks, passed, lost>>
    BY <1>3 DEF Arrive
  <2> QED  BY <1>1, <2>3, <2>4, Typed, Retyped
<1>4. CASE Veto
  <2>1. vetoed' \subseteq KeeperNames
    BY <1>4, Typed DEF Veto
  <2>2. UNCHANGED <<clock, file, tick, pipeline, rows, flushed, board, armed, marks, passed, lost>>
    BY <1>4 DEF Veto
  <2> QED  BY <1>1, <2>1, <2>2, Typed, Retyped
<1>5. CASE Move
  <2>1. PICK t \in Tickets, to \in Lanes :
           /\ board' = [board EXCEPT ![t] = IF to = "closed" THEN [NoTicket EXCEPT !.lane = to] ELSE [board[t] EXCEPT !.lane = to]]
           /\ tick' = [tick EXCEPT !.moved = IF tick.seen = {} THEN {} ELSE @ \union {t}]
    BY <1>5, MoveIs
  <2>2. board' \in [Tickets -> Filed]
    <3>1. (IF to = "closed" THEN [NoTicket EXCEPT !.lane = to] ELSE [board[t] EXCEPT !.lane = to]) \in Filed
      BY FiledIs, Typed
    <3> QED  BY <2>1, <3>1, BoardSet, Typed
  <2>3. tick' \in Ticks
    <3>1. (IF tick.seen = {} THEN {} ELSE tick.moved \union {t}) \in SUBSET Tickets
      BY Typed DEF Ticks
    <3> QED  BY <2>1, <3>1, Typed DEF Ticks
  <2>4. pipeline' \in Minutes \union {Never} /\ UNCHANGED <<clock, file, vetoed, rows, flushed, armed, marks, passed, lost>>
    BY <1>5, Typed DEF Move
  <2> QED  BY <1>1, <2>2, <2>3, <2>4, Typed, Retyped
<1>6. CASE Damage
  <2>1. file' \in Ledgers
    BY <1>6, NewIs DEF Damage, Ledgers
  <2>2. UNCHANGED <<clock, tick, vetoed, pipeline, rows, flushed, board, armed, marks, passed, lost>>
    BY <1>6 DEF Damage
  <2> QED  BY <1>1, <2>1, <2>2, Typed, Retyped
<1>7. CASE DaemonCrash
  <2>1. lost' \subseteq KeeperNames \X Minutes
    BY <1>7, Typed, PendingIs DEF DaemonCrash, CutOff
  <2>2. PICK written \in flushed..Len(rows) : rows' = SubSeq(rows, 1, written) /\ flushed' = written
    BY <1>7 DEF DaemonCrash
  <2>3. rows' \in Seq(StageRows) /\ Len(rows') = written
    BY <2>2, Typed, SubSeqProperties
  <2>4. flushed' \in 0..Len(rows')
    BY <2>2, <2>3, Typed
  <2>5. tick' = NoTick /\ UNCHANGED <<clock, file, vetoed, pipeline, board, armed, marks, passed>>
    BY <1>7 DEF DaemonCrash
  <2> QED  BY <1>1, <2>1, <2>3, <2>4, <2>5, NewIs, Typed, Retyped
<1> QED  BY <1>2, <1>3, <1>4, <1>5, <1>6, <1>7

LEMMA NextTypes ==
  ASSUME KeeperTypeOK, Where, [KeeperNext]_keeperVars
  PROVE  KeeperTypeOK'
<1>1. CASE KeeperNext
  BY <1>1, ScanTypes, GateTypes, RunTypes, BesideTypes DEF KeeperNext
<1>2. CASE UNCHANGED keeperVars
  BY <1>2 DEF keeperVars, KeeperTypeOK
<1> QED  BY <1>1, <1>2

-----------------------------------------------------------------------------
(* The course of a tick: what it leaves behind. *)

Kept == UNCHANGED <<armed, marks>> /\ passed \subseteq passed' /\ lost \subseteq lost'

\* A step within a card, or beside the tick.
SameCourse ==
  /\ tick'.i = tick.i /\ tick'.from = tick.from /\ tick'.at = tick.at /\ tick'.state = tick.state /\ tick'.dirty = tick.dirty
  /\ (tick'.pc = "cards") <=> (tick.pc = "cards")
  /\ IF tick.pc = "idle" THEN tick' = tick ELSE tick'.pc # "idle"
  /\ Kept /\ UNCHANGED file /\ clock =< clock'

CardLeft ==
  /\ tick' = NextCard /\ tick.pc # "idle" /\ tick.i \in Keepers
  /\ Kept /\ UNCHANGED <<file, clock>>
  /\ Busy \/ Due(tick.i) = {} \/ Pending(tick.i) \subseteq passed'

TickOver ==
  /\ tick' = NoTick /\ tick.pc # "idle" /\ Kept /\ UNCHANGED clock
  /\ \/ file' = file /\ (tick.dirty \/ \A i \in Keepers : Undecided(i) => Pending(i) \subseteq passed' \union lost')
     \/ file' = tick.state /\ \A i \in Keepers : ~Undecided(i)

Begun == TickBegin /\ file.readable
Renewed == TickBegin /\ ~file.readable
Marked == \E bucket \in Due(tick.i) :
  /\ tick.pc = "cards" /\ tick.i \in Keepers
  /\ tick' = [tick EXCEPT !.pc = "budget", !.state = MarkedState(bucket), !.dirty = FALSE]
  /\ file' = MarkedState(bucket) /\ marks' = marks \union {<<Cur.name, bucket>>} /\ UNCHANGED <<lost, passed, armed, clock>>

LEMMA CutOffIs ==
  ASSUME NEW i, CutOff(i)
  PROVE  lost \subseteq lost' /\ (~tick.dirty => PendingAfter(i) \subseteq lost')
BY DEF CutOff

LEMMA AfterCovers ==
  ASSUME NEW i, NEW c \in Keepers, c > i
  PROVE  Pending(c) \subseteq PendingAfter(i)
BY DEF PendingAfter

LEMMA UndecidedIs ==
  ASSUME KeeperTypeOK, NEW c \in Keepers, Undecided(c)
  PROVE  c > (IF tick.pc = "cards" THEN tick.i - 1 ELSE tick.i)
<1>1. tick.i \in Nat /\ c \in Nat
  BY Typed, KeeperFacts DEF Ticks
<1> QED  BY <1>1 DEF Undecided

LEMMA EndRunOver ==
  ASSUME KeeperTypeOK, Where, Busy, EndRun, UNCHANGED <<clock, file, marks, armed, lost>>
  PROVE  TickOver
<1>1. \A c \in Keepers : Undecided(c) => Pending(c) \subseteq passed'
  <2>1. ASSUME NEW c \in Keepers, Undecided(c)
        PROVE  Pending(c) \subseteq passed'
    <3>1. c > tick.i
      BY <2>1 DEF Undecided, Busy
    <3> QED  BY <3>1, AfterCovers DEF EndRun
  <2> QED  BY <2>1
<1> QED  BY <1>1 DEF EndRun, TickOver, Kept, Busy

LEMMA ScanCourse ==
  ASSUME KeeperTypeOK, Where, NotDue \/ PassOver \/ Mark \/ TickEnd
  PROVE  CardLeft \/ TickOver \/ Marked
<1>1. CASE NotDue
  <2>1. tick.i \in Keepers
    BY <1>1, AtCard DEF NotDue
  <2> QED  BY <1>1, <2>1 DEF NotDue, CardLeft, Kept
<1>2. CASE PassOver
  <2>1. tick.i \in Keepers
    BY <1>2, AtCard DEF PassOver
  <2> QED  BY <1>2, <2>1 DEF PassOver, CardLeft, Kept
<1>3. CASE Mark
  <2>1. tick.i \in Keepers /\ tick.pc = "cards"
    BY <1>3, AtCard DEF Mark
  <2>2. UNCHANGED <<clock, passed, armed>>
    BY <1>3 DEF Mark
  <2>3. PICK bucket \in Due(tick.i) :
           \/ /\ tick' = [tick EXCEPT !.pc = "budget", !.state = MarkedState(bucket), !.dirty = FALSE]
              /\ file' = MarkedState(bucket) /\ marks' = marks \union {<<Cur.name, bucket>>}
              /\ UNCHANGED lost
           \/ tick' = NoTick /\ CutOff(tick.i - 1) /\ UNCHANGED <<file, marks>>
    BY <1>3 DEF Mark
  <2>4. CASE tick' = NoTick /\ CutOff(tick.i - 1) /\ UNCHANGED <<file, marks>>
    <3>1. ~tick.dirty => \A c \in Keepers : Undecided(c) => Pending(c) \subseteq lost'
      <4>1. ASSUME ~tick.dirty, NEW c \in Keepers, Undecided(c)
            PROVE  Pending(c) \subseteq lost'
        <5>1. c > tick.i - 1
          BY <2>1, <4>1, UndecidedIs
        <5> QED  BY <2>4, <4>1, <5>1, CutOffIs, AfterCovers
      <4> QED  BY <4>1
    <3>2. lost \subseteq lost'
      BY <2>4, CutOffIs
    <3> QED  BY <2>1, <2>2, <2>4, <3>1, <3>2 DEF TickOver, Kept
  <2>5. CASE /\ tick' = [tick EXCEPT !.pc = "budget", !.state = MarkedState(bucket), !.dirty = FALSE]
             /\ file' = MarkedState(bucket) /\ marks' = marks \union {<<Cur.name, bucket>>} /\ UNCHANGED lost
    BY <2>1, <2>2, <2>5 DEF Marked
  <2> QED  BY <2>3, <2>4, <2>5
<1>4. CASE TickEnd
  <2>1. \A i \in Keepers : ~Undecided(i)
    BY <1>4, KeeperFacts DEF TickEnd, Undecided
  <2> QED  BY <1>4, <2>1 DEF TickEnd, TickOver, Kept
<1> QED  BY <1>1, <1>2, <1>3, <1>4

LEMMA GateCourse ==
  ASSUME KeeperTypeOK, Where, Budget \/ Humans \/ Piles \/ Serial \/ Workspace
  PROVE  SameCourse \/ CardLeft
<1>1. Busy /\ tick.pc # "idle" /\ tick.pc # "cards" /\ UNCHANGED <<clock, file, armed, marks, passed, lost>>
  BY DEF Busy, Budget, Humans, Piles, Serial, Workspace
<1>2. clock =< clock' /\ tick.i \in Keepers
  BY <1>1, Whole, CurIs
<1>3. \/ tick' = NextCard
      \/ tick' = [tick EXCEPT !.pc = "humans"]
      \/ tick' = [tick EXCEPT !.pc = "piles", !.queue = Lane("queue"), !.seen = SameRepo(OpenTickets)]
      \/ tick' = [tick EXCEPT !.pc = "serial", !.piles = Attention]
      \/ \E b \in BOOLEAN : tick' = [tick EXCEPT !.pc = "stage", !.queue = {}, !.piles = {}, !.tries = 0, !.spent = 0,
                                                 !.blind = b]
  BY DEF Budget, Humans, Piles, Serial, Workspace, Refused
<1>4. CASE tick' = NextCard
  BY <1>1, <1>2, <1>4 DEF CardLeft, Kept
<1>5. CASE tick' # NextCard
  <2>1. /\ tick'.i = tick.i /\ tick'.from = tick.from /\ tick'.at = tick.at /\ tick'.state = tick.state
        /\ tick'.dirty = tick.dirty /\ tick'.pc \in {"humans", "piles", "serial", "stage"}
    BY <1>3, <1>5, Typed DEF Ticks
  <2> QED  BY <1>1, <1>2, <2>1 DEF SameCourse, Kept
<1> QED  BY <1>4, <1>5

LEMMA RunCourse ==
  ASSUME KeeperTypeOK, Where, Try \/ StageEnd \/ Recheck \/ FileTicket
  PROVE  SameCourse \/ TickOver
<1>1. Busy /\ tick.pc # "idle" /\ tick.pc # "cards" /\ UNCHANGED <<clock, file, armed, marks, lost>>
  BY DEF Busy, Try, StageEnd, Recheck, FileTicket
<1>2. clock =< clock'
  BY <1>1, Whole
<1>3. CASE EndRun
  BY <1>1, <1>3, EndRunOver
<1>4. CASE ~EndRun
  <2>1. passed' = passed
    BY <1>4 DEF Try, StageEnd, Recheck, FileTicket
  <2>2. /\ tick'.i = tick.i /\ tick'.from = tick.from /\ tick'.at = tick.at /\ tick'.state = tick.state
        /\ tick'.dirty = tick.dirty /\ tick'.pc \in {"stage", "recheck", "file"}
    <3>1. CASE Try
      BY <3>1, Typed DEF Try, Ticks
    <3>2. CASE StageEnd
      <4>1. \E left, seen : tick' = [tick EXCEPT !.pc = "recheck", !.left = left, !.seen = seen, !.moved = {}, !.tries = 0, !.spent = 0]
        BY <1>4, <3>2 DEF StageEnd
      <4> QED  BY <4>1, Typed DEF Ticks
    <3>3. CASE Recheck
      BY <1>4, <3>3, Typed DEF Recheck, Ticks
    <3>4. CASE FileTicket
      <4>1. tick.pc = "file" /\ tick' = [tick EXCEPT !.left = @ - 1]
        BY <1>4, <3>4 DEF FileTicket
      <4> QED  BY <4>1, Typed DEF Ticks
    <3> QED  BY <3>1, <3>2, <3>3, <3>4
  <2> QED  BY <1>1, <1>2, <2>1, <2>2 DEF SameCourse, Kept
<1> QED  BY <1>3, <1>4

LEMMA BesideCourse ==
  ASSUME KeeperTypeOK, Where, Pass \/ Arrive \/ Veto \/ Move \/ DaemonCrash
  PROVE  SameCourse \/ TickOver
<1>1. clock \in Nat
  BY Whole
<1>2. CASE Pass \/ Arrive \/ Veto
  <2>1. UNCHANGED <<file, tick, armed, marks, passed, lost>> /\ clock' \in {clock, clock + 1}
    BY <1>2 DEF Pass, Arrive, Veto
  <2> QED  BY <1>1, <2>1 DEF SameCourse, Kept
<1>3. CASE Move
  <2>1. PICK moved : tick' = [tick EXCEPT !.moved = moved] /\ (tick.seen = {} => moved = {})
    BY <1>3 DEF Move
  <2>2. UNCHANGED <<clock, file, armed, marks, passed, lost>>
    BY <1>3 DEF Move
  <2>3. /\ tick'.i = tick.i /\ tick'.from = tick.from /\ tick'.at = tick.at /\ tick'.state = tick.state
        /\ tick'.dirty = tick.dirty /\ tick'.pc = tick.pc
    BY <2>1, Typed DEF Ticks
  <2>4. ASSUME tick.pc = "idle" PROVE tick' = tick
    <3>1. tick = NoTick
      BY <2>4 DEF Where
    <3>2. tick.seen = {} /\ tick.moved = {}
      BY <3>1 DEF NoTick
    <3> QED  BY <2>1, <3>2, Typed DEF Ticks
  <2> QED  BY <1>1, <2>2, <2>3, <2>4 DEF SameCourse, Kept
<1>4. CASE DaemonCrash
  <2>1. UNCHANGED <<clock, file, armed, marks, passed>> /\ tick' = NoTick /\ tick.pc # "idle"
        /\ CutOff(IF tick.pc = "cards" THEN tick.i - 1 ELSE tick.i)
    BY <1>4 DEF DaemonCrash
  <2>2. lost \subseteq lost'
    BY <2>1, CutOffIs
  <2>3. ~tick.dirty => \A c \in Keepers : Undecided(c) => Pending(c) \subseteq lost'
    <3>1. ASSUME ~tick.dirty, NEW c \in Keepers, Undecided(c)
          PROVE  Pending(c) \subseteq lost'
      <4>1. c > (IF tick.pc = "cards" THEN tick.i - 1 ELSE tick.i)
        BY <3>1, UndecidedIs
      <4> QED  BY <2>1, <3>1, <4>1, CutOffIs, AfterCovers
    <3> QED  BY <3>1
  <2> QED  BY <2>1, <2>2, <2>3 DEF TickOver, Kept
<1> QED  BY <1>2, <1>3, <1>4

\* Every step takes one of seven courses.
LEMMA Courses ==
  ASSUME KeeperTypeOK, Where, [KeeperNext]_keeperVars
  PROVE  SameCourse \/ CardLeft \/ TickOver \/ Begun \/ Renewed \/ Marked \/ Damage
<1>1. CASE KeeperNext
  BY <1>1, ScanCourse, GateCourse, RunCourse, BesideCourse DEF KeeperNext, Begun, Renewed
<1>2. CASE UNCHANGED keeperVars
  <2>1. UNCHANGED <<tick, file, armed, marks, passed, lost, clock>> /\ clock \in Nat
    BY <1>2, Whole DEF keeperVars
  <2> QED  BY <2>1 DEF SameCourse, Kept
<1> QED  BY <1>1, <1>2

LEMMA TimesIn ==
  ASSUME NEW l \in Ledgers, NEW n \in KeeperNames
  PROVE  l.last[n] \in Minutes \union {Never} /\ l.last[n] \in Int /\ l.at \in Int
<1>1. l.last[n] \in Minutes \union {Never} /\ l.at \in Minutes \union {Never}
  BY DEF Ledgers
<1>2. \A m \in Minutes : m \in Nat
  BY Bounds
<1> QED  BY <1>1, <1>2 DEF Never

LEMMA NextWhere ==
  ASSUME KeeperTypeOK, Where, [KeeperNext]_keeperVars
  PROVE  Where'
<1>0. SameCourse \/ CardLeft \/ TickOver \/ Begun \/ Renewed \/ Marked \/ Damage
  BY Courses
<1>1. CASE SameCourse
  <2>1. file' = file /\ tick'.at = tick.at /\ tick'.from = tick.from /\ clock =< clock' /\ clock' \in Nat
    <3>1. KeeperTypeOK'
      BY NextTypes
    <3>2. clock' \in Minutes
      BY <3>1 DEF KeeperTypeOK
    <3> QED  BY <1>1, <3>2, Bounds DEF SameCourse
  <2>2. file'.at =< clock' /\ tick'.at =< clock' /\ tick'.from =< tick'.at
    BY <2>1, Whole DEF Where
  <2>3. CASE tick.pc = "idle"
    BY <1>1, <2>2, <2>3 DEF SameCourse, Where, Busy
  <2>4. CASE tick.pc # "idle"
    <3>1. tick'.i = tick.i /\ tick'.state = tick.state /\ tick'.dirty = tick.dirty /\ tick'.pc # "idle" /\ (Busy' <=> Busy)
          /\ ((tick'.pc = "cards") <=> (tick.pc = "cards"))
      BY <1>1, <2>4 DEF SameCourse, Busy
    <3> QED  BY <2>1, <2>2, <2>4, <3>1 DEF Where
  <2> QED  BY <2>3, <2>4
<1>2. CASE CardLeft
  <2>1. tick.i < Last /\ tick.i \in Nat
    BY <1>2, KeeperFacts DEF CardLeft
  <2>2. /\ tick'.pc = "cards" /\ tick'.i = After(tick.i) /\ tick'.from = tick.from /\ tick'.at = tick.at
        /\ tick'.state = tick.state /\ tick'.dirty = tick.dirty
    BY <1>2, <2>1, NextCardIs, Typed DEF CardLeft
  <2>3. tick'.i \in Keepers \union {Last}
    BY <2>1, <2>2, AfterIs
  <2> QED  BY <1>2, <2>2, <2>3 DEF CardLeft, Where, Busy
<1>3. CASE TickOver
  <2>1. tick' = NoTick /\ tick'.pc = "idle" /\ tick'.at = 0 /\ tick'.from = 0 /\ clock' = clock
    BY <1>3 DEF TickOver, NoTick
  <2>2. file'.at =< clock'
    BY <1>3, Whole DEF TickOver, Where
  <2> QED  BY <2>1, <2>2, Whole DEF Where, Busy
<1>4. CASE Begun
  <2>1. tick' = [NoTick EXCEPT !.pc = "cards", !.i = After(0), !.from = ScanFrom(file.at), !.at = clock,
                               !.state = [file EXCEPT !.at = clock], !.dirty = TRUE]
        /\ UNCHANGED <<file, clock>> /\ file.readable
    BY <1>4 DEF Begun, TickBegin
  <2>2. /\ tick'.pc = "cards" /\ tick'.i = After(0) /\ tick'.from = ScanFrom(file.at) /\ tick'.at = clock
        /\ tick'.state.at = clock /\ tick'.state.readable = file.readable /\ tick'.dirty
    BY <2>1, Typed DEF NoTick, Ledgers
  <2>3. After(0) \in Keepers \union {Last}
    BY AfterIs, Bounds DEF Last
  <2>4. ScanFrom(file.at) =< clock
    BY Whole, Bounds DEF ScanFrom, Where
  <2>5. file'.at =< clock' /\ tick'.at =< clock' /\ tick'.from =< tick'.at /\ ~Busy'
    BY <2>1, <2>2, <2>4, Whole DEF Where, Busy
  <2>6. tick'.pc # "idle" /\ tick'.state.readable /\ tick'.i \in Keepers \union {Last} /\ tick'.state.at = tick'.at
    BY <2>1, <2>2, <2>3
  <2> QED  BY <2>2, <2>5, <2>6 DEF Where
<1>5. CASE Renewed
  <2>1. file' = NewFile /\ tick' = tick /\ tick.pc = "idle" /\ clock' = clock
    BY <1>5 DEF Renewed, TickBegin
  <2>2. file'.at =< clock
    BY <2>1, NewIs, Whole DEF Never
  <2> QED  BY <2>1, <2>2 DEF Where, Busy
<1>6. CASE Marked
  <2>1. PICK bucket \in Due(tick.i) :
          /\ tick.pc = "cards" /\ tick.i \in Keepers
          /\ tick' = [tick EXCEPT !.pc = "budget", !.state = MarkedState(bucket), !.dirty = FALSE]
          /\ file' = MarkedState(bucket) /\ UNCHANGED <<lost, passed, armed, clock>>
    BY <1>6 DEF Marked
  <2>2. /\ tick'.pc = "budget" /\ tick'.i = tick.i /\ tick'.from = tick.from /\ tick'.at = tick.at
        /\ tick'.state = file' /\ ~tick'.dirty
    BY <2>1, Typed DEF Ticks
  <2>3. file'.at = tick.state.at /\ file'.readable = tick.state.readable
    BY <2>1, Whole DEF MarkedState, Ledgers
  <2> QED  BY <2>1, <2>2, <2>3 DEF Where, Busy
<1>7. CASE Damage
  <2>1. file' = [NewFile EXCEPT !.readable = FALSE] /\ UNCHANGED <<clock, tick>>
    BY <1>7 DEF Damage
  <2>2. file'.at = Never /\ ~file'.readable
    BY <2>1, NewIs DEF NewFile
  <2> QED  BY <2>1, <2>2, Whole DEF Where, Busy, Never
<1> QED  BY <1>0, <1>1, <1>2, <1>3, <1>4, <1>5, <1>6, <1>7

-----------------------------------------------------------------------------
(* The ledger knows the marks. *)


LEMMA NextBooks ==
  ASSUME KeeperTypeOK, Where, Books, [KeeperNext]_keeperVars
  PROVE  Books'
<1>0. SameCourse \/ CardLeft \/ TickOver \/ Begun \/ Renewed \/ Marked \/ Damage
  BY Courses
<1>1. CASE SameCourse
  BY <1>1 DEF SameCourse, Kept, Books, Knows, Undecided
<1>2. CASE CardLeft
  <2>1. tick.i < Last /\ tick.i \in Nat
    BY <1>2, KeeperFacts DEF CardLeft
  <2>2. /\ tick'.pc = "cards" /\ tick'.i = After(tick.i) /\ tick'.from = tick.from
        /\ tick'.state = tick.state
    BY <1>2, <2>1, NextCardIs, Typed DEF CardLeft
  <2>3. \A i \in Keepers : Undecided(i)' => Undecided(i)
    <3>1. After(tick.i) \in Nat /\ After(tick.i) > tick.i /\ \A i \in Keepers : i \in Nat
      BY <2>1, AfterIs, KeeperFacts
    <3> QED  BY <2>1, <2>2, <3>1 DEF Undecided
  <2>4. UNCHANGED <<file, marks>> /\ tick.pc # "idle"
    BY <1>2 DEF CardLeft, Kept
  <2> QED  BY <2>2, <2>3, <2>4 DEF Books, Knows
<1>3. CASE TickOver
  <2>1. tick'.pc = "idle" /\ (file' = file \/ file' = tick.state) /\ UNCHANGED marks /\ tick.pc # "idle"
    BY <1>3 DEF TickOver, NoTick, Kept
  <2>2. file' = tick.state => Knows(file)'
    BY <2>1 DEF Books, Knows
  <2>3. file' = file => (file'.readable => Knows(file)')
    BY <2>1 DEF Books, Knows
  <2> QED  BY <2>1, <2>2, <2>3 DEF Books
<1>4. CASE Begun
  <2>1. tick' = [NoTick EXCEPT !.pc = "cards", !.i = After(0), !.from = ScanFrom(file.at), !.at = clock,
                               !.state = [file EXCEPT !.at = clock], !.dirty = TRUE]
        /\ UNCHANGED <<file, marks>> /\ file.readable
    BY <1>4 DEF Begun, TickBegin
  <2>2. tick'.from = ScanFrom(file.at) /\ tick'.state = [file EXCEPT !.at = clock]
    BY <2>1 DEF NoTick
  <2>3. tick'.state.last = file.last /\ tick'.state.at = clock
    BY <2>2, Typed DEF Ledgers
  <2>4. \A n \in KeeperNames : file.last[n] =< file.at /\ file.last[n] \in Int
    BY <2>1, Typed, TimesIn DEF Books, Knows
  <2>5. file.at =< ScanFrom(file.at) /\ file.at =< clock
    BY Whole, Bounds DEF ScanFrom, Where, Never
  <2>6. \A n \in KeeperNames : file.last[n] =< ScanFrom(file.at) /\ file.last[n] =< clock
    <3>1. ScanFrom(file.at) \in Int
      BY Whole, Bounds DEF ScanFrom
    <3> QED  BY <2>4, <2>5, <3>1, Whole
  <2>7. Knows(file) /\ Knows(file)' /\ Knows(tick.state)'
    <3>1. Knows(file)
      BY <2>1 DEF Books
    <3>2. Knows(file)'
      BY <2>1, <3>1 DEF Knows
    <3>3. Knows(tick.state)'
      BY <2>1, <2>3, <2>6, <3>1 DEF Knows
    <3> QED  BY <3>1, <3>2, <3>3
  <2> QED  BY <2>2, <2>3, <2>6, <2>7, KeeperFacts DEF Books
<1>5. CASE Renewed
  <2>1. file' = NewFile /\ tick' = tick /\ tick.pc = "idle" /\ marks' = {}
    BY <1>5 DEF Renewed, TickBegin
  <2>2. Knows(file)'
    BY <2>1 DEF Knows, NewFile, Never
  <2> QED  BY <2>1, <2>2 DEF Books
<1>6. CASE Marked
  <2>1. PICK bucket \in Due(tick.i) :
          /\ tick.pc = "cards" /\ tick.i \in Keepers
          /\ tick' = [tick EXCEPT !.pc = "budget", !.state = MarkedState(bucket), !.dirty = FALSE]
          /\ file' = MarkedState(bucket) /\ marks' = marks \union {<<Cur.name, bucket>>}
    BY <1>6 DEF Marked
  <2>2. tick'.pc = "budget" /\ tick'.i = tick.i /\ tick'.from = tick.from /\ tick'.state = file'
    BY <2>1, Typed DEF Ticks
  <2>3. file'.at = tick.at /\ file'.last = [tick.state.last EXCEPT ![Cur.name] = bucket]
    BY <2>1, Whole DEF MarkedState, Ledgers, Where
  <2>4. bucket \in Minutes /\ tick.from =< bucket /\ bucket =< tick.at /\ bucket # Never /\ bucket \in Nat
    <3>1. bucket \in Windows(tick.i) /\ bucket \in Minutes
      BY <2>1, DueIs
    <3> QED  BY <3>1, Bounds DEF Windows
  <2>5. Cur.name \in KeeperNames /\ Undecided(tick.i) /\ Cur.name = Keeper(tick.i).name
    BY <2>1, KeeperFacts DEF Cur, Undecided
  <2>6. /\ \A n \in KeeperNames \ {Cur.name} : file'.last[n] = tick.state.last[n]
        /\ file'.last[Cur.name] = bucket
    BY <2>3, <2>5, Whole DEF Ledgers
  <2>7. Knows(tick.state) /\ tick.state.last[Cur.name] =< tick.from /\ tick.state.last[Cur.name] \in Int
    BY <2>1, <2>5, Whole, TimesIn DEF Books
  <2>8. ASSUME NEW n \in KeeperNames
        PROVE  /\ file'.last[n] # Never => <<n, file'.last[n]>> \in marks'
               /\ file'.last[n] =< file'.at
               /\ \A m \in Minutes : <<n, m>> \in marks' => m =< file'.last[n]
    <3>1. CASE n = Cur.name
      <4>1. \A m \in Minutes : <<n, m>> \in marks => m =< bucket
        <5>1. \A m \in Minutes : <<n, m>> \in marks => m =< tick.state.last[Cur.name]
          BY <2>7, <3>1 DEF Knows
        <5> QED  BY <2>4, <2>7, <5>1, Whole, Bounds
      <4> QED  BY <2>1, <2>3, <2>4, <2>6, <3>1, <4>1
    <3>2. CASE n # Cur.name
      <4>1. file'.last[n] = tick.state.last[n] /\ tick.state.at = tick.at
        BY <2>1, <2>6, <3>2 DEF Where
      <4>2. \A m \in Minutes : <<n, m>> \in marks' => <<n, m>> \in marks
        BY <2>1, <3>2
      <4> QED  BY <2>1, <2>3, <2>7, <4>1, <4>2 DEF Knows
    <3> QED  BY <3>1, <3>2
  <2>9. Knows(file)' /\ Knows(tick.state)'
    BY <2>2, <2>8 DEF Knows
  <2>10. ASSUME NEW i \in Keepers, Undecided(i)'
         PROVE  tick'.state.last[Keeper(i).name] =< tick'.from
    <3>1. i > tick.i /\ Undecided(i)
      BY <2>2, <2>10 DEF Undecided
    <3>2. Keeper(i).name # Cur.name /\ Keeper(i).name \in KeeperNames
      BY <2>1, <2>5, <3>1, KeeperFacts
    <3> QED  BY <2>1, <2>2, <2>6, <3>1, <3>2 DEF Books
  <2> QED  BY <2>2, <2>9, <2>10 DEF Books
<1>7. CASE Damage
  <2>1. file' = [NewFile EXCEPT !.readable = FALSE] /\ UNCHANGED <<marks, tick>>
    BY <1>7 DEF Damage
  <2>2. ~file'.readable
    BY <2>1 DEF NewFile
  <2> QED  BY <2>1, <2>2 DEF Books, Knows, Undecided
<1> QED  BY <1>0, <1>1, <1>2, <1>3, <1>4, <1>5, <1>6, <1>7

-----------------------------------------------------------------------------
(* The windows the ticks have left behind are handled. *)

LEMMA StaysSettled ==
  ASSUME NEW i \in Keepers, NEW to, Settled(i, to), UNCHANGED armed, marks \subseteq marks',
         passed \subseteq passed', lost \subseteq lost'
  PROVE  armed' # Never => \A m \in Matched(i) : armed' =< m /\ m < to => Handled(i, m)'
BY DEF Settled, Handled

\* A card is settled up to the minute of its tick once nothing of it is due, or what is
\* due was passed over.
LEMMA Decided ==
  ASSUME KeeperTypeOK, Where, Books, Scanned, NEW i \in Keepers, tick.pc # "idle", Undecided(i), Kept,
         Due(i) = {} \/ Pending(i) \subseteq passed' \union lost'
  PROVE  armed' # Never => \A m \in Matched(i) : armed' =< m /\ m < tick.at => Handled(i, m)'
<1> SUFFICES ASSUME armed' # Never, NEW m \in Matched(i), armed' =< m, m < tick.at
             PROVE  Handled(i, m)'
  OBVIOUS
<1>1. Settled(i, tick.from)
  BY DEF Scanned
<1>2. m \in Minutes /\ m \in Nat
  BY Bounds DEF Matched
<1>3. CASE m < tick.from
  BY <1>1, <1>3, StaysSettled DEF Kept
<1>4. CASE ~(m < tick.from)
  <2>1. m \in Windows(i)
    BY <1>2, <1>4, Whole DEF Windows
  <2>2. CASE Due(i) = {}
    <3>1. PICK n \in Windows(i) : \A k \in Windows(i) : k =< n
      <4>1. Windows(i) \subseteq Minutes
        BY DueIs
      <4> QED  BY <2>1, <4>1, NewestExists
    <3>2. n \in Minutes /\ n \in Nat /\ m =< n /\ n =< MaxMinute
      BY <2>1, <3>1, DueIs, Bounds DEF Minutes
    <3>3. n = tick.state.last[Keeper(i).name]
      BY <2>2, <3>1 DEF Due
    <3>4. <<Keeper(i).name, n>> \in marks
      <4>1. Knows(tick.state) /\ Keeper(i).name \in KeeperNames /\ n # Never
        BY <3>2, KeeperFacts, Bounds DEF Books
      <4> QED  BY <3>3, <4>1 DEF Knows
    <3>5. n \in m..MaxMinute /\ <<Keeper(i).name, n>> \in marks'
      BY <1>2, <3>2, <3>4, Bounds DEF Kept
    <3> QED  BY <3>5 DEF Handled
  <2>3. CASE Due(i) # {}
    <3>1. <<Keeper(i).name, m>> \in Pending(i)
      BY <2>1, <2>3 DEF Pending
    <3> QED  BY <2>3, <3>1 DEF Handled
  <2> QED  BY <2>2, <2>3
<1> QED  BY <1>3, <1>4

LEMMA ScannedLeft ==
  ASSUME KeeperTypeOK, Where, Books, Scanned, CardLeft
  PROVE  Scanned'
<1>1. tick.i < Last /\ tick.i \in Nat /\ tick.i \in Keepers
  BY KeeperFacts DEF CardLeft
<1>2. /\ tick'.pc = "cards" /\ tick'.i = After(tick.i) /\ tick'.from = tick.from /\ tick'.at = tick.at
      /\ tick'.dirty = tick.dirty
  BY <1>1, NextCardIs, Typed DEF CardLeft
<1>3. Kept /\ file' = file /\ tick.pc # "idle" /\ UNCHANGED armed /\ marks \subseteq marks' /\ passed \subseteq passed' /\ lost \subseteq lost'
  BY DEF CardLeft, Kept
<1>4. ASSUME NEW i \in Keepers
      PROVE  Undecided(i)' <=> i > tick.i
  <2>1. After(tick.i) \in Nat /\ After(tick.i) > tick.i /\ (i > tick.i => After(tick.i) =< i) /\ i \in Nat
    BY <1>1, AfterIs, KeeperFacts
  <2> QED  BY <1>1, <1>2, <2>1 DEF Undecided
<1>5. ASSUME NEW i \in Keepers
      PROVE  Settled(i, IF Undecided(i) THEN tick.from ELSE tick.at)'
  <2>1. CASE i > tick.i
    <3>1. Settled(i, tick.from)
      BY <1>3, <2>1 DEF Scanned, Undecided
    <3> QED  BY <1>2, <1>3, <1>4, <2>1, <3>1, StaysSettled DEF Settled
  <2>2. CASE ~(i > tick.i) /\ Undecided(i)
    <3>1. i = tick.i /\ tick.pc = "cards"
      BY <2>2 DEF Undecided
    <3>2. Due(i) = {} \/ Pending(i) \subseteq passed' \union lost'
      BY <3>1 DEF CardLeft, Busy
    <3>3. armed' # Never => \A m \in Matched(i) : armed' =< m /\ m < tick.at => Handled(i, m)'
      BY <1>3, <2>2, <3>2, Decided
    <3> QED  BY <1>2, <1>4, <2>2, <3>3 DEF Settled
  <2>3. CASE ~Undecided(i)
    <3>1. Settled(i, tick.at) /\ ~(i > tick.i)
      BY <1>3, <2>3 DEF Scanned, Undecided
    <3> QED  BY <1>2, <1>3, <1>4, <3>1, StaysSettled DEF Settled
  <2> QED  BY <2>1, <2>2, <2>3
<1>6. ASSUME NEW i \in Keepers, file'.readable, tick'.dirty
      PROVE  Settled(i, file.at)'
  <2>1. Settled(i, file.at)
    BY <1>2, <1>3, <1>6 DEF Scanned
  <2> QED  BY <1>3, <2>1, StaysSettled DEF Settled
<1> QED  BY <1>2, <1>5, <1>6 DEF Scanned

LEMMA ScannedOver ==
  ASSUME KeeperTypeOK, Where, Books, Scanned, TickOver
  PROVE  Scanned'
<1>1. tick'.pc = "idle" /\ tick.pc # "idle" /\ Kept
  BY DEF TickOver, NoTick
<1>2. UNCHANGED armed /\ marks \subseteq marks' /\ passed \subseteq passed' /\ lost \subseteq lost'
  BY <1>1 DEF Kept
<1>3. ASSUME NEW i \in Keepers, file'.readable
      PROVE  Settled(i, file.at)'
  <2>1. CASE file' = file /\ tick.dirty
    <3>1. Settled(i, file.at)
      BY <1>3, <2>1 DEF Scanned
    <3> QED  BY <1>2, <2>1, <3>1, StaysSettled DEF Settled
  <2>2. CASE ~(file' = file /\ tick.dirty)
    <3>1. file'.at = tick.at
      BY <1>1, <1>3, <2>2 DEF TickOver, Where
    <3>2. Undecided(i) => Pending(i) \subseteq passed' \union lost'
      BY <2>2 DEF TickOver
    <3>3. CASE Undecided(i)
      <4>1. armed' # Never => \A m \in Matched(i) : armed' =< m /\ m < tick.at => Handled(i, m)'
        BY <1>1, <3>2, <3>3, Decided
      <4> QED  BY <3>1, <4>1 DEF Settled
    <3>4. CASE ~Undecided(i)
      <4>1. Settled(i, tick.at)
        BY <1>1, <3>4 DEF Scanned
      <4> QED  BY <1>2, <3>1, <4>1, StaysSettled DEF Settled
    <3> QED  BY <3>3, <3>4
  <2> QED  BY <2>1, <2>2
<1> QED  BY <1>1, <1>3 DEF Scanned

LEMMA ScannedBegun ==
  ASSUME KeeperTypeOK, Where, Scanned, Begun
  PROVE  Scanned'
<1>1. tick.pc = "idle" /\ file.readable /\ UNCHANGED <<file, marks, passed>> /\ lost' = lost \union TooOld
      /\ armed' = IF file.at = Never THEN clock ELSE armed
  BY DEF Begun, TickBegin
<1>2. tick'.pc = "cards" /\ tick'.i = After(0) /\ tick'.from = ScanFrom(file.at)
  BY DEF Begun, TickBegin, NoTick
<1>3. ASSUME NEW i \in Keepers
      PROVE  Undecided(i)'
  <2>1. i \in Nat /\ After(0) \in Nat /\ After(0) =< i
    <3>1. i \in Nat /\ i > 0 /\ 0 < Last
      BY KeeperFacts, Bounds DEF Last
    <3> QED  BY <3>1, AfterIs
  <2> QED  BY <1>2, <2>1 DEF Undecided
<1>4. ASSUME NEW i \in Keepers, armed' # Never, NEW m \in Matched(i), armed' =< m,
             m < file.at \/ m < ScanFrom(file.at)
      PROVE  Handled(i, m)'
  <2>1. m \in Minutes /\ m \in Nat
    BY Bounds DEF Matched
  <2>2. file.at # Never /\ armed' = armed
    <3>1. CASE file.at = Never
      <4>1. armed' = clock /\ ScanFrom(file.at) =< clock
        BY <1>1, <3>1, Whole, Bounds DEF ScanFrom
      <4>2. ScanFrom(file.at) \in Int
        BY Whole, Bounds DEF ScanFrom
      <4> QED  BY <1>4, <2>1, <3>1, <4>1, <4>2, Whole DEF Never
    <3> QED  BY <1>1, <3>1
  <2>3. CASE m < file.at
    <3>1. Settled(i, file.at)
      BY <1>1 DEF Scanned
    <3> QED  BY <1>1, <1>4, <2>2, <2>3, <3>1 DEF Settled, Handled
  <2>4. CASE ~(m < file.at)
    <3>1. file.at =< m /\ m < clock - Day
      BY <1>4, <2>1, <2>2, <2>4, Whole, Bounds DEF ScanFrom, Where
    <3>2. <<Keeper(i).name, m>> \in TooOld
      BY <2>1, <2>2, <3>1 DEF TooOld
    <3> QED  BY <1>1, <3>2 DEF Handled
  <2> QED  BY <2>3, <2>4
<1>5. \A i \in Keepers : Settled(i, file.at)' /\ Settled(i, tick.from)'
  BY <1>1, <1>2, <1>4 DEF Settled
<1> QED  BY <1>2, <1>3, <1>5 DEF Scanned

LEMMA ScannedMarked ==
  ASSUME KeeperTypeOK, Where, Books, Scanned, Marked
  PROVE  Scanned'
<1>1. PICK bucket \in Due(tick.i) :
        /\ tick.pc = "cards" /\ tick.i \in Keepers
        /\ tick' = [tick EXCEPT !.pc = "budget", !.state = MarkedState(bucket), !.dirty = FALSE]
        /\ marks' = marks \union {<<Cur.name, bucket>>} /\ UNCHANGED <<lost, passed, armed>>
  BY DEF Marked
<1>2. tick'.pc = "budget" /\ tick'.i = tick.i /\ tick'.from = tick.from /\ tick'.at = tick.at /\ ~tick'.dirty
  BY <1>1, Typed DEF Ticks
<1>3. UNCHANGED armed /\ marks \subseteq marks' /\ passed \subseteq passed' /\ lost \subseteq lost'
  BY <1>1
<1>4. ASSUME NEW i \in Keepers
      PROVE  Settled(i, IF Undecided(i) THEN tick.from ELSE tick.at)'
  <2>1. CASE i # tick.i
    <3>1. Undecided(i)' <=> Undecided(i)
      BY <1>1, <1>2, <2>1 DEF Undecided
    <3>2. Settled(i, IF Undecided(i) THEN tick.from ELSE tick.at)
      BY <1>1 DEF Scanned
    <3> QED  BY <1>2, <1>3, <3>1, <3>2, StaysSettled DEF Settled
  <2>2. CASE i = tick.i
    <3>1. ~Undecided(i)' /\ Undecided(i) /\ Cur.name = Keeper(i).name
      BY <1>1, <1>2, <2>2, Whole DEF Undecided, Cur
    <3>2. ASSUME armed' # Never, NEW m \in Matched(i), armed' =< m, m < tick.at
          PROVE  Handled(i, m)'
      <4>1. m \in Minutes /\ m \in Nat
        BY Bounds DEF Matched
      <4>2. CASE m < tick.from
        <5>1. Settled(i, tick.from)
          BY <1>1, <3>1 DEF Scanned
        <5> QED  BY <1>3, <3>2, <4>2, <5>1, StaysSettled
      <4>3. CASE ~(m < tick.from)
        <5>1. m \in Windows(i)
          BY <3>2, <4>1, <4>3, Whole DEF Windows
        <5>2. m =< bucket
          BY <1>1, <2>2, <5>1 DEF Due
        <5>3. bucket \in Minutes
          BY <1>1, DueIs
        <5>4. bucket \in m..MaxMinute
          BY <4>1, <5>2, <5>3, Bounds DEF Minutes
        <5> QED  BY <1>1, <3>1, <5>4 DEF Handled
      <4> QED  BY <4>2, <4>3
    <3> QED  BY <1>2, <3>1, <3>2 DEF Settled
  <2> QED  BY <2>1, <2>2
<1> QED  BY <1>2, <1>4 DEF Scanned

LEMMA NextScanned ==
  ASSUME KeeperTypeOK, Where, Books, Scanned, [KeeperNext]_keeperVars
  PROVE  Scanned'
<1>0. SameCourse \/ CardLeft \/ TickOver \/ Begun \/ Renewed \/ Marked \/ Damage
  BY Courses
<1>1. CASE SameCourse
  <2>1. UNCHANGED armed /\ marks \subseteq marks' /\ passed \subseteq passed' /\ lost \subseteq lost'
    BY <1>1 DEF SameCourse, Kept
  <2>2. file' = file /\ tick'.from = tick.from /\ tick'.at = tick.at /\ tick'.dirty = tick.dirty /\ ((tick'.pc = "idle") <=> (tick.pc = "idle"))
        /\ \A i \in Keepers : Undecided(i)' <=> Undecided(i)
    BY <1>1 DEF SameCourse, Undecided
  <2>3. ASSUME NEW i \in Keepers, file'.readable /\ (tick'.pc = "idle" \/ tick'.dirty)
        PROVE  Settled(i, file.at)'
    <3>1. Settled(i, file.at)
      BY <2>2, <2>3 DEF Scanned
    <3> QED  BY <2>1, <2>2, <3>1, StaysSettled DEF Settled
  <2>4. ASSUME NEW i \in Keepers, tick'.pc # "idle"
        PROVE  Settled(i, IF Undecided(i) THEN tick.from ELSE tick.at)'
    <3>1. Settled(i, IF Undecided(i) THEN tick.from ELSE tick.at)
      BY <2>2, <2>4 DEF Scanned
    <3> QED  BY <2>1, <2>2, <3>1, StaysSettled DEF Settled
  <2> QED  BY <2>3, <2>4 DEF Scanned
<1>2. CASE CardLeft
  BY <1>2, ScannedLeft
<1>3. CASE TickOver
  BY <1>3, ScannedOver
<1>4. CASE Begun
  BY <1>4, ScannedBegun
<1>5. CASE Renewed
  <2>1. armed' = Never /\ tick' = tick
    BY <1>5 DEF Renewed, TickBegin
  <2> QED  BY <2>1 DEF Scanned, Settled
<1>6. CASE Marked
  BY <1>6, ScannedMarked
<1>7. CASE Damage
  <2>1. file' = [NewFile EXCEPT !.readable = FALSE] /\ UNCHANGED <<tick, armed, marks, passed, lost>>
    BY <1>7 DEF Damage
  <2>2. ~file'.readable
    BY <2>1 DEF NewFile
  <2> QED  BY <2>1, <2>2 DEF Scanned, Settled, Handled, Undecided
<1> QED  BY <1>0, <1>1, <1>2, <1>3, <1>4, <1>5, <1>6, <1>7

-----------------------------------------------------------------------------
(* The tickets a run watches move only in plain sight. *)

\* Where the tickets watched are empty, there is nothing to keep.
LEMMA NothingWatched ==
  ASSUME tick'.seen = {}
  PROVE  Watched'
BY DEF Watched, Unmoved

LEMMA LeftUnwatched ==
  ASSUME KeeperTypeOK, Where, Busy, tick' = NextCard \/ tick' = NoTick
  PROVE  tick'.seen = {}
<1>1. tick.i < Last
  BY CurIs
<1> QED  BY <1>1, NextCardIs, Typed DEF NoTick

LEMMA ScanUnwatched ==
  ASSUME KeeperTypeOK, Where, Watched, TickBegin \/ NotDue \/ PassOver \/ Mark \/ TickEnd
  PROVE  Watched'
<1>1. CASE TickBegin
  <2>1. CASE file.readable
    <3>1. tick'.seen = {}
      BY <1>1, <2>1 DEF TickBegin, NoTick
    <3> QED  BY <3>1, NothingWatched
  <2>2. CASE ~file.readable
    <3>1. tick'.seen = {}
      BY <1>1, <2>2 DEF TickBegin, Where, NoTick
    <3> QED  BY <3>1, NothingWatched
  <2> QED  BY <2>1, <2>2
<1>2. CASE NotDue \/ PassOver \/ TickEnd
  <2>1. tick'.seen = {}
    BY <1>2, NextCardIs, Typed DEF NotDue, PassOver, TickEnd, NoTick
  <2> QED  BY <2>1, NothingWatched
<1>3. CASE Mark
  <2>1. PICK bucket : \/ tick' = [tick EXCEPT !.pc = "budget", !.state = MarkedState(bucket), !.dirty = FALSE]
                      \/ tick' = NoTick
    BY <1>3 DEF Mark
  <2>2. CASE tick' = NoTick
    BY <2>2, NothingWatched DEF NoTick
  <2>3. CASE tick' # NoTick
    <3>1. tick'.pc = "budget" /\ tick'.seen = tick.seen
      BY <2>1, <2>3, Typed DEF Ticks
    <3>2. board' = board
      BY <1>3 DEF Mark
    <3> QED  BY <3>1, <3>2 DEF Watched
  <2> QED  BY <2>2, <2>3
<1> QED  BY <1>1, <1>2, <1>3

LEMMA GateWatched ==
  ASSUME KeeperTypeOK, Where, Watched, Budget \/ Humans \/ Piles \/ Serial \/ Workspace
  PROVE  Watched'
<1>0. Busy /\ board' = board
  BY DEF Busy, Budget, Humans, Piles, Serial, Workspace
<1>1. CASE tick' = NextCard
  BY <1>0, <1>1, LeftUnwatched, NothingWatched
<1>2. CASE tick' # NextCard /\ Budget
  <2>1. tick'.pc = "humans" /\ tick'.seen = tick.seen
    BY <1>2, Typed DEF Budget, Refused, Ticks
  <2> QED  BY <1>0, <2>1 DEF Watched
<1>3. CASE tick' # NextCard /\ Humans
  <2>1. tick' = [tick EXCEPT !.pc = "piles", !.queue = Lane("queue"), !.seen = SameRepo(OpenTickets)]
    BY <1>3 DEF Humans, Refused
  <2>2. tick'.pc = "piles" /\ tick'.queue = Lane("queue") /\ tick'.seen = SameRepo(OpenTickets) /\ tick'.i = tick.i
    BY <2>1, Typed DEF Ticks
  <2>3. SameRepo(OpenTickets)' = SameRepo(OpenTickets)
    BY <1>0, <2>2 DEF SameRepo, OpenTickets, Cur
  <2>4. \A t \in SameRepo(OpenTickets) : board[t].lane # "none" /\ (board[t].lane = "queue" => t \in Lane("queue"))
    BY DEF SameRepo, OpenTickets, Lane
  <2> QED  BY <1>0, <2>2, <2>3, <2>4 DEF Watched, Unmoved
<1>4. CASE tick' # NextCard /\ Piles
  <2>1. tick' = [tick EXCEPT !.pc = "serial", !.piles = Attention] /\ tick.pc = "piles"
    BY <1>4 DEF Piles, Refused
  <2>2. /\ tick'.pc = "serial" /\ tick'.queue = tick.queue /\ tick'.seen = tick.seen /\ tick'.i = tick.i
        /\ tick'.moved = tick.moved /\ tick'.piles = Attention
    BY <2>1, Typed DEF Ticks
  <2>3. SameRepo(OpenTickets)' = SameRepo(OpenTickets) /\ Attention' = Attention
    BY <1>0, <2>2 DEF SameRepo, OpenTickets, Cur, Attention, Lane
  <2> QED  BY <1>0, <2>1, <2>2, <2>3 DEF Watched, Unmoved
<1>5. CASE tick' # NextCard /\ Serial
  <2>1. PICK executing \in {Lane("executing"), {}} :
          /\ StillOpen(executing) = {}
          /\ tick' = [tick EXCEPT !.pc = "stage", !.queue = {}, !.piles = {}, !.tries = 0, !.spent = 0,
                                  !.blind = executing # Lane("executing")]
    BY <1>5 DEF Serial, Refused
  <2>2. tick'.pc = "stage" /\ tick'.seen = tick.seen /\ tick'.moved = tick.moved /\ (tick'.blind <=> executing # Lane("executing"))
    BY <2>1, Typed DEF Ticks
  <2>3. ASSUME ~tick'.blind, NEW t \in Unmoved PROVE FALSE
    <3>1. StillOpen(Lane("executing")) = {} /\ tick.pc = "serial"
      BY <1>5, <2>1, <2>2, <2>3 DEF Serial
    <3>2. t \in SameRepo(OpenTickets) /\ (board[t].lane = "queue" => t \in tick.queue) /\ (t \in Attention => t \in tick.piles)
      BY <2>3, <3>1 DEF Watched
    <3>3. t \in Tickets /\ board[t].lane \in {"queue", "executing", "review", "parked", "needs_human"}
      <4>1. t \in Tickets /\ board[t].lane \in Lanes /\ board[t].lane \notin {"none", "closed"}
        <5>1. t \in Tickets /\ board[t] \in Filed
          BY <3>2, Typed DEF SameRepo, OpenTickets
        <5> QED  BY <3>2, <5>1 DEF SameRepo, OpenTickets, Filed
      <4> QED  BY <4>1 DEF Lanes
    <3>4. t \in tick.queue \union tick.piles \union Lane("executing")
      BY <3>2, <3>3 DEF Attention, Lane
    <3>5. Cur.repo # "none" /\ board[t].repo = Cur.repo
      BY <3>2 DEF SameRepo
    <3>6. t \in StillOpen(Lane("executing"))
      BY <3>3, <3>4, <3>5 DEF StillOpen, SameRepo
    <3> QED  BY <3>1, <3>6
  <2> QED  BY <1>0, <2>2, <2>3 DEF Watched, Unmoved
<1>6. CASE tick' # NextCard /\ Workspace
  BY <1>6 DEF Workspace, Refused
<1> QED  BY <1>1, <1>2, <1>3, <1>4, <1>5, <1>6

LEMMA RunWatched ==
  ASSUME KeeperTypeOK, Where, Watched, Try \/ StageEnd \/ Recheck \/ FileTicket
  PROVE  Watched'
<1>0. Busy
  BY DEF Busy, Try, StageEnd, Recheck, FileTicket
<1>1. CASE tick' = NoTick
  BY <1>0, <1>1, LeftUnwatched, NothingWatched
<1>2. CASE Try
  <2>1. tick'.pc = "stage" /\ tick'.seen = tick.seen /\ tick'.moved = tick.moved /\ tick'.blind = tick.blind /\ board' = board /\ tick.pc = "stage"
    BY <1>2, Typed DEF Try, Ticks
  <2> QED  BY <2>1 DEF Watched, Unmoved
<1>3. CASE tick' # NoTick /\ StageEnd
  <2>1. PICK left : tick' = [tick EXCEPT !.pc = "recheck", !.left = left, !.seen = Eligible(Lane("queue")), !.moved = {}, !.tries = 0, !.spent = 0]
    BY <1>3 DEF StageEnd, EndRun
  <2>2. tick'.pc = "recheck" /\ tick'.seen = Eligible(Lane("queue")) /\ board' = board
    BY <1>3, <2>1, Typed DEF StageEnd, Ticks
  <2>3. Eligible(Lane("queue"))' = Eligible(Lane("queue")) /\ \A t \in Eligible(Lane("queue")) : board[t].lane # "none"
    BY <2>2 DEF Eligible, Lane
  <2> QED  BY <2>2, <2>3 DEF Watched, Unmoved
<1>4. CASE tick' # NoTick /\ Recheck
  <2>1. tick' = [tick EXCEPT !.pc = "file"] /\ Eligible(Lane("queue")) = {} /\ tick.pc = "recheck" /\ board' = board
    BY <1>4 DEF Recheck, EndRun
  <2>2. tick'.pc = "file" /\ tick'.seen = tick.seen /\ tick'.moved = tick.moved
    BY <2>1, Typed DEF Ticks
  <2>3. Unmoved = {}
    BY <2>1 DEF Watched
  <2> QED  BY <2>1, <2>2, <2>3 DEF Watched, Unmoved
<1>5. CASE tick' # NoTick /\ FileTicket
  <2>1. tick' = [tick EXCEPT !.left = @ - 1] /\ tick.pc = "file"
    BY <1>5 DEF FileTicket, EndRun
  <2>2. tick'.pc = "file" /\ tick'.seen = tick.seen /\ tick'.moved = tick.moved
    BY <2>1, Typed DEF Ticks
  <2>3. \A t \in tick.seen : board'[t] = board[t]
    <3>1. \A t \in tick.seen : t \in Tickets /\ board[t].lane # "none"
      BY Typed DEF Watched, Ticks
    <3>2. CASE board' = board
      BY <3>2
    <3>3. CASE board' # board
      <4>1. FreeTicket \in Tickets /\ board[FreeTicket].lane = "none" /\ \E r : board' = [board EXCEPT ![FreeTicket] = r]
        BY <1>5, <3>3, FreeIs DEF FileTicket
      <4> QED  BY <3>1, <4>1, Typed
    <3> QED  BY <3>2, <3>3
  <2> QED  BY <2>1, <2>2, <2>3 DEF Watched, Unmoved
<1> QED  BY <1>1, <1>2, <1>3, <1>4, <1>5 DEF Try

\* A ticket that is watched and not seen to move has the place it had.
LEMMA SameTickets ==
  ASSUME KeeperTypeOK, Watched, tick'.pc = tick.pc, tick'.i = tick.i, tick'.seen = tick.seen, tick.moved \subseteq tick'.moved,
         tick'.queue = tick.queue, tick'.piles = tick.piles, tick'.blind = tick.blind,
         \A t \in tick.seen : board'[t].lane # "none" /\ (t \in tick'.moved \/ board'[t] = board[t])
  PROVE  Watched'
<1>1. \A t \in tick'.seen : board'[t].lane # "none"
  OBVIOUS
<1>2. Unmoved' \subseteq Unmoved
  BY DEF Unmoved
<1>3. ASSUME NEW t \in Unmoved'
      PROVE  t \in Unmoved /\ board'[t] = board[t] /\ t \in Tickets
  BY <1>2, <1>3, Typed DEF Unmoved, Ticks
<1>4. ASSUME NEW t \in Unmoved'
      PROVE  /\ t \in SameRepo(OpenTickets) => t \in SameRepo(OpenTickets)'
             /\ t \in Attention' => t \in Attention
             /\ t \in Eligible(Lane("queue")) => t \in Eligible(Lane("queue"))'
  BY <1>3, <1>4 DEF SameRepo, OpenTickets, Attention, Eligible, Lane, Cur
<1>5. tick'.pc \in {"piles", "serial"} => \A t \in Unmoved' :
        /\ t \in SameRepo(OpenTickets)' /\ (board'[t].lane = "queue" => t \in tick'.queue)
        /\ tick'.pc = "serial" /\ t \in Attention' => t \in tick'.piles
  BY <1>3, <1>4 DEF Watched
<1>6. tick'.pc = "stage" /\ ~tick'.blind => Unmoved' = {}
  BY <1>2 DEF Watched
<1>7. tick'.pc = "recheck" => Unmoved' \subseteq Eligible(Lane("queue"))'
  BY <1>3, <1>4 DEF Watched
<1>8. tick'.pc = "file" => \A t \in Unmoved' : board'[t].lane # "queue"
  BY <1>3 DEF Watched
<1> QED  BY <1>1, <1>5, <1>6, <1>7, <1>8 DEF Watched

LEMMA BesideWatched ==
  ASSUME KeeperTypeOK, Where, Watched, Pass \/ Arrive \/ Veto \/ Move \/ Damage \/ DaemonCrash
  PROVE  Watched'
<1>0. \A t \in tick.seen : t \in Tickets /\ board[t].lane # "none"
  BY Typed DEF Watched, Ticks
<1>1. CASE Pass \/ Veto \/ Damage
  <2>1. tick' = tick /\ board' = board
    BY <1>1 DEF Pass, Veto, Damage
  <2> QED  BY <1>0, <2>1, SameTickets
<1>2. CASE Arrive
  <2>1. tick' = tick /\ FreeTicket \in Tickets /\ board[FreeTicket].lane = "none" /\ \E r : board' = [board EXCEPT ![FreeTicket] = r]
    BY <1>2, FreeIs DEF Arrive
  <2>2. \A t \in tick.seen : board'[t] = board[t]
    BY <1>0, <2>1, Typed
  <2> QED  BY <1>0, <2>1, <2>2, SameTickets
<1>3. CASE Move
  <2>1. PICK t \in OpenTickets : \E to \in Lanes :
            /\ to \in Onward[board[t].lane] /\ t \in Tickets /\ to # "none"
            /\ board' = [board EXCEPT ![t] = IF to = "closed" THEN [NoTicket EXCEPT !.lane = to] ELSE [board[t] EXCEPT !.lane = to]]
            /\ tick' = [tick EXCEPT !.moved = IF tick.seen = {} THEN {} ELSE @ \union {t}]
    BY <1>3, MoveIs
  <2>2. PICK to \in Lanes :
            /\ t \in Tickets /\ to # "none"
            /\ board' = [board EXCEPT ![t] = IF to = "closed" THEN [NoTicket EXCEPT !.lane = to] ELSE [board[t] EXCEPT !.lane = to]]
            /\ tick' = [tick EXCEPT !.moved = IF tick.seen = {} THEN {} ELSE @ \union {t}]
    BY <2>1
  <2>3. /\ tick'.pc = tick.pc /\ tick'.i = tick.i /\ tick'.seen = tick.seen /\ tick'.queue = tick.queue
        /\ tick'.piles = tick.piles /\ tick'.blind = tick.blind
        /\ tick'.moved = IF tick.seen = {} THEN {} ELSE tick.moved \union {t}
    BY <2>2, Typed DEF Ticks
  <2>4. CASE tick.seen = {}
    BY <2>3, <2>4, NothingWatched
  <2>5. CASE tick.seen # {}
    <3>1. board'[t].lane # "none"
      BY <2>2, Typed DEF NoTicket, Filed
    <3>2. \A u \in tick.seen : board'[u].lane # "none" /\ (u \in tick'.moved \/ board'[u] = board[u])
      BY <1>0, <2>2, <2>3, <2>5, <3>1, Typed
    <3>3. tick.moved \subseteq tick'.moved
      BY <2>3, <2>5
    <3> QED  BY <2>3, <3>2, <3>3, SameTickets
  <2> QED  BY <2>4, <2>5
<1>4. CASE DaemonCrash
  BY <1>4, NothingWatched DEF DaemonCrash, NoTick
<1> QED  BY <1>1, <1>2, <1>3, <1>4

LEMMA NextWatched ==
  ASSUME KeeperTypeOK, Where, Watched, [KeeperNext]_keeperVars
  PROVE  Watched'
<1>1. CASE KeeperNext
  BY <1>1, ScanUnwatched, GateWatched, RunWatched, BesideWatched DEF KeeperNext
<1>2. CASE UNCHANGED keeperVars
  <2>1. UNCHANGED <<tick, board>>
    BY <1>2 DEF keeperVars
  <2> QED  BY <2>1 DEF Watched, Unmoved, SameRepo, OpenTickets, Attention, Eligible, Lane, Cur
<1> QED  BY <1>1, <1>2

-----------------------------------------------------------------------------
(* What a card has spent. *)

LEMMA Product ==
  ASSUME NEW a \in Nat, NEW b \in Nat, NEW p \in Int, a =< b, p >= 0
  PROVE  a * p \in Int /\ b * p \in Int /\ a * p =< b * p
<1>1. PICK d \in Nat : b = a + d
  <2>1. b - a \in Nat /\ b = a + (b - a)
    OBVIOUS
  <2> QED  BY <2>1
<1>2. b * p = a * p + d * p /\ a * p \in Int /\ d * p \in Int /\ b * p \in Int
  BY <1>1
<1>3. d * p >= 0
  OBVIOUS
<1> QED  BY <1>2, <1>3

LEMMA OneMore ==
  ASSUME NEW a \in Nat, NEW p \in Int
  PROVE  (a + 1) * p = a * p + p /\ a * p \in Int
OBVIOUS

LEMMA TotalZero ==
  ASSUME NEW f, NEW n \in Nat, \A k \in 1..n : f[k] = 0
  PROVE  Total(f, n) = 0
<1>1. PICK A : Sums(A, f, n) /\ Total(f, n) = A[n]
  BY TotalSums
<1> DEFINE Bad == {k \in 0..n : A[k] # 0}
<1>2. Bad = {}
  <2> SUFFICES ASSUME Bad # {} PROVE FALSE
    OBVIOUS
  <2>1. PICK k \in Bad : \A j \in Bad : k =< j
    <3>1. Bad \in SUBSET Nat
      OBVIOUS
    <3> HIDE DEF Bad
    <3> QED  BY <3>1, LeastExists
  <2>2. k \in 1..n /\ A[k] # 0
    BY <1>1, <2>1 DEF Sums
  <2>3. k - 1 \notin Bad /\ k - 1 \in 0..n
    BY <2>1, <2>2
  <2>4. A[k - 1] = 0
    BY <2>3
  <2>5. A[k] = A[k - 1] + f[k] /\ f[k] = 0
    BY <1>1, <2>2 DEF Sums
  <2> QED  BY <2>2, <2>4, <2>5
<1>3. n \in 0..n
  OBVIOUS
<1> QED  BY <1>1, <1>2, <1>3

\* What each row counts for a card, now and after a step.
CostOf(row, name, date) == IF row.card = name /\ row.at >= date - Week THEN row.cost ELSE 0

LEMMA CostAges ==
  ASSUME NEW x, x.cost \in Nat, x.at \in Nat, NEW name, NEW t \in Nat, NEW u \in Nat, t =< u
  PROVE  CostOf(x, name, u) =< CostOf(x, name, t)
<1>1. x.at >= u - Week => x.at >= t - Week
  BY Bounds
<1> QED  BY <1>1 DEF CostOf

LEMMA RowsAre ==
  ASSUME NEW s \in Seq(StageRows)
  PROVE  DOMAIN s = 1..Len(s) /\ Len(s) \in Nat /\ \A r \in 1..Len(s) : s[r] \in StageRows /\ s[r].cost \in Nat /\ s[r].at \in Nat
<1>1. DOMAIN s = 1..Len(s) /\ Len(s) \in Nat /\ \A r \in 1..Len(s) : s[r] \in StageRows
  OBVIOUS
<1>2. \A x \in StageRows : x.cost \in Nat /\ x.at \in Minutes
  BY DEF StageRows
<1>3. \A m \in Minutes : m \in Nat
  BY Bounds
<1> QED  BY <1>1, <1>2, <1>3

LEMMA CostsAre ==
  ASSUME KeeperTypeOK, NEW name
  PROVE  \A r \in 1..Len(rows) : Costs(name)[r] = CostOf(rows[r], name, clock) /\ Costs(name)[r] \in Nat
BY Typed, RowsAre DEF Costs, RecentRows, CostOf

LEMMA CostsWillBe ==
  ASSUME KeeperTypeOK', NEW name
  PROVE  \A r \in 1..Len(rows') : Costs(name)'[r] = CostOf(rows'[r], name, clock') /\ Costs(name)'[r] \in Nat
<1>1. rows' \in Seq(StageRows)
  BY DEF KeeperTypeOK, StageRows
<1> QED  BY <1>1, RowsAre DEF Costs, RecentRows, CostOf

LEMMA UptoIs ==
  ASSUME KeeperTypeOK, NEW name, NEW n \in 0..Len(rows)
  PROVE  /\ Upto(name, n) = {r \in 1..n : rows[r].card = name /\ rows[r].at >= clock - Week}
         /\ IsFiniteSet(Upto(name, n)) /\ Cardinality(Upto(name, n)) \in Nat
<1>1. Upto(name, n) = {r \in 1..n : rows[r].card = name /\ rows[r].at >= clock - Week}
  BY Typed, RowsAre DEF Upto, RecentRows
<1>2. IsFiniteSet(1..n)
  BY FS_Interval, Typed
<1> QED  BY <1>1, <1>2, FS_Subset, FS_CardinalityType

LEMMA UptoWillBe ==
  ASSUME KeeperTypeOK', NEW name, NEW n \in 0..Len(rows')
  PROVE  Upto(name, n)' = {r \in 1..n : rows'[r].card = name /\ rows'[r].at >= clock' - Week}
<1>1. rows' \in Seq(StageRows)
  BY DEF KeeperTypeOK, StageRows
<1> QED  BY <1>1, RowsAre DEF Upto, RecentRows

Priced(c) == c.perRun \in Int /\ c.weekly \in Int

\* Rows only age.
LEMMA Shrinks ==
  ASSUME KeeperTypeOK, KeeperTypeOK', NEW c, Priced(c), NEW n \in 0..Len(rows), NEW m \in 0..Len(rows'), NEW a, NEW b,
         clock =< clock', n =< m, \A r \in 1..n : rows'[r] = rows[r],
         \A r \in (n + 1)..m : rows'[r].card # c.name, Under(c, n, a, b), a \in Int, b \in Nat
  PROVE  Under(c, m, a, b)'
<1> DEFINE f == Costs(c.name)
           g == Costs(c.name)'
           U == Upto(c.name, n)
           V == {r \in 1..m : rows'[r].card = c.name /\ rows'[r].at >= clock' - Week}
<1>1. n \in Nat /\ m \in Nat /\ clock \in Nat /\ clock' \in Nat /\ Len(rows) \in Nat /\ rows \in Seq(StageRows)
  <2>1. clock' \in Minutes
    BY DEF KeeperTypeOK
  <2>2. Len(rows') \in Nat
    BY DEF KeeperTypeOK
  <2> QED  BY <2>1, <2>2, Whole, Typed, Bounds
<1>2. \A r \in 1..n : f[r] \in Nat /\ f[r] = CostOf(rows[r], c.name, clock)
  BY <1>1, CostsAre
<1>3. \A r \in 1..m : g[r] \in Nat /\ g[r] = CostOf(rows'[r], c.name, clock')
  BY <1>1, CostsWillBe
<1>4. \A r \in 1..n : g[r] =< f[r]
  <2>1. \A r \in 1..n : rows[r].cost \in Nat /\ rows[r].at \in Nat
    BY <1>1, RowsAre
  <2>2. ASSUME NEW r \in 1..n
        PROVE  CostOf(rows[r], c.name, clock') =< CostOf(rows[r], c.name, clock)
    BY <1>1, <2>1, CostAges
  <2> QED  BY <1>1, <1>2, <1>3, <2>2
<1>5. \A r \in (n + 1)..m : g[r] = 0
  BY <1>1, <1>3 DEF CostOf
<1>6. V \subseteq U
  <2>1. U = {r \in 1..n : rows[r].card = c.name /\ rows[r].at >= clock - Week}
    BY UptoIs
  <2>2. ASSUME NEW r \in V PROVE r \in U
    <3>1. r \in 1..n /\ rows'[r] = rows[r]
      BY <1>1, <2>2
    <3>2. rows[r].at \in Nat /\ rows[r].at >= clock' - Week /\ rows[r].card = c.name
      BY <1>1, <2>2, <3>1, RowsAre
    <3> QED  BY <1>1, <2>1, <3>1, <3>2, Bounds
  <2> QED  BY <2>2
<1>7. V = Upto(c.name, m)'
  BY UptoWillBe
<1> HIDE DEF f, g, U, V
<1>8. Total(g, m) =< Total(f, n) /\ Total(g, m) \in Nat /\ Total(f, n) \in Nat
  <2>1. Total(g, n) =< Total(f, n) /\ Total(g, n) \in Nat /\ Total(f, n) \in Nat
    <3>1. n \in Nat /\ n \in 0..n /\ \A r \in 1..n : f[r] \in Nat
      BY <1>1, <1>2
    <3>2. \A r \in 1..n : g[r] \in Nat /\ g[r] =< f[r]
      BY <1>1, <1>3, <1>4
    <3> QED  BY <3>1, <3>2, TotalOrder
  <2>2. Total(g, m) =< Total(g, n) /\ Total(g, m) \in Nat
    BY <1>1, <1>3, <1>5, TotalPadded
  <2> QED  BY <2>1, <2>2
<1>9. Total(g, m) < c.weekly + a
  BY <1>8 DEF Under, Priced, f
<1>10. ASSUME Blank(c, m)'
       PROVE  Cardinality(V) * c.perRun < c.weekly + b * c.perRun
  <2>1. Blank(c, n) /\ c.perRun >= 0
    BY <1>1, <1>10 DEF Blank
  <2>2. IsFiniteSet(U) /\ Cardinality(U) \in Nat
    BY UptoIs DEF U
  <2>3. Cardinality(V) =< Cardinality(U) /\ Cardinality(V) \in Nat
    BY <1>6, <2>2, FS_Subset, FS_CardinalityType
  <2>4. Cardinality(V) * c.perRun =< Cardinality(U) * c.perRun /\ Cardinality(V) * c.perRun \in Int /\ Cardinality(U) * c.perRun \in Int
    BY <2>1, <2>2, <2>3, Product DEF Priced
  <2>5. Cardinality(U) * c.perRun < c.weekly + b * c.perRun
    BY <2>1 DEF Under, U
  <2>6. b * c.perRun \in Int
    BY DEF Priced
  <2> QED  BY <2>4, <2>5, <2>6 DEF Priced
<1> QED  BY <1>7, <1>9, <1>10 DEF Under, g

LEMMA Chain ==
  ASSUME NEW x \in Int, NEW y \in Int, NEW u \in Int, NEW p \in Int, NEW w \in Int, x =< y + p, y < w + u
  PROVE  x < w + (u + p)
OBVIOUS

\* A try adds what it cost, and one.
LEMMA Tried ==
  ASSUME KeeperTypeOK, KeeperTypeOK', NEW c, Priced(c), NEW k \in Nat, NEW a \in Int, NEW b \in Nat, clock' = clock,
         rows' = Append(rows, [card |-> c.name, at |-> clock, cost |-> k]), Under(c, Len(rows), a, b)
  PROVE  Under(c, Len(rows), a + k, b + 1)'
<1>0. PICK N \in Nat : N = Len(rows)
  BY Typed
<1> DEFINE f == Costs(c.name)
           g == Costs(c.name)'
           U == Upto(c.name, N)
           V == {r \in 1..(N + 1) : rows'[r].card = c.name /\ rows'[r].at >= clock' - Week}
<1>1. N \in Nat /\ Len(rows') = N + 1 /\ rows \in Seq(StageRows) /\ clock \in Nat /\ N \in 0..Len(rows) /\ N + 1 \in 0..Len(rows')
  BY <1>0, Typed, Whole
<1>2. \A r \in 1..N : rows'[r] = rows[r]
  BY <1>0, <1>1
<1>3. rows'[N + 1] = [card |-> c.name, at |-> clock, cost |-> k]
  BY <1>0, <1>1
<1>4. \A r \in 1..N : f[r] \in Nat /\ f[r] = CostOf(rows[r], c.name, clock)
  BY <1>0, CostsAre
<1>5. \A r \in 1..(N + 1) : g[r] \in Nat /\ g[r] = CostOf(rows'[r], c.name, clock')
  BY <1>1, CostsWillBe
<1>6. \A r \in 1..N : f[r] \in Nat /\ g[r] = f[r]
  BY <1>1, <1>2, <1>4, <1>5
<1>7. g[N + 1] \in Nat /\ g[N + 1] =< k
  BY <1>1, <1>3, <1>5 DEF CostOf
<1>8. V \subseteq U \union {N + 1}
  <2>1. U = {r \in 1..N : rows[r].card = c.name /\ rows[r].at >= clock - Week}
    BY <1>1, UptoIs
  <2> QED  BY <1>1, <1>2, <2>1
<1>9. V = Upto(c.name, N + 1)'
  BY <1>1, UptoWillBe
<1> HIDE DEF f, g, U, V
<1>10. Total(g, N + 1) = Total(f, N) + g[N + 1] /\ Total(f, N) \in Nat
  <2>1. \A r \in 1..N : f[r] \in Nat
    BY <1>6
  <2> QED  BY <1>1, <1>6, <1>7, <2>1, TotalStep, TotalNat
<1>11. Total(g, N + 1) < c.weekly + (a + k)
  <2>1. Total(f, N) < c.weekly + a
    BY <1>0 DEF Under, f
  <2> QED  BY <1>7, <1>10, <2>1 DEF Priced
<1>12. ASSUME Blank(c, N + 1)'
       PROVE  Cardinality(V) * c.perRun < c.weekly + (b + 1) * c.perRun
  <2>1. Blank(c, N) /\ c.perRun >= 0
    BY <1>1, <1>2, <1>12 DEF Blank
  <2>2. IsFiniteSet(U) /\ Cardinality(U) \in Nat
    BY <1>1, UptoIs DEF U
  <2>3. IsFiniteSet(U \union {N + 1}) /\ Cardinality(U \union {N + 1}) \in Nat /\ Cardinality(U \union {N + 1}) =< Cardinality(U) + 1
    <3>1. IsFiniteSet(U \union {N + 1}) /\ Cardinality(U \union {N + 1}) \in {Cardinality(U), Cardinality(U) + 1}
      BY <2>2, FS_AddElement
    <3> QED  BY <2>2, <3>1
  <2>4. Cardinality(V) =< Cardinality(U) + 1 /\ Cardinality(V) \in Nat
    <3>1. Cardinality(V) =< Cardinality(U \union {N + 1}) /\ Cardinality(V) \in Nat
      BY <1>8, <2>3, FS_Subset, FS_CardinalityType
    <3> QED  BY <2>2, <2>3, <3>1
  <2>5. Cardinality(V) * c.perRun =< (Cardinality(U) + 1) * c.perRun /\ Cardinality(V) * c.perRun \in Int
    BY <2>1, <2>2, <2>4, Product DEF Priced
  <2>6. (Cardinality(U) + 1) * c.perRun = Cardinality(U) * c.perRun + c.perRun /\ Cardinality(U) * c.perRun \in Int
        /\ (b + 1) * c.perRun = b * c.perRun + c.perRun /\ b * c.perRun \in Int
    BY <2>2, OneMore DEF Priced
  <2>7. Cardinality(U) * c.perRun < c.weekly + b * c.perRun
    BY <1>0, <2>1 DEF Under, U
  <2>8. Cardinality(V) * c.perRun =< Cardinality(U) * c.perRun + c.perRun
    BY <2>5, <2>6
  <2>9. Cardinality(V) * c.perRun < c.weekly + (b * c.perRun + c.perRun)
    BY <2>5, <2>6, <2>7, <2>8, Chain DEF Priced
  <2> QED  BY <2>6, <2>9
<1>13. Total(Costs(c.name)', Len(rows')) < c.weekly + (a + k)
  BY <1>1, <1>11 DEF g
<1>14. Blank(c, Len(rows))' => Cardinality(Upto(c.name, Len(rows))') * c.perRun < c.weekly + (b + 1) * c.perRun
  BY <1>1, <1>9, <1>12
<1> QED  BY <1>13, <1>14 DEF Under

\* A larger allowance.
LEMMA Allows ==
  ASSUME KeeperTypeOK', NEW c, Priced(c), NEW n \in 0..Len(rows'), NEW a \in Int, NEW b \in Nat, NEW x \in Int, NEW y \in Nat,
         a =< x, b =< y, Under(c, n, a, b)'
  PROVE  Under(c, n, x, y)'
<1> DEFINE spend == Total(Costs(c.name)', n)
           V == Upto(c.name, n)'
<1>1. n \in Nat /\ \A r \in 1..n : r \in 1..Len(rows')
  BY DEF KeeperTypeOK
<1>2. spend \in Nat
  <2>1. \A r \in 1..n : Costs(c.name)'[r] \in Nat
    BY <1>1, CostsWillBe
  <2> HIDE DEF Costs
  <2> QED  BY <1>1, <2>1, TotalNat
<1>3. Cardinality(V) \in Nat
  <2>1. V \subseteq 1..n
    BY UptoWillBe
  <2>2. IsFiniteSet(1..n)
    BY <1>1, FS_Interval
  <2> HIDE DEF V
  <2> QED  BY <2>1, <2>2, FS_Subset, FS_CardinalityType
<1>4. spend < c.weekly + a /\ (Blank(c, n)' => Cardinality(V) * c.perRun < c.weekly + b * c.perRun)
  BY DEF Under
<1> HIDE DEF spend, V
<1>5. spend < c.weekly + x
  BY <1>2, <1>4 DEF Priced
<1>6. ASSUME Blank(c, n)'
      PROVE  Cardinality(V) * c.perRun < c.weekly + y * c.perRun
  <2>1. c.perRun >= 0
    BY <1>6 DEF Blank
  <2>2. b * c.perRun =< y * c.perRun /\ b * c.perRun \in Int /\ y * c.perRun \in Int
    BY <2>1, Product DEF Priced
  <2>3. Cardinality(V) * c.perRun \in Int
    BY <1>3 DEF Priced
  <2> QED  BY <1>4, <1>6, <2>2, <2>3 DEF Priced
<1> QED  BY <1>5, <1>6 DEF Under, spend, V

LEMMA Granted ==
  ASSUME KeeperTypeOK, NEW c, Priced(c), WithinBudget(c)
  PROVE  Under(c, Len(rows), 0, 0)
<1> DEFINE N == Len(rows)
           U == Upto(c.name, N)
           spend == Total(Costs(c.name), N)
<1>1. N \in Nat /\ N \in 0..Len(rows)
  BY Typed
<1>2. \A r \in 1..N : Costs(c.name)[r] = CostOf(rows[r], c.name, clock) /\ Costs(c.name)[r] \in Nat
  BY CostsAre
<1>3. spend \in Nat /\ spend = StageSpend(c.name)
  BY <1>1, <1>2, TotalNat DEF StageSpend
<1>4. U = RecentRows(c.name) /\ Cardinality(U) \in Nat /\ Estimate(c) = Cardinality(U) * c.perRun
  <2>1. U = RecentRows(c.name)
    BY Typed, RowsAre DEF Upto, RecentRows
  <2> QED  BY <1>1, <2>1, UptoIs DEF Estimate, StageRunCount
<1> HIDE DEF U, spend
<1>5. Estimate(c) \in Int
  BY <1>4 DEF Priced
<1>6. spend < c.weekly
  BY <1>3, <1>5 DEF WithinBudget, EffectiveSpend, Priced
<1>7. ASSUME Blank(c, N)
      PROVE  Estimate(c) < c.weekly
  <2>1. c.perRun >= 0 /\ \A r \in 1..N : rows[r].card = c.name => rows[r].cost = 0
    BY <1>7 DEF Blank
  <2>2. \A r \in 1..N : Costs(c.name)[r] = 0
    BY <1>2, <2>1 DEF CostOf
  <2>3. spend = 0
    BY <1>1, <2>2, TotalZero DEF spend
  <2> QED  BY <1>3, <1>5, <1>6, <2>1, <2>3 DEF WithinBudget, EffectiveSpend, Priced
<1>8. spend < c.weekly + 0 /\ 0 * c.perRun = 0 /\ c.weekly + 0 * c.perRun = c.weekly
  BY <1>6 DEF Priced
<1> QED  BY <1>4, <1>7, <1>8 DEF Under, U, spend

LEMMA PricedIs == \A i \in Keepers : Priced(Keeper(i)) /\ StageCost(Keeper(i)) \in Nat
BY KeeperFacts, BudgetNat DEF Priced

-----------------------------------------------------------------------------
(* The envelope, step by step. *)

Spent(n) == \A i \in Keepers :
  (\E r \in 1..n : rows[r].card = Keeper(i).name) => Under(Keeper(i), n, StageCost(Keeper(i)), Tries)
Reading == tick.pc \in {"humans", "piles", "serial"}

\* Rows that stay, or are cut back to what has been written.
LEMMA SpentKept ==
  ASSUME KeeperTypeOK, KeeperTypeOK', Metered, clock =< clock', flushed =< flushed',
         \A r \in 1..Len(rows') : r =< Len(rows) => rows'[r] = rows[r]
  PROVE  \A n \in flushed'..Len(rows') : n =< Len(rows) => Spent(n)'
<1> SUFFICES ASSUME NEW n \in flushed'..Len(rows'), n =< Len(rows), NEW i \in Keepers, \E r \in 1..n : rows'[r].card = Keeper(i).name
             PROVE  Under(Keeper(i), n, StageCost(Keeper(i)), Tries)'
  BY DEF Spent
<1>1. n \in flushed..Len(rows) /\ n \in 0..Len(rows) /\ n \in 0..Len(rows') /\ n \in Nat /\ n =< Len(rows')
  <2>1. flushed' \in Nat /\ Len(rows') \in Nat
    BY DEF KeeperTypeOK
  <2> QED  BY <2>1, Typed
<1>2. \A r \in 1..n : rows'[r] = rows[r]
  BY <1>1
<1>3. Under(Keeper(i), n, StageCost(Keeper(i)), Tries)
  BY <1>1, <1>2 DEF Metered
<1>4. \A r \in (n + 1)..n : rows'[r].card # Keeper(i).name
  BY <1>1
<1>5. Priced(Keeper(i)) /\ StageCost(Keeper(i)) \in Int /\ Tries \in Nat /\ n =< n
  BY <1>1, PricedIs, Bounds
<1> QED  BY <1>1, <1>2, <1>3, <1>4, <1>5, Shrinks

LEMMA MeterKept ==
  ASSUME KeeperTypeOK, KeeperTypeOK', Where, Metered, clock =< clock', rows' = rows, flushed =< flushed',
         \/ ~Reading' /\ tick'.pc # "stage"
         \/ Reading /\ tick'.i = tick.i /\ (Reading' \/ (tick'.pc = "stage" /\ tick'.spent = 0 /\ tick'.tries = 0))
         \/ tick.pc = "stage" /\ tick'.pc = "stage" /\ tick'.i = tick.i /\ tick'.spent = tick.spent /\ tick'.tries = tick.tries
  PROVE  Metered'
<1>1. \A n \in flushed'..Len(rows') : Spent(n)'
  <2>1. \A n \in flushed'..Len(rows') : n =< Len(rows)
    BY Typed
  <2> QED  BY <2>1, SpentKept
<1>2. ASSUME Reading \/ tick.pc = "stage", tick'.i = tick.i, NEW a \in Int, NEW b \in Nat, Under(Cur, Len(rows), a, b)
      PROVE  Under(Cur, Len(rows), a, b)'
  <2>1. tick.i \in Keepers /\ Cur' = Cur /\ Priced(Cur)
    <3>1. Busy
      BY <1>2 DEF Busy, Reading
    <3> QED  BY <1>2, <3>1, CurIs, PricedIs DEF Cur
  <2>2. Len(rows) \in 0..Len(rows) /\ Len(rows) \in 0..Len(rows') /\ Len(rows) =< Len(rows) /\ (Len(rows) + 1)..Len(rows) = {}
    BY Typed
  <2>3. Under(Keeper(tick.i), Len(rows), a, b)'
    <3>1. Under(Keeper(tick.i), Len(rows), a, b) /\ Priced(Keeper(tick.i))
      BY <1>2, <2>1 DEF Cur
    <3> QED  BY <1>2, <2>1, <2>2, <3>1, Shrinks
  <2> QED  BY <2>3 DEF Cur
<1>3. Reading => Under(Cur, Len(rows), 0, 0)
  BY DEF Metered, Reading
<1>4. tick.pc = "stage" => /\ Under(Cur, Len(rows), tick.spent, tick.tries) /\ tick.spent \in Int /\ tick.tries \in Nat
                           /\ tick.spent =< StageCost(Cur) /\ (tick.tries = 0 => tick.spent = 0)
  BY Typed, Bounds DEF Metered, Ticks
<1>5. CASE ~Reading' /\ tick'.pc # "stage"
  BY <1>1, <1>5 DEF Metered, Spent, Reading
<1>6. CASE Reading /\ tick'.i = tick.i /\ (Reading' \/ (tick'.pc = "stage" /\ tick'.spent = 0 /\ tick'.tries = 0))
  <2>1. Under(Cur, Len(rows), 0, 0)'
    <3>1. (Reading \/ tick.pc = "stage") /\ tick'.i = tick.i /\ Under(Cur, Len(rows), 0, 0) /\ 0 \in Int /\ 0 \in Nat
      BY <1>3, <1>6
    <3> HIDE DEF Reading
    <3> QED  BY <1>2, <3>1
  <2>2. 0 =< StageCost(Cur)'
    <3>1. Busy
      BY <1>6 DEF Busy, Reading
    <3>2. Cur' = Cur /\ StageCost(Cur) \in Nat
      BY <1>6, <3>1, CurIs, BudgetNat DEF Cur
    <3> QED  BY <1>6, <3>1, <3>2, CurIs, PricedIs DEF Cur
  <2> QED  BY <1>1, <1>6, <2>1, <2>2 DEF Metered, Spent, Reading
<1>7. CASE tick.pc = "stage" /\ tick'.pc = "stage" /\ tick'.i = tick.i /\ tick'.spent = tick.spent /\ tick'.tries = tick.tries
  <2>1. Under(Cur, Len(rows), tick.spent, tick.tries)'
    BY <1>2, <1>4, <1>7
  <2>2. tick'.spent =< StageCost(Cur)' /\ (tick'.tries = 0 => tick'.spent = 0)
    BY <1>4, <1>7 DEF Cur
  <2> QED  BY <1>1, <1>7, <2>1, <2>2 DEF Metered, Spent, Reading
<1> QED  BY <1>5, <1>6, <1>7

LEMMA MeterSame ==
  ASSUME KeeperTypeOK, KeeperTypeOK', Where, Metered, clock =< clock', rows' = rows, flushed' = flushed,
         tick'.pc = tick.pc, tick'.i = tick.i, tick'.spent = tick.spent, tick'.tries = tick.tries
  PROVE  Metered'
<1>1. flushed =< flushed'
  BY Typed
<1>2. Reading' <=> Reading
  BY DEF Reading
<1> HIDE DEF Reading
<1> QED  BY <1>1, <1>2, MeterKept

LEMMA MeterOff ==
  ASSUME KeeperTypeOK, KeeperTypeOK', Where, Metered, UNCHANGED <<clock, rows>>, flushed' \in {flushed, Len(rows)},
         tick'.pc \in {"idle", "cards", "budget", "recheck", "file"}
  PROVE  Metered'
<1>1. flushed =< flushed' /\ clock =< clock'
  BY Typed, Whole
<1>2. ~Reading' /\ tick'.pc # "stage"
  BY DEF Reading
<1> HIDE DEF Reading
<1> QED  BY <1>1, <1>2, MeterKept

LEMMA ScanMetered ==
  ASSUME KeeperTypeOK, KeeperTypeOK', Where, Metered, TickBegin \/ NotDue \/ PassOver \/ Mark \/ TickEnd
  PROVE  Metered'
<1>1. UNCHANGED <<clock, rows>> /\ flushed' \in {flushed, Len(rows)}
  BY DEF TickBegin, NotDue, PassOver, Mark, TickEnd, Flush
<1>2. CASE TickBegin
  <2>1. tick'.pc \in {"idle", "cards"}
    <3>1. CASE file.readable
      BY <1>2, <3>1 DEF TickBegin, NoTick
    <3>2. CASE ~file.readable
      BY <1>2, <3>2 DEF TickBegin
    <3> QED  BY <3>1, <3>2
  <2> QED  BY <1>1, <2>1, MeterOff
<1>3. CASE NotDue \/ PassOver
  <2>1. tick'.pc = "cards"
    BY <1>3, NextCardIs, Typed DEF NotDue, PassOver
  <2> QED  BY <1>1, <2>1, MeterOff
<1>4. CASE Mark \/ TickEnd
  <2>1. \/ tick' = NoTick
        \/ \E bucket : tick' = [tick EXCEPT !.pc = "budget", !.state = MarkedState(bucket), !.dirty = FALSE]
    BY <1>4 DEF Mark, TickEnd
  <2>2. tick'.pc \in {"idle", "budget"}
    <3>1. CASE tick' = NoTick
      BY <3>1 DEF NoTick
    <3>2. CASE tick' # NoTick
      <4>1. PICK s : tick' = [tick EXCEPT !.pc = "budget", !.state = s, !.dirty = FALSE]
        BY <2>1, <3>2
      <4> QED  BY <4>1, Typed DEF Ticks
    <3> QED  BY <3>1, <3>2
  <2> QED  BY <1>1, <2>2, MeterOff
<1> QED  BY <1>2, <1>3, <1>4

LEMMA GateMetered ==
  ASSUME KeeperTypeOK, KeeperTypeOK', Where, Metered, Budget \/ Humans \/ Piles \/ Serial \/ Workspace
  PROVE  Metered'
<1>0. Busy /\ UNCHANGED <<clock, rows>> /\ flushed' \in {flushed, Len(rows)}
  BY DEF Busy, Budget, Humans, Piles, Serial, Workspace, Flush
<1>1. tick.i \in Keepers /\ tick.i < Last /\ flushed =< flushed' /\ clock =< clock'
  BY <1>0, CurIs, Typed, Whole
<1>2. CASE tick' = NextCard
  <2>1. tick'.pc = "cards"
    BY <1>1, <1>2, NextCardIs, Typed
  <2> QED  BY <1>0, <2>1, MeterOff
<1>3. CASE tick' # NextCard /\ Budget
  <2>1. tick' = [tick EXCEPT !.pc = "humans"] /\ WithinBudget(Cur)
    BY <1>3 DEF Budget, Refused
  <2>2. tick'.pc = "humans" /\ tick'.i = tick.i
    BY <2>1, Typed DEF Ticks
  <2>3. Under(Cur, Len(rows), 0, 0)'
    <3>1. Cur' = Cur /\ Priced(Cur)
      BY <1>1, <2>2, PricedIs DEF Cur
    <3>2. Under(Cur, Len(rows), 0, 0)
      BY <2>1, <3>1, Granted
    <3> QED  BY <1>0, <3>1, <3>2 DEF Under, Blank, Upto, Costs, RecentRows
  <2>4. \A n \in flushed'..Len(rows') : Spent(n)'
    <3>1. rows' = rows /\ \A n \in flushed'..Len(rows') : n =< Len(rows)
      BY <1>0, Typed
    <3> QED  BY <1>1, <3>1, SpentKept
  <2> QED  BY <2>2, <2>3, <2>4 DEF Metered, Spent
<1>4. CASE tick' # NextCard /\ (Humans \/ Piles \/ Serial)
  <2>1. tick.pc \in {"humans", "piles", "serial"}
    BY <1>4 DEF Humans, Piles, Serial
  <2>2. \/ tick' = [tick EXCEPT !.pc = "piles", !.queue = Lane("queue"), !.seen = SameRepo(OpenTickets)]
        \/ tick' = [tick EXCEPT !.pc = "serial", !.piles = Attention]
        \/ \E b : tick' = [tick EXCEPT !.pc = "stage", !.queue = {}, !.piles = {}, !.tries = 0, !.spent = 0, !.blind = b]
    BY <1>4 DEF Humans, Piles, Serial, Refused
  <2>3. tick'.i = tick.i /\ (tick'.pc \in {"piles", "serial"} \/ (tick'.pc = "stage" /\ tick'.spent = 0 /\ tick'.tries = 0))
    BY <2>2, Typed DEF Ticks
  <2>4. Reading /\ (Reading' \/ (tick'.pc = "stage" /\ tick'.spent = 0 /\ tick'.tries = 0))
    BY <2>1, <2>3 DEF Reading
  <2> HIDE DEF Reading
  <2> QED  BY <1>0, <1>1, <2>3, <2>4, MeterKept
<1>5. CASE tick' # NextCard /\ Workspace
  BY <1>5 DEF Workspace, Refused
<1> QED  BY <1>2, <1>3, <1>4, <1>5

LEMMA TryMetered ==
  ASSUME KeeperTypeOK, KeeperTypeOK', Where, Metered, Try
  PROVE  Metered'
<1>1. PICK cost \in 0..SdkBudget(Cur) :
         /\ rows' = Append(rows, [card |-> Cur.name, at |-> clock, cost |-> cost])
         /\ tick' = [tick EXCEPT !.tries = @ + 1, !.spent = @ + cost]
  BY DEF Try
<1>2. PICK c : c = Cur /\ c = Keeper(tick.i)
  BY DEF Cur
<1>3. tick.i \in Keepers /\ Priced(c) /\ StageCost(c) \in Nat /\ cost \in Nat /\ cost =< SdkBudget(c)
      /\ SdkBudget(c) \in Nat /\ SdkBudget(c) + StageCeiling - 1 = StageCost(c)
  <2>1. tick.i \in Keepers
    BY CurIs DEF Try, Busy
  <2>2. Priced(c) /\ StageCost(c) \in Nat /\ SdkBudget(c) \in Nat /\ SdkBudget(c) + StageCeiling - 1 = StageCost(c)
    BY <1>2, <2>1, PricedIs, BudgetNat DEF Priced
  <2> QED  BY <1>1, <1>2, <2>1, <2>2
<1>4. tick.pc = "stage" /\ UNCHANGED <<clock, flushed>> /\ tick.tries < Tries /\ (tick.tries = 0 \/ tick.spent < StageCeiling)
  BY DEF Try
<1>5. tick.tries \in Nat /\ tick.spent \in Nat /\ Len(rows) \in Nat /\ flushed \in Nat /\ Len(rows') = Len(rows) + 1
      /\ \A r \in 1..Len(rows) : rows'[r] = rows[r]
  BY <1>1, Typed, Bounds DEF Ticks
<1>6. /\ tick'.pc = "stage" /\ tick'.i = tick.i /\ tick'.tries = tick.tries + 1 /\ tick'.spent = tick.spent + cost /\ Cur' = Cur
  BY <1>1, <1>4, Typed DEF Ticks, Cur
<1>7. Under(c, Len(rows), tick.spent, tick.tries) /\ tick.spent =< StageCost(c) /\ (tick.tries = 0 => tick.spent = 0)
  BY <1>2, <1>4 DEF Metered
<1>8. tick'.spent =< StageCost(c) /\ tick'.tries =< Tries /\ tick'.tries # 0
  <2>1. StageCeiling \in Nat /\ StageCeiling >= 1 /\ Tries \in Nat
    BY Bounds
  <2>2. tick.spent + cost =< StageCost(c)
    <3>1. CASE tick.tries = 0
      BY <1>3, <1>7, <2>1, <3>1
    <3>2. CASE tick.spent < StageCeiling
      BY <1>3, <1>5, <2>1, <3>2
    <3> QED  BY <1>4, <3>1, <3>2
  <2>3. tick.tries + 1 =< Tries /\ tick.tries + 1 # 0
    BY <1>4, <1>5, <2>1
  <2> QED  BY <1>6, <2>2, <2>3
<1>9. PICK a \in Int, b \in Nat : a = tick'.spent /\ b = tick'.tries /\ Under(c, Len(rows), a, b)'
  <2>1. PICK x \in Int, y \in Nat : x = tick.spent /\ y = tick.tries
    BY <1>5
  <2>2. Under(c, Len(rows), x + cost, y + 1)'
    <3>1. Under(c, Len(rows), x, y)
      BY <1>7, <2>1
    <3>2. rows' = Append(rows, [card |-> c.name, at |-> clock, cost |-> cost]) /\ clock' = clock /\ Priced(c) /\ cost \in Nat
      BY <1>1, <1>2, <1>3, <1>4
    <3> QED  BY <3>1, <3>2, Tried
  <2>3. x + cost \in Int /\ y + 1 \in Nat /\ x + cost = tick'.spent /\ y + 1 = tick'.tries
    BY <1>3, <1>6, <2>1
  <2> QED  BY <2>2, <2>3
<1>10. Under(Cur, Len(rows), tick.spent, tick.tries)'
  BY <1>2, <1>6, <1>9
<1>11. rows'[Len(rows) + 1].card = c.name
  BY <1>1, <1>2, <1>5
<1>12. ASSUME NEW n \in flushed'..Len(rows'), NEW i \in Keepers, \E r \in 1..n : rows'[r].card = Keeper(i).name
       PROVE  Under(Keeper(i), n, StageCost(Keeper(i)), Tries)'
  <2>1. CASE n =< Len(rows)
    <3>1. flushed =< flushed' /\ clock =< clock' /\ \A r \in 1..Len(rows') : r =< Len(rows) => rows'[r] = rows[r]
      BY <1>4, <1>5, Whole
    <3>2. Spent(n)'
      BY <2>1, <3>1, SpentKept
    <3> QED  BY <1>12, <3>2 DEF Spent
  <2>2. CASE ~(n =< Len(rows))
    <3>1. n = Len(rows) + 1 /\ n = Len(rows') /\ n \in 0..Len(rows') /\ n \in Nat
      BY <1>4, <1>5, <2>2
    <3>2. CASE i = tick.i
      <4>1. Under(c, n, a, b)'
        BY <1>9, <3>1
      <4>2. a =< StageCost(c) /\ b =< Tries /\ StageCost(c) \in Int /\ Tries \in Nat
        BY <1>3, <1>8, <1>9, Bounds
      <4>3. Under(c, n, StageCost(c), Tries)'
        BY <1>3, <3>1, <4>1, <4>2, Allows
      <4> QED  BY <1>2, <3>2, <4>3
    <3>3. CASE i # tick.i
      <4>1. Keeper(i).name # c.name /\ Priced(Keeper(i)) /\ StageCost(Keeper(i)) \in Int /\ Tries \in Nat
        <5>1. Keeper(i).name # Keeper(tick.i).name
          BY <1>3, <3>3, KeeperFacts
        <5> QED  BY <1>2, <5>1, PricedIs, Bounds
      <4>2. \E r \in 1..Len(rows) : rows[r].card = Keeper(i).name
        BY <1>5, <1>11, <1>12, <3>1, <4>1
      <4>3. Under(Keeper(i), Len(rows), StageCost(Keeper(i)), Tries)
        <5>1. Len(rows) \in flushed..Len(rows)
          BY Typed
        <5> QED  BY <4>2, <5>1 DEF Metered
      <4>4. \A r \in (Len(rows) + 1)..n : rows'[r].card # Keeper(i).name
        BY <1>5, <1>11, <3>1, <4>1
      <4>5. Len(rows) \in 0..Len(rows) /\ Len(rows) =< n /\ clock =< clock'
        BY <1>4, <1>5, <3>1, Whole
      <4> QED  BY <1>5, <3>1, <4>1, <4>3, <4>4, <4>5, Shrinks
    <3> QED  BY <3>2, <3>3
  <2> QED  BY <2>1, <2>2
<1>13. ~(tick'.pc \in {"humans", "piles", "serial"}) /\ tick'.spent =< StageCost(Cur)' /\ (tick'.tries = 0 => tick'.spent = 0)
  BY <1>2, <1>6, <1>8
<1> QED  BY <1>10, <1>12, <1>13 DEF Metered

LEMMA RunMetered ==
  ASSUME KeeperTypeOK, KeeperTypeOK', Where, Metered, StageEnd \/ Recheck \/ FileTicket
  PROVE  Metered'
<1>1. UNCHANGED <<clock, rows, flushed>>
  BY DEF StageEnd, Recheck, FileTicket
<1>2. \/ tick' = NoTick
      \/ \E left, seen : tick' = [tick EXCEPT !.pc = "recheck", !.left = left, !.seen = seen, !.moved = {}, !.tries = 0, !.spent = 0]
      \/ tick' = [tick EXCEPT !.pc = "file"]
      \/ tick.pc = "file" /\ tick' = [tick EXCEPT !.left = @ - 1]
  BY DEF StageEnd, Recheck, FileTicket, EndRun
<1>3. tick'.pc \in {"idle", "recheck", "file"}
  <2>1. CASE tick' = NoTick
    BY <2>1 DEF NoTick
  <2>2. CASE \E left, seen : tick' = [tick EXCEPT !.pc = "recheck", !.left = left, !.seen = seen, !.moved = {}, !.tries = 0, !.spent = 0]
    BY <2>2, Typed DEF Ticks
  <2>3. CASE tick' = [tick EXCEPT !.pc = "file"]
    BY <2>3, Typed DEF Ticks
  <2>4. CASE tick.pc = "file" /\ tick' = [tick EXCEPT !.left = @ - 1]
    BY <2>4, Typed DEF Ticks
  <2> QED  BY <1>2, <2>1, <2>2, <2>3, <2>4
<1> QED  BY <1>1, <1>3, MeterOff

LEMMA BesideMetered ==
  ASSUME KeeperTypeOK, KeeperTypeOK', Where, Metered, Pass \/ Arrive \/ Veto \/ Move \/ Damage \/ DaemonCrash
  PROVE  Metered'
<1>1. CASE DaemonCrash
  <2>1. PICK written \in flushed..Len(rows) : rows' = SubSeq(rows, 1, written) /\ flushed' = written
    BY <1>1 DEF DaemonCrash
  <2>2. clock' = clock /\ tick'.pc = "idle"
    BY <1>1 DEF DaemonCrash, NoTick
  <2>3. written \in Nat /\ written =< Len(rows) /\ Len(rows') = written /\ \A r \in 1..written : rows'[r] = rows[r]
    BY <2>1, Typed, SubSeqProperties
  <2>4. \A n \in flushed'..Len(rows') : Spent(n)'
    <3>1. clock =< clock' /\ flushed =< flushed' /\ \A n \in flushed'..Len(rows') : n =< Len(rows)
      BY <2>1, <2>2, <2>3, Whole, Typed
    <3> QED  BY <2>3, <3>1, SpentKept
  <2> QED  BY <2>2, <2>4 DEF Metered, Spent
<1>2. CASE ~DaemonCrash
  <2>1. UNCHANGED <<rows, flushed>> /\ clock' \in {clock, clock + 1}
    BY <1>2 DEF Pass, Arrive, Veto, Move, Damage
  <2>2. tick' = tick \/ \E moved : tick' = [tick EXCEPT !.moved = moved]
    BY <1>2 DEF Pass, Arrive, Veto, Move, Damage
  <2>3. tick'.pc = tick.pc /\ tick'.i = tick.i /\ tick'.spent = tick.spent /\ tick'.tries = tick.tries
    BY <2>2, Typed DEF Ticks
  <2>4. clock =< clock'
    BY <2>1, Whole
  <2> QED  BY <2>1, <2>3, <2>4, MeterSame
<1> QED  BY <1>1, <1>2

LEMMA NextMetered ==
  ASSUME KeeperTypeOK, Where, Metered, [KeeperNext]_keeperVars
  PROVE  Metered'
<1>0. KeeperTypeOK'
  BY NextTypes
<1>1. CASE KeeperNext
  BY <1>0, <1>1, ScanMetered, GateMetered, TryMetered, RunMetered, BesideMetered DEF KeeperNext
<1>2. CASE UNCHANGED keeperVars
  <2>1. UNCHANGED <<tick, rows, flushed, clock>> /\ clock =< clock'
    BY <1>2, Whole DEF keeperVars
  <2> QED  BY <1>0, <2>1, MeterSame
<1> QED  BY <1>1, <1>2

-----------------------------------------------------------------------------
(* The theorems. *)

LEMMA KeeperStart == KeeperInit => KInv
<1> SUFFICES ASSUME KeeperInit PROVE KInv
  OBVIOUS
<1>1. clock = 0 /\ file = NewFile /\ tick = NoTick /\ rows = << >> /\ flushed = 0 /\ armed = Never /\ marks = {}
  BY DEF KeeperInit
<1>2. tick.pc = "idle" /\ tick.seen = {} /\ tick.at = 0 /\ tick.from = 0
  BY <1>1 DEF NoTick
<1>3. Where
  BY <1>1, <1>2, NewIs DEF Where, Busy, Never
<1>4. Books
  <2>1. Knows(file)
    BY <1>1 DEF Knows, NewFile, Never
  <2> QED  BY <1>2, <2>1 DEF Books
<1>5. Scanned
  BY <1>1, <1>2 DEF Scanned, Settled
<1>6. Watched
  BY <1>2 DEF Watched, Unmoved
<1>7. Metered
  <2>1. \A n \in flushed..Len(rows) : 1..n = {}
    BY <1>1
  <2> QED  BY <1>2, <2>1 DEF Metered
<1> QED  BY <1>3, <1>4, <1>5, <1>6, <1>7, InitTypes DEF KInv

LEMMA KeeperStep == KInv /\ [KeeperNext]_keeperVars => KInv'
BY NextTypes, NextWhere, NextBooks, NextScanned, NextWatched, NextMetered DEF KInv

\* A marked window is newer than all marks of its card before it.
LEMMA FreshMark ==
  KInv /\ [KeeperNext]_keeperVars =>
    (tick.pc = "cards" /\ tick'.pc = "budget" => <<Cur.name, tick'.state.last[Cur.name]>> \notin marks)
<1> SUFFICES ASSUME KInv, [KeeperNext]_keeperVars, tick.pc = "cards", tick'.pc = "budget"
             PROVE  <<Cur.name, tick'.state.last[Cur.name]>> \notin marks
  OBVIOUS
<1> USE DEF KInv
<1>1. Marked
  <2>1. SameCourse \/ CardLeft \/ TickOver \/ Begun \/ Renewed \/ Marked \/ Damage
    BY Courses
  <2>2. ~CardLeft
    <3>1. ASSUME CardLeft PROVE FALSE
      <4>1. tick.i < Last
        BY <3>1, KeeperFacts DEF CardLeft
      <4> QED  BY <3>1, <4>1, NextCardIs, Typed DEF CardLeft
    <3> QED  BY <3>1
  <2>3. ~SameCourse /\ ~TickOver /\ ~Begun /\ ~Renewed /\ ~Damage
    BY DEF SameCourse, TickOver, Begun, Renewed, Damage, TickBegin, NoTick
  <2> QED  BY <2>1, <2>2, <2>3
<1>2. PICK bucket \in Due(tick.i) :
        /\ tick.pc = "cards" /\ tick.i \in Keepers
        /\ tick' = [tick EXCEPT !.pc = "budget", !.state = MarkedState(bucket), !.dirty = FALSE]
  BY <1>1 DEF Marked
<1>3. Cur.name \in KeeperNames /\ Undecided(tick.i) /\ Cur.name = Keeper(tick.i).name /\ bucket \in Minutes
      /\ bucket \in Windows(tick.i) /\ bucket \in Nat
  BY <1>2, KeeperFacts, DueIs, Bounds DEF Cur, Undecided
<1>4. tick'.state.last[Cur.name] = bucket
  <2>1. tick'.state = MarkedState(bucket)
    BY <1>2, Typed DEF Ticks
  <2> QED  BY <1>3, <2>1, Whole DEF MarkedState, Ledgers
<1>5. Knows(tick.state) /\ tick.state.last[Cur.name] =< tick.from /\ tick.state.last[Cur.name] \in Int
  BY <1>2, <1>3, Whole, TimesIn DEF Books
<1>6. tick.from =< bucket /\ bucket # tick.state.last[Cur.name]
  BY <1>2, <1>3 DEF Windows, Due
<1>7. ASSUME <<Cur.name, bucket>> \in marks PROVE FALSE
  <2>1. bucket =< tick.state.last[Cur.name]
    BY <1>3, <1>5, <1>7 DEF Knows
  <2> QED  BY <1>3, <1>5, <1>6, <2>1, Whole
<1> QED  BY <1>4, <1>7

LEMMA KInvBounds == KInv => EnvelopeHolds
<1> SUFFICES ASSUME KInv, NEW i \in Keepers, RecentRows(Keeper(i).name) # {}
             PROVE  /\ StageSpend(Keeper(i).name) < Keeper(i).weekly + StageCost(Keeper(i))
                    /\ Keeper(i).perRun >= 0 /\ (\A r \in DOMAIN rows : rows[r].card = Keeper(i).name => rows[r].cost = 0)
                         => Estimate(Keeper(i)) < Keeper(i).weekly + Tries * Keeper(i).perRun
  BY DEF EnvelopeHolds
<1>1. KeeperTypeOK /\ Metered
  BY DEF KInv
<1>2. DOMAIN rows = 1..Len(rows) /\ Len(rows) \in flushed..Len(rows)
  BY <1>1, Typed
<1>3. Under(Keeper(i), Len(rows), StageCost(Keeper(i)), Tries)
  <2>1. \E r \in 1..Len(rows) : rows[r].card = Keeper(i).name
    BY <1>2 DEF RecentRows
  <2> QED  BY <1>1, <1>2, <2>1 DEF Metered
<1>4. Upto(Keeper(i).name, Len(rows)) = RecentRows(Keeper(i).name)
  BY <1>1, <1>2, Typed DEF Upto, RecentRows
<1>5. Keeper(i).perRun >= 0 /\ (\A r \in DOMAIN rows : rows[r].card = Keeper(i).name => rows[r].cost = 0)
        => Blank(Keeper(i), Len(rows))
  BY <1>2 DEF Blank
<1> QED  BY <1>3, <1>4, <1>5 DEF Under, StageSpend, Estimate, StageRunCount

\* Types and bounds, of the clock, the ledger, the tick, the rows and the board.
THEOREM KeeperTypeCorrect == KeeperSpec => []KeeperTypeOK
<1>1. KInv => KeeperTypeOK
  BY DEF KInv
<1> QED  BY <1>1, KeeperStart, KeeperStep, PTL DEF KeeperSpec

\* No window of a card is marked, and so run, twice.
THEOREM MarkedOnce == KeeperSpec => OncePerMinute
<1> QED  BY KeeperStart, KeeperStep, FreshMark, PTL DEF KeeperSpec, OncePerMinute

\* A card's recorded spend of a week stays below its envelope and one stage more.
THEOREM EnvelopeKept == KeeperSpec => []EnvelopeHolds
<1> QED  BY KeeperStart, KeeperStep, KInvBounds, PTL DEF KeeperSpec

\* A stage runs beside an open ticket of its repository only by a race or a blind read.
THEOREM DuplicatesOnlyRace == KeeperSpec => []DuplicatesAreRaces
<1>1. KInv => DuplicatesAreRaces
  BY DEF KInv, Watched, Unmoved, DuplicatesAreRaces
<1> QED  BY <1>1, KeeperStart, KeeperStep, PTL DEF KeeperSpec

\* Drafts are filed past no eligible ticket that was waiting.
THEOREM HumansFirst == KeeperSpec => []HumansOutrank
<1>1. KInv => HumansOutrank
  BY DEF KInv, Watched, Unmoved, HumansOutrank
<1> QED  BY <1>1, KeeperStart, KeeperStep, PTL DEF KeeperSpec

\* Whatever the ticks left behind was marked, passed over by a gate, too old or cut off.
THEOREM WindowsHandled == KeeperSpec => []WindowsFire
<1>1. KInv => WindowsFire
  BY DEF KInv, Scanned, Settled, WindowsFire
<1> QED  BY <1>1, KeeperStart, KeeperStep, PTL DEF KeeperSpec

=============================================================================
