--------------------------- MODULE MergeAuthority ---------------------------
(* How a repository earns unattended merges and what happens to its main branch
   afterwards: runs that end together record their decisions on the earned tier
   (recordShadowDecision, db.ts), a merge moves main, and the post-merge watch
   (postmerge.ts) deploys the new head, smoke-tests it and reverts it.

   One repository: the ladder's lock, its row and the deploy ledger are all
   keyed by repository.  A head of main is a number, 1 for the oldest. *)
EXTENDS MergeLadder, Integers, Sequences

CONSTANTS Runs,            \* the runs that may be in flight at once
          PromoteAfter,    \* MERGE_LADDER_PROMOTE_AFTER
          Configs,         \* the environments the daemon may be started with
          MaxDecisions,    \* bound: decisions that end
          MaxHeads,        \* bound: heads main ever has
          MaxCrashes       \* bound: deaths of the daemon

ASSUME AuthorityAssumption ==
    /\ PromoteAfter \in Nat \ {0}
    /\ Configs \subseteq Configurations
    /\ MaxDecisions \in Nat
    /\ MaxHeads \in Nat
    /\ MaxCrashes \in Nat

VARIABLES
    cfg,        \* environment of the daemon, the same after a restart
    ladder,     \* row of merge_ladder: [tier, streak]; the seed before it exists
    applied,    \* history: the decisions that reached the ladder row, in order
    run,        \* per run: [pc, ev, tier, prev]
    lock,       \* ladderLocks: the chain of promises, its holder first
    decisions,  \* decisions taken so far, out of MaxDecisions
    main,       \* head of main on the host
    squashed,   \* heads the factory pushed: squash merges and reverts
    deploys,    \* table deploys: head -> outcome
    tree,       \* <repo>-deploy: [at: head it was made at, 0 none; local: reverts
                \* committed on top of it and not pushed]
    watch,      \* the post-merge pass: [pc, sha, outcome, twoParents]
    attempts,   \* history: deploy commands run per head
    wrongTree,  \* history: a deploy command ran on another tree than its head
    undone,     \* heads whose revert reached main
    prs,        \* heads with an open revert PR
    crashes, up

ladderVars == <<ladder, applied, lock, decisions>>
deployVars == <<deploys, tree, watch, attempts, wrongTree, undone, prs>>
vars == <<cfg, ladderVars, run, main, squashed, deployVars, crashes, up>>

Heads == 1..MaxHeads
Outcomes == {"none", "started", "skipped", "ok", "failed", "reverted"}
Ladders == [tier : {"shadow", "auto-low-risk"}, streak : Nat]
Trees == [at : 0..MaxHeads, local : SUBSET Heads]
Tree(h) == [at |-> h, local |-> {}]
Idle == [pc |-> "idle", clean |-> FALSE, act |-> FALSE, prev |-> SeedLadderState]
NoPass == [pc |-> "idle", sha |-> 0, outcome |-> "none", twoParents |-> FALSE]

TypeOK ==
    /\ cfg \in Configs
    /\ ladder \in Ladders
    /\ applied \in Seq(BOOLEAN)
    /\ run \in [Runs -> [pc : {"idle", "decided", "queued", "read", "logged"},
                         clean : BOOLEAN, act : BOOLEAN, prev : Ladders]]
    /\ lock \in Seq(Runs)
    /\ decisions \in 0..MaxDecisions
    /\ main \in 0..MaxHeads
    /\ squashed \in SUBSET Heads
    /\ deploys \in [Heads -> Outcomes]
    /\ tree \in Trees
    /\ watch \in [pc : {"idle", "head", "claimed", "fresh", "ready", "smoke",
                        "revert", "pr", "record"},
                  sha : 0..MaxHeads, outcome : Outcomes,
                  twoParents : BOOLEAN]
    /\ attempts \in [Heads -> Nat]
    /\ wrongTree \in BOOLEAN
    /\ undone \in SUBSET Heads
    /\ prs \in SUBSET Heads
    /\ crashes \in 0..MaxCrashes
    /\ up \in BOOLEAN

Init ==
    /\ cfg \in Configs
    /\ ladder = SeedLadderState
    /\ applied = <<>>
    /\ run = [i \in Runs |-> Idle]
    /\ lock = <<>>
    /\ decisions \in 0..MaxDecisions
    /\ main = 0
    /\ squashed = {}
    /\ deploys = [h \in Heads |-> "none"]
    /\ tree = Tree(0)
    /\ watch = NoPass
    /\ attempts = [h \in Heads |-> 0]
    /\ wrongTree = FALSE
    /\ undone = {}
    /\ prs = {}
    /\ crashes = 0
    /\ up = TRUE

(* Deploy, smoke and revert are spawnSync calls: while one runs, no other code of
   the daemon does. *)
LoopFree == up /\ watch.pc \notin {"smoke", "revert", "pr"}

FactoryPush ==
    /\ main < MaxHeads
    /\ main' = main + 1
    /\ squashed' = squashed \union {main + 1}

-----------------------------------------------------------------------------
(* A run decides: evidence is in (`clean' is wouldMerge), the row of the ladder and
   the active merge policy, which people change at any time, are read. *)
Decide(i) ==
    /\ LoopFree
    /\ run[i].pc = "idle"
    /\ decisions < MaxDecisions
    /\ decisions' = decisions + 1
    /\ \E clean, small \in BOOLEAN, policy \in MergePolicies :
         LET tier == EffectiveMergeTier(cfg, ladder.tier, policy, FALSE)
         IN  run' = [run EXCEPT ![i] =
                       [pc |-> "decided", clean |-> clean,
                        act |-> clean /\ (tier = "auto" \/ (tier = "auto-low-risk" /\ small)),
                        prev |-> SeedLadderState]]
    /\ UNCHANGED <<cfg, ladder, applied, lock, main, squashed,
                   deployVars, crashes, up>>

(* The run delivers and ends: `gh pr merge --squash', which GitHub may refuse, or the
   PR stays open; then recordShadowDecision up to `await previous' joins the chain. *)
Deliver(i) ==
    /\ LoopFree
    /\ run[i].pc = "decided"
    /\ run' = [run EXCEPT ![i].pc = "queued", ![i].act = FALSE]
    /\ lock' = Append(lock, i)
    /\ \/ run[i].act /\ FactoryPush
       \/ UNCHANGED <<main, squashed>>
    /\ UNCHANGED <<cfg, ladder, applied, decisions, deployVars, crashes, up>>

MyTurnAnyOrder(i) == \E k \in DOMAIN lock : lock[k] = i
MyTurn(i) == lock # <<>> /\ Head(lock) = i

(* Whether the read or a write throws or not, `finally' releases the chain, whose
   holder is its first. *)
Release(i) == lock' = Tail(lock)

ReadLadder(i) ==
    /\ LoopFree
    /\ run[i].pc = "queued"
    /\ MyTurn(i)
    /\ \/ /\ IsEnrolled(cfg)
          /\ run' = [run EXCEPT ![i].pc = "read", ![i].prev = ladder]
          /\ UNCHANGED lock
       \/ \* not enrolled, or the query failed: nothing is written
          /\ run' = [run EXCEPT ![i] = Idle]
          /\ Release(i)
    /\ UNCHANGED <<cfg, ladder, applied, decisions, main, squashed,
                   deployVars, crashes, up>>

(* First statement: the audit row.  Its failure skips the second. *)
AppendShadowLog(i) ==
    /\ LoopFree
    /\ run[i].pc = "read"
    /\ \/ /\ run' = [run EXCEPT ![i].pc = "logged"]
          /\ UNCHANGED lock
       \/ /\ run' = [run EXCEPT ![i] = Idle]
          /\ Release(i)
    /\ UNCHANGED <<cfg, ladder, applied, decisions, main, squashed, deployVars,
                   crashes, up>>

(* Second statement: the upsert of the row computed from the one read before. *)
SaveLadder(i) ==
    /\ LoopFree
    /\ run[i].pc = "logged"
    /\ \/ /\ ladder' = AdvanceLadder(run[i].prev, run[i].clean, PromoteAfter, CeilingFor(cfg))
          /\ applied' = Append(applied, run[i].clean)
       \/ UNCHANGED <<ladder, applied>>
    /\ run' = [run EXCEPT ![i] = Idle]
    /\ Release(i)
    /\ UNCHANGED <<cfg, decisions, main, squashed, deployVars,
                   crashes, up>>

-----------------------------------------------------------------------------
(* postMergeTick under the global switch, for a card that its file arms and no
   policy row disarms, which people change at any time: the head of main.  A failed
   ls-remote is a null head and ends the pass.  A head people pushed may be a merge
   commit; one the factory pushed never is. *)
ReadHead ==
    /\ LoopFree
    /\ watch.pc = "idle"
    /\ cfg.deployEnabled
    /\ main > 0
    /\ \E twoParents \in BOOLEAN :
         /\ main \in squashed => ~twoParents
         /\ watch' = [NoPass EXCEPT !.pc = "head", !.sha = main, !.twoParents = twoParents]
    /\ UNCHANGED <<cfg, ladderVars, run, main, squashed, deploys, tree, attempts,
                   wrongTree, undone, prs, crashes, up>>

\* A claim that finds the row of an earlier pass ends this one.
ClaimAnyway == watch.sha > 0
Unclaimed == deploys[watch.sha] = "none"

ClaimDeploy ==
    /\ up
    /\ watch.pc = "head"
    /\ \/ /\ Unclaimed
          /\ deploys' = [deploys EXCEPT ![watch.sha] = "started"]
          /\ watch' = [watch EXCEPT !.pc = "claimed"]
       \/ \* already claimed, or the statement failed: fail closed
          /\ watch' = NoPass
          /\ UNCHANGED deploys
    /\ UNCHANGED <<cfg, ladderVars, run, main, squashed, tree, attempts, wrongTree,
                   undone, prs, crashes, up>>

Outcome(o) == watch' = [watch EXCEPT !.pc = "record", !.outcome = o]

(* The head is read again; another one, or none, skips. *)
CheckFresh ==
    /\ up
    /\ watch.pc = "claimed"
    /\ \/ watch.sha = main /\ watch' = [watch EXCEPT !.pc = "fresh"]
       \/ Outcome("skipped")
    /\ UNCHANGED <<cfg, ladderVars, run, main, squashed, deploys, tree, attempts,
                   wrongTree, undone, prs, crashes, up>>

(* ensureWorkspace: a directory that exists is used as it stands, a new one is
   checked out at the head just fetched. *)
PrepareTree ==
    /\ up
    /\ watch.pc = "fresh"
    /\ \/ /\ tree' = IF tree.at = 0 THEN Tree(main) ELSE tree
          /\ watch' = [watch EXCEPT !.pc = "ready"]
       \/ /\ Outcome("failed")
          /\ UNCHANGED tree
    /\ UNCHANGED <<cfg, ladderVars, run, main, squashed, deploys, attempts,
                   wrongTree, undone, prs, crashes, up>>

(* The card's deploy command.  A card without a smoke command is done here. *)
RunDeploy ==
    /\ up
    /\ watch.pc = "ready"
    /\ attempts' = [attempts EXCEPT ![watch.sha] = @ + 1]
    /\ wrongTree' = (wrongTree \/ tree # Tree(watch.sha))
    /\ \/ watch' = [watch EXCEPT !.pc = "smoke"]
       \/ Outcome("ok")
       \/ Outcome("failed")
    /\ UNCHANGED <<cfg, ladderVars, run, main, squashed, deploys, tree, undone, prs,
                   crashes, up>>

RunSmoke ==
    /\ up
    /\ watch.pc = "smoke"
    /\ \/ Outcome("ok")
       \/ watch' = [watch EXCEPT !.pc = IF cfg.autoRepo THEN "revert" ELSE "pr"]
    /\ UNCHANGED <<cfg, ladderVars, run, main, squashed, deploys, tree, attempts,
                   wrongTree, undone, prs, crashes, up>>

(* `git revert -m 1' undoes a merge commit that the tree contains, at its head or
   below, and that no local revert undid already. *)
Revertible == watch.twoParents /\ watch.sha =< tree.at /\ watch.sha \notin tree.local

\* Every revert on the tree once the one of this pass is committed.
Reverts == tree.local \union {watch.sha}

Committed == Revertible /\ tree' = [tree EXCEPT !.local = Reverts]

(* revertMerge: the local revert, then a push that the host takes only on top of
   the head it has.  The revert may conflict, and is then aborted; the push may be
   refused, and the revert then stays on the tree. *)
RevertMerge ==
    /\ up
    /\ watch.pc = "revert"
    /\ \/ /\ Revertible
          /\ main = tree.at
          /\ FactoryPush
          /\ undone' = undone \union Reverts
          /\ tree' = Tree(main + 1)
          /\ Outcome("reverted")
       \/ /\ Committed \/ UNCHANGED tree
          /\ watch' = [watch EXCEPT !.pc = "pr"]
          /\ UNCHANGED <<main, squashed, undone>>
    /\ UNCHANGED <<cfg, ladderVars, run, deploys, attempts, wrongTree, prs,
                   crashes, up>>

(* createRevertPr on a branch of the same tree.  It throws when the revert, the
   push or `gh pr create' fails; the pass then records "failed". *)
SwallowedRevertPr ==
    /\ up
    /\ watch.pc = "pr"
    /\ Outcome("reverted")
    /\ UNCHANGED <<cfg, ladderVars, run, main, squashed, deploys, tree, attempts,
                   wrongTree, undone, prs, crashes, up>>

CreateRevertPr ==
    /\ up
    /\ watch.pc = "pr"
    /\ \/ /\ Committed
          /\ prs' = prs \union Reverts
          /\ Outcome("reverted")
       \/ /\ Committed \/ UNCHANGED tree
          /\ Outcome("failed")
          /\ UNCHANGED prs
    /\ UNCHANGED <<cfg, ladderVars, run, main, squashed, deploys, attempts,
                   wrongTree, undone, crashes, up>>

(* recordDeploy: an upsert whose failure is only logged. *)
RecordDeploy ==
    /\ up
    /\ watch.pc = "record"
    /\ watch' = NoPass
    /\ \/ deploys' = [deploys EXCEPT ![watch.sha] = watch.outcome]
       \/ UNCHANGED deploys
    /\ UNCHANGED <<cfg, ladderVars, run, main, squashed, tree, attempts, wrongTree,
                   undone, prs, crashes, up>>

-----------------------------------------------------------------------------
(* People: another merge, or a push, on main. *)
HumanPush ==
    /\ main < MaxHeads
    /\ main' = main + 1
    /\ UNCHANGED <<cfg, squashed, ladderVars, run, deployVars, crashes, up>>

Crash ==
    /\ up
    /\ crashes < MaxCrashes
    /\ up' = FALSE
    /\ crashes' = crashes + 1
    /\ run' = [i \in Runs |-> Idle]
    /\ lock' = <<>>
    /\ watch' = NoPass
    /\ UNCHANGED <<cfg, ladder, applied, decisions, main, squashed,
                   deploys, tree, attempts, wrongTree, undone, prs>>

Restart ==
    /\ ~up
    /\ up' = TRUE
    /\ UNCHANGED <<cfg, ladderVars, run, main, squashed, deployVars, crashes>>

Recording(i) == ReadLadder(i) \/ AppendShadowLog(i) \/ SaveLadder(i)

Watching ==
    \/ ReadHead \/ ClaimDeploy \/ CheckFresh \/ PrepareTree \/ RunDeploy \/ RunSmoke
    \/ RevertMerge \/ CreateRevertPr \/ RecordDeploy

Next ==
    \/ \E i \in Runs : Decide(i) \/ Deliver(i) \/ Recording(i)
    \/ Watching
    \/ HumanPush \/ Crash \/ Restart

(* Timers and promises of a live event loop fire, and a supervised daemon is
   started again.  Nothing is assumed of people, tickets or crashes. *)
Fairness ==
    /\ \A i \in Runs : WF_vars(Recording(i))
    /\ WF_vars(RunSmoke \/ RevertMerge \/ CreateRevertPr)
    /\ WF_vars(Restart)

Spec == Init /\ [][Next]_vars /\ Fairness

-----------------------------------------------------------------------------
(* A repository that merges small diffs unattended once had PromoteAfter clean
   decisions in a row among those that reached its row: two runs that end
   together cannot hide the dirty decision of one behind the streak of the
   other (recordShadowDecision, db.ts:1526-1573). *)
PromotionEarned ==
    ladder.tier = "auto-low-risk" =>
        \E k \in 0..Len(applied) - PromoteAfter :
            \A j \in k + 1..k + PromoteAfter : applied[j]

(* The deploy command runs at most once per head, whatever crashes, restarts and
   failed writes come in between (claimDeploy, db.ts:1588-1600). *)
DeployedOnce == \A h \in Heads : attempts[h] <= 1

(* A row that says "reverted" is true: main carries the revert or a revert PR is
   open (postmerge.ts:135-153). *)
RevertedIsUndone == \A h \in Heads : deploys[h] = "reverted" => h \in undone \union prs

(* What is deployed for a head is that head (postmerge.ts:12-13). *)
DeploysItsHead == ~wrongTree

(* A run in the chain of the ladder's lock leaves it: no failed read or write
   keeps the next run waiting. *)
RecordersReturn == \A i \in Runs : (run[i].pc = "queued") ~> (run[i].pc = "idle")
=============================================================================
