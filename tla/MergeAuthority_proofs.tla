------------------------ MODULE MergeAuthority_proofs ------------------------
(***************************************************************************)
(* The safety properties of MergeAuthority, for any runs, environments,    *)
(* length of the streak and bounds.                                        *)
(*                                                                         *)
(* The ladder and the watch share only main, so the invariant has a part   *)
(* for each: what the row owes to the decisions that reached it and who    *)
(* may be between its read and its write, and what a row of the deploy     *)
(* ledger says of the commands that ran.                                   *)
(*                                                                         *)
(* The second half is about ProjectConfig, the other place from which the  *)
(* merge step takes its authority (the policy of a project, projectOwning- *)
(* Repo).                                                                  *)
(***************************************************************************)
EXTENDS MergeAuthority, ProjectConfig, TLAPS

Lanes   == [pc : {"idle", "decided", "queued", "read", "logged"},
            clean : BOOLEAN, act : BOOLEAN, prev : Ladders]
Passes  == [pc : {"idle", "head", "claimed", "fresh", "ready", "smoke", "revert", "pr", "record"},
            sha : 0..MaxHeads, outcome : Outcomes, twoParents : BOOLEAN]

LadderTypes ==
  /\ cfg \in Configs
  /\ ladder \in Ladders
  /\ applied \in Seq(BOOLEAN)
  /\ run \in [Runs -> Lanes]
  /\ lock \in Seq(Runs)
  /\ decisions \in 0..MaxDecisions

WatchTypes ==
  /\ main \in 0..MaxHeads
  /\ squashed \in SUBSET Heads
  /\ deploys \in [Heads -> Outcomes]
  /\ tree \in Trees
  /\ watch \in Passes
  /\ attempts \in [Heads -> Nat]
  /\ wrongTree \in BOOLEAN
  /\ undone \in SUBSET Heads
  /\ prs \in SUBSET Heads
  /\ crashes \in 0..MaxCrashes
  /\ up \in BOOLEAN

\* The streak of a row that is still at shadow are the newest decisions.
StreakIsClean ==
  ladder.tier = "shadow" =>
      /\ ladder.streak =< Len(applied)
      /\ \A j \in 1..Len(applied) : j > Len(applied) - ladder.streak => applied[j]

\* Between the read and the write of the row there is at most one run, the holder of
\* the lock, and the row is what it read.
OneWriter ==
  \A i \in Runs : run[i].pc \in {"read", "logged"} =>
      lock # <<>> /\ Head(lock) = i /\ run[i].prev = ladder

LadderInv == StreakIsClean /\ OneWriter /\ PromotionEarned

\* A pass has a head; one that claimed it sees the row; before the command none ran.
PassInv ==
  /\ watch.pc # "idle" => watch.sha \in Heads
  /\ watch.pc \notin {"idle", "head"} => deploys[watch.sha] # "none"
  /\ watch.pc \in {"claimed", "fresh", "ready"} => attempts[watch.sha] = 0
  /\ watch.pc = "record" => /\ watch.outcome # "none"
                            /\ watch.outcome = "reverted" => watch.sha \in undone \union prs

RowInv ==
  /\ \A h \in Heads : attempts[h] > 0 => deploys[h] # "none"
  /\ DeployedOnce
  /\ RevertedIsUndone

IInv == LadderTypes /\ WatchTypes /\ LadderInv /\ PassInv /\ RowInv

ladderSide == <<cfg, ladder, applied, run, lock, decisions>>
watchSide  == <<main, squashed, deploys, tree, watch, attempts, wrongTree, undone, prs, crashes, up>>

-----------------------------------------------------------------------------
(* Frames. *)

LEMMA LadderFrame ==
  ASSUME LadderTypes, LadderInv, UNCHANGED ladderSide
  PROVE  LadderTypes' /\ LadderInv'
BY DEF ladderSide, LadderTypes, LadderInv, StreakIsClean, OneWriter, PromotionEarned

LEMMA WatchFrame ==
  ASSUME WatchTypes, PassInv, RowInv, UNCHANGED watchSide
  PROVE  WatchTypes' /\ PassInv' /\ RowInv'
BY DEF watchSide, WatchTypes, PassInv, RowInv, DeployedOnce, RevertedIsUndone

LEMMA RowFrame ==
  ASSUME RowInv, UNCHANGED <<deploys, attempts>>, undone \union prs \subseteq undone' \union prs'
  PROVE  RowInv'
BY DEF RowInv, DeployedOnce, RevertedIsUndone

LEMMA Pushing ==
  ASSUME WatchTypes, FactoryPush
  PROVE  main' \in 0..MaxHeads /\ main' \in Heads /\ squashed' \in SUBSET Heads
BY AuthorityAssumption DEF WatchTypes, FactoryPush, Heads

LEMMA SeedIsLadder == SeedLadderState \in Ladders /\ Idle \in Lanes
BY DEF SeedLadderState, Ladders, Idle, Lanes

-----------------------------------------------------------------------------
(* The ladder. *)

\* The policy moves the row up only, and only on a full clean streak.
LEMMA Advances ==
  ASSUME NEW prev \in Ladders, NEW clean \in BOOLEAN, NEW ceiling,
         NEW next, next = AdvanceLadder(prev, clean, PromoteAfter, ceiling)
  PROVE  /\ next \in Ladders
         /\ next.tier = "shadow" => /\ prev.tier = "shadow"
                                    /\ next.streak = IF clean THEN prev.streak + 1 ELSE 0
         /\ next.tier = "auto-low-risk" /\ prev.tier = "shadow" =>
              clean /\ prev.streak + 1 >= PromoteAfter
<1> DEFINE streak == IF clean THEN prev.streak + 1 ELSE 0
           up1 == [tier |-> "auto-low-risk", streak |-> 0]
           stay == [tier |-> prev.tier, streak |-> streak]
<1>1. prev.tier \in {"shadow", "auto-low-risk"} /\ prev.streak \in Nat  BY DEF Ladders
<1>2. streak \in Nat  BY <1>1
<1>3. up1 \in Ladders /\ stay \in Ladders  BY <1>1, <1>2 DEF Ladders
<1>4. \/ next = stay
      \/ next = up1 /\ prev.tier = "shadow" /\ streak >= PromoteAfter
  BY DEF AdvanceLadder
<1>5. CASE next = stay  BY <1>1, <1>3, <1>5
<1>6. CASE next = up1 /\ prev.tier = "shadow" /\ streak >= PromoteAfter
  <2>1. clean  BY <1>6, AuthorityAssumption
  <2>2. QED  BY <1>3, <1>6, <2>1
<1>7. QED  BY <1>4, <1>5, <1>6

\* A run that is not between read and write moves on, and the lock at most grows.
LEMMA LaneMoves ==
  ASSUME LadderTypes, LadderInv, NEW i \in Runs, NEW r \in Lanes,
         r.pc \notin {"read", "logged"},
         run' = [run EXCEPT ![i] = r],
         UNCHANGED <<ladder, applied>>,
         lock' = lock \/ lock' = Append(lock, i)
  PROVE  LadderInv'
<1>1. ASSUME NEW j \in Runs, run'[j].pc \in {"read", "logged"}
      PROVE  lock' # <<>> /\ Head(lock') = j /\ run'[j].prev = ladder'
  <2>1. j # i /\ run'[j] = run[j]  BY <1>1 DEF LadderTypes
  <2>2. lock # <<>> /\ Head(lock) = j /\ run[j].prev = ladder
    BY <1>1, <2>1 DEF LadderInv, OneWriter
  <2>3. lock \in Seq(Runs)  BY DEF LadderTypes
  <2>4. Append(lock, i) # <<>> /\ Head(Append(lock, i)) = Head(lock)  BY <2>2, <2>3
  <2>5. QED  BY <2>1, <2>2, <2>4
<1>2. OneWriter'  BY <1>1 DEF OneWriter
<1>3. QED  BY <1>2 DEF LadderInv, StreakIsClean, PromotionEarned

LEMMA DecideStep == ASSUME IInv, NEW i \in Runs, Decide(i) PROVE IInv'
<1> USE DEF IInv
<1>1. PICK clean \in BOOLEAN, small \in BOOLEAN, chosen \in MergePolicies :
        LET tier == EffectiveMergeTier(cfg, ladder.tier, chosen, FALSE)
        IN  run' = [run EXCEPT ![i] =
                       [pc |-> "decided", clean |-> clean,
                        act |-> clean /\ (tier = "auto" \/ (tier = "auto-low-risk" /\ small)),
                        prev |-> SeedLadderState]]
  BY DEF Decide
<1> DEFINE tier == EffectiveMergeTier(cfg, ladder.tier, chosen, FALSE)
           act == clean /\ (tier = "auto" \/ (tier = "auto-low-risk" /\ small))
           r == [pc |-> "decided", clean |-> clean, act |-> act, prev |-> SeedLadderState]
<1>2. run' = [run EXCEPT ![i] = r]  BY <1>1
<1>3. act \in BOOLEAN  OBVIOUS
<1> HIDE DEF act
<1>4. r \in Lanes /\ r.pc = "decided"  BY <1>3, SeedIsLadder DEF Lanes
<1> HIDE DEF r
<1>5. UNCHANGED <<cfg, ladder, applied, lock>> /\ UNCHANGED watchSide
  BY DEF Decide, deployVars, watchSide
<1>6. decisions' \in 0..MaxDecisions  BY AuthorityAssumption DEF Decide, LadderTypes
<1>7. LadderTypes'  BY <1>2, <1>4, <1>5, <1>6 DEF LadderTypes
<1>8. LadderInv'  BY <1>2, <1>4, <1>5, LaneMoves
<1>9. QED  BY <1>5, <1>7, <1>8, WatchFrame

LEMMA DeliverStep == ASSUME IInv, NEW i \in Runs, Deliver(i) PROVE IInv'
<1> USE DEF IInv
<1> DEFINE r == [run[i] EXCEPT !.pc = "queued", !.act = FALSE]
<1>1. /\ run' = [run EXCEPT ![i] = r]
      /\ lock' = Append(lock, i)
      /\ UNCHANGED <<cfg, ladder, applied, decisions, deploys, tree, watch, attempts,
                     wrongTree, undone, prs, crashes, up>>
      /\ FactoryPush \/ UNCHANGED <<main, squashed>>
  BY DEF Deliver, deployVars
<1>2. run[i] \in Lanes  BY DEF LadderTypes
<1>3. r \in Lanes /\ r.pc = "queued"  BY <1>2 DEF Lanes
<1> HIDE DEF r
<1>4. Append(lock, i) \in Seq(Runs)  BY DEF LadderTypes
<1>5. LadderTypes'  BY <1>1, <1>3, <1>4 DEF LadderTypes
<1>6. LadderInv'  BY <1>1, <1>3, LaneMoves
<1>7. main' \in 0..MaxHeads /\ squashed' \in SUBSET Heads
  BY <1>1, Pushing DEF WatchTypes
<1>8. WatchTypes' /\ PassInv' /\ RowInv'
  BY <1>1, <1>7 DEF WatchTypes, PassInv, RowInv, DeployedOnce, RevertedIsUndone
<1>9. QED  BY <1>5, <1>6, <1>8

\* The holder of the lock gives it up: nobody else is between read and write.
LEMMA Releasing ==
  ASSUME LadderTypes, OneWriter, NEW i \in Runs, lock # <<>>, Head(lock) = i,
         run' = [run EXCEPT ![i] = Idle], lock' = Tail(lock)
  PROVE  OneWriter' /\ run' \in [Runs -> Lanes] /\ lock' \in Seq(Runs)
<1>1. ASSUME NEW j \in Runs PROVE run'[j].pc \notin {"read", "logged"}
  <2>1. CASE j = i  BY <2>1 DEF LadderTypes, Idle
  <2>2. CASE j # i  BY <2>2 DEF LadderTypes, OneWriter
  <2>3. QED  BY <2>1, <2>2
<1>2. run' \in [Runs -> Lanes]  BY SeedIsLadder DEF LadderTypes
<1>3. lock' \in Seq(Runs)  BY DEF LadderTypes
<1>4. QED  BY <1>1, <1>2, <1>3 DEF OneWriter

LEMMA ReadStep == ASSUME IInv, NEW i \in Runs, ReadLadder(i) PROVE IInv'
<1> USE DEF IInv
<1>1. /\ UNCHANGED watchSide /\ UNCHANGED <<cfg, ladder, applied, decisions>>
      /\ lock # <<>> /\ Head(lock) = i
  BY DEF ReadLadder, deployVars, watchSide, MyTurn
<1>2. WatchTypes' /\ PassInv' /\ RowInv'  BY <1>1, WatchFrame
<1>3. StreakIsClean' /\ PromotionEarned'
  BY <1>1 DEF LadderInv, StreakIsClean, PromotionEarned
<1>4. CASE run' = [run EXCEPT ![i].pc = "read", ![i].prev = ladder] /\ UNCHANGED lock
  <2> DEFINE r == [run[i] EXCEPT !.pc = "read", !.prev = ladder]
  <2>1. run' = [run EXCEPT ![i] = r]  BY <1>4
  <2>2. run[i] \in Lanes /\ ladder \in Ladders  BY DEF LadderTypes
  <2>3. r.pc = "read" /\ r.prev = ladder  BY <2>2 DEF Lanes
  <2>4. r \in Lanes  BY <2>2 DEF Lanes
  <2> HIDE DEF r
  <2>5. run' \in [Runs -> Lanes] /\ lock' \in Seq(Runs)
    BY <1>4, <2>1, <2>4 DEF LadderTypes
  <2>6. OneWriter'
    BY <1>1, <1>4, <2>1, <2>3 DEF LadderTypes, LadderInv, OneWriter
  <2>7. LadderTypes'  BY <1>1, <2>5 DEF LadderTypes
  <2>8. QED  BY <1>2, <1>3, <2>6, <2>7 DEF LadderInv
<1>5. CASE run' = [run EXCEPT ![i] = Idle] /\ Release(i)
  <2>1. OneWriter' /\ run' \in [Runs -> Lanes] /\ lock' \in Seq(Runs)
    BY <1>1, <1>5, Releasing DEF Release, LadderInv
  <2>2. LadderTypes'  BY <1>1, <2>1 DEF LadderTypes
  <2>3. QED  BY <1>2, <1>3, <2>1, <2>2 DEF LadderInv
<1>6. QED  BY <1>4, <1>5 DEF ReadLadder

LEMMA AppendStep == ASSUME IInv, NEW i \in Runs, AppendShadowLog(i) PROVE IInv'
<1> USE DEF IInv
<1>1. /\ UNCHANGED watchSide /\ UNCHANGED <<cfg, ladder, applied, decisions>>
      /\ run[i].pc = "read"
  BY DEF AppendShadowLog, deployVars, watchSide
<1>2. WatchTypes' /\ PassInv' /\ RowInv'  BY <1>1, WatchFrame
<1>3. StreakIsClean' /\ PromotionEarned'
  BY <1>1 DEF LadderInv, StreakIsClean, PromotionEarned
<1>4. lock # <<>> /\ Head(lock) = i  BY <1>1 DEF LadderInv, OneWriter
<1>5. CASE run' = [run EXCEPT ![i].pc = "logged"] /\ UNCHANGED lock
  <2>1. run[i] \in Lanes  BY DEF LadderTypes
  <2>2. run' \in [Runs -> Lanes]  BY <1>5, <2>1 DEF LadderTypes, Lanes
  <2>3. LadderTypes'  BY <1>1, <1>5, <2>2 DEF LadderTypes
  <2>4. ASSUME NEW j \in Runs, run'[j].pc \in {"read", "logged"}
        PROVE  lock' # <<>> /\ Head(lock') = j /\ run'[j].prev = ladder'
    <3>1. run[j].pc \in {"read", "logged"} /\ run'[j].prev = run[j].prev
      BY <1>1, <1>5, <2>4 DEF LadderTypes, Lanes
    <3>2. QED  BY <1>1, <1>5, <3>1 DEF LadderInv, OneWriter
  <2>5. OneWriter'  BY <2>4 DEF OneWriter
  <2>6. QED  BY <1>2, <1>3, <2>3, <2>5 DEF LadderInv
<1>6. CASE run' = [run EXCEPT ![i] = Idle] /\ Release(i)
  <2>1. OneWriter' /\ run' \in [Runs -> Lanes] /\ lock' \in Seq(Runs)
    BY <1>4, <1>6, Releasing DEF Release, LadderInv
  <2>2. LadderTypes'  BY <1>1, <2>1 DEF LadderTypes
  <2>3. QED  BY <1>2, <1>3, <2>1, <2>2 DEF LadderInv
<1>7. QED  BY <1>5, <1>6 DEF AppendShadowLog

\* The write: the row is the one that was read, so its streak is the newest decisions.
LEMMA SaveStep == ASSUME IInv, NEW i \in Runs, SaveLadder(i) PROVE IInv'
<1> USE DEF IInv
<1> DEFINE clean == run[i].clean
           n == Len(applied)
<1>1. /\ UNCHANGED watchSide /\ UNCHANGED <<cfg, decisions>>
      /\ run[i].pc = "logged" /\ run' = [run EXCEPT ![i] = Idle] /\ lock' = Tail(lock)
      /\ \/ /\ ladder' = AdvanceLadder(run[i].prev, clean, PromoteAfter, CeilingFor(cfg))
            /\ applied' = Append(applied, clean)
         \/ UNCHANGED <<ladder, applied>>
  BY DEF SaveLadder, deployVars, watchSide, Release
<1>2. WatchTypes' /\ PassInv' /\ RowInv'  BY <1>1, WatchFrame
<1>3. lock # <<>> /\ Head(lock) = i /\ run[i].prev = ladder  BY <1>1 DEF LadderInv, OneWriter
<1>4. OneWriter' /\ run' \in [Runs -> Lanes] /\ lock' \in Seq(Runs)
  BY <1>1, <1>3, Releasing DEF LadderInv
<1>5. CASE UNCHANGED <<ladder, applied>>
  <2>1. LadderTypes'  BY <1>1, <1>4, <1>5 DEF LadderTypes
  <2>2. StreakIsClean' /\ PromotionEarned'
    BY <1>5 DEF LadderInv, StreakIsClean, PromotionEarned
  <2>3. QED  BY <1>2, <1>4, <2>1, <2>2 DEF LadderInv
<1>6. CASE /\ ladder' = AdvanceLadder(run[i].prev, clean, PromoteAfter, CeilingFor(cfg))
           /\ applied' = Append(applied, clean)
  <2>1. ladder \in Ladders /\ clean \in BOOLEAN /\ applied \in Seq(BOOLEAN)
    BY DEF LadderTypes, Lanes
  <2> HIDE DEF clean
  <2>2. ladder' = AdvanceLadder(ladder, clean, PromoteAfter, CeilingFor(cfg))  BY <1>3, <1>6
  <2>3. /\ ladder' \in Ladders
        /\ ladder'.tier = "shadow" => /\ ladder.tier = "shadow"
                                      /\ ladder'.streak = IF clean THEN ladder.streak + 1 ELSE 0
        /\ ladder'.tier = "auto-low-risk" /\ ladder.tier = "shadow" =>
              clean /\ ladder.streak + 1 >= PromoteAfter
    BY <2>1, <2>2, Advances
  <2>4. applied' \in Seq(BOOLEAN)  BY <1>6, <2>1
  <2>5. LadderTypes'  BY <1>1, <1>4, <2>3, <2>4 DEF LadderTypes
  <2>6. /\ n \in Nat /\ Len(applied') = n + 1 /\ applied'[n + 1] = clean
        /\ \A j \in 1..n : applied'[j] = applied[j]
    BY <1>6, <2>1
  <2>7. ladder.streak \in Nat /\ ladder.tier \in {"shadow", "auto-low-risk"}
    BY <2>1 DEF Ladders
  <2>8. ladder.tier = "shadow" =>
           /\ ladder.streak =< n
           /\ \A j \in 1..n : j > n - ladder.streak => applied[j]
    BY DEF LadderInv, StreakIsClean
  <2>9. ladder'.tier = "shadow" \/ ladder'.tier = "auto-low-risk"  BY <2>3 DEF Ladders
  <2> HIDE DEF n
  <2>10. ASSUME ladder.tier = "shadow", clean, NEW j \in 1..n + 1, j > n - ladder.streak
         PROVE  applied'[j]
    <3>1. CASE j = n + 1  BY <2>6, <2>10, <3>1
    <3>2. CASE j # n + 1
      <4>1. j \in 1..n  BY <2>6, <2>10, <3>2
      <4>2. QED  BY <2>6, <2>8, <2>10, <4>1
    <3>3. QED  BY <3>1, <3>2
  <2>11. StreakIsClean'
    <3> SUFFICES ASSUME ladder'.tier = "shadow"
                 PROVE  /\ ladder'.streak =< Len(applied')
                        /\ \A j \in 1..Len(applied') :
                              j > Len(applied') - ladder'.streak => applied'[j]
      BY DEF StreakIsClean
    <3>1. CASE clean
      <4>1. ladder.tier = "shadow" /\ ladder'.streak = ladder.streak + 1  BY <2>3, <3>1
      <4>2. ladder'.streak =< n + 1  BY <2>6, <2>7, <2>8, <4>1
      <4>3. n + 1 - ladder'.streak = n - ladder.streak  BY <2>6, <2>7, <4>1
      <4>4. ASSUME NEW j \in 1..Len(applied'), j > Len(applied') - ladder'.streak
            PROVE  applied'[j]
        <5>1. j \in 1..n + 1 /\ j > n - ladder.streak  BY <2>6, <2>7, <4>1, <4>4
        <5>2. QED  BY <2>10, <3>1, <4>1, <5>1
      <4>5. QED  BY <2>6, <4>2, <4>4
    <3>2. CASE ~clean
      <4>1. ladder'.streak = 0  BY <2>3, <3>2
      <4>2. QED  BY <2>6, <4>1
    <3>3. QED  BY <3>1, <3>2
  <2>12. PromotionEarned'
    <3> SUFFICES ASSUME ladder'.tier = "auto-low-risk"
                 PROVE  \E k \in 0..(n + 1) - PromoteAfter :
                           \A j \in k + 1..k + PromoteAfter : applied'[j]
      BY <2>6 DEF PromotionEarned
    <3>1. CASE ladder.tier = "shadow"
      <4>1. clean /\ ladder.streak + 1 >= PromoteAfter /\ ladder.streak =< n
        BY <2>3, <2>8, <3>1
      <4> DEFINE k == (n + 1) - PromoteAfter
      <4>2. k \in 0..(n + 1) - PromoteAfter  BY <2>6, <2>7, <4>1, AuthorityAssumption
      <4>3. ASSUME NEW j \in k + 1..k + PromoteAfter PROVE applied'[j]
        <5>1. PromoteAfter \in Nat /\ n \in Nat /\ ladder.streak \in Nat
          BY <2>6, <2>7, AuthorityAssumption
        <5>2. j \in Int /\ j >= k + 1 /\ j =< n + 1  BY <4>2, <5>1
        <5>3. j \in 1..n + 1 /\ j > n - ladder.streak  BY <4>1, <4>2, <5>1, <5>2
        <5>4. QED  BY <2>10, <3>1, <4>1, <5>3
      <4>4. QED  BY <4>2, <4>3
    <3>2. CASE ladder.tier = "auto-low-risk"
      <4>1. PICK k \in 0..n - PromoteAfter : \A j \in k + 1..k + PromoteAfter : applied[j]
        BY <3>2 DEF LadderInv, PromotionEarned, n
      <4>2. k \in 0..(n + 1) - PromoteAfter  BY <2>6, AuthorityAssumption
      <4>3. ASSUME NEW j \in k + 1..k + PromoteAfter PROVE applied'[j]
        <5>1. j \in 1..n  BY <2>6, AuthorityAssumption
        <5>2. QED  BY <2>6, <4>1, <5>1
      <4>4. QED  BY <4>2, <4>3
    <3>3. QED  BY <2>7, <3>1, <3>2
  <2>13. QED  BY <1>2, <1>4, <2>5, <2>11, <2>12 DEF LadderInv
<1>7. QED  BY <1>1, <1>5, <1>6

-----------------------------------------------------------------------------
(* The watch.  Each step leaves the ladder's side alone. *)

LEMMA WatchLeavesLadder ==
  ASSUME Watching \/ HumanPush \/ Restart
  PROVE  UNCHANGED ladderSide
BY DEF Watching, ReadHead, ClaimDeploy, CheckFresh, PrepareTree, RunDeploy, RunSmoke,
       RevertMerge, CreateRevertPr, RecordDeploy, HumanPush, Restart, ladderVars, ladderSide

LEMMA NewPass ==
  ASSUME WatchTypes, NEW p \in {"head", "claimed", "fresh", "ready", "smoke", "revert", "pr", "idle"}
  PROVE  [watch EXCEPT !.pc = p] \in Passes
BY DEF WatchTypes, Passes

LEMMA NoPassTyped == NoPass \in Passes
BY AuthorityAssumption DEF NoPass, Passes, Outcomes

LEMMA OutcomeTyped ==
  ASSUME WatchTypes, NEW o \in Outcomes, Outcome(o)
  PROVE  watch' \in Passes /\ watch'.pc = "record" /\ watch'.outcome = o /\ watch'.sha = watch.sha
BY DEF WatchTypes, Passes, Outcome

\* A step of the pass that keeps the ledger, the commands and the heads it is about.
LEMMA PassMoves ==
  ASSUME WatchTypes, PassInv, RowInv, watch.pc # "idle",
         watch' \in Passes, watch'.sha = watch.sha,
         UNCHANGED <<main, squashed, deploys, attempts, wrongTree, undone, prs, crashes, up>>,
         tree' \in Trees,
         watch'.pc \notin {"idle", "head"} => watch.pc # "head",
         watch'.pc \in {"claimed", "fresh", "ready"} => watch.pc \in {"claimed", "fresh", "ready"},
         watch'.pc = "record" => watch'.outcome \notin {"none", "reverted"}
  PROVE  WatchTypes' /\ PassInv' /\ RowInv'
<1>1. RowInv'  BY RowFrame
<1>2. WatchTypes'  BY DEF WatchTypes
<1>3. PassInv'  BY DEF PassInv
<1>4. QED  BY <1>1, <1>2, <1>3

LEMMA ReadHeadStep == ASSUME IInv, ReadHead PROVE WatchTypes' /\ PassInv' /\ RowInv'
<1> USE DEF IInv
<1>1. PICK twoParents \in BOOLEAN :
        watch' = [NoPass EXCEPT !.pc = "head", !.sha = main, !.twoParents = twoParents]
  BY DEF ReadHead
<1>2. /\ main \in Heads
      /\ UNCHANGED <<main, squashed, deploys, tree, attempts, wrongTree, undone, prs, crashes, up>>
  BY DEF ReadHead, WatchTypes, Heads
<1>3. main \in 0..MaxHeads  BY DEF WatchTypes
<1>4. watch' \in Passes /\ watch'.pc = "head" /\ watch'.sha = main
  BY <1>1, <1>3, NoPassTyped DEF Passes
<1>5. RowInv'  BY <1>2, RowFrame
<1>6. QED  BY <1>2, <1>4, <1>5 DEF WatchTypes, PassInv

LEMMA ClaimStep == ASSUME IInv, ClaimDeploy PROVE WatchTypes' /\ PassInv' /\ RowInv'
<1> USE DEF IInv
<1>1. /\ watch.pc = "head" /\ watch.sha \in Heads
      /\ UNCHANGED <<main, squashed, tree, attempts, wrongTree, undone, prs, crashes, up>>
  BY DEF ClaimDeploy, PassInv
<1>2. CASE /\ Unclaimed
           /\ deploys' = [deploys EXCEPT ![watch.sha] = "started"]
           /\ watch' = [watch EXCEPT !.pc = "claimed"]
  <2>1. watch' \in Passes /\ watch'.pc = "claimed" /\ watch'.sha = watch.sha
    BY <1>2, NewPass DEF WatchTypes, Passes
  <2>2. deploys' \in [Heads -> Outcomes] /\ deploys'[watch.sha] = "started"
    BY <1>1, <1>2 DEF WatchTypes, Outcomes
  <2>3. attempts[watch.sha] = 0
    BY <1>1, <1>2 DEF WatchTypes, RowInv, Unclaimed
  <2>4. RowInv'
    BY <1>1, <1>2, <2>2 DEF WatchTypes, RowInv, DeployedOnce, RevertedIsUndone
  <2>5. QED  BY <1>1, <2>1, <2>2, <2>3, <2>4 DEF WatchTypes, PassInv
<1>3. CASE watch' = NoPass /\ UNCHANGED deploys
  <2>1. RowInv'  BY <1>1, <1>3, RowFrame
  <2>2. watch'.pc = "idle"  BY <1>3 DEF NoPass
  <2>3. QED  BY <1>1, <1>3, <2>1, <2>2, NoPassTyped DEF WatchTypes, PassInv
<1>4. QED  BY <1>2, <1>3 DEF ClaimDeploy

LEMMA FreshStep == ASSUME IInv, CheckFresh PROVE WatchTypes' /\ PassInv' /\ RowInv'
<1> USE DEF IInv
<1>1. /\ watch.pc = "claimed" /\ tree \in Trees
      /\ UNCHANGED <<main, squashed, deploys, tree, attempts, wrongTree, undone, prs, crashes, up>>
  BY DEF CheckFresh, WatchTypes
<1>2. CASE watch' = [watch EXCEPT !.pc = "fresh"]
  <2>1. watch' \in Passes /\ watch'.pc = "fresh" /\ watch'.sha = watch.sha
    BY <1>2, NewPass DEF WatchTypes, Passes
  <2>2. QED  BY <1>1, <2>1, PassMoves
<1>3. CASE Outcome("skipped")
  <2>1. watch' \in Passes /\ watch'.pc = "record" /\ watch'.outcome = "skipped" /\ watch'.sha = watch.sha
    BY <1>3, OutcomeTyped DEF Outcomes
  <2>2. QED  BY <1>1, <2>1, PassMoves
<1>4. QED  BY <1>2, <1>3 DEF CheckFresh

LEMMA PrepareStep == ASSUME IInv, PrepareTree PROVE WatchTypes' /\ PassInv' /\ RowInv'
<1> USE DEF IInv
<1>1. /\ watch.pc = "fresh"
      /\ tree' \in Trees
      /\ UNCHANGED <<main, squashed, deploys, attempts, wrongTree, undone, prs, crashes, up>>
  BY DEF PrepareTree, WatchTypes, Trees, Tree, Heads
<1>2. CASE watch' = [watch EXCEPT !.pc = "ready"]
  <2>1. watch' \in Passes /\ watch'.pc = "ready" /\ watch'.sha = watch.sha
    BY <1>2, NewPass DEF WatchTypes, Passes
  <2>2. QED  BY <1>1, <2>1, PassMoves
<1>3. CASE Outcome("failed")
  <2>1. watch' \in Passes /\ watch'.pc = "record" /\ watch'.outcome = "failed" /\ watch'.sha = watch.sha
    BY <1>3, OutcomeTyped DEF Outcomes
  <2>2. QED  BY <1>1, <2>1, PassMoves
<1>4. QED  BY <1>2, <1>3 DEF PrepareTree

\* The command of a head that was claimed just now: the first one.
LEMMA DeployStep == ASSUME IInv, RunDeploy PROVE WatchTypes' /\ PassInv' /\ RowInv'
<1> USE DEF IInv
<1>1. /\ watch.pc = "ready" /\ watch.sha \in Heads
      /\ deploys[watch.sha] # "none" /\ attempts[watch.sha] = 0
      /\ attempts' = [attempts EXCEPT ![watch.sha] = @ + 1]
      /\ UNCHANGED <<main, squashed, deploys, tree, undone, prs, crashes, up>>
  BY DEF RunDeploy, PassInv
<1>2. wrongTree' \in BOOLEAN  BY DEF RunDeploy, WatchTypes
<1>3. attempts' \in [Heads -> Nat] /\ attempts'[watch.sha] = 1
  BY <1>1 DEF WatchTypes
<1>4. RowInv'
  BY <1>1, <1>3 DEF WatchTypes, RowInv, DeployedOnce, RevertedIsUndone
<1>5. /\ watch' \in Passes /\ watch'.sha = watch.sha
      /\ \/ watch'.pc = "smoke"
         \/ watch'.pc = "record" /\ watch'.outcome \in {"ok", "failed"}
  <2>1. CASE watch' = [watch EXCEPT !.pc = "smoke"]
    BY <2>1, NewPass DEF WatchTypes, Passes
  <2>2. CASE Outcome("ok") \/ Outcome("failed")
    BY <2>2, OutcomeTyped DEF Outcomes
  <2>3. QED  BY <2>1, <2>2 DEF RunDeploy
<1>6. WatchTypes'  BY <1>1, <1>2, <1>3, <1>5 DEF WatchTypes
<1>7. PassInv'  BY <1>1, <1>5 DEF PassInv
<1>8. QED  BY <1>4, <1>6, <1>7

LEMMA SmokeStep == ASSUME IInv, RunSmoke PROVE WatchTypes' /\ PassInv' /\ RowInv'
<1> USE DEF IInv
<1>1. /\ watch.pc = "smoke" /\ tree \in Trees
      /\ UNCHANGED <<main, squashed, deploys, tree, attempts, wrongTree, undone, prs, crashes, up>>
  BY DEF RunSmoke, WatchTypes
<1>2. CASE Outcome("ok")
  <2>1. watch' \in Passes /\ watch'.pc = "record" /\ watch'.outcome = "ok" /\ watch'.sha = watch.sha
    BY <1>2, OutcomeTyped DEF Outcomes
  <2>2. QED  BY <1>1, <2>1, PassMoves
<1>3. CASE watch' = [watch EXCEPT !.pc = IF cfg.autoRepo THEN "revert" ELSE "pr"]
  <2>1. watch' \in Passes /\ watch'.pc \in {"revert", "pr"} /\ watch'.sha = watch.sha
    BY <1>3, NewPass DEF WatchTypes, Passes
  <2>2. QED  BY <1>1, <2>1, PassMoves
<1>4. QED  BY <1>2, <1>3 DEF RunSmoke

\* A revert that is committed leaves a tree with one more local revert.
LEMMA ReversionTyped ==
  ASSUME WatchTypes, watch.sha \in Heads
  PROVE  /\ Reverts \in SUBSET Heads /\ watch.sha \in Reverts
         /\ Committed => tree' \in Trees
<1>1. tree \in Trees  BY DEF WatchTypes
<1>2. Reverts \in SUBSET Heads /\ watch.sha \in Reverts  BY <1>1 DEF Reverts, Trees
<1>3. QED  BY <1>1, <1>2 DEF Committed, Trees

LEMMA RevertStep == ASSUME IInv, RevertMerge PROVE WatchTypes' /\ PassInv' /\ RowInv'
<1> USE DEF IInv
<1>1. /\ watch.pc = "revert" /\ watch.sha \in Heads /\ deploys[watch.sha] # "none"
      /\ UNCHANGED <<deploys, attempts, wrongTree, prs, crashes, up>>
  BY DEF RevertMerge, PassInv
<1>2. /\ Reverts \in SUBSET Heads /\ watch.sha \in Reverts
      /\ Committed => tree' \in Trees
  BY <1>1, ReversionTyped
<1>3. CASE /\ FactoryPush
           /\ undone' = undone \union Reverts
           /\ tree' = Tree(main + 1)
           /\ Outcome("reverted")
  <2>1. /\ watch' \in Passes /\ watch'.pc = "record" /\ watch'.outcome = "reverted"
        /\ watch'.sha = watch.sha
    BY <1>3, OutcomeTyped DEF Outcomes
  <2>2. main' \in 0..MaxHeads /\ main' \in Heads /\ squashed' \in SUBSET Heads
    BY <1>3, Pushing
  <2>3. tree' \in Trees  BY <1>3, <2>2 DEF FactoryPush, Trees, Tree
  <2>4. RowInv'  BY <1>1, <1>3, RowFrame
  <2>5. undone' \in SUBSET Heads /\ watch.sha \in undone'
    BY <1>2, <1>3 DEF WatchTypes
  <2>6. WatchTypes'  BY <1>1, <2>1, <2>2, <2>3, <2>5 DEF WatchTypes
  <2>7. PassInv'  BY <1>1, <2>1, <2>5 DEF PassInv
  <2>8. QED  BY <2>4, <2>6, <2>7
<1>4. CASE /\ Committed \/ UNCHANGED tree
           /\ watch' = [watch EXCEPT !.pc = "pr"]
           /\ UNCHANGED <<main, squashed, undone>>
  <2>1. watch' \in Passes /\ watch'.pc = "pr" /\ watch'.sha = watch.sha
    BY <1>4, NewPass DEF WatchTypes, Passes
  <2>2. tree' \in Trees  BY <1>2, <1>4 DEF WatchTypes
  <2>3. QED  BY <1>1, <1>4, <2>1, <2>2, PassMoves
<1>5. QED  BY <1>3, <1>4 DEF RevertMerge

LEMMA RevertPrStep == ASSUME IInv, CreateRevertPr PROVE WatchTypes' /\ PassInv' /\ RowInv'
<1> USE DEF IInv
<1>1. /\ watch.pc = "pr" /\ watch.sha \in Heads /\ deploys[watch.sha] # "none"
      /\ Committed \/ UNCHANGED tree
      /\ UNCHANGED <<main, squashed, deploys, attempts, wrongTree, undone, crashes, up>>
  BY DEF CreateRevertPr, PassInv
<1>2. /\ Reverts \in SUBSET Heads /\ watch.sha \in Reverts
      /\ tree' \in Trees
  BY <1>1, ReversionTyped DEF WatchTypes
<1>3. CASE prs' = prs \union Reverts /\ Outcome("reverted")
  <2>1. /\ watch' \in Passes /\ watch'.pc = "record" /\ watch'.outcome = "reverted"
        /\ watch'.sha = watch.sha
    BY <1>3, OutcomeTyped DEF Outcomes
  <2>2. RowInv'  BY <1>1, <1>3, RowFrame
  <2>3. prs' \in SUBSET Heads /\ watch.sha \in prs'
    BY <1>2, <1>3 DEF WatchTypes
  <2>4. WatchTypes'  BY <1>2, <1>1, <2>1, <2>3 DEF WatchTypes
  <2>5. PassInv'  BY <1>1, <2>1, <2>3 DEF PassInv
  <2>6. QED  BY <2>2, <2>4, <2>5
<1>4. CASE Outcome("failed") /\ UNCHANGED prs
  <2>1. watch' \in Passes /\ watch'.pc = "record" /\ watch'.outcome = "failed" /\ watch'.sha = watch.sha
    BY <1>4, OutcomeTyped DEF Outcomes
  <2>2. QED  BY <1>2, <1>1, <1>4, <2>1, PassMoves
<1>5. QED  BY <1>3, <1>4 DEF CreateRevertPr

LEMMA RecordStep == ASSUME IInv, RecordDeploy PROVE WatchTypes' /\ PassInv' /\ RowInv'
<1> USE DEF IInv
<1>1. /\ watch.pc = "record" /\ watch.sha \in Heads /\ watch.outcome \in Outcomes
      /\ watch.outcome # "none"
      /\ watch.outcome = "reverted" => watch.sha \in undone \union prs
      /\ watch' = NoPass
      /\ UNCHANGED <<main, squashed, tree, attempts, wrongTree, undone, prs, crashes, up>>
  BY DEF RecordDeploy, PassInv, WatchTypes, Passes
<1>2. PassInv'  BY <1>1 DEF PassInv, NoPass
<1>3. CASE UNCHANGED deploys
  <2>1. RowInv'  BY <1>1, <1>3, RowFrame
  <2>2. QED  BY <1>1, <1>2, <1>3, <2>1, NoPassTyped DEF WatchTypes
<1>4. CASE deploys' = [deploys EXCEPT ![watch.sha] = watch.outcome]
  <2>1. RowInv'
    BY <1>1, <1>4 DEF WatchTypes, RowInv, DeployedOnce, RevertedIsUndone
  <2>2. WatchTypes'  BY <1>1, <1>4, NoPassTyped DEF WatchTypes
  <2>3. QED  BY <1>2, <2>1, <2>2
<1>5. QED  BY <1>3, <1>4 DEF RecordDeploy

LEMMA WatchStep == ASSUME IInv, Watching PROVE IInv'
<1>1. LadderTypes' /\ LadderInv'  BY WatchLeavesLadder, LadderFrame DEF IInv
<1>2. WatchTypes' /\ PassInv' /\ RowInv'
  BY ReadHeadStep, ClaimStep, FreshStep, PrepareStep, DeployStep, SmokeStep, RevertStep,
     RevertPrStep, RecordStep DEF Watching
<1>3. QED  BY <1>1, <1>2 DEF IInv

-----------------------------------------------------------------------------
(* People, crashes, restarts. *)

LEMMA OutsideStep == ASSUME IInv, HumanPush \/ Restart PROVE IInv'
<1> USE DEF IInv
<1>1. LadderTypes' /\ LadderInv'  BY WatchLeavesLadder, LadderFrame
<1>2. UNCHANGED <<squashed, deploys, tree, watch, attempts, wrongTree, undone, prs, crashes>>
  BY DEF HumanPush, Restart, deployVars
<1>3. up' \in BOOLEAN  BY DEF HumanPush, Restart, WatchTypes
<1>4. main' \in 0..MaxHeads
  <2>1. CASE HumanPush  BY <2>1, AuthorityAssumption DEF HumanPush, WatchTypes
  <2>2. CASE Restart  BY <2>2 DEF Restart, WatchTypes
  <2>3. QED  BY <2>1, <2>2
<1>5. WatchTypes' /\ PassInv' /\ RowInv'
  BY <1>2, <1>3, <1>4 DEF WatchTypes, PassInv, RowInv, DeployedOnce, RevertedIsUndone
<1>6. QED  BY <1>1, <1>5

LEMMA CrashStep == ASSUME IInv, Crash PROVE IInv'
<1> USE DEF IInv
<1>1. /\ run' = [i \in Runs |-> Idle] /\ lock' = <<>> /\ watch' = NoPass
      /\ UNCHANGED <<cfg, ladder, applied, decisions, main, squashed, deploys, tree, attempts,
                     wrongTree, undone, prs>>
      /\ up' = FALSE
  BY DEF Crash
<1>2. crashes' \in 0..MaxCrashes  BY AuthorityAssumption DEF Crash, WatchTypes
<1>3. LadderTypes'  BY <1>1, SeedIsLadder DEF LadderTypes
<1>4. OneWriter'  BY <1>1 DEF OneWriter, Idle
<1>5. StreakIsClean' /\ PromotionEarned'
  BY <1>1 DEF LadderInv, StreakIsClean, PromotionEarned
<1>6. WatchTypes'  BY <1>1, <1>2, NoPassTyped DEF WatchTypes
<1>7. PassInv'  BY <1>1 DEF PassInv, NoPass
<1>8. RowInv'  BY <1>1, RowFrame
<1>9. QED  BY <1>3, <1>4, <1>5, <1>6, <1>7, <1>8 DEF LadderInv

LEMMA Initially == Init => IInv
<1> SUFFICES ASSUME Init PROVE IInv  OBVIOUS
<1>1. LadderTypes  BY SeedIsLadder DEF Init, LadderTypes
<1>2. StreakIsClean  BY DEF Init, StreakIsClean, SeedLadderState
<1>3. OneWriter  BY DEF Init, OneWriter, Idle
<1>4. PromotionEarned  BY DEF Init, PromotionEarned, SeedLadderState
<1>5. /\ main \in 0..MaxHeads /\ tree \in Trees /\ crashes \in 0..MaxCrashes
  BY AuthorityAssumption DEF Init, Trees, Tree, Heads
<1>6. WatchTypes  BY <1>5, NoPassTyped DEF Init, WatchTypes, Outcomes
<1>7. PassInv  BY DEF Init, PassInv, NoPass
<1>8. RowInv  BY DEF Init, RowInv, DeployedOnce, RevertedIsUndone
<1>9. QED  BY <1>1, <1>2, <1>3, <1>4, <1>6, <1>7, <1>8 DEF IInv, LadderInv

LEMMA Stuttering == ASSUME IInv, UNCHANGED vars PROVE IInv'
<1>1. UNCHANGED ladderSide /\ UNCHANGED watchSide
  BY DEF vars, ladderVars, deployVars, ladderSide, watchSide
<1>2. QED  BY <1>1, LadderFrame, WatchFrame DEF IInv

LEMMA Steps == IInv /\ [Next]_vars => IInv'
<1> SUFFICES ASSUME IInv, [Next]_vars PROVE IInv'  OBVIOUS
<1>1. ASSUME NEW i \in Runs, Decide(i) \/ Deliver(i) \/ Recording(i) PROVE IInv'
  BY <1>1, DecideStep, DeliverStep, ReadStep, AppendStep, SaveStep DEF Recording
<1>2. CASE Watching  BY <1>2, WatchStep
<1>3. CASE HumanPush \/ Restart  BY <1>3, OutsideStep
<1>4. CASE Crash  BY <1>4, CrashStep
<1>5. CASE UNCHANGED vars  BY <1>5, Stuttering
<1>6. QED  BY <1>1, <1>2, <1>3, <1>4, <1>5 DEF Next

LEMMA Invariance == Spec => []IInv
BY Initially, Steps, PTL DEF Spec

-----------------------------------------------------------------------------

(* Types of the ladder's row and lock, the runs, the deploy ledger and the pass. *)
THEOREM AuthorityTypes == Spec => []TypeOK
<1>1. IInv => TypeOK
  BY DEF IInv, LadderTypes, WatchTypes, TypeOK, Lanes, Passes
<1>2. QED  BY <1>1, Invariance, PTL

(* No authority without the streak: whatever runs end together, fail to write or die
   between two statements, a repository at auto-low-risk once had PromoteAfter clean
   decisions in a row (recordShadowDecision, db.ts:1526-1573). *)
THEOREM AuthorityIsEarned == Spec => []PromotionEarned
<1>1. IInv => PromotionEarned  BY DEF IInv, LadderInv
<1>2. QED  BY <1>1, Invariance, PTL

(* At most one deploy command per head (claimDeploy, db.ts:1588-1600). *)
THEOREM DeploysOnce == Spec => []DeployedOnce
<1>1. IInv => DeployedOnce  BY DEF IInv, RowInv
<1>2. QED  BY <1>1, Invariance, PTL

(* A row that says "reverted" has a revert on main or an open revert PR. *)
THEOREM RevertsAreReal == Spec => []RevertedIsUndone
<1>1. IInv => RevertedIsUndone  BY DEF IInv, RowInv
<1>2. QED  BY <1>1, Invariance, PTL

-----------------------------------------------------------------------------
(***************************************************************************)
(* The configuration of a project, for any requests, repositories, cards,  *)
(* keys, values, rounds of the activation and bounds.                      *)
(*                                                                         *)
(* The invariant says of every request what it carries (Sound), that the   *)
(* row an approval works on is its own and pending until a proposal        *)
(* overtakes it (Owned), and that a projection that met no other has       *)
(* written as much of its card as its place tells (Projected).             *)
(***************************************************************************)
AllValues == UNION {Values[k] : k \in Keys}
PolicyRows == [key : Keys, value : AllValues, state : States, claimed : BOOLEAN]
ConfigRequests == [pc : Places, op : {"none", "view", "create", "propose", "status", "approve", "reject"},
                   key : Keys \union {"none"}, value : AllValues \union {"none", "active", "paused"},
                   id : Nat, tries : Nat, next : SUBSET Repos, seen : SUBSET Nat, todo : SUBSET Repos,
                   alone : BOOLEAN]

\* What request r carries at its place, with the rows p.
Sound(r, p) ==
  /\ r \in ConfigRequests
  /\ r.op = "propose" => r.key \in Keys /\ r.value \in Values[r.key]
  /\ r.op = "status" => r.value \in {"active", "paused"}
  /\ r.op \in {"approve", "reject"} => r.id \in 1..Len(p) /\ p[r.id].key = r.key
  /\ r.pc = "commit" => r.op = "propose" /\ \A i \in r.seen : i \in 1..Len(p) /\ p[i].key = r.key
  /\ r.pc \in {"claim", "supersede", "activate"} => r.op = "approve"

Approves(r) == r.pc \in {"supersede", "activate"}
Projects(r) == r.pc \in {"list", "delete", "insert", "audit"}

ConfigTypes ==
  /\ card \in Cards /\ row \in {"none", "active", "paused"} /\ repos \subseteq Repos
  /\ policy \in Seq(PolicyRows) /\ \A i \in 1..Len(policy) : policy[i].value \in Values[policy[i].key]
  /\ req \in [Requests -> ConfigRequests]
  /\ \A q \in Requests : Sound(req[q], policy)
  /\ aligned \in BOOLEAN /\ enforced \subseteq Keys /\ raced \subseteq Keys

\* The row an approval has claimed is its own, and pending unless a proposal overtook it.
Owned ==
  /\ \A q \in Requests : Approves(req[q]) =>
        policy[req[q].id].claimed /\ (policy[req[q].id].state = "pending" \/ req[q].key \in raced)
  /\ \A q, o \in Requests : q # o /\ Approves(req[q]) /\ Approves(req[o]) => req[q].id # req[o].id

\* What a projection that met no other has written.
Projected ==
  \A q \in Requests : Projects(req[q]) /\ req[q].alone =>
    /\ \A o \in Requests \ {q} : ~Projects(req[o])
    /\ req[q].pc = "delete" => req[q].todo = req[q].next
    /\ req[q].pc = "insert" => repos \union req[q].todo = req[q].next
    /\ req[q].pc = "audit" => repos = req[q].next

Aligned == aligned => repos = card.repos /\ \A q \in Requests : req[q].pc \notin {"insert", "audit"}

ConfigInv == ConfigTypes /\ Owned /\ ForceStands /\ Projected /\ Aligned

LEMMA ForceMeans ==
  ForceStands <=>
    \A k \in enforced \ raced :
        (\E q \in Requests : Approves(req[q]) /\ req[q].key = k)
        \/ \E i \in DOMAIN policy : policy[i].key = k /\ policy[i].state = "active"
BY DEF ForceStands, Approving, InForce, Ids, Approves

-----------------------------------------------------------------------------
(* Steps that leave most of it alone. *)

\* Keys are never rewritten and rows never removed.
Grown(p, new) == Len(p) \in Nat /\ Len(new) \in Nat /\ Len(p) =< Len(new) /\ \A i \in 1..Len(p) : new[i].key = p[i].key

LEMMA StillSound ==
  ASSUME NEW r, NEW p, NEW new, Sound(r, p), Grown(p, new)
  PROVE  Sound(r, new)
BY DEF Sound, Grown

\* A request that neither approves nor projects leaves the invariant to the others.
LEMMA ConfigSteps ==
  ASSUME ConfigInv, NEW q \in Requests, NEW r, Sound(r, policy), req' = [req EXCEPT ![q] = r],
         ~Approves(req[q]) /\ ~Approves(r), ~Projects(r),
         UNCHANGED <<card, repos, policy, aligned, enforced, raced>>, row' \in {"none", "active", "paused"}
  PROVE  ConfigInv'
<1> USE DEF ConfigInv
<1>1. \A o \in Requests : req'[o] = IF o = q THEN r ELSE req[o]
  BY DEF ConfigTypes
<1>2. ConfigTypes'
  BY <1>1 DEF ConfigTypes, Sound
<1>3. Owned'
  BY <1>1 DEF Owned
<1>4. ForceStands'
  <2>1. ForceStands
    OBVIOUS
  <2>2. \A k : (\E o \in Requests : Approves(req[o]) /\ req[o].key = k)
             => \E o \in Requests : Approves(req'[o]) /\ req'[o].key = k
    BY <1>1
  <2> QED  BY <2>1, <2>2, ForceMeans DEF ForceStands, Approving, InForce, Ids, Approves
<1>5. Projected'
  BY <1>1 DEF Projected
<1>6. Aligned'
  BY <1>1 DEF Aligned, Projects
<1> QED  BY <1>2, <1>3, <1>4, <1>5, <1>6

\* As long as no row changes, an approval may only be given up at the price of a race.
LEMMA PolicySide ==
  ASSUME ConfigInv, UNCHANGED <<policy, enforced>>, raced \subseteq raced',
         \A q \in Requests : Approves(req'[q]) =>
            Approves(req[q]) /\ req'[q].id = req[q].id /\ req'[q].key = req[q].key,
         \A q \in Requests : Approves(req[q]) =>
            (Approves(req'[q]) /\ req'[q].key = req[q].key) \/ req[q].key \in raced'
  PROVE  Owned' /\ ForceStands'
<1>1. Owned'
  BY DEF ConfigInv, Owned
<1>2. ASSUME NEW k \in enforced' \ raced', \A q \in Requests : ~(Approves(req'[q]) /\ req'[q].key = k)
      PROVE  \E i \in DOMAIN policy' : policy'[i].key = k /\ policy'[i].state = "active"
  <2>1. ~\E q \in Requests : Approves(req[q]) /\ req[q].key = k
    BY <1>2
  <2> QED  BY <1>2, <2>1, ForceMeans DEF ConfigInv
<1>3. ForceStands'
  BY <1>2 DEF ForceStands, Approving, InForce, Ids, Approves
<1> QED  BY <1>1, <1>3

\* Requests stay in the projection as they were, or have met another, or left it.
LEMMA ProjectionSide ==
  ASSUME ConfigInv, UNCHANGED <<card, repos>>, aligned' => aligned,
         \A q \in Requests : Projects(req'[q]) => Projects(req[q]) /\ req'[q].pc = req[q].pc,
         \A q \in Requests : Projects(req'[q]) /\ req'[q].alone => req'[q] = req[q]
  PROVE  Projected' /\ Aligned'
<1>1. Projected'
  BY DEF ConfigInv, Projected
<1>2. Aligned'
  BY DEF ConfigInv, Aligned, Projects
<1> QED  BY <1>1, <1>2

LEMMA IdleSound == \A p : Sound(NoRequest, p) /\ ~Approves(NoRequest) /\ ~Projects(NoRequest)
BY DEF Sound, NoRequest, ConfigRequests, Places, Approves, Projects

-----------------------------------------------------------------------------
(* Requests begin and look the project up. *)

LEMMA CardIs ==
  ASSUME ConfigTypes, NEW c \in Cards
  PROVE  c.repos \in SUBSET Repos
BY ConfigAssumption DEF ConfigTypes, CardShapes

LEMMA RowIs ==
  ASSUME ConfigTypes, NEW i \in DOMAIN policy
  PROVE  /\ i \in 1..Len(policy) /\ i \in Nat /\ policy[i] \in PolicyRows /\ policy[i].key \in Keys
         /\ policy[i].value \in Values[policy[i].key]
<1>1. policy \in Seq(PolicyRows) /\ \A j \in 1..Len(policy) : policy[j].value \in Values[policy[j].key]
  BY DEF ConfigTypes
<1>2. i \in 1..Len(policy) /\ i \in Nat /\ policy[i] \in PolicyRows
  BY <1>1
<1> QED  BY <1>1, <1>2 DEF PolicyRows

LEMMA BeginKeeps ==
  ASSUME ConfigInv, NEW q \in Requests, NEW r, Sound(r, policy), ~Approves(r), ~Projects(r), Begin(q, r)
  PROVE  ConfigInv'
<1>1. req' = [req EXCEPT ![q] = r] /\ ~Approves(req[q])
  BY DEF Begin, Step, Approves
<1>2. UNCHANGED <<card, repos, policy, aligned, enforced, raced>> /\ row' \in {"none", "active", "paused"}
  BY DEF Begin, RowsKept, ConfigInv, ConfigTypes
<1> QED  BY <1>1, <1>2, ConfigSteps

LEMMA BeginsKeep ==
  ASSUME ConfigInv, NEW q \in Requests,
         \/ View(q) \/ Create(q) \/ Propose(q)
         \/ SaveStatus(q) \/ Approve(q) \/ Reject(q)
  PROVE  ConfigInv'
<1>1. CASE View(q)
  <2>1. card.repos \in SUBSET Repos
    BY CardIs DEF ConfigInv, ConfigTypes
  <2>2. PICK r : r = [NoRequest EXCEPT !.pc = "ensure", !.op = "view", !.next = card.repos]
    OBVIOUS
  <2>3. Sound(r, policy) /\ ~Approves(r) /\ ~Projects(r)
    BY <2>2, <2>1 DEF Sound, ConfigRequests, Places, NoRequest, Approves, Projects
  <2> QED  BY <2>2, <1>1, <2>3, BeginKeeps DEF View
<1>2. CASE Create(q)
  <2>1. PICK c \in Cards :
          Begin(q, [NoRequest EXCEPT !.pc = "lookup", !.op = "create", !.next = c.repos])
    BY <1>2 DEF Create
  <2>2. c.repos \in SUBSET Repos
    BY CardIs DEF ConfigInv
  <2>3. PICK r : r = [NoRequest EXCEPT !.pc = "lookup", !.op = "create", !.next = c.repos]
    OBVIOUS
  <2>4. Sound(r, policy) /\ ~Approves(r) /\ ~Projects(r)
    BY <2>3, <2>2 DEF Sound, ConfigRequests, Places, NoRequest, Approves, Projects
  <2> QED  BY <2>3, <2>1, <2>4, BeginKeeps
<1>3. CASE Propose(q)
  <2>1. PICK k \in Keys : \E v \in Values[k] :
          Begin(q, [NoRequest EXCEPT !.pc = "lookup", !.op = "propose", !.key = k, !.value = v])
    BY <1>3 DEF Propose
  <2>2. PICK v \in Values[k] :
          Begin(q, [NoRequest EXCEPT !.pc = "lookup", !.op = "propose", !.key = k, !.value = v])
    BY <2>1
  <2>3. v \in AllValues
    BY DEF AllValues
  <2>4. PICK r : r = [NoRequest EXCEPT !.pc = "lookup", !.op = "propose", !.key = k, !.value = v]
    OBVIOUS
  <2>5. Sound(r, policy) /\ ~Approves(r) /\ ~Projects(r)
    BY <2>4, <2>3 DEF Sound, ConfigRequests, Places, NoRequest, Approves, Projects
  <2> QED  BY <2>4, <2>2, <2>5, BeginKeeps
<1>4. CASE SaveStatus(q)
  <2>1. PICK s \in {"active", "paused"} :
          Begin(q, [NoRequest EXCEPT !.pc = "lookup", !.op = "status", !.value = s])
    BY <1>4 DEF SaveStatus
  <2>2. PICK r : r = [NoRequest EXCEPT !.pc = "lookup", !.op = "status", !.value = s]
    OBVIOUS
  <2>3. Sound(r, policy) /\ ~Approves(r) /\ ~Projects(r)
    BY <2>2 DEF Sound, ConfigRequests, Places, NoRequest, Approves, Projects
  <2> QED  BY <2>2, <2>1, <2>3, BeginKeeps
<1>5. CASE Approve(q)
  <2>1. PICK i \in DOMAIN policy :
          Begin(q, [NoRequest EXCEPT !.pc = "claim", !.op = "approve", !.key = policy[i].key, !.id = i])
    BY <1>5 DEF Approve
  <2>2. i \in 1..Len(policy) /\ i \in Nat /\ policy[i].key \in Keys
    BY RowIs DEF ConfigInv
  <2>3. PICK r : r = [NoRequest EXCEPT !.pc = "claim", !.op = "approve", !.key = policy[i].key, !.id = i]
    OBVIOUS
  <2>4. Sound(r, policy) /\ ~Approves(r) /\ ~Projects(r)
    BY <2>3, <2>2 DEF Sound, ConfigRequests, Places, NoRequest, Approves, Projects
  <2> QED  BY <2>3, <2>1, <2>4, BeginKeeps
<1>6. CASE Reject(q)
  <2>1. PICK i \in DOMAIN policy :
          Begin(q, [NoRequest EXCEPT !.pc = "write", !.op = "reject", !.key = policy[i].key, !.id = i])
    BY <1>6 DEF Reject
  <2>2. i \in 1..Len(policy) /\ i \in Nat /\ policy[i].key \in Keys
    BY RowIs DEF ConfigInv
  <2>3. PICK r : r = [NoRequest EXCEPT !.pc = "write", !.op = "reject", !.key = policy[i].key, !.id = i]
    OBVIOUS
  <2>4. Sound(r, policy) /\ ~Approves(r) /\ ~Projects(r)
    BY <2>3, <2>2 DEF Sound, ConfigRequests, Places, NoRequest, Approves, Projects
  <2> QED  BY <2>3, <2>1, <2>4, BeginKeeps
<1> QED  BY <1>1, <1>2, <1>3, <1>4, <1>5, <1>6

\* A request that neither approves nor projects.
Plain(r) == Sound(r, policy) /\ ~Approves(r) /\ ~Projects(r)

LEMMA MovedIs ==
  ASSUME NEW r, Sound(r, policy), NEW pc \in {"ensure", "write"}
  PROVE  Plain([r EXCEPT !.pc = pc])
<1>1. PICK s : s = [r EXCEPT !.pc = pc]
  OBVIOUS
<1>2. s \in ConfigRequests /\ s.pc = pc /\ s.op = r.op /\ s.key = r.key /\ s.id = r.id /\ s.value = r.value
  BY <1>1 DEF Sound, ConfigRequests, Places
<1>3. Plain(s)
  BY <1>2 DEF Plain, Sound, Approves, Projects
<1> QED  BY <1>1, <1>3

LEMMA NextIs ==
  ASSUME NEW r, Sound(r, policy), NEW rs \in SUBSET Repos
  PROVE  Plain([r EXCEPT !.pc = "ensure", !.next = rs])
<1>1. PICK s : s = [r EXCEPT !.pc = "ensure", !.next = rs]
  OBVIOUS
<1>2. s \in ConfigRequests /\ s.pc = "ensure" /\ s.op = r.op /\ s.key = r.key /\ s.id = r.id /\ s.value = r.value
  BY <1>1 DEF Sound, ConfigRequests, Places
<1>3. Plain(s)
  BY <1>2 DEF Plain, Sound, Approves, Projects
<1> QED  BY <1>1, <1>3

LEMMA LookupKeeps ==
  ASSUME ConfigInv, NEW q \in Requests, Lookup(q)
  PROVE  ConfigInv'
<1>1. /\ req[q].pc = "lookup" /\ ~Approves(req[q])
      /\ UNCHANGED <<card, repos, policy, aligned, enforced, raced>> /\ row' \in {"none", "active", "paused"}
  BY DEF Lookup, RowsKept, ConfigInv, ConfigTypes, Approves
<1>2. \E r : /\ r \in {NoRequest, [req[q] EXCEPT !.pc = "ensure"], [req[q] EXCEPT !.pc = "write"],
                       [req[q] EXCEPT !.pc = "ensure", !.next = card.repos]}
             /\ req' = [req EXCEPT ![q] = r]
  BY DEF Lookup, End, Step
<1>3. Sound(req[q], policy) /\ card.repos \in SUBSET Repos
  BY CardIs DEF ConfigInv, ConfigTypes
<1>4. Plain([req[q] EXCEPT !.pc = "ensure"]) /\ Plain([req[q] EXCEPT !.pc = "write"])
  BY <1>3, MovedIs
<1>5. Plain([req[q] EXCEPT !.pc = "ensure", !.next = card.repos])
  BY <1>3, NextIs
<1>6. PICK r : Plain(r) /\ req' = [req EXCEPT ![q] = r]
  BY <1>2, <1>4, <1>5, IdleSound DEF Plain
<1> QED  BY <1>1, <1>6, ConfigSteps DEF Plain

-----------------------------------------------------------------------------
(* The projection. *)

\* s is r, but for having met another projection.
AloneNoMore(r, s) ==
  /\ s \in ConfigRequests /\ Sound(s, policy) /\ ~s.alone
  /\ s.pc = r.pc /\ s.id = r.id /\ s.key = r.key /\ s.seen = r.seen

LEMMA AloneEnds ==
  ASSUME NEW r \in ConfigRequests, Sound(r, policy)
  PROVE  AloneNoMore(r, [r EXCEPT !.alone = FALSE])
<1>1. PICK s : s = [r EXCEPT !.alone = FALSE]
  OBVIOUS
<1>2. /\ s \in ConfigRequests /\ s.pc = r.pc /\ ~s.alone
      /\ s.op = r.op /\ s.key = r.key /\ s.id = r.id /\ s.value = r.value /\ s.seen = r.seen
  BY <1>1 DEF ConfigRequests
<1>3. AloneNoMore(r, s)
  BY <1>2 DEF AloneNoMore, Sound
<1> QED  BY <1>1, <1>3

LEMMA EnsureKeeps ==
  ASSUME ConfigInv, NEW q \in Requests, Ensure(q)
  PROVE  ConfigInv'
<1> DEFINE lone == \A x \in Requests \ {q} : ~Projecting(x)
<1>1. PICK alone \in BOOLEAN : alone = lone
  <2>1. CASE lone
    BY <2>1
  <2>2. CASE ~lone
    BY <2>2
  <2> QED  BY <2>1, <2>2
<1>2. /\ req[q].pc = "ensure" /\ UNCHANGED <<card, repos, policy, aligned, enforced, raced>>
      /\ row' \in {"none", "active", "paused"}
      /\ req' = [o \in Requests |-> IF o = q THEN [req[q] EXCEPT !.pc = "list", !.alone = alone]
                                           ELSE [req[o] EXCEPT !.alone = FALSE]]
  BY <1>1 DEF Ensure, ConfigInv, ConfigTypes
<1>3. alone <=> \A x \in Requests \ {q} : ~Projects(req[x])
  BY <1>1 DEF Projecting, Projects
<1> HIDE DEF lone
<1>4. \A o \in Requests : req[o] \in ConfigRequests /\ Sound(req[o], policy)
  BY DEF ConfigInv, ConfigTypes
<1>5. /\ req'[q] \in ConfigRequests /\ Sound(req'[q], policy)
      /\ req'[q].pc = "list" /\ (req'[q].alone <=> alone)
  <2>1. PICK r : r = req[q] /\ req'[q] = [r EXCEPT !.pc = "list", !.alone = alone]
    BY <1>2
  <2>2. PICK s : s = req'[q]
    OBVIOUS
  <2>3. r \in ConfigRequests /\ Sound(r, policy)
    BY <1>4, <2>1
  <2>4. s = [r EXCEPT !.pc = "list", !.alone = alone]
    BY <2>1, <2>2
  <2>5. s \in ConfigRequests /\ s.pc = "list" /\ (s.alone <=> alone)
    BY <2>3, <2>4 DEF ConfigRequests, Places
  <2>6. s.op = r.op /\ s.key = r.key /\ s.id = r.id /\ s.value = r.value
    BY <2>3, <2>4 DEF ConfigRequests
  <2>7. Sound(s, policy)
    BY <2>3, <2>5, <2>6 DEF Sound
  <2> QED  BY <2>2, <2>5, <2>7
<1>6. ASSUME NEW o \in Requests, o # q
      PROVE  /\ req'[o] \in ConfigRequests /\ Sound(req'[o], policy)
             /\ req'[o].pc = req[o].pc /\ req'[o].id = req[o].id /\ req'[o].key = req[o].key /\ ~req'[o].alone
  <2>1. PICK r : r = req[o] /\ req'[o] = [r EXCEPT !.alone = FALSE]
    BY <1>2, <1>6
  <2>2. r \in ConfigRequests /\ Sound(r, policy)
    BY <1>4, <2>1
  <2>3. AloneNoMore(r, req'[o])
    BY <2>1, <2>2, AloneEnds
  <2> QED  BY <2>1, <2>3 DEF AloneNoMore
<1>7. ConfigTypes'
  <2>1. req' \in [Requests -> ConfigRequests] /\ \A o \in Requests : Sound(req'[o], policy)
    BY <1>2, <1>5, <1>6
  <2> QED  BY <1>2, <2>1 DEF ConfigInv, ConfigTypes
<1>8. Owned' /\ ForceStands'
  <2>1. \A o \in Requests : Approves(req'[o]) <=> Approves(req[o]) /\ o # q
    BY <1>2, <1>5, <1>6 DEF Approves
  <2>2. ~Approves(req[q])
    BY <1>2 DEF Approves
  <2> QED  BY <1>2, <1>6, <2>1, <2>2, PolicySide
<1>9. Projected'
  BY <1>2, <1>3, <1>5, <1>6 DEF Projected, Projects
<1>10. Aligned'
  <2>1. \A o \in Requests : req'[o].pc \in {"insert", "audit"} => req[o].pc \in {"insert", "audit"}
    BY <1>5, <1>6
  <2> QED  BY <1>2, <2>1 DEF ConfigInv, Aligned
<1> QED  BY <1>7, <1>8, <1>9, <1>10 DEF ConfigInv

LEMMA ResolvedIs ==
  ASSUME ConfigInv, NEW q \in Requests
  PROVE  Plain(Resolved(q))
<1>1. Sound(req[q], policy)
  BY DEF ConfigInv, ConfigTypes
<1>2. Plain([req[q] EXCEPT !.pc = "write"])
  BY <1>1, MovedIs
<1> QED  BY <1>2, IdleSound DEF Resolved, Plain

\* The request of a projection moves on; nothing else but repos and aligned changes.
LEMMA ProjectionSteps ==
  ASSUME ConfigInv, NEW q \in Requests, NEW r, Projects(req[q]), Sound(r, policy), ~Approves(r),
         req' = [req EXCEPT ![q] = r], UNCHANGED <<card, row, policy, enforced, raced>>,
         repos' \subseteq Repos, aligned' \in BOOLEAN
  PROVE  /\ ConfigTypes' /\ Owned' /\ ForceStands'
         /\ \A o \in Requests : req'[o] = IF o = q THEN r ELSE req[o]
<1>1. \A o \in Requests : req'[o] = IF o = q THEN r ELSE req[o]
  BY DEF ConfigInv, ConfigTypes
<1>2. r \in ConfigRequests
  BY DEF Sound
<1>3. ConfigTypes'
  BY <1>1, <1>2 DEF ConfigInv, ConfigTypes
<1>4. ~Approves(req[q])
  BY DEF Approves, Projects
<1>5. Owned' /\ ForceStands'
  BY <1>1, <1>4, PolicySide
<1> QED  BY <1>1, <1>3, <1>5

\* When the request leaves the projection, the others are as they were.
LEMMA ProjectionEnds ==
  ASSUME ConfigInv, NEW q \in Requests, Projects(req[q]), req[q].pc \in {"list", "audit"},
         Resolved(q) = req'[q], \A o \in Requests \ {q} : req'[o] = req[o],
         UNCHANGED <<card, repos>>,
         aligned' => req[q].alone /\ repos = card.repos
  PROVE  Projected' /\ Aligned'
<1>1. ~Projects(req'[q])
  BY ResolvedIs DEF Plain
<1>2. Projected'
  BY <1>1 DEF ConfigInv, Projected
<1>3. ASSUME aligned'
      PROVE  repos = card.repos /\ \A o \in Requests : req'[o].pc \notin {"insert", "audit"}
  <2>1. \A o \in Requests \ {q} : ~Projects(req[o])
    BY <1>3 DEF ConfigInv, Projected
  <2> QED  BY <1>1, <1>3, <2>1 DEF Projects
<1>4. Aligned'
  BY <1>3 DEF Aligned
<1> QED  BY <1>2, <1>4

LEMMA ListReposKeeps ==
  ASSUME ConfigInv, NEW q \in Requests, ListRepos(q)
  PROVE  ConfigInv'
<1>1. /\ req[q].pc = "list" /\ Projects(req[q]) /\ UNCHANGED <<card, row, repos, policy, enforced, raced>>
      /\ repos \subseteq Repos /\ aligned \in BOOLEAN
  BY DEF ListRepos, RowsKept, ConfigInv, ConfigTypes, Projects
<1>2. CASE repos = req[q].next
  <2>1. /\ req' = [req EXCEPT ![q] = Resolved(q)]
        /\ aligned' = (req[q].alone /\ req[q].next = card.repos)
    BY <1>2 DEF ListRepos
  <2>2. Plain(Resolved(q))
    BY ResolvedIs
  <2>3. /\ ConfigTypes' /\ Owned' /\ ForceStands'
        /\ \A o \in Requests : req'[o] = IF o = q THEN Resolved(q) ELSE req[o]
    BY <1>1, <2>1, <2>2, ProjectionSteps DEF Plain
  <2>4. Projected' /\ Aligned'
    BY <1>1, <1>2, <2>1, <2>3, ProjectionEnds
  <2> QED  BY <2>3, <2>4 DEF ConfigInv
<1>3. CASE repos # req[q].next
  <2>1. PICK r : r = [req[q] EXCEPT !.pc = "delete", !.todo = req[q].next]
    OBVIOUS
  <2>2. req' = [req EXCEPT ![q] = r] /\ aligned' = aligned
    BY <1>3, <2>1 DEF ListRepos, Step
  <2>3. req[q] \in ConfigRequests /\ Sound(req[q], policy)
    BY DEF ConfigInv, ConfigTypes
  <2>4. /\ r \in ConfigRequests /\ r.pc = "delete" /\ r.todo = r.next /\ (r.alone <=> req[q].alone)
        /\ r.op = req[q].op /\ r.key = req[q].key /\ r.id = req[q].id /\ r.value = req[q].value
    BY <2>1, <2>3 DEF ConfigRequests, Places
  <2>5. Sound(r, policy) /\ ~Approves(r)
    BY <2>3, <2>4 DEF Sound, Approves
  <2>6. /\ ConfigTypes' /\ Owned' /\ ForceStands'
        /\ \A o \in Requests : req'[o] = IF o = q THEN r ELSE req[o]
    BY <1>1, <2>2, <2>5, ProjectionSteps
  <2>7. Projected'
    BY <1>1, <2>4, <2>6 DEF ConfigInv, Projected, Projects
  <2>8. Aligned'
    BY <1>1, <2>2, <2>4, <2>6 DEF ConfigInv, Aligned
  <2> QED  BY <2>6, <2>7, <2>8 DEF ConfigInv
<1> QED  BY <1>2, <1>3

LEMMA DeleteReposKeeps ==
  ASSUME ConfigInv, NEW q \in Requests, DeleteRepos(q)
  PROVE  ConfigInv'
<1>1. PICK r : r = [req[q] EXCEPT !.pc = "insert"]
  OBVIOUS
<1>2. /\ req[q].pc = "delete" /\ Projects(req[q]) /\ UNCHANGED <<card, row, policy, enforced, raced>>
      /\ repos' = {} /\ aligned' = FALSE /\ req' = [req EXCEPT ![q] = r]
  BY <1>1 DEF DeleteRepos, Step, Projects
<1>3. req[q] \in ConfigRequests /\ Sound(req[q], policy)
  BY DEF ConfigInv, ConfigTypes
<1>4. /\ r \in ConfigRequests /\ r.pc = "insert" /\ r.todo = req[q].todo /\ r.next = req[q].next
      /\ (r.alone <=> req[q].alone)
      /\ r.op = req[q].op /\ r.key = req[q].key /\ r.id = req[q].id /\ r.value = req[q].value
  BY <1>1, <1>3 DEF ConfigRequests, Places
<1>5. Sound(r, policy) /\ ~Approves(r)
  BY <1>3, <1>4 DEF Sound, Approves
<1>6. /\ ConfigTypes' /\ Owned' /\ ForceStands'
      /\ \A o \in Requests : req'[o] = IF o = q THEN r ELSE req[o]
  BY <1>2, <1>5, ProjectionSteps
<1>7. Projected'
  BY <1>2, <1>4, <1>6 DEF ConfigInv, Projected, Projects
<1>8. Aligned'
  BY <1>2 DEF Aligned
<1> QED  BY <1>6, <1>7, <1>8 DEF ConfigInv

LEMMA InsertRepoKeeps ==
  ASSUME ConfigInv, NEW q \in Requests, InsertRepo(q)
  PROVE  ConfigInv'
<1>1. req[q] \in ConfigRequests /\ Sound(req[q], policy)
  BY DEF ConfigInv, ConfigTypes
<1>2. PICK x \in req[q].todo : /\ repos' = repos \union {x}
                               /\ req' = [req EXCEPT ![q] = [req[q] EXCEPT !.todo = @ \ {x},
                                            !.pc = IF req[q].todo = {x} THEN "audit" ELSE "insert"]]
  BY DEF InsertRepo, Step
<1>3. PICK r : r = [req[q] EXCEPT !.todo = @ \ {x}, !.pc = IF req[q].todo = {x} THEN "audit" ELSE "insert"]
  OBVIOUS
<1>4. /\ req[q].pc = "insert" /\ Projects(req[q]) /\ UNCHANGED <<card, row, policy, aligned, enforced, raced>>
      /\ req' = [req EXCEPT ![q] = r] /\ x \in Repos /\ repos' \subseteq Repos /\ aligned \in BOOLEAN
  BY <1>1, <1>2, <1>3 DEF InsertRepo, Projects, ConfigRequests, ConfigInv, ConfigTypes
<1>5. /\ r \in ConfigRequests /\ r.todo = req[q].todo \ {x} /\ r.next = req[q].next
      /\ r.pc \in {"insert", "audit"} /\ (r.pc = "audit" => r.todo = {}) /\ (r.alone <=> req[q].alone)
      /\ r.op = req[q].op /\ r.key = req[q].key /\ r.id = req[q].id /\ r.value = req[q].value
  BY <1>1, <1>3 DEF ConfigRequests, Places
<1>6. Sound(r, policy) /\ ~Approves(r)
  BY <1>1, <1>5 DEF Sound, Approves
<1>7. /\ ConfigTypes' /\ Owned' /\ ForceStands'
      /\ \A o \in Requests : req'[o] = IF o = q THEN r ELSE req[o]
  BY <1>4, <1>6, ProjectionSteps
<1>8. repos' \union r.todo = repos \union req[q].todo /\ (r.pc = "audit" => repos' = repos \union req[q].todo)
  BY <1>2, <1>5
<1>9. Projected'
  <2>1. req[q].alone => /\ \A o \in Requests \ {q} : ~Projects(req[o])
                        /\ repos \union req[q].todo = req[q].next
    BY <1>4 DEF ConfigInv, Projected
  <2>2. \A o \in Requests \ {q} : Projects(req[o]) => ~req[o].alone
    BY <1>4 DEF ConfigInv, Projected
  <2>3. r.alone => /\ r.pc = "insert" => repos' \union r.todo = r.next
                   /\ r.pc = "audit" => repos' = r.next
                   /\ r.pc # "delete"
    BY <1>5, <1>8, <2>1
  <2> QED  BY <1>5, <1>7, <2>1, <2>2, <2>3 DEF Projected
<1>10. Aligned'
  BY <1>4 DEF ConfigInv, Aligned
<1> QED  BY <1>7, <1>9, <1>10 DEF ConfigInv

LEMMA AuditReposKeeps ==
  ASSUME ConfigInv, NEW q \in Requests, AuditRepos(q)
  PROVE  ConfigInv'
<1>1. /\ req[q].pc = "audit" /\ Projects(req[q]) /\ UNCHANGED <<card, row, repos, policy, enforced, raced>>
      /\ req' = [req EXCEPT ![q] = Resolved(q)]
      /\ aligned' = (req[q].alone /\ req[q].next = card.repos) /\ repos \subseteq Repos
  BY DEF AuditRepos, RowsKept, ConfigInv, ConfigTypes, Projects
<1>2. Plain(Resolved(q))
  BY ResolvedIs
<1>3. aligned' \in BOOLEAN
  BY <1>1
<1>4. /\ ConfigTypes' /\ Owned' /\ ForceStands'
      /\ \A o \in Requests : req'[o] = IF o = q THEN Resolved(q) ELSE req[o]
  BY <1>1, <1>2, <1>3, ProjectionSteps DEF Plain
<1>5. aligned' => req[q].alone /\ repos = card.repos
  BY <1>1 DEF ConfigInv, Projected
<1>6. Projected' /\ Aligned'
  BY <1>1, <1>4, <1>5, ProjectionEnds
<1> QED  BY <1>4, <1>6 DEF ConfigInv

-----------------------------------------------------------------------------
(* The writes. *)

LEMMA ReadsAndStatusKeep ==
  ASSUME ConfigInv, NEW q \in Requests, WriteStatus(q) \/ ProposalSees(q)
  PROVE  ConfigInv'
<1>1. Sound(req[q], policy) /\ req[q] \in ConfigRequests
  BY DEF ConfigInv, ConfigTypes
<1>2. CASE WriteStatus(q)
  <2>1. /\ req[q].pc = "write" /\ ~Approves(req[q]) /\ row' \in {"none", "active", "paused"}
        /\ UNCHANGED <<card, repos, policy, aligned, enforced, raced>>
        /\ req' = [req EXCEPT ![q] = NoRequest]
    BY <1>1, <1>2 DEF WriteStatus, End, Sound, Approves
  <2> QED  BY <2>1, IdleSound, ConfigSteps
<1>3. CASE ProposalSees(q)
  <2>1. PICK r : r = [req[q] EXCEPT !.pc = "commit", !.seen = Ids(req[q].key, "pending")]
    OBVIOUS
  <2>2. /\ req[q].pc = "write" /\ req[q].op = "propose" /\ ~Approves(req[q])
        /\ UNCHANGED <<card, row, repos, policy, aligned, enforced, raced>> /\ req' = [req EXCEPT ![q] = r]
    BY <1>3, <2>1 DEF ProposalSees, RowsKept, Step, Approves
  <2>3. PICK seen : seen = Ids(req[q].key, "pending")
    OBVIOUS
  <2>4. seen \in SUBSET Nat /\ \A i \in seen : i \in 1..Len(policy) /\ policy[i].key = req[q].key
    BY <2>3 DEF Ids, ConfigInv, ConfigTypes
  <2>5. /\ r \in ConfigRequests /\ r.pc = "commit" /\ r.seen = seen
        /\ r.op = req[q].op /\ r.key = req[q].key /\ r.id = req[q].id /\ r.value = req[q].value
    BY <1>1, <2>1, <2>3, <2>4 DEF ConfigRequests, Places
  <2>6. Sound(r, policy) /\ ~Approves(r) /\ ~Projects(r)
    BY <1>1, <2>2, <2>4, <2>5 DEF Sound, Approves, Projects
  <2>7. row' \in {"none", "active", "paused"}
    BY <2>2 DEF ConfigInv, ConfigTypes
  <2> QED  BY <2>2, <2>6, <2>7, ConfigSteps
<1> QED  BY <1>2, <1>3

\* The rows keep their types; none is removed and none changes its key.
RowsGrow ==
  /\ policy' \in Seq(PolicyRows) /\ \A i \in 1..Len(policy') : policy'[i].value \in Values[policy'[i].key]
  /\ Grown(policy, policy')

\* Only request q moves, and it becomes r.
Moves(q, r) == \A o \in Requests : req'[o] = IF o = q THEN r ELSE req[o]

\* A step of a request that is outside the projection, on the rows of the policies.
LEMMA PolicySteps ==
  ASSUME ConfigInv, NEW q \in Requests, NEW r, ~Projects(req[q]), Sound(r, policy'), ~Projects(r),
         req' = [req EXCEPT ![q] = r], UNCHANGED <<card, row, repos, aligned>>,
         RowsGrow, enforced' \subseteq Keys, raced' \subseteq Keys
  PROVE  ConfigTypes' /\ Projected' /\ Aligned' /\ Moves(q, r)
<1>1. \A o \in Requests : req'[o] = IF o = q THEN r ELSE req[o]
  BY DEF ConfigInv, ConfigTypes
<1>2. r \in ConfigRequests
  BY DEF Sound
<1>3. \A o \in Requests : Sound(req'[o], policy')
  <2>1. \A o \in Requests : Sound(req[o], policy)
    BY DEF ConfigInv, ConfigTypes
  <2> QED  BY <1>1, <2>1, StillSound DEF RowsGrow
<1>4. ConfigTypes'
  BY <1>1, <1>2, <1>3
     DEF ConfigInv, ConfigTypes, RowsGrow
<1>5. Projected' /\ Aligned'
  BY <1>1, ProjectionSide
<1> QED  BY <1>1, <1>4, <1>5 DEF Moves

\* One row changes its state or is claimed, and becomes new.
OnlyRow(i, new) ==
  /\ Len(policy') = Len(policy) /\ DOMAIN policy' = 1..Len(policy)
  /\ \A j \in 1..Len(policy) : policy'[j] = IF j = i THEN new ELSE policy[j]

LEMMA RowSet ==
  ASSUME ConfigTypes, NEW i \in 1..Len(policy), NEW new \in PolicyRows,
         new.key = policy[i].key, new.value = policy[i].value, policy' = [policy EXCEPT ![i] = new]
  PROVE  RowsGrow /\ OnlyRow(i, new)
<1>1. policy \in Seq(PolicyRows) /\ \A j \in 1..Len(policy) : policy[j].value \in Values[policy[j].key]
  BY DEF ConfigTypes
<1> QED  BY <1>1 DEF RowsGrow, Grown, OnlyRow

LEMMA RowUnset ==
  ASSUME ConfigTypes, policy' = policy
  PROVE  RowsGrow
BY DEF ConfigTypes, RowsGrow, Grown

\* The claims of the others stand if their rows do.
LEMMA OthersOwn ==
  ASSUME ConfigInv, NEW q \in Requests, NEW r, Moves(q, r), raced \subseteq raced',
         \A o \in Requests \ {q} : Approves(req[o]) =>
            /\ policy'[req[o].id].claimed
            /\ policy'[req[o].id].state = policy[req[o].id].state \/ req[o].key \in raced',
         Approves(r) => /\ policy'[r.id].claimed /\ (policy'[r.id].state = "pending" \/ r.key \in raced')
                        /\ \A o \in Requests \ {q} : Approves(req[o]) => req[o].id # r.id
  PROVE  Owned'
BY DEF ConfigInv, Owned, Moves

\* What is in force stays if its rows do and no approval leaves.
LEMMA StillInForce ==
  ASSUME ConfigInv, enforced' \subseteq enforced, raced \subseteq raced',
         \A o \in Requests : Approves(req[o]) => Approves(req'[o]) /\ req'[o].key = req[o].key,
         \A j \in DOMAIN policy : policy[j].state = "active" =>
            j \in DOMAIN policy' /\ policy'[j].state = "active" /\ policy'[j].key = policy[j].key
  PROVE  ForceStands'
<1>1. ASSUME NEW k \in enforced' \ raced', \A q \in Requests : ~(Approves(req'[q]) /\ req'[q].key = k)
      PROVE  \E i \in DOMAIN policy' : policy'[i].key = k /\ policy'[i].state = "active"
  <2>1. ~\E q \in Requests : Approves(req[q]) /\ req[q].key = k
    BY <1>1
  <2>2. \E i \in DOMAIN policy : policy[i].key = k /\ policy[i].state = "active"
    BY <1>1, <2>1, ForceMeans DEF ConfigInv
  <2> QED  BY <2>2
<1> QED  BY <1>1 DEF ForceStands, Approving, InForce, Ids, Approves

LEMMA WriteRejectKeeps ==
  ASSUME ConfigInv, NEW q \in Requests, WriteReject(q)
  PROVE  ConfigInv'
<1>1. PICK i : i = req[q].id
  OBVIOUS
<1>2. PICK r : r = NoRequest
  OBVIOUS
<1>3. /\ ~Projects(r) /\ ~Approves(r) /\ Sound(r, policy) /\ Sound(r, policy')
  BY <1>2, IdleSound
<1>4. /\ req[q].pc = "write" /\ req[q].op = "reject" /\ ~Projects(req[q]) /\ ~Approves(req[q])
      /\ UNCHANGED <<card, row, repos, aligned, enforced, raced>> /\ req' = [req EXCEPT ![q] = r]
      /\ enforced' \subseteq Keys /\ raced' \subseteq Keys
  BY <1>2 DEF WriteReject, End, Projects, Approves, ConfigInv, ConfigTypes
<1>5. i \in 1..Len(policy) /\ policy[i] \in PolicyRows
  BY <1>1, <1>4, RowIs DEF ConfigInv, ConfigTypes, Sound
<1>6. CASE Undecided(i)
  <2>1. PICK new : new = [policy[i] EXCEPT !.state = "rejected", !.claimed = TRUE]
    OBVIOUS
  <2>2. policy' = [policy EXCEPT ![i] = new]
    BY <1>1, <1>5, <1>6, <2>1 DEF WriteReject, ConfigInv, ConfigTypes
  <2>3. new \in PolicyRows /\ new.key = policy[i].key /\ new.value = policy[i].value /\ new.state = "rejected"
    BY <1>5, <2>1 DEF PolicyRows, States
  <2>4. RowsGrow /\ OnlyRow(i, new)
    BY <1>5, <2>2, <2>3, RowSet DEF ConfigInv
  <2>5. ConfigTypes' /\ Projected' /\ Aligned' /\ Moves(q, r)
    BY <1>3, <1>4, <2>4, PolicySteps
  <2>6. \A o \in Requests : Approves(req[o]) =>
           req[o].id # i /\ req[o].id \in 1..Len(policy) /\ policy[req[o].id].claimed
    BY <1>6 DEF ConfigInv, Owned, ConfigTypes, Sound, Approves, Undecided
  <2>7. \A o \in Requests \ {q} : Approves(req[o]) =>
            policy'[req[o].id].claimed /\ policy'[req[o].id].state = policy[req[o].id].state
    BY <2>4, <2>6 DEF OnlyRow
  <2>8. Owned'
    BY <1>3, <1>4, <2>5, <2>7, OthersOwn
  <2>9. \A j \in DOMAIN policy : policy[j].state = "active" =>
            j \in DOMAIN policy' /\ policy'[j].state = "active" /\ policy'[j].key = policy[j].key
    BY <1>6, <2>4 DEF ConfigInv, ConfigTypes, Undecided, OnlyRow
  <2>10. ForceStands'
    BY <1>4, <2>5, <2>9, StillInForce DEF Moves
  <2> QED  BY <2>5, <2>8, <2>10 DEF ConfigInv
<1>7. CASE ~Undecided(i)
  <2>1. policy' = policy
    BY <1>1, <1>7 DEF WriteReject
  <2>2. row' \in {"none", "active", "paused"}
    BY <1>4 DEF ConfigInv, ConfigTypes
  <2> QED  BY <1>3, <1>4, <2>1, <2>2, ConfigSteps
<1> QED  BY <1>6, <1>7

\* What an approval is, wherever it is.
LEMMA ApprovalIs ==
  ASSUME ConfigInv, NEW o \in Requests, Approves(req[o])
  PROVE  /\ req[o].id \in 1..Len(policy) /\ policy[req[o].id] \in PolicyRows
         /\ policy[req[o].id].key = req[o].key /\ req[o].key \in Keys /\ policy[req[o].id].claimed
         /\ policy[req[o].id].state = "pending" \/ req[o].key \in raced
<1>1. Sound(req[o], policy) /\ policy \in Seq(PolicyRows)
  BY DEF ConfigInv, ConfigTypes
<1>2. req[o].id \in 1..Len(policy) /\ policy[req[o].id].key = req[o].key /\ policy[req[o].id] \in PolicyRows
  BY <1>1 DEF Sound, Approves
<1> QED  BY <1>2 DEF ConfigInv, Owned, PolicyRows

\* Request s moves on along its approval and becomes r.
Onward(s, r, p) == Sound(r, p) /\ Approves(r) /\ ~Projects(r) /\ r.id = s.id /\ r.key = s.key

LEMMA ApprovalMoves ==
  ASSUME NEW s, NEW p, Sound(s, p), s.op = "approve", NEW pc \in {"supersede", "activate"}, NEW n \in Nat
  PROVE  Onward(s, [s EXCEPT !.pc = pc], p) /\ Onward(s, [s EXCEPT !.pc = pc, !.tries = n], p)
<1>1. PICK r : r = [s EXCEPT !.pc = pc, !.tries = n]
  OBVIOUS
<1>2. PICK t : t = [s EXCEPT !.pc = pc]
  OBVIOUS
<1>3. /\ r \in ConfigRequests /\ r.pc = pc /\ r.op = s.op /\ r.key = s.key
      /\ r.id = s.id /\ r.value = s.value
  BY <1>1 DEF Sound, ConfigRequests, Places
<1>4. /\ t \in ConfigRequests /\ t.pc = pc /\ t.op = s.op /\ t.key = s.key
      /\ t.id = s.id /\ t.value = s.value
  BY <1>2 DEF Sound, ConfigRequests, Places
<1>5. Onward(s, r, p)
  BY <1>3 DEF Onward, Sound, Approves, Projects
<1>6. Onward(s, t, p)
  BY <1>4 DEF Onward, Sound, Approves, Projects
<1> QED  BY <1>1, <1>2, <1>5, <1>6

LEMMA ClaimKeeps ==
  ASSUME ConfigInv, NEW q \in Requests, Claim(q)
  PROVE  ConfigInv'
<1>1. PICK i : i = req[q].id
  OBVIOUS
<1>2. /\ req[q].pc = "claim" /\ ~Projects(req[q]) /\ ~Approves(req[q])
      /\ UNCHANGED <<card, row, repos, aligned, enforced, raced>>
      /\ enforced' \subseteq Keys /\ raced' \subseteq Keys
  BY DEF Claim, Projects, Approves, ConfigInv, ConfigTypes
<1>3. Sound(req[q], policy) /\ req[q].op = "approve" /\ req[q] \in ConfigRequests
  BY <1>2 DEF ConfigInv, ConfigTypes, Sound
<1>4. i \in 1..Len(policy) /\ policy[i] \in PolicyRows
  BY <1>1, <1>3, RowIs DEF Sound, ConfigInv, ConfigTypes
<1>5. CASE Undecided(i)
  <2>1. PICK r : r = [req[q] EXCEPT !.pc = "supersede"]
    OBVIOUS
  <2>2. Onward(req[q], r, policy)
    BY <1>3, <2>1, ApprovalMoves
  <2>3. Sound(r, policy) /\ Approves(r) /\ ~Projects(r) /\ r.id = i /\ r.key = req[q].key
    BY <1>1, <2>2 DEF Onward
  <2>4. PICK new : new = [policy[i] EXCEPT !.claimed = TRUE]
    OBVIOUS
  <2>5. policy' = [policy EXCEPT ![i] = new] /\ req' = [req EXCEPT ![q] = r]
    BY <1>1, <1>4, <1>5, <2>1, <2>4 DEF Claim, Step, ConfigInv, ConfigTypes
  <2>6. /\ new \in PolicyRows /\ new.key = policy[i].key /\ new.value = policy[i].value
        /\ new.state = policy[i].state /\ new.claimed
    BY <1>4, <2>4 DEF PolicyRows
  <2>7. RowsGrow /\ OnlyRow(i, new)
    BY <1>4, <2>5, <2>6, RowSet DEF ConfigInv
  <2>8. Sound(r, policy')
    BY <2>3, <2>7, StillSound DEF RowsGrow
  <2>9. ConfigTypes' /\ Projected' /\ Aligned' /\ Moves(q, r)
    BY <1>2, <2>3, <2>5, <2>7, <2>8, PolicySteps
  <2>10. \A o \in Requests : Approves(req[o]) =>
           req[o].id # i /\ req[o].id \in 1..Len(policy) /\ policy[req[o].id].claimed
    BY <1>5, ApprovalIs DEF Undecided
  <2>11. policy[i].state = "pending"
    BY <1>5 DEF Undecided
  <2>12. Owned'
    <3>1. \A o \in Requests \ {q} : Approves(req[o]) =>
            policy'[req[o].id].claimed /\ policy'[req[o].id].state = policy[req[o].id].state
      BY <2>7, <2>10 DEF OnlyRow
    <3>2. policy'[r.id].claimed /\ policy'[r.id].state = "pending"
      BY <1>4, <2>3, <2>6, <2>7, <2>11 DEF OnlyRow
    <3>3. \A o \in Requests \ {q} : Approves(req[o]) => req[o].id # r.id
      BY <2>3, <2>10
    <3> QED  BY <1>2, <2>9, <3>1, <3>2, <3>3, OthersOwn
  <2>13. \A j \in DOMAIN policy : policy[j].state = "active" =>
            j \in DOMAIN policy' /\ policy'[j].state = "active" /\ policy'[j].key = policy[j].key
    BY <2>6, <2>7 DEF ConfigInv, ConfigTypes, OnlyRow
  <2>14. ForceStands'
    BY <1>2, <2>3, <2>9, <2>13, StillInForce DEF Moves
  <2> QED  BY <2>9, <2>12, <2>14 DEF ConfigInv
<1>6. CASE ~Undecided(i)
  <2>1. PICK r : r = NoRequest /\ ~Approves(r) /\ ~Projects(r) /\ Sound(r, policy)
    BY IdleSound
  <2>2. policy' = policy /\ req' = [req EXCEPT ![q] = r]
    BY <1>1, <1>6, <2>1 DEF Claim, End
  <2>3. row' \in {"none", "active", "paused"}
    BY <1>2 DEF ConfigInv, ConfigTypes
  <2> QED  BY <1>2, <2>1, <2>2, <2>3, ConfigSteps
<1> QED  BY <1>5, <1>6

\* The rows i in gone are superseded, the others as they were.
Superseded(p, gone, new) ==
  /\ new \in Seq(PolicyRows) /\ DOMAIN new = 1..Len(p) /\ Len(new) = Len(p)
  /\ \A i \in 1..Len(p) :
       /\ new[i] \in PolicyRows /\ new[i].key = p[i].key /\ new[i].value = p[i].value
       /\ (new[i].claimed <=> p[i].claimed)
       /\ new[i].state = IF i \in gone THEN "superseded" ELSE p[i].state

LEMMA SupersededIs ==
  ASSUME NEW p \in Seq(PolicyRows), NEW gone
  PROVE  Superseded(p, gone, [i \in DOMAIN p |-> IF i \in gone THEN [p[i] EXCEPT !.state = "superseded"] ELSE p[i]])
<1>1. PICK new : new = [i \in DOMAIN p |-> IF i \in gone THEN [p[i] EXCEPT !.state = "superseded"] ELSE p[i]]
  OBVIOUS
<1>2. DOMAIN p = 1..Len(p) /\ Len(p) \in Nat /\ DOMAIN new = 1..Len(p)
  BY <1>1
<1>3. ASSUME NEW i \in 1..Len(p)
      PROVE  /\ new[i] \in PolicyRows /\ new[i].key = p[i].key /\ new[i].value = p[i].value
             /\ (new[i].claimed <=> p[i].claimed)
             /\ new[i].state = IF i \in gone THEN "superseded" ELSE p[i].state
  <2>1. PICK a : a = p[i]
    OBVIOUS
  <2>2. a \in PolicyRows
    BY <2>1
  <2>3. PICK b : b = [a EXCEPT !.state = "superseded"]
    OBVIOUS
  <2>4. b \in PolicyRows /\ b.key = a.key /\ b.value = a.value /\ (b.claimed <=> a.claimed) /\ b.state = "superseded"
    BY <2>2, <2>3 DEF PolicyRows, States
  <2>5. new[i] = IF i \in gone THEN b ELSE a
    BY <1>1, <1>2, <2>1, <2>3
  <2> QED  BY <2>1, <2>2, <2>4, <2>5
<1>4. new \in Seq(PolicyRows) /\ Len(new) = Len(p)
  <2>1. new \in [1..Len(p) -> PolicyRows]
    BY <1>1, <1>2, <1>3
  <2> QED  BY <1>2, <2>1
<1>5. Superseded(p, gone, new)
  BY <1>2, <1>3, <1>4 DEF Superseded
<1> QED  BY <1>1, <1>5

LEMMA SupersedeActiveKeeps ==
  ASSUME ConfigInv, NEW q \in Requests, SupersedeActive(q)
  PROVE  ConfigInv'
<1>1. PICK id, key : id = req[q].id /\ key = req[q].key
  OBVIOUS
<1>2. /\ req[q].pc = "supersede" /\ ~Projects(req[q]) /\ Approves(req[q])
      /\ UNCHANGED <<card, row, repos, aligned, enforced, raced>>
      /\ enforced' \subseteq Keys /\ raced' \subseteq Keys
  BY DEF SupersedeActive, Projects, Approves, ConfigInv, ConfigTypes
<1>3. Sound(req[q], policy) /\ req[q].op = "approve" /\ req[q] \in ConfigRequests
  BY <1>2 DEF ConfigInv, ConfigTypes, Sound
<1>4. PICK r : r = [req[q] EXCEPT !.pc = "activate"]
  OBVIOUS
<1>5. Onward(req[q], r, policy)
  BY <1>3, <1>4, ApprovalMoves
<1>6. Sound(r, policy) /\ Approves(r) /\ ~Projects(r) /\ r.id = id /\ r.key = key
  BY <1>1, <1>5 DEF Onward
<1>7. PICK gone : gone = {i \in DOMAIN policy : policy[i].key = key /\ policy[i].state = "active"} \ {id}
  OBVIOUS
<1>8. /\ req' = [req EXCEPT ![q] = r]
      /\ policy' = [i \in DOMAIN policy |-> IF i \in gone THEN [policy[i] EXCEPT !.state = "superseded"]
                                                          ELSE policy[i]]
  BY <1>1, <1>4, <1>7 DEF SupersedeActive, Step, Ids
<1>9. policy \in Seq(PolicyRows) /\ \A i \in 1..Len(policy) : policy[i].value \in Values[policy[i].key]
  BY DEF ConfigInv, ConfigTypes
<1>10. Superseded(policy, gone, policy')
  BY <1>8, <1>9, SupersededIs
<1>11. DOMAIN policy' = 1..Len(policy) /\ Len(policy') = Len(policy) /\ policy' \in Seq(PolicyRows)
  BY <1>10 DEF Superseded
<1>12. RowsGrow
  BY <1>9, <1>10, <1>11 DEF RowsGrow, Grown, Superseded
<1>13. Sound(r, policy')
  BY <1>6, <1>12, StillSound DEF RowsGrow
<1>14. ConfigTypes' /\ Projected' /\ Aligned' /\ Moves(q, r)
  BY <1>2, <1>6, <1>8, <1>12, <1>13, PolicySteps
<1>15. \A o \in Requests : Approves(req[o]) =>
          /\ policy'[req[o].id].claimed
          /\ policy'[req[o].id].state = policy[req[o].id].state \/ req[o].key \in raced'
  <2>1. SUFFICES ASSUME NEW o \in Requests, Approves(req[o])
                 PROVE  /\ policy'[req[o].id].claimed
                        /\ policy'[req[o].id].state = policy[req[o].id].state \/ req[o].key \in raced'
    OBVIOUS
  <2>2. /\ req[o].id \in 1..Len(policy) /\ policy[req[o].id].claimed
        /\ policy[req[o].id].state = "pending" \/ req[o].key \in raced
    BY <2>1, ApprovalIs
  <2> QED  BY <1>2, <1>7, <1>10, <2>2 DEF Superseded
<1>16. Owned'
  <2>1. policy'[r.id].state = "pending" \/ r.key \in raced'
    BY <1>1, <1>2, <1>6, <1>15, ApprovalIs
  <2>2. \A o \in Requests \ {q} : Approves(req[o]) => req[o].id # r.id
    BY <1>1, <1>2, <1>6 DEF ConfigInv, Owned
  <2>3. policy'[r.id].claimed
    BY <1>1, <1>2, <1>6, <1>15
  <2> QED  BY <1>2, <1>14, <1>15, <2>1, <2>2, <2>3, OthersOwn
<1>17. ForceStands'
  <2>1. ASSUME NEW k \in enforced' \ raced', \A o \in Requests : ~(Approves(req'[o]) /\ req'[o].key = k)
        PROVE  \E i \in DOMAIN policy' : policy'[i].key = k /\ policy'[i].state = "active"
    <3>1. k # key /\ ~\E o \in Requests : Approves(req[o]) /\ req[o].key = k
      BY <1>1, <1>6, <1>14, <2>1 DEF Moves
    <3>2. PICK i \in DOMAIN policy : policy[i].key = k /\ policy[i].state = "active"
      BY <1>2, <2>1, <3>1, ForceMeans DEF ConfigInv
    <3>3. i \in 1..Len(policy) /\ i \notin gone
      BY <1>7, <1>9, <3>1, <3>2
    <3> QED  BY <1>10, <1>11, <3>2, <3>3 DEF Superseded
  <2> QED  BY <2>1 DEF ForceStands, Approving, InForce, Ids, Approves
<1> QED  BY <1>14, <1>16, <1>17 DEF ConfigInv

\* A refused activation, and one that the index refused: no row changes.
LEMMA NoRowKeeps ==
  ASSUME ConfigInv, NEW q \in Requests, NEW r, req' = [req EXCEPT ![q] = r], Approves(req[q]), Sound(r, policy),
         ~Projects(r), UNCHANGED <<card, row, repos, policy, aligned, enforced, raced>>,
         \/ Approves(r) /\ r.id = req[q].id /\ r.key = req[q].key
         \/ ~Approves(r) /\ (req[q].key \in raced \/ InForce(req[q].key))
  PROVE  ConfigInv'
<1>1. ~Projects(req[q]) /\ enforced' \subseteq Keys /\ raced' \subseteq Keys /\ policy' = policy /\ raced \subseteq raced'
  BY DEF Projects, Approves, ConfigInv, ConfigTypes
<1>2. RowsGrow
  BY RowUnset DEF ConfigInv
<1>3. ConfigTypes' /\ Projected' /\ Aligned' /\ Moves(q, r)
  <2>1. Sound(r, policy')
    OBVIOUS
  <2> QED  BY <1>1, <1>2, <2>1, PolicySteps
<1>4. Owned'
  BY <1>1, <1>3 DEF ConfigInv, Owned, Moves
<1>5. ForceStands'
  <2>1. ASSUME NEW k \in enforced' \ raced', \A o \in Requests : ~(Approves(req'[o]) /\ req'[o].key = k)
        PROVE  \E i \in DOMAIN policy : policy[i].key = k /\ policy[i].state = "active"
    <3>1. CASE k = req[q].key
      <4>1. InForce(k)
        BY <1>3, <2>1, <3>1 DEF Moves
      <4> QED  BY <4>1 DEF InForce, Ids
    <3>2. CASE k # req[q].key
      <4>1. ~\E o \in Requests : Approves(req[o]) /\ req[o].key = k
        BY <1>3, <2>1, <3>2 DEF Moves
      <4> QED  BY <2>1, <4>1, ForceMeans DEF ConfigInv
    <3> QED  BY <3>1, <3>2
  <2> QED  BY <1>1, <2>1 DEF ForceStands, Approving, InForce, Ids, Approves
<1> QED  BY <1>3, <1>4, <1>5 DEF ConfigInv

\* The row becomes active.
LEMMA RowActiveKeeps ==
  ASSUME ConfigInv, NEW q \in Requests, Approves(req[q]), NEW i, i = req[q].id, NEW r, r = NoRequest,
         policy[i].state = "pending", policy' = [policy EXCEPT ![i].state = "active"],
         enforced' = enforced \union {req[q].key}, req' = [req EXCEPT ![q] = r],
         UNCHANGED <<card, row, repos, aligned, raced>>
  PROVE  ConfigInv'
<1>1. /\ i \in 1..Len(policy) /\ policy[i] \in PolicyRows /\ policy[i].key = req[q].key /\ req[q].key \in Keys
      /\ policy[i].claimed
  BY ApprovalIs
<1>2. ~Approves(r) /\ ~Projects(r) /\ Sound(r, policy')
  BY IdleSound
<1>3. PICK new : new = [policy[i] EXCEPT !.state = "active"]
  OBVIOUS
<1>4. policy' = [policy EXCEPT ![i] = new]
  BY <1>1, <1>3 DEF ConfigInv, ConfigTypes
<1>5. /\ new \in PolicyRows /\ new.key = policy[i].key /\ new.value = policy[i].value /\ new.state = "active"
  BY <1>1, <1>3 DEF PolicyRows, States
<1>6. RowsGrow /\ OnlyRow(i, new)
  BY <1>1, <1>4, <1>5, RowSet DEF ConfigInv
<1>7. ~Projects(req[q]) /\ enforced' \subseteq Keys /\ raced' \subseteq Keys /\ raced \subseteq raced'
  BY <1>1 DEF Projects, Approves, ConfigInv, ConfigTypes
<1>8. ConfigTypes' /\ Projected' /\ Aligned' /\ Moves(q, r)
  BY <1>2, <1>6, <1>7, PolicySteps
<1>9. Owned'
  <2>1. \A o \in Requests \ {q} : Approves(req[o]) =>
          policy'[req[o].id].claimed /\ policy'[req[o].id].state = policy[req[o].id].state
    <3>1. SUFFICES ASSUME NEW o \in Requests \ {q}, Approves(req[o])
                   PROVE  policy'[req[o].id].claimed /\ policy'[req[o].id].state = policy[req[o].id].state
      OBVIOUS
    <3>2. req[o].id \in 1..Len(policy) /\ policy[req[o].id].claimed
      BY <3>1, ApprovalIs
    <3>3. req[o].id # i
      BY <3>1 DEF ConfigInv, Owned
    <3> QED  BY <1>6, <3>2, <3>3 DEF OnlyRow
  <2> QED  BY <1>2, <1>7, <1>8, <2>1, OthersOwn
<1>10. ForceStands'
  <2>1. ASSUME NEW k \in enforced' \ raced', \A o \in Requests : ~(Approves(req'[o]) /\ req'[o].key = k)
        PROVE  \E j \in DOMAIN policy' : policy'[j].key = k /\ policy'[j].state = "active"
    <3>1. CASE k = req[q].key
      BY <1>1, <1>5, <1>6, <3>1 DEF OnlyRow
    <3>2. CASE k # req[q].key
      <4>1. ~\E o \in Requests : Approves(req[o]) /\ req[o].key = k
        BY <1>8, <2>1, <3>2 DEF Moves
      <4>2. k \in enforced \ raced
        BY <1>7, <2>1, <3>2
      <4>3. PICK j \in DOMAIN policy : policy[j].key = k /\ policy[j].state = "active"
        BY <4>1, <4>2, ForceMeans DEF ConfigInv
      <4>4. j \in 1..Len(policy) /\ j # i
        BY <4>3 DEF ConfigInv, ConfigTypes
      <4> QED  BY <1>6, <4>3, <4>4 DEF OnlyRow
    <3> QED  BY <3>1, <3>2
  <2> QED  BY <2>1 DEF ForceStands, Approving, InForce, Ids, Approves
<1> QED  BY <1>8, <1>9, <1>10 DEF ConfigInv

LEMMA ActivateKeeps ==
  ASSUME ConfigInv, NEW q \in Requests, Activate(q)
  PROVE  ConfigInv'
<1>1. /\ req[q].pc = "activate" /\ Approves(req[q]) /\ UNCHANGED <<card, row, repos, aligned, raced>>
  BY DEF Activate, Approves
<1>2. Sound(req[q], policy) /\ req[q].op = "approve" /\ req[q] \in ConfigRequests
  BY <1>1 DEF ConfigInv, ConfigTypes, Sound
<1>3. PICK r : r = NoRequest /\ ~Approves(r) /\ ~Projects(r) /\ Sound(r, policy)
  BY IdleSound
<1>4. CASE policy[req[q].id].state # "pending"
  <2>1. UNCHANGED <<policy, enforced>> /\ req' = [req EXCEPT ![q] = r]
    BY <1>3, <1>4 DEF Activate, End
  <2>2. req[q].key \in raced
    BY <1>1, <1>4, ApprovalIs
  <2> QED  BY <1>1, <1>3, <2>1, <2>2, NoRowKeeps
<1>5. CASE policy[req[q].id].state = "pending" /\ ~InForce(req[q].key)
  <2>1. /\ policy' = [policy EXCEPT ![req[q].id].state = "active"] /\ req' = [req EXCEPT ![q] = r]
        /\ enforced' = enforced \union {req[q].key}
    BY <1>3, <1>5 DEF Activate, End
  <2> QED  BY <1>1, <1>3, <1>5, <2>1, RowActiveKeeps
<1>6. CASE policy[req[q].id].state = "pending" /\ InForce(req[q].key)
  <2>1. UNCHANGED <<policy, enforced>>
    BY <1>6 DEF Activate
  <2>2. CASE req[q].tries + 1 < MaxPolicyActivateAttempts
    <3>1. PICK n \in Nat : n = req[q].tries + 1
      BY <1>2 DEF ConfigRequests
    <3>2. PICK s : s = [req[q] EXCEPT !.pc = "supersede", !.tries = n]
      OBVIOUS
    <3>3. Onward(req[q], s, policy)
      BY <1>2, <3>2, ApprovalMoves
    <3>4. req' = [req EXCEPT ![q] = s]
      BY <1>6, <2>2, <3>1, <3>2 DEF Activate, Step
    <3> QED  BY <1>1, <2>1, <3>3, <3>4, NoRowKeeps DEF Onward
  <2>3. CASE ~(req[q].tries + 1 < MaxPolicyActivateAttempts)
    <3>1. req' = [req EXCEPT ![q] = r]
      BY <1>3, <1>6, <2>3 DEF Activate, End
    <3> QED  BY <1>1, <1>3, <1>6, <2>1, <3>1, NoRowKeeps
  <2> QED  BY <2>2, <2>3
<1> QED  BY <1>4, <1>5, <1>6

LEMMA ProposalCommitsKeeps ==
  ASSUME ConfigInv, NEW q \in Requests, ProposalCommits(q)
  PROVE  ConfigInv'
<1>1. PICK s, gone, r, new : /\ s = req[q] /\ gone = {i \in s.seen : policy[i].state = "pending"} /\ r = NoRequest
                             /\ new = [key |-> s.key, value |-> s.value, state |-> "pending", claimed |-> FALSE]
  OBVIOUS
<1>2. PICK old : old = [i \in DOMAIN policy |->
                          IF i \in gone THEN [policy[i] EXCEPT !.state = "superseded"] ELSE policy[i]]
  OBVIOUS
<1>3. /\ s.pc = "commit" /\ policy' = Append(old, new) /\ req' = [req EXCEPT ![q] = r]
      /\ UNCHANGED <<card, row, repos, aligned, enforced>>
      /\ raced' = IF \E i \in gone : policy[i].claimed THEN raced \union {s.key} ELSE raced
  BY <1>1, <1>2 DEF ProposalCommits, End
<1>4. policy \in Seq(PolicyRows) /\ \A i \in 1..Len(policy) : policy[i].value \in Values[policy[i].key]
  BY DEF ConfigInv, ConfigTypes
<1>5. /\ s.key \in Keys /\ s.value \in Values[s.key]
      /\ \A i \in s.seen : i \in 1..Len(policy) /\ policy[i].key = s.key
  BY <1>1, <1>3 DEF ConfigInv, ConfigTypes, Sound
<1>6. new \in PolicyRows
  <2>1. s.value \in AllValues
    BY <1>5 DEF AllValues
  <2> QED  BY <1>1, <1>5, <2>1 DEF PolicyRows, States
<1>7. Superseded(policy, gone, old)
  BY <1>2, <1>4, SupersededIs
<1>8. /\ policy' \in Seq(PolicyRows) /\ Len(policy') = Len(policy) + 1
      /\ \A i \in 1..Len(policy) : policy'[i] = old[i]
      /\ policy'[Len(policy) + 1] = new
  BY <1>3, <1>4, <1>6, <1>7 DEF Superseded
<1>9. RowsGrow
  <2>1. \A i \in 1..Len(policy') : i \in 1..Len(policy) \/ i = Len(policy) + 1
    BY <1>4, <1>8
  <2>2. \A i \in 1..Len(policy) : policy'[i].key = policy[i].key /\ policy'[i].value = policy[i].value
    BY <1>7, <1>8 DEF Superseded
  <2>3. \A i \in 1..Len(policy') : policy'[i].value \in Values[policy'[i].key]
    BY <1>1, <1>4, <1>5, <1>8, <2>1, <2>2
  <2> QED  BY <1>4, <1>8, <2>2, <2>3 DEF RowsGrow, Grown
<1>10. ~Approves(r) /\ ~Projects(r) /\ Sound(r, policy')
  BY <1>1, IdleSound
<1>11. /\ ~Projects(req[q]) /\ ~Approves(req[q]) /\ enforced' \subseteq Keys /\ raced' \subseteq Keys
       /\ raced \subseteq raced'
  BY <1>1, <1>3, <1>5 DEF Projects, Approves, ConfigInv, ConfigTypes
<1>12. ConfigTypes' /\ Projected' /\ Aligned' /\ Moves(q, r)
  BY <1>3, <1>9, <1>10, <1>11, PolicySteps
<1>13. Owned'
  <2>1. ASSUME NEW o \in Requests, Approves(req[o])
        PROVE  /\ policy'[req[o].id].claimed
               /\ policy'[req[o].id].state = policy[req[o].id].state \/ req[o].key \in raced'
    <3>1. /\ req[o].id \in 1..Len(policy) /\ policy[req[o].id].claimed /\ policy[req[o].id].key = req[o].key
      BY <2>1, ApprovalIs
    <3>2. policy'[req[o].id].claimed
      BY <1>7, <1>8, <3>1 DEF Superseded
    <3>3. CASE req[o].id \in gone
      BY <1>1, <1>3, <1>5, <3>1, <3>2, <3>3
    <3>4. CASE req[o].id \notin gone
      BY <1>7, <1>8, <3>1, <3>2, <3>4 DEF Superseded
    <3> QED  BY <3>3, <3>4
  <2> QED  BY <1>10, <1>11, <1>12, <2>1, OthersOwn
<1>14. \A j \in DOMAIN policy : policy[j].state = "active" =>
          j \in DOMAIN policy' /\ policy'[j].state = "active" /\ policy'[j].key = policy[j].key
  BY <1>1, <1>4, <1>7, <1>8 DEF Superseded
<1>15. ForceStands'
  <2>1. \A o \in Requests : Approves(req[o]) => Approves(req'[o]) /\ req'[o].key = req[o].key
    BY <1>11, <1>12 DEF Moves
  <2> QED  BY <1>3, <1>11, <1>14, <2>1, StillInForce
<1> QED  BY <1>12, <1>13, <1>15 DEF ConfigInv

-----------------------------------------------------------------------------
(* The surroundings. *)

LEMMA EditCardKeeps ==
  ASSUME ConfigInv, EditCard
  PROVE  ConfigInv'
<1>1. card' \in Cards /\ aligned' = FALSE /\ UNCHANGED <<req, row, repos, policy, enforced, raced>>
  BY DEF EditCard, RowsKept
<1>2. ConfigTypes'
  BY <1>1 DEF ConfigInv, ConfigTypes
<1>3. Owned' /\ ForceStands'
  BY <1>1, PolicySide
<1>4. Projected' /\ Aligned'
  BY <1>1 DEF ConfigInv, Projected, Aligned
<1> QED  BY <1>2, <1>3, <1>4 DEF ConfigInv

LEMMA StatementFailsKeeps ==
  ASSUME ConfigInv, NEW q \in Requests, StatementFails(q)
  PROVE  ConfigInv'
<1>1. PICK r : r = NoRequest /\ ~Approves(r) /\ ~Projects(r) /\ Sound(r, policy)
  BY IdleSound
<1>2. /\ req' = [o \in Requests |-> IF o = q THEN r ELSE [req[o] EXCEPT !.alone = FALSE]]
      /\ aligned' = (aligned /\ ~Projecting(q))
      /\ raced' = raced \union HalfApproved({q})
      /\ UNCHANGED <<card, row, repos, policy, enforced>>
  BY <1>1 DEF StatementFails, RowsKept
<1>3. \A o \in Requests : Sound(req[o], policy) /\ req[o] \in ConfigRequests
  BY DEF ConfigInv, ConfigTypes
<1>4. \A o \in Requests \ {q} : AloneNoMore(req[o], req'[o])
  BY <1>2, <1>3, AloneEnds
<1>5. req'[q] = r /\ r \in ConfigRequests
  BY <1>1, <1>2 DEF Sound
<1>6. \A o \in Requests : req'[o] \in ConfigRequests /\ Sound(req'[o], policy)
  BY <1>1, <1>4, <1>5 DEF AloneNoMore
<1>7. req' \in [Requests -> ConfigRequests]
  <2>1. DOMAIN req' = Requests /\ req' = [o \in Requests |-> req'[o]]
    BY <1>2
  <2> QED  BY <1>6, <2>1
<1>8. Approves(req[q]) => HalfApproved({q}) = {req[q].key}
  BY DEF HalfApproved, Approves
<1>9. ~Approves(req[q]) => HalfApproved({q}) = {}
  BY DEF HalfApproved, Approves
<1>10. raced' \subseteq Keys /\ raced \subseteq raced' /\ (Approves(req[q]) => req[q].key \in raced')
  BY <1>2, <1>8, <1>9, ApprovalIs DEF ConfigInv, ConfigTypes
<1>11. aligned' \in BOOLEAN /\ (aligned' => aligned)
  BY <1>2 DEF ConfigInv, ConfigTypes
<1>12. ConfigTypes'
  BY <1>2, <1>6, <1>7, <1>10, <1>11
     DEF ConfigInv, ConfigTypes
<1>13. Owned' /\ ForceStands'
  <2>1. \A o \in Requests : Approves(req'[o]) =>
          Approves(req[o]) /\ req'[o].id = req[o].id /\ req'[o].key = req[o].key
    BY <1>1, <1>4, <1>5 DEF AloneNoMore, Approves
  <2>2. \A o \in Requests : Approves(req[o]) =>
          (Approves(req'[o]) /\ req'[o].key = req[o].key) \/ req[o].key \in raced'
    BY <1>4, <1>10 DEF AloneNoMore, Approves
  <2> QED  BY <1>2, <1>10, <2>1, <2>2, PolicySide
<1>14. Projected' /\ Aligned'
  <2>1. \A o \in Requests : Projects(req'[o]) => Projects(req[o]) /\ req'[o].pc = req[o].pc
    BY <1>1, <1>4, <1>5 DEF AloneNoMore, Projects
  <2>2. \A o \in Requests : Projects(req'[o]) /\ req'[o].alone => req'[o] = req[o]
    BY <1>1, <1>4, <1>5 DEF AloneNoMore
  <2> QED  BY <1>2, <1>11, <2>1, <2>2, ProjectionSide
<1> QED  BY <1>12, <1>13, <1>14 DEF ConfigInv

LEMMA DaemonDiesKeeps ==
  ASSUME ConfigInv, DaemonDies
  PROVE  ConfigInv'
<1>1. PICK r : r = NoRequest /\ ~Approves(r) /\ ~Projects(r) /\ Sound(r, policy)
  BY IdleSound
<1>2. /\ req' = [q \in Requests |-> r]
      /\ aligned' = (aligned /\ \A q \in Requests : ~Projecting(q))
      /\ raced' = raced \union HalfApproved(Requests)
      /\ UNCHANGED <<card, row, repos, policy, enforced>>
  BY <1>1 DEF DaemonDies, RowsKept
<1>3. \A q \in Requests : req'[q] = r /\ r \in ConfigRequests
  BY <1>1, <1>2 DEF Sound
<1>4. aligned' \in BOOLEAN /\ (aligned' => aligned)
  BY <1>2 DEF ConfigInv, ConfigTypes
<1>5. HalfApproved(Requests) = {req[q].key : q \in {x \in Requests : Approves(req[x])}}
  BY DEF HalfApproved, Approves
<1>6. /\ \A q \in Requests : Approves(req[q]) => req[q].key \in raced'
      /\ raced' \subseteq Keys /\ raced \subseteq raced'
  <2>1. \A q \in Requests : Approves(req[q]) => req[q].key \in Keys
    BY ApprovalIs
  <2>2. raced \subseteq Keys
    BY DEF ConfigInv, ConfigTypes
  <2> QED  BY <1>2, <1>5, <2>1, <2>2
<1>7. ConfigTypes'
  BY <1>1, <1>2, <1>3, <1>4, <1>6
     DEF ConfigInv, ConfigTypes
<1>8. Owned' /\ ForceStands'
  BY <1>1, <1>2, <1>3, <1>6, PolicySide
<1>9. Projected' /\ Aligned'
  BY <1>1, <1>2, <1>3, <1>4, ProjectionSide
<1> QED  BY <1>7, <1>8, <1>9 DEF ConfigInv

-----------------------------------------------------------------------------
(* The invariant and what follows from it. *)

LEMMA ConfigStarts ==
  ASSUME ConfigInit
  PROVE  ConfigInv
<1>1. PICK r : r = NoRequest /\ ~Approves(r) /\ ~Projects(r) /\ \A p : Sound(r, p)
  BY IdleSound
<1>2. /\ req = [q \in Requests |-> r] /\ card \in Cards /\ raced = {}
      /\ enforced = {k \in Keys : InForce(k)} /\ aligned \in BOOLEAN
      /\ row \in {"none", "active", "paused"} /\ (aligned => repos = card.repos) /\ repos \subseteq card.repos
  BY <1>1 DEF ConfigInit
<1>3. policy \in Seq(PolicyRows) /\ \A i \in 1..Len(policy) : policy[i].value \in Values[policy[i].key]
  <2>1. CASE policy = << >>
    BY <2>1
  <2>2. CASE policy # << >>
    <3>1. PICK k \in Keys : \E v \in Values[k] :
            policy = <<[key |-> k, value |-> v, state |-> "active", claimed |-> TRUE]>>
      BY <2>2 DEF ConfigInit
    <3>2. PICK v \in Values[k] : policy = <<[key |-> k, value |-> v, state |-> "active", claimed |-> TRUE]>>
      BY <3>1
    <3>3. PICK new : new = [key |-> k, value |-> v, state |-> "active", claimed |-> TRUE]
      OBVIOUS
    <3>4. v \in AllValues
      BY DEF AllValues
    <3>5. new \in PolicyRows /\ new.key = k /\ new.value = v
      BY <3>3, <3>4 DEF PolicyRows, States
    <3>6. policy = <<new>>
      BY <3>2, <3>3
    <3> QED  BY <3>5, <3>6
  <2> QED  BY <2>1, <2>2
<1>4. \A q \in Requests : req[q] = r /\ r \in ConfigRequests
  BY <1>1, <1>2 DEF Sound
<1>5. repos \subseteq Repos
  BY <1>2, ConfigAssumption DEF CardShapes
<1>6. ConfigTypes
  BY <1>1, <1>2, <1>3, <1>4, <1>5 DEF ConfigTypes
<1>7. Owned /\ Projected
  BY <1>1, <1>4 DEF Owned, Projected
<1>8. ForceStands
  BY <1>2 DEF ForceStands
<1>9. Aligned
  BY <1>1, <1>2, <1>4 DEF Aligned, Projects
<1> QED  BY <1>6, <1>7, <1>8, <1>9 DEF ConfigInv

LEMMA ConfigNextKeeps ==
  ASSUME ConfigInv, [ConfigNext]_configVars
  PROVE  ConfigInv'
<1>1. CASE EditCard
  BY <1>1, EditCardKeeps
<1>2. CASE DaemonDies
  BY <1>2, DaemonDiesKeeps
<1>3. CASE Done \/ UNCHANGED configVars
  <2>1. UNCHANGED <<card, row, repos, policy, req, aligned, enforced, raced>>
    BY <1>3 DEF Done, configVars
  <2>2. Owned' /\ ForceStands'
    BY <2>1, PolicySide
  <2>3. ConfigTypes' /\ Projected' /\ Aligned'
    BY <2>1 DEF ConfigInv, ConfigTypes, Projected, Aligned
  <2> QED  BY <2>2, <2>3 DEF ConfigInv
<1>4. ASSUME NEW q \in Requests,
             \/ View(q) \/ Create(q) \/ Propose(q) \/ SaveStatus(q)
             \/ Approve(q) \/ Reject(q) \/ Progress(q) \/ StatementFails(q)
      PROVE  ConfigInv'
  <2>1. CASE Progress(q)
    <3>1. CASE Lookup(q) \/ Ensure(q)
      BY <3>1, LookupKeeps, EnsureKeeps
    <3>2. CASE ListRepos(q) \/ DeleteRepos(q) \/ InsertRepo(q) \/ AuditRepos(q)
      BY <3>2, ListReposKeeps, DeleteReposKeeps, InsertRepoKeeps, AuditReposKeeps
    <3>3. CASE WriteStatus(q) \/ ProposalSees(q) \/ ProposalCommits(q) \/ WriteReject(q)
      BY <3>3, ReadsAndStatusKeep, ProposalCommitsKeeps, WriteRejectKeeps
    <3>4. CASE Claim(q) \/ SupersedeActive(q) \/ Activate(q)
      BY <3>4, ClaimKeeps, SupersedeActiveKeeps, ActivateKeeps
    <3> QED  BY <2>1, <3>1, <3>2, <3>3, <3>4 DEF Progress
  <2> QED  BY <1>4, <2>1, BeginsKeep, StatementFailsKeeps
<1> QED  BY <1>1, <1>2, <1>3, <1>4 DEF ConfigNext

LEMMA ConfigInvariance == ConfigSpec => []ConfigInv
<1>1. ConfigInit => ConfigInv
  BY ConfigStarts
<1>2. ConfigInv /\ [ConfigNext]_configVars => ConfigInv'
  BY ConfigNextKeeps
<1> QED  BY <1>1, <1>2, PTL DEF ConfigSpec

\* ConfigTypeOK: the types of ProjectConfig, and of what its requests carry.
THEOREM ConfigTypeCorrect == ConfigSpec => []ConfigTypeOK
<1>1. ConfigInv => ConfigTypeOK
  <2>1. SUFFICES ASSUME ConfigInv
                 PROVE  ConfigTypeOK
    OBVIOUS
  <2>2. \A i \in DOMAIN policy : /\ ValidPolicyValue(policy[i].key, policy[i].value)
                                /\ policy[i].state \in States /\ policy[i].claimed \in BOOLEAN
    BY <2>1, RowIs DEF ConfigInv, PolicyRows, ValidPolicyValue
  <2> QED  BY <2>1, <2>2 DEF ConfigInv, ConfigTypes, ConfigRequests, ConfigTypeOK
<1> QED  BY <1>1, ConfigInvariance, PTL

\* The configuration in force stands until another is activated: of a key that ever had
\* a policy in force one is in force, unless an approval of it is under way or was
\* overtaken, failed or died half way (approveProjectPolicy, insertPendingPolicy).
THEOREM ConfigStands == ConfigSpec => []ForceStands
<1>1. ConfigInv => ForceStands
  BY DEF ConfigInv
<1> QED  BY <1>1, ConfigInvariance, PTL

\* The card always wins: after a sync that met no other sync and no failure the
\* projection is the card's list, until the card is edited (replaceProjectRepos).
THEOREM CardWins == ConfigSpec => []ProjectionMirrorsCard
<1>1. ConfigInv => ProjectionMirrorsCard
  BY DEF ConfigInv, Aligned, ProjectionMirrorsCard
<1> QED  BY <1>1, ConfigInvariance, PTL

Retracted(i) == policy[i].state \in {"superseded", "rejected"}

LEMMA RetractedStep ==
  ASSUME ConfigInv, [ConfigNext]_configVars, NEW i \in DOMAIN policy, Retracted(i)
  PROVE  policy'[i].state = policy[i].state
<1>1. policy \in Seq(PolicyRows) /\ i \in 1..Len(policy) /\ policy[i].state # "pending" /\ policy[i].state # "active"
  BY DEF ConfigInv, ConfigTypes, Retracted
<1>2. CASE policy' = policy
  BY <1>2
<1>3. ASSUME NEW q \in Requests, WriteReject(q), policy' # policy
      PROVE  policy'[i] = policy[i]
  <2>1. policy[req[q].id].state = "pending"
    BY <1>3 DEF WriteReject, Undecided
  <2>2. \E f : policy' = [policy EXCEPT ![req[q].id] = f]
    BY <1>3 DEF WriteReject
  <2> QED  BY <1>1, <2>1, <2>2
<1>4. ASSUME NEW q \in Requests, Claim(q), policy' # policy
      PROVE  policy'[i] = policy[i]
  BY <1>1, <1>4 DEF Claim, Undecided
<1>5. ASSUME NEW q \in Requests, SupersedeActive(q)
      PROVE  policy'[i] = policy[i]
  BY <1>1, <1>5 DEF SupersedeActive, Ids
<1>6. ASSUME NEW q \in Requests, Activate(q), policy' # policy
      PROVE  policy'[i] = policy[i]
  BY <1>1, <1>6 DEF Activate
<1>7. ASSUME NEW q \in Requests, ProposalCommits(q)
      PROVE  policy'[i].state = policy[i].state
  <2>1. PICK gone, old, new : /\ gone = {j \in req[q].seen : policy[j].state = "pending"}
                              /\ old = [j \in DOMAIN policy |-> IF j \in gone
                                          THEN [policy[j] EXCEPT !.state = "superseded"] ELSE policy[j]]
                              /\ policy' = Append(old, new)
    BY <1>7 DEF ProposalCommits
  <2>2. Superseded(policy, gone, old)
    BY <1>1, <2>1, SupersededIs
  <2>3. policy'[i] = old[i]
    BY <1>1, <2>1, <2>2 DEF Superseded
  <2> QED  BY <1>1, <2>1, <2>2, <2>3 DEF Superseded
<1>8. CASE UNCHANGED configVars
  BY <1>2, <1>8 DEF configVars
<1>9. CASE ConfigNext
  <2>1. \/ policy' = policy
        \/ \E q \in Requests : \/ WriteReject(q) \/ Claim(q) \/ SupersedeActive(q)
                               \/ Activate(q) \/ ProposalCommits(q)
    BY <1>9 DEF ConfigNext, Progress, View, Create, Propose, SaveStatus,
       Approve, Reject, Begin, RowsKept, Lookup, Ensure,
       ListRepos, DeleteRepos, InsertRepo, AuditRepos, WriteStatus,
       ProposalSees, StatementFails, EditCard, DaemonDies, Done, configVars
  <2> QED  BY <1>2, <1>3, <1>4, <1>5, <1>6, <1>7, <2>1
<1> QED  BY <1>8, <1>9

\* A retracted or decided revision is never approvable again: a row that was superseded
\* or rejected stays so (approveProjectPolicy, rejectProjectPolicy).
THEOREM RetractedIsFinal == ConfigSpec => RetractedStays
<1>1. ConfigInv /\ [ConfigNext]_configVars =>
        [\A i \in DOMAIN policy :
           policy[i].state \in {"superseded", "rejected"} => policy'[i].state = policy[i].state]_configVars
  BY RetractedStep DEF Retracted
<1> QED  BY <1>1, ConfigInvariance, PTL DEF ConfigSpec, RetractedStays
=============================================================================
