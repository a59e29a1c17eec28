------------------------- MODULE PipelineRun_proofs -------------------------
(***************************************************************************)
(* Theorems about one run of the pipeline: types, the merge invariants,    *)
(* the bound on what starts after a stop and the truth of what is reported,*)
(* for any limits on rounds, repairs and merge attempts, and any number of *)
(* faults and stops.                                                       *)
(***************************************************************************)
EXTENDS PipelineRun, TLAPS

-----------------------------------------------------------------------------
\* The inductive invariant.  Typing is TypeOK in groups, and the round in which a
\* design fix was granted.
Control ==
    /\ pc \in Place /\ resumed \in BOOLEAN /\ doomed \in {"no", "switch", "loss"}
    /\ late \in Nat /\ lateCut \in BOOLEAN
    /\ pc = "tasteFix" => round < TasteRounds
Counts ==
    /\ round \in 0 .. TasteRounds \cup 0 .. VerifierIterations \cup 0 .. MergeAttempts
    /\ escalated \in BOOLEAN /\ faults \in 0 .. MaxFaults
Verdicts ==
    /\ review \in {"ok", "none"}
    /\ taste \in {"ok", "skipped", "fail", "none", "transient"}
    /\ browser \in {"ok", "missing", "fail"}
    /\ security \in {"ok", "fail", "none", "transient"}
    /\ folds \subseteq {"guarded", "ratchet", "integrity"}
Commits ==
    /\ green \in BOOLEAN /\ behind \in BOOLEAN
    /\ gated \in {"none", "head", "older"} /\ pr \in {"head", "older", "foreign"}
Endings ==
    /\ act \in BOOLEAN /\ merged \in BOOLEAN /\ again \in BOOLEAN
    /\ result \in {"none", "ok", "failed"}
    /\ outcome \in {"none", "aborted", "stale", "parked", "needs_human", "pr_open", "merged"}
World == draining \in BOOLEAN /\ capped \in BOOLEAN /\ lost \in BOOLEAN /\ stops \in 0 .. MaxStops
Typing == Control /\ Counts /\ Verdicts /\ Commits /\ Endings /\ World

\* Where no stage has started since the drain was entered: before these places
\* the budget is asked, or nothing was started yet.
Unspent == {"claimed", "ready", "checkCode", "fixReady", "checkFix", "taste", "tasteFix",
            "checkTaste", "verify", "escalate", "repair", "testReady", "security"}

Halting ==
    /\ ~draining => late = 0
    /\ pc \in Unspent => late = 0
    /\ pc = "reviewers" => late <= 2
    /\ pc \in {"implementer", "fixer", "tester"} /\ resumed => late <= 1
    /\ late <= 3

\* A design review that was passed over had lost its budget in the one await between the
\* two questions about it.
Skipping ==
    /\ pc = "checkFix" /\ Expired => lateCut
    /\ taste = "skipped" => lateCut

\* What is certain on the way from the gates to the merge, and stays so.
Clean ==
    /\ folds = {} /\ review = "ok" /\ taste \in {"ok", "skipped"}
    /\ browser = "ok" /\ security = "ok"
Merging ==
    /\ act => pc \in {"checkMerge", "regate", "merge", "record", "close", "done"}
    /\ pc \in {"regate", "merge"} => act
    /\ act /\ pc \in {"checkMerge", "regate", "merge"} => Clean
    /\ act /\ pc = "checkMerge" => green
    /\ pc \in {"security", "guards", "checkDeliver", "decide", "checkMerge"} => gated # "older"
    /\ pc = "merge" => green /\ gated = "head"
    /\ merged => green /\ Pinned /\ Clean /\ pc \in {"merge", "record", "close", "done"}

\* What a run without a fault has reported, against what GitHub did: nothing before its
\* one report; the last answer of GitHub where it is about to report.
Reporting ==
    /\ result = "ok" => merged
    /\ outcome = "merged" => merged
    /\ faults = 0 =>
        /\ ~again
        /\ pc \notin {"close", "done"} => outcome = "none"
        /\ pc \notin {"record", "close", "done"} => ~merged /\ result # "ok"
        /\ pc = "record" => (merged <=> result = "ok")
        /\ pc \in {"close", "done"} => (merged <=> outcome = "merged")

IInv == Typing /\ Halting /\ Skipping /\ Merging /\ Reporting

LEMMA TypingIsTypeOK == Typing => TypeOK
BY DEF Typing, Control, Counts, Verdicts, Commits, Endings, World, TypeOK

-----------------------------------------------------------------------------
\* The building blocks of the actions.
LEMMA PairFacts ==
    ASSUME late \in Nat, StartAll("reviewers", FALSE, 2)
    PROVE  /\ pc' = "reviewers" /\ resumed' = FALSE /\ doomed' = "no" /\ lateCut' = lateCut
           /\ late' \in Nat /\ late' <= late + 2 /\ (~draining => late' = late)
BY DEF StartAll

LEMMA StartFacts ==
    ASSUME late \in Nat, NEW s \in Stage, NEW r \in BOOLEAN, Start(s, r)
    PROVE  /\ pc' = s /\ resumed' = r /\ doomed' = "no" /\ lateCut' = lateCut
           /\ late' \in Nat /\ late' <= late + 1 /\ (~draining => late' = late)
BY DEF Start, StartAll

LEMMA BeginFacts ==
    ASSUME late \in Nat, NEW s \in Stage, Begin(s)
    PROVE  /\ pc' = s /\ resumed' = FALSE /\ doomed' = "no" /\ lateCut' = lateCut
           /\ late' \in Nat /\ late' <= late + 1 /\ (~draining => late' = late)
BY StartFacts DEF Begin

LEMMA FaultTypes == ASSUME faults \in 0 .. MaxFaults, Fault PROVE faults' \in 0 .. MaxFaults
BY PipelineAssumption DEF Fault

LEMMA NewHeadFacts ==
    ASSUME Commits, NewHead
    PROVE  /\ green' = FALSE /\ gated' \in {"none", "older"} /\ pr' \in {"older", "foreign"}
BY DEF Commits, NewHead, Outdated

LEMMA RecordedFacts ==
    ASSUME faults \in 0 .. MaxFaults, Recorded
    PROVE  gated' \in {"none", "head"} /\ faults' \in 0 .. MaxFaults
BY FaultTypes DEF Recorded

LEMMA ReportTypes ==
    ASSUME Endings, NEW o \in {"aborted", "stale", "parked", "needs_human", "pr_open", "merged"},
           NEW l, Report(o, l), UNCHANGED <<act, merged, result>>
    PROVE  Endings'
BY DEF Endings, Report

LEMMA ParkTypes == ASSUME Endings, Park, UNCHANGED <<act, merged, result>> PROVE Endings'
<1>1. CASE doomed = "loss"
  BY <1>1, ReportTypes DEF Park
<1>2. CASE doomed # "loss"
  BY <1>2, ReportTypes DEF Park
<1> QED
  BY <1>1, <1>2

\* The place of the run, and the round of a design fix.
LEMMA ControlStep ==
    ASSUME Control, Next
    PROVE  Control'
<1> USE DEF Control, Place, Stage
<1>1. CASE Throw
  BY <1>1 DEF Park, Report, Goto, Throw
<1>2. CASE Abandoned
  BY <1>2 DEF Abandoned, Lost, Abandon, Report, Goto
<1>3. CASE Prepare
  BY <1>3 DEF Prepare, Park, Report, Goto
<1>4. CASE Implement
  BY <1>4, StartFacts DEF Implement
<1>5. CASE Implemented
  BY <1>5 DEF Implemented, Worked, Park, Report, Goto
<1>6. CASE Review
  BY <1>6, PairFacts DEF Review, Park, Report, Goto
<1>7. CASE Reviewed
  BY <1>7, BeginFacts DEF Reviewed, Goto
<1>8. CASE FellBack
  BY <1>8 DEF FellBack, Goto
<1>9. CASE BeforeFix
  BY <1>9 DEF BeforeFix, Park, Report, Goto
<1>10. CASE Fix
  BY <1>10, StartFacts DEF Fix
<1>11. CASE Fixed
  BY <1>11 DEF Fixed, Worked, Park, Report, Goto
<1>12. CASE Taste
  BY <1>12, BeginFacts DEF Taste, Goto
<1>13. CASE Tasted
  BY <1>13, BeginFacts DEF Tasted, RoundLeft, Goto, loops
<1>14. CASE TasteFixed
  BY <1>14, BeginFacts DEF TasteFixed, Goto
<1>15. CASE TasteDone
  BY <1>15 DEF TasteDone, Goto
<1>16. CASE VerifyRed
  BY <1>16, BeginFacts DEF VerifyRed, Park, Report, Goto
<1>17. CASE Repaired
  BY <1>17 DEF Repaired, Goto
<1>18. CASE VerifyGreen
  BY <1>18, BeginFacts DEF VerifyGreen, ToSecurity, Goto
<1>19. CASE Test
  BY <1>19, StartFacts DEF Test
<1>20. CASE Tested
  BY <1>20, BeginFacts DEF Tested, ToSecurity, Goto
<1>21. CASE Secured
  BY <1>21 DEF Secured, Goto
<1>22. CASE Guards
  BY <1>22 DEF Guards, Park, Report, Goto
<1>23. CASE Deliver
  BY <1>23 DEF Deliver, Park, Report, Goto
<1>24. CASE NotDelivered
  BY <1>24 DEF NotDelivered, Park, Report, Goto
<1>25. CASE Decide
  BY <1>25 DEF Decide, Goto
<1>26. CASE Preflight
  BY <1>26 DEF Preflight, Hold, Goto
<1>27. CASE Regate
  BY <1>27 DEF Regate, Hold, Goto
<1>28. CASE Merge
  BY <1>28 DEF Merge, Goto
<1>29. CASE Record
  BY <1>29 DEF Record, Report, Goto
<1>30. CASE Close
  BY <1>30 DEF Close, Park, Report, Goto
<1>31. ASSUME NEW s \in {"implementer", "fixer", "tester"}, Retry(s) PROVE Control'
  BY <1>31, BeginFacts DEF Retry
<1>32. ASSUME NEW s \in {"implementer", "fixer"}, GiveUp(s) PROVE Control'
  BY <1>32 DEF GiveUp, Park, Report, Goto
<1>33. CASE Environment
  <2>1. CASE Stop \/ Resume \/ CapReached
    <3>1. lateCut' \in BOOLEAN BY <2>1 DEF Stop, Resume, CapReached
    <3>2. doomed' \in {"no", "switch", "loss"} BY <2>1 DEF Stop, Resume, CapReached
    <3>3. late' \in Nat BY <2>1 DEF Stop, Resume, CapReached
    <3>4. pc' = pc /\ resumed' = resumed /\ round' = round
      BY <2>1 DEF Stop, Resume, CapReached, run, loops
    <3> QED BY <3>1, <3>2, <3>3, <3>4
  <2>2. CASE TakenAway \/ LossSwept
    BY <2>2 DEF TakenAway, LossSwept, run, loops
  <2>3. CASE MainMoves \/ BranchMoves
    BY <2>3 DEF MainMoves, BranchMoves, run, loops
  <2> QED
    BY <1>33, <2>1, <2>2, <2>3 DEF Environment
<1>34. CASE Ended
  BY <1>34 DEF Ended, vars, loops
<1> QED
  BY <1>1, <1>2, <1>3, <1>4, <1>5, <1>6, <1>7, <1>8, <1>9, <1>10, <1>11, <1>12, <1>13, <1>14,
     <1>15, <1>16, <1>17, <1>18, <1>19, <1>20, <1>21, <1>22, <1>23, <1>24, <1>25, <1>26, <1>27,
     <1>28, <1>29, <1>30, <1>31, <1>32, <1>33, <1>34 DEF Next, RunStep

\* The verdicts.
LEMMA VerdictsStep ==
    ASSUME Verdicts, Next
    PROVE  Verdicts'
<1> USE DEF Verdicts
<1>1. CASE Throw \/ Abandoned \/ Prepare \/ Implement \/ Implemented \/ Review \/ BeforeFix
          \/ Fix
  <2>1. CASE Throw \/ Abandoned \/ Prepare
    BY <2>1 DEF Throw, Abandoned, Prepare, Lost, verdicts
  <2>2. CASE Implement \/ Implemented \/ Review
    BY <2>2 DEF Implement, Implemented, Review, Lost, verdicts
  <2>3. CASE BeforeFix \/ Fix
    BY <2>3 DEF BeforeFix, Fix, Lost, verdicts
  <2> QED
    BY <1>1, <2>1, <2>2, <2>3
<1>2. CASE Fixed \/ TasteFixed \/ TasteDone \/ VerifyRed \/ Repaired \/ Test \/ Deliver \/
          NotDelivered
  BY <1>2 DEF Fixed, TasteFixed, TasteDone, VerifyRed, Repaired, Test, Deliver, NotDelivered,
     verdicts
<1>3. CASE Decide \/ Record \/ Close
  BY <1>3 DEF Decide, Record, Close, verdicts
<1>4. CASE Reviewed
  BY <1>4 DEF Reviewed
<1>5. CASE FellBack
  BY <1>5 DEF FellBack
<1>6. CASE Taste
  BY <1>6 DEF Taste
<1>7. CASE Tasted
  BY <1>7 DEF Tasted
<1>8. CASE VerifyGreen
  BY <1>8 DEF VerifyGreen, ToSecurity
<1>9. CASE Tested
  BY <1>9 DEF Tested, ToSecurity
<1>10. CASE Secured
  BY <1>10 DEF Secured
<1>11. CASE Guards
  BY <1>11 DEF Guards
<1>12. CASE Preflight
  BY <1>12 DEF Preflight, Hold
<1>13. CASE Regate
  BY <1>13 DEF Regate, Hold
<1>14. CASE Merge
  BY <1>14 DEF Merge
<1>15. ASSUME NEW s \in {"implementer", "fixer", "tester"}, Retry(s) PROVE Verdicts'
  BY <1>15 DEF Retry, verdicts
<1>16. ASSUME NEW s \in {"implementer", "fixer"}, GiveUp(s) PROVE Verdicts'
  BY <1>16 DEF GiveUp, verdicts
<1>17. CASE Environment
  BY <1>17 DEF Environment, Stop, Resume, CapReached, TakenAway, LossSwept, MainMoves,
     BranchMoves, run, verdicts
<1>18. CASE Ended
  BY <1>18 DEF Ended, vars, verdicts
<1> QED
  BY <1>1, <1>2, <1>3, <1>4, <1>5, <1>6, <1>7, <1>8, <1>9, <1>10, <1>11, <1>12, <1>13, <1>14,
     <1>15, <1>16, <1>17, <1>18 DEF Next, RunStep

\* The counters.
LEMMA CountsStep ==
    ASSUME Control, Counts, Next
    PROVE  Counts'
<1> USE DEF Counts
<1>1. CASE Abandoned \/ Prepare \/ Implement \/ Implemented \/ Review \/ Reviewed \/
          FellBack \/ BeforeFix
  BY <1>1 DEF Abandoned, Prepare, Implement, Implemented, Review, Reviewed, FellBack, BeforeFix,
     Lost, loops
<1>2. CASE Fix \/ Fixed \/ Tasted \/ Repaired \/ Test \/ Secured \/ Guards \/ Deliver
  BY <1>2 DEF Fix, Fixed, Tasted, Repaired, Test, Secured, Guards, Deliver, loops
<1>3. CASE Decide \/ Record
  BY <1>3 DEF Decide, Record, loops
<1>4. CASE Throw
  BY <1>4, FaultTypes DEF Throw, loops
<1>5. CASE Taste
  BY <1>5, PipelineAssumption DEF Taste
<1>6. CASE TasteFixed
  BY <1>6, PipelineAssumption DEF Control, TasteFixed
<1>7. CASE TasteDone
  BY <1>7, PipelineAssumption DEF TasteDone
<1>8. CASE VerifyRed
  <2>1. faults' = faults /\ escalated' \in BOOLEAN
    BY <1>8 DEF VerifyRed
  <2>2. round' = round \/ (round < VerifierIterations /\ round' = round + 1)
    BY <1>8 DEF VerifyRed
  <2> QED
    BY <1>8, <2>1, <2>2, PipelineAssumption
<1>9. CASE VerifyGreen
  BY <1>9, RecordedFacts DEF VerifyGreen, ToSecurity, loops
<1>10. CASE Tested
  BY <1>10, RecordedFacts DEF Tested, ToSecurity, loops
<1>11. CASE NotDelivered
  BY <1>11, FaultTypes DEF NotDelivered, loops
<1>12. CASE Preflight
  BY <1>12, FaultTypes, PipelineAssumption DEF Preflight
<1>13. CASE Regate
  BY <1>13, RecordedFacts, PipelineAssumption DEF Regate
<1>14. CASE Merge
  BY <1>14, FaultTypes, PipelineAssumption DEF Merge
<1>15. CASE Close
  BY <1>15, FaultTypes DEF Close, loops
<1>16. ASSUME NEW s \in {"implementer", "fixer", "tester"}, Retry(s) PROVE Counts'
  BY <1>16 DEF Retry, loops
<1>17. ASSUME NEW s \in {"implementer", "fixer"}, GiveUp(s) PROVE Counts'
  BY <1>17 DEF GiveUp, loops
<1>18. CASE Environment
  BY <1>18 DEF Environment, Stop, Resume, CapReached, TakenAway, LossSwept, MainMoves,
     BranchMoves, run, loops
<1>19. CASE Ended
  BY <1>19 DEF Ended, vars, loops
<1> QED
  BY <1>1, <1>2, <1>3, <1>4, <1>5, <1>6, <1>7, <1>8, <1>9, <1>10, <1>11, <1>12, <1>13, <1>14,
     <1>15, <1>16, <1>17, <1>18, <1>19 DEF Next, RunStep

\* The commits.
LEMMA CommitsStep ==
    ASSUME Commits, Counts, Next
    PROVE  Commits'
<1> USE DEF Commits
<1>1. CASE Throw \/ Abandoned \/ Prepare \/ Implement \/ Review \/ Reviewed \/ FellBack \/
          BeforeFix
  BY <1>1 DEF Throw, Abandoned, Prepare, Implement, Review, Reviewed, FellBack, BeforeFix, Lost,
     commits
<1>2. CASE Fix \/ Taste \/ Tasted \/ TasteDone \/ Test \/ Secured \/ Guards \/ Decide
  BY <1>2 DEF Fix, Taste, Tasted, TasteDone, Test, Secured, Guards, Decide, commits
<1>3. CASE Merge \/ Record \/ Close
  BY <1>3 DEF Merge, Record, Close, commits
<1>4. CASE Implemented
  BY <1>4, NewHeadFacts DEF Implemented, Commit
<1>5. CASE Fixed
  BY <1>5, NewHeadFacts DEF Fixed, Commit
<1>6. CASE TasteFixed
  BY <1>6, NewHeadFacts DEF TasteFixed, Commit
<1>7. CASE VerifyRed
  BY <1>7 DEF VerifyRed
<1>8. CASE Repaired
  BY <1>8, NewHeadFacts DEF Repaired, Commit
<1>9. CASE VerifyGreen
  BY <1>9, RecordedFacts DEF VerifyGreen, ToSecurity, Counts
<1>10. CASE Tested
  BY <1>10, RecordedFacts DEF Tested, ToSecurity, Counts
<1>11. CASE Deliver
  BY <1>11 DEF Deliver
<1>12. CASE NotDelivered
  BY <1>12 DEF NotDelivered
<1>13. CASE Preflight
  BY <1>13, NewHeadFacts DEF Preflight, commits
<1>14. CASE Regate
  BY <1>14, RecordedFacts DEF Regate, Counts
<1>15. ASSUME NEW s \in {"implementer", "fixer", "tester"}, Retry(s) PROVE Commits'
  BY <1>15 DEF Retry, commits
<1>16. ASSUME NEW s \in {"implementer", "fixer"}, GiveUp(s) PROVE Commits'
  BY <1>16 DEF GiveUp, commits
<1>17. CASE Environment
  BY <1>17 DEF Environment, Stop, Resume, CapReached, TakenAway, LossSwept, MainMoves,
     BranchMoves, run, commits
<1>18. CASE Ended
  BY <1>18 DEF Ended, vars, commits
<1> QED
  BY <1>1, <1>2, <1>3, <1>4, <1>5, <1>6, <1>7, <1>8, <1>9, <1>10, <1>11, <1>12, <1>13, <1>14,
     <1>15, <1>16, <1>17, <1>18 DEF Next, RunStep

\* The decision, the merge and the report.
LEMMA EndingsStep ==
    ASSUME Endings, Next
    PROVE  Endings'
<1> USE DEF Endings
<1>1. CASE Implement \/ Reviewed \/ FellBack \/ Fix \/ Taste \/ Tasted \/ TasteFixed \/
          TasteDone
  BY <1>1 DEF Implement, Reviewed, FellBack, Fix, Taste, Tasted, TasteFixed, TasteDone, ending
<1>2. CASE Repaired \/ VerifyGreen \/ Test \/ Tested \/ Secured
  BY <1>2 DEF Repaired, VerifyGreen, Test, Tested, Secured, ending
<1>3. CASE Throw
  BY <1>3, ParkTypes DEF Throw
<1>4. CASE Abandoned
  BY <1>4, ReportTypes DEF Abandoned, Lost, Abandon
<1>5. CASE Prepare
  BY <1>5, ParkTypes, ReportTypes DEF Prepare
<1>6. CASE Implemented
  BY <1>6, ParkTypes DEF Implemented
<1>7. CASE Review
  BY <1>7, ParkTypes DEF Review
<1>8. CASE BeforeFix
  BY <1>8, ParkTypes DEF BeforeFix
<1>9. CASE Fixed
  BY <1>9, ParkTypes DEF Fixed
<1>10. CASE VerifyRed
  BY <1>10, ParkTypes DEF VerifyRed
<1>11. CASE Guards
  BY <1>11, ParkTypes DEF Guards
<1>12. CASE Deliver
  BY <1>12, ParkTypes DEF Deliver
<1>13. CASE NotDelivered
  BY <1>13, ParkTypes DEF NotDelivered
<1>14. CASE Decide
  BY <1>14 DEF Decide, WouldMerge
<1>15. CASE Preflight
  BY <1>15 DEF Preflight, Hold
<1>16. CASE Regate
  BY <1>16 DEF Regate, Hold
<1>17. CASE Merge
  BY <1>17 DEF Merge
<1>18. CASE Record
  BY <1>18, ReportTypes DEF Record, Outcome
<1>19. CASE Close
  BY <1>19, ParkTypes DEF Close
<1>20. ASSUME NEW s \in {"implementer", "fixer", "tester"}, Retry(s) PROVE Endings'
  BY <1>20 DEF Retry, ending
<1>21. ASSUME NEW s \in {"implementer", "fixer"}, GiveUp(s) PROVE Endings'
  BY <1>21, ParkTypes DEF GiveUp
<1>22. CASE Environment
  BY <1>22 DEF Environment, Stop, Resume, CapReached, TakenAway, LossSwept, MainMoves,
     BranchMoves, run, ending
<1>23. CASE Ended
  BY <1>23 DEF Ended, vars, ending
<1> QED
  BY <1>1, <1>2, <1>3, <1>4, <1>5, <1>6, <1>7, <1>8, <1>9, <1>10, <1>11, <1>12, <1>13, <1>14,
     <1>15, <1>16, <1>17, <1>18, <1>19, <1>20, <1>21, <1>22, <1>23 DEF Next, RunStep

\* The world.
LEMMA WorldStep ==
    ASSUME World, Next
    PROVE  World'
<1> USE DEF World
<1>1. CASE Throw \/ Abandoned \/ Prepare \/ Implement \/ Implemented \/ Review \/ Reviewed
          \/ FellBack
  BY <1>1 DEF Throw, Abandoned, Prepare, Implement, Implemented, Review, Reviewed, FellBack, Lost,
     world
<1>2. CASE BeforeFix \/ Fix \/ Fixed \/ Taste \/ Tasted \/ TasteFixed \/ TasteDone \/
          VerifyRed
  BY <1>2 DEF BeforeFix, Fix, Fixed, Taste, Tasted, TasteFixed, TasteDone, VerifyRed, world
<1>3. CASE Repaired \/ VerifyGreen \/ Test \/ Tested \/ Secured \/ Guards \/ Deliver \/
          NotDelivered
  BY <1>3 DEF Repaired, VerifyGreen, Test, Tested, Secured, Guards, Deliver, NotDelivered, world
<1>4. CASE Decide \/ Preflight \/ Regate \/ Merge \/ Record \/ Close
  BY <1>4 DEF Decide, Preflight, Regate, Merge, Record, Close, world
<1>5. ASSUME NEW s \in {"implementer", "fixer", "tester"}, Retry(s) PROVE World'
  BY <1>5 DEF Retry, world
<1>6. ASSUME NEW s \in {"implementer", "fixer"}, GiveUp(s) PROVE World'
  BY <1>6 DEF GiveUp, world
<1>7. CASE Environment
  <2>1. CASE Stop
    BY <1>7, <2>1, PipelineAssumption DEF Stop
  <2>2. CASE Resume \/ CapReached \/ TakenAway
    BY <1>7, <2>2 DEF Resume, CapReached, TakenAway
  <2>3. CASE LossSwept \/ MainMoves \/ BranchMoves
    BY <1>7, <2>3 DEF LossSwept, MainMoves, BranchMoves, world
  <2> QED
    BY <1>7, <2>1, <2>2, <2>3 DEF Environment
<1>8. CASE Ended
  BY <1>8 DEF Ended, vars, world
<1> QED
  BY <1>1, <1>2, <1>3, <1>4, <1>5, <1>6, <1>7, <1>8 DEF Next, RunStep

\* How many stages can have started since the drain was entered.
LEMMA HaltingStep ==
    ASSUME Control, World, Halting, Next
    PROVE  Halting'
<1> USE DEF Halting, Unspent, Control, World, Stage, Place
<1>1. CASE Throw
  BY <1>1 DEF Park, Report, Goto, Throw, world
<1>2. CASE Abandoned
  BY <1>2 DEF Abandoned, Lost, Abandon, Report, Goto, world
<1>3. CASE Prepare
  BY <1>3 DEF Prepare, Park, Report, Goto, Expired, world
<1>4. CASE Implement
  BY <1>4, StartFacts DEF Implement, world
<1>5. CASE Implemented
  BY <1>5 DEF Implemented, Worked, Park, Report, Goto, Expired, world
<1>6. CASE Review
  <2>1. CASE StartAll("reviewers", FALSE, 2)
    BY <1>6, <2>1, PairFacts DEF Review, world
  <2>2. CASE Park
    BY <1>6, <2>2 DEF Review, Park, Report, Goto, world
  <2> QED
    BY <1>6, <2>1, <2>2 DEF Review
<1>7. CASE Reviewed
  <2>1. draining' = draining
    BY <1>7 DEF Reviewed, world
  <2>2. CASE Begin("fallback")
    BY <1>7, <2>1, <2>2, BeginFacts DEF Reviewed
  <2>3. CASE Goto("reviewed")
    BY <1>7, <2>1, <2>3 DEF Reviewed, Goto
  <2> QED
    BY <1>7, <2>1, <2>2, <2>3 DEF Reviewed
<1>8. CASE FellBack
  BY <1>8 DEF FellBack, Goto, world
<1>9. CASE BeforeFix
  BY <1>9 DEF BeforeFix, Park, Report, Goto, Expired, world
<1>10. CASE Fix
  BY <1>10, StartFacts DEF Fix, world
<1>11. CASE Fixed
  BY <1>11 DEF Fixed, Worked, Park, Report, Goto, Expired, world
<1>12. CASE Taste
  BY <1>12, BeginFacts DEF Taste, Goto, Expired, world
<1>13. CASE Tasted
  BY <1>13, BeginFacts DEF Tasted, RoundLeft, Goto, loops, Expired, world
<1>14. CASE TasteFixed
  BY <1>14, BeginFacts DEF TasteFixed, Goto, Expired, world
<1>15. CASE TasteDone
  BY <1>15 DEF TasteDone, Goto, world
<1>16. CASE VerifyRed
  BY <1>16, BeginFacts DEF VerifyRed, Park, Report, Goto, Expired, world
<1>17. CASE Repaired
  BY <1>17 DEF Repaired, Goto, world
<1>18. CASE VerifyGreen
  BY <1>18, BeginFacts DEF VerifyGreen, ToSecurity, Goto, Expired, world
<1>19. CASE Test
  BY <1>19, StartFacts DEF Test, world
<1>20. CASE Tested
  BY <1>20, BeginFacts DEF Tested, ToSecurity, Goto, Expired, world
<1>21. CASE Secured
  BY <1>21 DEF Secured, Goto, world
<1>22. CASE Guards
  BY <1>22 DEF Guards, Park, Report, Goto, world
<1>23. CASE Deliver
  BY <1>23 DEF Deliver, Park, Report, Goto, world
<1>24. CASE NotDelivered
  BY <1>24 DEF NotDelivered, Park, Report, Goto, world
<1>25. CASE Decide
  BY <1>25 DEF Decide, Goto, world
<1>26. CASE Preflight
  BY <1>26 DEF Preflight, Hold, Goto, world
<1>27. CASE Regate
  BY <1>27 DEF Regate, Hold, Goto, world
<1>28. CASE Merge
  BY <1>28 DEF Merge, Goto, world
<1>29. CASE Record
  BY <1>29 DEF Record, Report, Goto, world
<1>30. CASE Close
  BY <1>30 DEF Close, Park, Report, Goto, world
<1>31. ASSUME NEW s \in {"implementer", "fixer", "tester"}, Retry(s) PROVE Halting'
  <2>1. pc = s /\ resumed /\ Begin(s) /\ draining' = draining
    BY <1>31 DEF Retry, world
  <2>2. late \in Nat /\ late <= 1 /\ (~draining => late = 0)
    BY <1>31, <2>1
  <2>3. pc' = s /\ resumed' = FALSE /\ late' \in Nat /\ late' <= late + 1 /\ (~draining =>
          late' = late)
    BY <1>31, <2>1, <2>2, BeginFacts
  <2>4. late' <= 3
    BY <1>31, <2>2, <2>3
  <2>5. ~draining' => late' = 0
    BY <1>31, <2>1, <2>2, <2>3
  <2> QED
    BY <1>31, <2>1, <2>2, <2>3, <2>4, <2>5 DEF Unspent
<1>32. ASSUME NEW s \in {"implementer", "fixer"}, GiveUp(s) PROVE Halting'
  BY <1>32 DEF GiveUp, Park, Report, Goto, world
<1>33. CASE Environment
  BY <1>33 DEF Environment, Stop, Resume, CapReached, TakenAway, LossSwept, MainMoves,
     BranchMoves, run, world
<1>34. CASE Ended
  BY <1>34 DEF Ended, vars, world
<1> QED
  BY <1>1, <1>2, <1>3, <1>4, <1>5, <1>6, <1>7, <1>8, <1>9, <1>10, <1>11, <1>12, <1>13, <1>14,
     <1>15, <1>16, <1>17, <1>18, <1>19, <1>20, <1>21, <1>22, <1>23, <1>24, <1>25, <1>26, <1>27,
     <1>28, <1>29, <1>30, <1>31, <1>32, <1>33, <1>34 DEF Next, RunStep

LEMMA PairPlace == ASSUME StartAll("reviewers", FALSE, 2) PROVE pc' = "reviewers"
BY DEF StartAll

LEMMA StartPlace == ASSUME NEW s \in Stage, NEW r \in BOOLEAN, Start(s, r) PROVE pc' = s
BY DEF Start, StartAll

LEMMA BeginPlace == ASSUME NEW s \in Stage, Begin(s) PROVE pc' = s
BY StartPlace DEF Begin

\* The design review is passed over only where the budget ran out in the one await
\* before it: Fixed has just seen some budget, and only Stop and CapReached take it away.
LEMMA SkippingStep ==
    ASSUME Typing, Skipping, Next
    PROVE  Skipping'
<1> USE DEF Typing, Control, Verdicts, World, Skipping, Expired, Stage, Place
<1>1. CASE Throw
  BY <1>1 DEF Park, Report, Goto, Throw, verdicts, world
<1>2. CASE Abandoned
  BY <1>2 DEF Abandoned, Lost, Abandon, Report, Goto, verdicts, world
<1>3. CASE Prepare
  BY <1>3 DEF Prepare, Park, Report, Goto, verdicts, world
<1>4. CASE Implement
  BY <1>4, StartFacts DEF Implement, verdicts, world
<1>5. CASE Implemented
  BY <1>5 DEF Implemented, Worked, Park, Report, Goto, verdicts, world
<1>6. CASE Review
  <2>1. UNCHANGED <<verdicts, world>> BY <1>6 DEF Review
  <2>2. pc' \in {"reviewers", "done"} BY <1>6, PairFacts DEF Review, Park, Report, Goto
  <2>3. lateCut' = lateCut BY <1>6, PairFacts DEF Review, Park, Report, Goto
  <2> QED BY <2>1, <2>2, <2>3 DEF verdicts
<1>7. CASE Reviewed
  BY <1>7, BeginFacts DEF Reviewed, Goto, world
<1>8. CASE FellBack
  BY <1>8 DEF FellBack, Goto, world
<1>9. CASE BeforeFix
  BY <1>9 DEF BeforeFix, Park, Report, Goto, verdicts, world
<1>10. CASE Fix
  BY <1>10, StartFacts DEF Fix, verdicts, world
<1>11. CASE Fixed
  BY <1>11 DEF Fixed, Worked, Park, Report, Goto, verdicts, world
<1>12. CASE Taste
  BY <1>12, BeginFacts DEF Taste, Goto, world
<1>13. CASE Tasted
  BY <1>13, BeginFacts DEF Tasted, Goto, world
<1>14. CASE TasteFixed
  BY <1>14, BeginFacts DEF TasteFixed, Goto, verdicts, world
<1>15. CASE TasteDone
  BY <1>15 DEF TasteDone, Goto, verdicts, world
<1>16. CASE VerifyRed
  BY <1>16, BeginFacts DEF VerifyRed, Park, Report, Goto, verdicts, world
<1>17. CASE Repaired
  BY <1>17 DEF Repaired, Goto, verdicts, world
<1>18. CASE VerifyGreen
  BY <1>18, BeginFacts DEF VerifyGreen, ToSecurity, Goto, world
<1>19. CASE Test
  BY <1>19, StartFacts DEF Test, verdicts, world
<1>20. CASE Tested
  BY <1>20, BeginFacts DEF Tested, ToSecurity, Goto, world
<1>21. CASE Secured
  BY <1>21 DEF Secured, Goto, world
<1>22. CASE Guards
  BY <1>22 DEF Guards, Park, Report, Goto, world
<1>23. CASE Deliver
  BY <1>23 DEF Deliver, Park, Report, Goto, verdicts, world
<1>24. CASE NotDelivered
  BY <1>24 DEF NotDelivered, Park, Report, Goto, verdicts, world
<1>25. CASE Decide
  BY <1>25 DEF Decide, Goto, verdicts, world
<1>26. CASE Preflight
  BY <1>26 DEF Preflight, Hold, Goto, world
<1>27. CASE Regate
  BY <1>27 DEF Regate, Hold, Goto, world
<1>28. CASE Merge
  BY <1>28 DEF Merge, Goto, world
<1>29. CASE Record
  BY <1>29 DEF Record, Report, Goto, verdicts, world
<1>30. CASE Close
  BY <1>30 DEF Close, Park, Report, Goto, verdicts, world
<1>31. ASSUME NEW s \in {"implementer", "fixer", "tester"}, Retry(s) PROVE Skipping'
  BY <1>31, BeginFacts DEF Retry, verdicts, world
<1>32. ASSUME NEW s \in {"implementer", "fixer"}, GiveUp(s) PROVE Skipping'
  BY <1>32 DEF GiveUp, Park, Report, Goto, verdicts, world
<1>33. CASE Environment
  <2>1. CASE Stop
    BY <2>1 DEF Stop, run, verdicts
  <2>2. CASE Resume
    BY <2>2 DEF Resume, run, verdicts
  <2>3. CASE CapReached
    BY <2>3 DEF CapReached, run, verdicts
  <2>4. CASE TakenAway \/ LossSwept \/ MainMoves \/ BranchMoves
    BY <2>4 DEF TakenAway, LossSwept, MainMoves, BranchMoves, run, verdicts, world
  <2> QED
    BY <1>33, <2>1, <2>2, <2>3, <2>4 DEF Environment
<1>34. CASE Ended
  BY <1>34 DEF Ended, vars, verdicts, world
<1> QED
  BY <1>1, <1>2, <1>3, <1>4, <1>5, <1>6, <1>7, <1>8, <1>9, <1>10, <1>11, <1>12, <1>13,
     <1>14, <1>15, <1>16, <1>17, <1>18, <1>19, <1>20, <1>21, <1>22, <1>23, <1>24, <1>25,
     <1>26, <1>27, <1>28, <1>29, <1>30, <1>31, <1>32, <1>33, <1>34 DEF Next, RunStep

\* What is certain before a merge stays certain until it, and after it.
LEMMA MergingStep ==
    ASSUME Typing, Merging, Next
    PROVE  Merging'
<1> USE DEF Typing, Control, Counts, Verdicts, Commits, Endings, Merging, Clean, Pinned,
      Place, Stage
<1>1. CASE Throw
  BY <1>1 DEF Park, Report, Goto, Throw, verdicts, commits, ending
<1>2. CASE Abandoned
  BY <1>2 DEF Abandoned, Lost, Abandon, Report, Goto, verdicts, commits, ending
<1>3. CASE Prepare
  BY <1>3 DEF Prepare, Park, Report, Goto, verdicts, commits, ending
<1>4. CASE Implement
  BY <1>4, StartPlace DEF Implement, verdicts, commits, ending
<1>5. CASE Implemented
  BY <1>5, NewHeadFacts DEF Implemented, Worked, Park, Report, Goto, Commit, verdicts
<1>6. CASE Review
  BY <1>6, PairPlace DEF Review, Park, Report, Goto, verdicts, commits, ending
<1>7. CASE Reviewed
  BY <1>7, BeginPlace DEF Reviewed, Goto, verdicts, commits, ending
<1>8. CASE FellBack
  BY <1>8 DEF FellBack, Goto, verdicts, commits, ending
<1>9. CASE BeforeFix
  BY <1>9 DEF BeforeFix, Park, Report, Goto, verdicts, commits, ending
<1>10. CASE Fix
  BY <1>10, StartPlace DEF Fix, verdicts, commits, ending
<1>11. CASE Fixed
  BY <1>11, NewHeadFacts DEF Fixed, Worked, Park, Report, Goto, Commit, verdicts
<1>12. CASE Taste
  BY <1>12, BeginPlace DEF Taste, Goto, verdicts, commits, ending
<1>13. CASE Tasted
  BY <1>13, BeginPlace DEF Tasted, RoundLeft, Goto, loops, verdicts, commits, ending
<1>14. CASE TasteFixed
  BY <1>14, BeginPlace, NewHeadFacts DEF TasteFixed, Goto, Commit, verdicts, ending
<1>15. CASE TasteDone
  BY <1>15 DEF TasteDone, Goto, verdicts, commits, ending
<1>16. CASE VerifyRed
  BY <1>16, BeginPlace DEF VerifyRed, Park, Report, Goto, verdicts, commits, ending
<1>17. CASE Repaired
  BY <1>17, NewHeadFacts DEF Repaired, Goto, Commit, verdicts, ending
<1>18. CASE VerifyGreen
  BY <1>18, BeginPlace, RecordedFacts DEF VerifyGreen, ToSecurity, Goto, ending
<1>19. CASE Test
  BY <1>19, StartPlace DEF Test, verdicts, commits, ending
<1>20. CASE Tested
  BY <1>20, BeginPlace, RecordedFacts DEF Tested, ToSecurity, Goto, ending
<1>21. CASE Secured
  BY <1>21 DEF Secured, Goto, verdicts, commits, ending
<1>22. CASE Guards
  BY <1>22 DEF Guards, Park, Report, Goto, verdicts, commits, ending
<1>23. CASE Deliver
  BY <1>23 DEF Deliver, Park, Report, Goto, verdicts, commits, ending
<1>24. CASE NotDelivered
  BY <1>24 DEF NotDelivered, Park, Report, Goto, verdicts, commits, ending
<1>25. CASE Decide
  BY <1>25 DEF Decide, Goto, WouldMerge, Holds, Absent, verdicts, commits
<1>26. CASE Preflight
  <2>1. pc = "checkMerge" /\ ~merged /\ ~merged'
    BY <1>26 DEF Preflight
  <2>2. CASE Goto("record")
    BY <1>26, <2>1, <2>2 DEF Goto
  <2>3. CASE act /\ Goto("merge") /\ gated # "none" /\ UNCHANGED <<folds, act, commits,
          review, taste, browser, security>>
    BY <1>26, <2>1, <2>3 DEF Goto, commits
  <2>4. CASE act /\ Goto("regate") /\ UNCHANGED <<folds, act, review, taste, browser,
          security>>
    BY <1>26, <2>1, <2>4 DEF Goto
  <2> QED
    BY <1>26, <2>1, <2>2, <2>3, <2>4 DEF Preflight, Hold
<1>27. CASE Regate
  <2>1. pc = "regate" /\ act /\ Clean /\ ~merged /\ ~merged' /\ UNCHANGED <<review, taste,
          browser, security>>
    BY <1>27 DEF Regate
  <2>2. CASE Hold
    BY <1>27, <2>1, <2>2 DEF Hold, Goto
  <2>3. CASE Goto("merge") /\ green' /\ gated' = "head" /\ UNCHANGED <<folds, act>>
    BY <1>27, <2>1, <2>3 DEF Goto
  <2> QED
    BY <1>27, <2>1, <2>2, <2>3 DEF Regate
<1>28. CASE Merge
  <2>1. pc = "merge" /\ act /\ Clean /\ green /\ gated = "head" /\ UNCHANGED <<act, review,
          taste, browser, security, commits>>
    BY <1>28 DEF Merge
  <2>2. CASE (Pinned \/ merged) /\ merged' = TRUE /\ Goto("record") /\ UNCHANGED folds
    BY <1>28, <2>1, <2>2 DEF Goto, commits
  <2>3. CASE ~merged /\ merged' = merged /\ Goto("record")
    BY <1>28, <2>1, <2>3 DEF Goto, commits
  <2>4. CASE merged' \in {merged, merged \/ Pinned} /\ UNCHANGED folds /\ (Goto("merge") \/
          Goto("record"))
    BY <1>28, <2>1, <2>4 DEF Goto, commits
  <2> QED
    BY <1>28, <2>1, <2>2, <2>3, <2>4 DEF Merge
<1>29. CASE Record
  BY <1>29 DEF Record, Report, Goto, verdicts, commits, ending
<1>30. CASE Close
  BY <1>30 DEF Close, Park, Report, Goto, verdicts, commits, ending
<1>31. ASSUME NEW s \in {"implementer", "fixer", "tester"}, Retry(s) PROVE Merging'
  BY <1>31, BeginPlace DEF Retry, verdicts, commits, ending
<1>32. ASSUME NEW s \in {"implementer", "fixer"}, GiveUp(s) PROVE Merging'
  BY <1>32 DEF GiveUp, Park, Report, Goto, verdicts, commits
<1>33. CASE pc # "done" /\ Environment
  <2>1. UNCHANGED <<run, pr>> \/ (~merged /\ UNCHANGED run)
    BY <1>33 DEF Environment, Stop, Resume, CapReached, TakenAway, LossSwept, MainMoves, BranchMoves
  <2>2. UNCHANGED <<pc, verdicts, act, green, gated, merged>>
    BY <1>33, <2>1 DEF run, verdicts, ending
  <2>3. pr' = pr \/ ~merged
    BY <1>33, <2>1
  <2> QED
    BY <1>33, <2>1, <2>2, <2>3 DEF verdicts
<1>34. CASE Ended
  BY <1>34 DEF Ended, vars, verdicts, commits, ending
<1> QED
  BY <1>1, <1>2, <1>3, <1>4, <1>5, <1>6, <1>7, <1>8, <1>9, <1>10, <1>11, <1>12, <1>13, <1>14,
     <1>15, <1>16, <1>17, <1>18, <1>19, <1>20, <1>21, <1>22, <1>23, <1>24, <1>25, <1>26, <1>27,
     <1>28, <1>29, <1>30, <1>31, <1>32, <1>33, <1>34 DEF Next, RunStep

\* A fault is counted for good, so what happens without one is known of the whole run.
LEMMA FaultCounts == ASSUME faults \in 0 .. MaxFaults, Fault PROVE faults' # 0
BY PipelineAssumption DEF Fault

LEMMA RecordedCounts ==
    ASSUME faults \in 0 .. MaxFaults, Recorded PROVE faults' = faults \/ faults' # 0
BY FaultCounts DEF Recorded

\* A report where nothing was reported before is the only one, and says "merged" of a
\* run that is known to have merged.
LEMMA ReportingStep ==
    ASSUME Typing, Merging, Reporting, Next
    PROVE  Reporting'
<1> USE DEF Typing, Control, Counts, Verdicts, Commits, Endings, Reporting, Place, Stage
<1>1. CASE Throw
  BY <1>1, FaultCounts DEF Throw, Report, Goto, Park, ending
<1>2. CASE Abandoned
  BY <1>2 DEF Abandoned, Report, Goto, Park, Lost, Abandon, ending
<1>3. CASE Prepare
  BY <1>3 DEF Prepare, Report, Goto, Park, ending
<1>4. CASE Implement
  BY <1>4, StartPlace DEF Implement, Report, Goto, Park, ending
<1>5. CASE Implemented
  BY <1>5 DEF Implemented, Worked, Report, Goto, Park, ending
<1>6. CASE Review
  <2>1. CASE StartAll("reviewers", FALSE, 2) /\ UNCHANGED <<outcome, again>>
    BY <1>6, <2>1, PairPlace DEF Review, ending
  <2>2. CASE Park
    BY <1>6, <2>2 DEF Review, Report, Goto, Park, ending
  <2>3. (StartAll("reviewers", FALSE, 2) /\ UNCHANGED <<outcome, again>>) \/ Park
    BY <1>6 DEF Review
  <2> QED
    BY <2>1, <2>2, <2>3
<1>7. CASE Reviewed
  BY <1>7, BeginPlace DEF Reviewed, Report, Goto, Park, ending
<1>8. CASE FellBack
  BY <1>8 DEF FellBack, Report, Goto, Park, ending
<1>9. CASE BeforeFix
  BY <1>9 DEF BeforeFix, Report, Goto, Park, ending
<1>10. CASE Fix
  BY <1>10, StartPlace DEF Fix, Report, Goto, Park, ending
<1>11. CASE Fixed
  BY <1>11 DEF Fixed, Worked, Report, Goto, Park, ending
<1>12. CASE Taste
  BY <1>12, BeginPlace DEF Taste, Report, Goto, Park, ending
<1>13. CASE Tasted
  BY <1>13, BeginPlace DEF Tasted, Report, Goto, Park, RoundLeft, ending
<1>14. CASE TasteFixed
  BY <1>14, BeginPlace DEF TasteFixed, Report, Goto, Park, ending
<1>15. CASE TasteDone
  BY <1>15 DEF TasteDone, Report, Goto, Park, ending
<1>16. CASE VerifyRed
  BY <1>16, BeginPlace DEF VerifyRed, Report, Goto, Park, ending
<1>17. CASE Repaired
  BY <1>17 DEF Repaired, Report, Goto, Park, ending
<1>18. CASE VerifyGreen
  BY <1>18, BeginPlace, RecordedCounts DEF VerifyGreen, Report, Goto, Park, ToSecurity, ending
<1>19. CASE Test
  BY <1>19, StartPlace DEF Test, Report, Goto, Park, ending
<1>20. CASE Tested
  BY <1>20, BeginPlace, RecordedCounts DEF Tested, Report, Goto, Park, ToSecurity, ending
<1>21. CASE Secured
  BY <1>21 DEF Secured, Report, Goto, Park, ending
<1>22. CASE Guards
  BY <1>22 DEF Guards, Report, Goto, Park, ending
<1>23. CASE Deliver
  BY <1>23 DEF Deliver, Report, Goto, Park, ending
<1>24. CASE NotDelivered
  BY <1>24, FaultCounts DEF NotDelivered, Report, Goto, Park, ending
<1>25. CASE Decide
  BY <1>25 DEF Decide, Report, Goto, Park, ending
<1>26. CASE Preflight
  BY <1>26, FaultCounts DEF Preflight, Report, Goto, Park, Hold, ending
<1>27. CASE Regate
  BY <1>27, RecordedCounts DEF Regate, Report, Goto, Park, Hold, ending
<1>28. CASE Merge
  BY <1>28, FaultCounts DEF Merge, Goto
<1>29. CASE Record
  BY <1>29 DEF Record, Report, Goto, Park, Outcome, ending
<1>30. CASE Close
  BY <1>30, FaultCounts DEF Close, Report, Goto, Park, ending
<1>31. ASSUME NEW s \in {"implementer", "fixer", "tester"}, Retry(s) PROVE Reporting'
  BY <1>31, BeginPlace DEF Retry, ending
<1>32. ASSUME NEW s \in {"implementer", "fixer"}, GiveUp(s) PROVE Reporting'
  BY <1>32 DEF GiveUp, Park, Report, Goto
<1>33. CASE Environment
  <2>1. UNCHANGED run
    BY <1>33 DEF Environment, Stop, Resume, CapReached, TakenAway, LossSwept, MainMoves, BranchMoves, run
  <2> QED
    BY <2>1 DEF run, ending
<1>34. CASE Ended
  BY <1>34 DEF Ended, vars, ending
<1> QED
  BY <1>1, <1>2, <1>3, <1>4, <1>5, <1>6, <1>7, <1>8, <1>9, <1>10, <1>11, <1>12, <1>13, <1>14, <1>15, <1>16, <1>17, <1>18, <1>19, <1>20, <1>21, <1>22, <1>23, <1>24, <1>25, <1>26, <1>27, <1>28, <1>29, <1>30, <1>31, <1>32, <1>33, <1>34 DEF Next, RunStep

-----------------------------------------------------------------------------
LEMMA InitOK == Init => IInv
<1> SUFFICES ASSUME Init PROVE IInv
  OBVIOUS
<1>1. Control /\ Halting /\ Skipping
  <2>1. /\ pc = "claimed" /\ late = 0 /\ resumed = FALSE /\ doomed = "no" /\ 0 \in Nat
        /\ lateCut = FALSE /\ taste = "ok"
    BY DEF Init
  <2>2. pc \in Place /\ pc # "tasteFix" /\ resumed \in BOOLEAN
    BY <2>1 DEF Place
  <2>3. late <= 1 /\ late <= 2 /\ late <= 3
    BY <2>1
  <2> QED
    BY <2>1, <2>2, <2>3 DEF Control, Halting, Skipping
<1>2. 0 \in 0 .. TasteRounds /\ 0 \in 0 .. MaxFaults /\ 0 \in 0 .. MaxStops
  BY PipelineAssumption
<1>3. Counts /\ World
  BY <1>2 DEF Init, Counts, World
<1>4. Verdicts /\ Commits /\ Endings
  BY DEF Init, Verdicts, Commits, Endings
<1>5. Merging /\ Reporting
  BY DEF Init, Merging, Reporting
<1> QED
  BY <1>1, <1>3, <1>4, <1>5 DEF IInv, Typing

LEMMA Stutter == IInv /\ UNCHANGED vars => IInv'
<1> SUFFICES ASSUME IInv, UNCHANGED vars PROVE IInv'
  OBVIOUS
<1>1. Typing'
  BY DEF vars, verdicts, commits, ending, loops, world, IInv, Typing, Control, Counts, Verdicts,
     Commits, Endings, World
<1>2. Halting'
  BY DEF vars, world, IInv, Halting
<1>3. Merging'
  BY DEF vars, verdicts, commits, ending, IInv, Merging, Clean, Pinned
<1>4. Reporting'
  BY DEF vars, ending, IInv, Reporting
<1>5. Skipping'
  BY DEF vars, verdicts, world, IInv, Skipping, Expired
<1> QED
  BY <1>1, <1>2, <1>3, <1>4, <1>5 DEF IInv

\* The invariant holds in every state the pipeline reaches.
THEOREM Invariance == Spec => []IInv
<1>1. IInv /\ [Next]_vars => IInv'
  <2> SUFFICES ASSUME IInv, Next PROVE IInv'
    BY Stutter
  <2>1. Control /\ Counts /\ Verdicts /\ Commits /\ Endings /\ World /\ Halting /\ Skipping /\ Merging
        /\ Reporting
    BY DEF IInv, Typing
  <2>2. Control' /\ Counts' /\ Verdicts' /\ Commits' /\ Endings' /\ World'
    BY <2>1, ControlStep, CountsStep, VerdictsStep, CommitsStep, EndingsStep, WorldStep
  <2>3. Halting'
    BY <2>1, HaltingStep
  <2>4. Merging'
    BY <2>1, MergingStep DEF Typing
  <2>5. Reporting'
    BY <2>1, ReportingStep DEF Typing
  <2>6. Skipping'
    BY <2>1, SkippingStep DEF Typing
  <2> QED
    BY <2>2, <2>3, <2>4, <2>5, <2>6 DEF IInv, Typing
<1> QED
  BY <1>1, InitOK, PTL DEF Spec

\* Every variable of the run keeps its type (loop.ts processIssue).
THEOREM PipelineTypes == Spec => []TypeOK
<1>1. IInv => TypeOK
  BY TypingIsTypeOK DEF IInv
<1> QED
  BY <1>1, Invariance, PTL

\* loop.ts 1666-1690 and github.ts mergePr: a merge happens only with the gates green on
\* HEAD, and with the recorded SHA and the PR branch both at it.
THEOREM GatedMerges == Spec => []MergedIsGated
<1>1. IInv => MergedIsGated
  BY DEF IInv, Merging, MergedIsGated
<1> QED
  BY <1>1, Invariance, PTL

\* merge-ladder.ts decideMerge with the hold reasons of loop.ts: no reason to hold is
\* left where a run merges, and each verdict is a pass or was not due; the one design
\* review that can be passed over lost its budget in the await before it (948-973).
THEOREM ReviewedMerges == Spec => []MergedIsReviewed
<1>1. IInv => MergedIsReviewed
  BY DEF IInv, Merging, Clean, Skipping, MergedIsReviewed
<1> QED
  BY <1>1, Invariance, PTL

\* loop.ts budgetExpired: at most three stages start after the drain was entered, however
\* often it is entered and left.
THEOREM StopHalts == Spec => []StopHaltsSoon
<1>1. IInv => StopHaltsSoon
  BY DEF IInv, Halting, StopHaltsSoon
<1> QED
  BY <1>1, Invariance, PTL

\* loop.ts run_finished: a run in which no call failed has reported once when it is over,
\* and its report says "merged" exactly when the pull request is.
THEOREM TruthfulOutcomes == Spec => []OutcomeTruthful
<1>1. IInv => OutcomeTruthful
  BY DEF IInv, Reporting, OutcomeTruthful
<1> QED
  BY <1>1, Invariance, PTL
=============================================================================
