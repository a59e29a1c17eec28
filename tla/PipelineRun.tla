---------------------------- MODULE PipelineRun -----------------------------
(***************************************************************************)
(* One run of the pipeline after its claim (loop.ts processIssue): which   *)
(* model stages it starts, which verdicts it collects, what it delivers    *)
(* and whether it merges.                                                  *)
(*                                                                         *)
(* The run is sequential; the world is not.  While a stage or a call is    *)
(* awaited, the kill switch is pressed, the caps are reached, the ticket   *)
(* is taken away, somebody pushes to the PR branch, and siblings merge to  *)
(* main.  Code between two awaits is one step here.                        *)
(*                                                                         *)
(* Of the commits the model keeps only how they stand to the HEAD of the   *)
(* worktree: the gates passed on it, the recorded SHA names it, the PR     *)
(* branch is at it, it contains all of main.                               *)
(***************************************************************************)
EXTENDS Naturals

CONSTANTS
    TasteRounds,         \* config.caps.tasteRounds
    VerifierIterations,  \* config.caps.verifierIterations
    MergeAttempts,       \* MERGE_RETRY_ATTEMPTS (3 in the code)
    MaxFaults,           \* bound: calls to Linear, GitHub, git or the store that fail
    MaxStops,            \* bound: times the drain is entered
    MaxTrouble           \* bound: faults, stops, and of the cap, the loss of the claim and
                         \* a push by somebody else those that hold

ASSUME PipelineAssumption ==
    /\ TasteRounds \in Nat \ {0} /\ VerifierIterations \in Nat /\ MergeAttempts \in Nat \ {0}
    /\ MaxFaults \in Nat /\ MaxStops \in Nat /\ MaxTrouble \in Nat

Stage == {"implementer", "reviewers", "fallback", "fixer", "taste", "tasteFix",
          "escalate", "repair", "tester", "security"}

VARIABLES
    pc,        \* the stage or call that is awaited
    resumed,   \* the stage resumes an earlier session
    round,     \* rounds of the present loop: taste, repair, merge attempts
    escalated, \* the one tier escalation is used up
    doomed,    \* the stage was aborted: "no", by the kill "switch", by claim "loss"
    review, taste, browser, security, \* verdicts: "ok" is a pass or nothing due; "none" an
               \* error, an unreadable answer or "uncertain"; "transient" an error of the provider
    folds,     \* further reasons to hold: "guarded", "ratchet", "integrity"
    act,       \* the ladder decided to merge
    green,     \* the last gates run passed, on HEAD
    gated,     \* gatedHeadSha, then the pinned SHA: "none", "head", "older"
    pr,        \* the PR branch on GitHub: "head", "older" (or not there), "foreign"
    behind,    \* HEAD lacks commits of main on GitHub
    merged,    \* the pull request is merged
    result,    \* what mergePr returned last: "none", "ok", "failed"
    outcome,   \* of the last run_finished event
    again,     \* ghost: a second run_finished was emitted
    draining, capped, lost, \* drain mode; budget or deadline; the claim on the board
    late,      \* ghost: stages started since the drain was entered
    lateCut,   \* ghost: the budget ran out between the two questions around the claim check
               \* before the design review (loop.ts 948 and 973)
    faults, stops           \* the bounded counters

verdicts == <<review, taste, browser, security, folds>>
commits == <<green, gated, pr, behind>>
ending == <<act, merged, result, outcome, again>>
loops == <<round, escalated>>
world == <<draining, capped, lost, stops>>
vars == <<pc, resumed, loops, doomed, verdicts, commits, ending, world, late, lateCut, faults>>

Init ==
    /\ pc = "claimed" /\ resumed = FALSE /\ round = 0 /\ escalated = FALSE /\ doomed = "no"
    /\ review = "none" /\ taste = "ok" /\ browser = "ok" /\ security = "ok" /\ folds = {}
    /\ green = FALSE /\ gated = "none" /\ pr = "older" /\ behind = FALSE
    /\ act = FALSE /\ merged = FALSE /\ result = "none" /\ outcome = "none" /\ again = FALSE
    /\ draining = FALSE /\ capped = FALSE /\ lost = FALSE /\ late = 0 /\ lateCut = FALSE
    /\ faults = 0 /\ stops = 0

-----------------------------------------------------------------------------
\* budgetExpired: a drain counts as an empty budget.
Expired == draining \/ capped

Goto(l) == pc' = l /\ resumed' = FALSE /\ doomed' = "no" /\ UNCHANGED <<late, lateCut>>

\* runStage: a new abort controller; the stage itself asks neither the drain nor the
\* cap.  It resumes an earlier session, or starts from cold; n of them at once.
StartAll(s, resume, n) ==
    /\ pc' = s /\ resumed' = resume /\ doomed' = "no"
    /\ late' = IF draining THEN late + n ELSE late
    /\ UNCHANGED lateCut
Start(s, resume) == StartAll(s, resume, 1)
Begin(s) == Start(s, FALSE)

\* run_finished with an outcome; the run goes on to release the ticket, or is over.
Report(o, l) == Goto(l) /\ outcome' = o /\ again' = (again \/ outcome # "none")

\* park; a reason that says "claim lost" is abandoned instead.  abortExternal.
Park == Report(IF doomed = "loss" THEN "aborted" ELSE "parked", "done")
Abandon == Report("aborted", "done")

Count(b) == IF b THEN 1 ELSE 0
Trouble == faults + stops + Count(capped) + Count(lost) + Count(pr = "foreign") < MaxTrouble

Fault == faults < MaxFaults /\ Trouble /\ faults' = faults + 1

\* commitAll, when there is something to commit: HEAD is a new commit.
Outdated(x) == IF x = "head" THEN "older" ELSE x
NewHead == green' = FALSE /\ gated' = Outdated(gated) /\ pr' = Outdated(pr)
Commit == (NewHead \/ UNCHANGED <<green, gated, pr>>) /\ UNCHANGED behind

\* The await of a call (a read, a comment, a git command) that throws: the outer catch.
Throw ==
    /\ pc \in {"ready", "checkCode", "reviewed", "fixReady", "checkFix", "checkTaste", "verify",
               "testReady", "guards", "checkDeliver", "decide", "checkMerge", "regate"}
    /\ Fault /\ Park
    /\ UNCHANGED <<loops, verdicts, commits, act, merged, result, world>>

\* stillOurs: yes, or abandon the run.
Ours == ~lost
Lost(l) ==
    /\ pc = l /\ lost /\ Abandon
    /\ UNCHANGED <<loops, verdicts, commits, act, merged, result, world, faults>>
Abandoned == \E l \in {"checkCode", "checkFix", "checkTaste", "checkDeliver", "checkMerge"} : Lost(l)

-----------------------------------------------------------------------------
\* Workspace, dependencies, routing, freshness; then the first look at the budget.
Prepare ==
    /\ pc = "claimed"
    /\ \/ Park
       \/ Report("stale", "done")
       \/ ~Expired /\ Goto("ready") /\ UNCHANGED <<outcome, again>>
    /\ UNCHANGED <<loops, verdicts, commits, act, merged, result, world, faults>>

\* The lessons, the owner's directive and the session row are read in between.
Implement ==
    /\ pc = "ready" /\ (\E resume \in BOOLEAN : Start("implementer", resume))
    /\ UNCHANGED <<loops, verdicts, commits, ending, world, faults>>

\* A stage that writes and may have resumed a session: an error is retried once from
\* cold, with no look at the drain, the cap or the claim.
Retry(s) ==
    /\ pc = s /\ resumed
    /\ Begin(s)
    /\ UNCHANGED <<loops, verdicts, commits, ending, world, faults>>
GiveUp(s) ==
    /\ pc = s /\ ~resumed /\ Park
    /\ UNCHANGED <<loops, verdicts, commits, act, merged, result, world, faults>>
Worked(s) == pc = s /\ doomed = "no"

\* The implementer's work is committed; nothing to commit and no budget both park.
Implemented ==
    /\ Worked("implementer") /\ Commit
    /\ \/ Park
       \/ ~Expired /\ Goto("checkCode") /\ UNCHANGED <<outcome, again>>
    /\ UNCHANGED <<loops, verdicts, act, merged, result, world, faults>>

\* From the claim check straight to the two reviewers, started together.
Review ==
    /\ pc = "checkCode" /\ Ours
    /\ \/ StartAll("reviewers", FALSE, 2) /\ UNCHANGED <<outcome, again>>
       \/ Park \* the diff cannot be computed
    /\ UNCHANGED <<loops, verdicts, commits, act, merged, result, world, faults>>

\* Promise.all: the spec leg's verdict counts as it is, an error or an empty answer
\* of the repo leg is made up for by the fallback.  An abort finds one of the two at
\* least still at work.
Reviewed ==
    /\ pc = "reviewers"
    /\ \E spec, repo \in BOOLEAN :
         /\ doomed # "no" => ~(spec /\ repo)
         /\ review' = IF spec THEN "ok" ELSE "none"
         /\ IF repo THEN Goto("reviewed") ELSE Begin("fallback")
    /\ UNCHANGED <<loops, taste, browser, security, folds, commits, ending, world, faults>>
FellBack ==
    /\ pc = "fallback" /\ Goto("reviewed")
    /\ \/ doomed = "no" /\ UNCHANGED review
       \/ review' = "none"
    /\ UNCHANGED <<loops, taste, browser, security, folds, commits, ending, world, faults>>

\* Mutant of BeforeFix: the budget is not asked again after the reviews.
BeforeFixUnchecked ==
    /\ pc = "reviewed" /\ Goto("fixReady")
    /\ UNCHANGED <<loops, verdicts, commits, ending, world, faults>>

BeforeFix ==
    /\ pc = "reviewed"
    /\ IF Expired THEN Park ELSE Goto("fixReady") /\ UNCHANGED <<outcome, again>>
    /\ UNCHANGED <<loops, verdicts, commits, act, merged, result, world, faults>>
Fix ==
    /\ pc = "fixReady" /\ (\E resume \in BOOLEAN : Start("fixer", resume))
    /\ UNCHANGED <<loops, verdicts, commits, ending, world, faults>>
\* Mutant of Fixed: the budget is not asked again after the fixer.
FixedUnchecked ==
    /\ Worked("fixer") /\ Commit /\ Goto("checkFix")
    /\ UNCHANGED <<loops, verdicts, ending, world, faults>>

Fixed ==
    /\ Worked("fixer") /\ Commit
    /\ IF Expired THEN Park ELSE Goto("checkFix") /\ UNCHANGED <<outcome, again>>
    /\ UNCHANGED <<loops, verdicts, act, merged, result, world, faults>>

-----------------------------------------------------------------------------
\* The taste gate: a UI diff, while there is budget.  Without budget it is passed
\* over, and nothing remembers that it was due.
Taste ==
    /\ pc = "checkFix" /\ Ours
    /\ \E ui \in BOOLEAN :
         IF ui /\ ~Expired
           THEN Begin("taste") /\ taste' = "none" /\ round' = 1
           ELSE Goto("verify") /\ taste' = (IF ui THEN "skipped" ELSE "ok") /\ round' = 0
    /\ UNCHANGED <<escalated, review, browser, security, folds, commits, ending, world, faults>>

RoundLeft == round < TasteRounds

Tasted ==
    /\ pc = "taste"
    /\ taste' \in IF doomed = "no" THEN {"ok", "fail", "none", "transient"} ELSE {"none"}
    /\ IF taste' = "fail" /\ RoundLeft /\ ~Expired THEN Begin("tasteFix") ELSE Goto("checkTaste")
    /\ UNCHANGED <<loops, review, browser, security, folds, commits, ending, world, faults>>

\* Mutant of TasteFixed: the rounds are not counted.
TasteFixedUncounted ==
    /\ pc = "tasteFix" /\ Commit
    /\ IF Expired THEN Goto("checkTaste") ELSE Begin("taste")
    /\ UNCHANGED <<loops, verdicts, ending, world, faults>>

\* Whatever became of the design fixer, the diff is reviewed again; out of budget,
\* the failing verdict stands.
TasteFixed ==
    /\ pc = "tasteFix" /\ Commit
    /\ round' = round + 1
    /\ IF Expired THEN Goto("checkTaste") ELSE Begin("taste")
    /\ UNCHANGED <<escalated, verdicts, ending, world, faults>>
TasteDone ==
    /\ pc = "checkTaste" /\ Ours /\ Goto("verify") /\ round' = 0
    /\ UNCHANGED <<escalated, verdicts, commits, ending, world, faults>>

-----------------------------------------------------------------------------
\* headSha: the commit, or nothing where git fails.
Recorded ==
    \/ gated' = "head" /\ UNCHANGED faults
    \/ gated' = "none" /\ Fault

\* The SHA that the evidence describes is recorded, and a diff that is not trivial
\* is reviewed for security, while there is budget.
ToSecurity ==
    /\ Recorded
    /\ \E big \in BOOLEAN :
         IF big /\ ~Expired THEN Begin("security") /\ security' = "none"
                            ELSE Goto("guards") /\ security' = IF big THEN "none" ELSE "ok"

\* The gates run on HEAD.  Red buys one escalation, then repair rounds, then a park.
VerifyRed ==
    /\ pc = "verify" /\ green' = FALSE
    /\ \/ ~Expired /\ ~escalated /\ round = 0
          /\ Begin("escalate") /\ escalated' = TRUE /\ UNCHANGED <<round, outcome, again>>
       \/ ~Expired /\ round < VerifierIterations
          /\ Begin("repair") /\ round' = round + 1 /\ UNCHANGED <<escalated, outcome, again>>
       \/ (Expired \/ round >= VerifierIterations) /\ Park /\ UNCHANGED <<round, escalated>>
    /\ UNCHANGED <<verdicts, gated, pr, behind, act, merged, result, world, faults>>

\* Its error is not looked at: the gates judge the worktree.
Repaired ==
    /\ pc \in {"escalate", "repair"} /\ Commit /\ Goto("verify")
    /\ UNCHANGED <<loops, verdicts, ending, world, faults>>

\* Green: the test-count ratchet, then the tester where a browser can be driven,
\* while there is budget.
VerifyGreen ==
    /\ pc = "verify" /\ green' = TRUE
    /\ folds' \in {folds, folds \cup {"ratchet"}}
    /\ \E required, drivable \in BOOLEAN :
         /\ required => drivable
         /\ browser' = IF required THEN "missing" ELSE "ok"
         /\ IF drivable /\ ~Expired THEN Goto("testReady") /\ UNCHANGED <<security, gated, faults>>
                                    ELSE ToSecurity
    /\ UNCHANGED <<loops, review, taste, pr, behind, ending, world>>
Test ==
    /\ pc = "testReady" /\ (\E resume \in BOOLEAN : Start("tester", resume))
    /\ UNCHANGED <<loops, verdicts, commits, ending, world, faults>>

\* No verdict reads as no run.
Tested ==
    /\ pc = "tester" /\ ToSecurity
    /\ \/ doomed = "no" /\ browser' \in {browser, "ok", "fail"}
       \/ ~resumed /\ UNCHANGED browser
    /\ UNCHANGED <<loops, review, taste, folds, green, pr, behind, ending, world>>

Secured ==
    /\ pc = "security" /\ Goto("guards")
    /\ security' \in IF doomed = "no" THEN {"ok", "fail", "none", "transient"} ELSE {"none"}
    /\ UNCHANGED <<loops, review, taste, browser, folds, commits, ending, world, faults>>

\* Removed tests park; guarded paths, or a diff that cannot be read, hold.
Guards ==
    /\ pc = "guards"
    /\ \/ Park /\ UNCHANGED folds
       \/ /\ Goto("checkDeliver") /\ folds' \in {folds, folds \cup {"guarded"}}
          /\ UNCHANGED <<outcome, again>>
    /\ UNCHANGED <<loops, review, taste, browser, security, commits, act, merged, result, world, faults>>

-----------------------------------------------------------------------------
\* A review that a provider error cut short parks for another try, before any push;
\* else the branch is pushed and the pull request opened.
Deliver ==
    /\ pc = "checkDeliver" /\ Ours
    /\ IF ~Expired /\ "transient" \in {taste, security}
         THEN Park /\ UNCHANGED pr
         ELSE pr # "foreign" /\ pr' = "head" /\ Goto("decide") /\ UNCHANGED <<outcome, again>>
    /\ UNCHANGED <<loops, verdicts, green, gated, behind, act, merged, result, world, faults>>

\* The push is refused, because somebody else pushed, or no pull request is opened.
NotDelivered ==
    /\ pc = "checkDeliver" /\ Ours /\ Park
    /\ \/ pr = "foreign" /\ UNCHANGED <<pr, faults>>
       \/ pr # "foreign" /\ pr' = "head" /\ Fault
    /\ UNCHANGED <<loops, verdicts, green, gated, behind, act, merged, result, world>>

\* A review that was due came to no verdict, or to an undecided one.
Absent(v) == v \in {"none", "transient"}

\* holdReasons, and the rest of decideMerge.
Holds ==
    \/ folds # {} \/ review = "none" \/ browser = "fail"
    \/ \E v \in {taste, security} : v = "fail" \/ Absent(v)
WouldMerge == green /\ ~Holds /\ browser # "missing"

\* The tier, the strength of the gates and a deferral for dependencies may each
\* keep a clean run from merging.
Decide ==
    /\ pc = "decide" /\ Goto("checkMerge")
    /\ act' \in {FALSE, WouldMerge}
    /\ UNCHANGED <<loops, verdicts, commits, merged, result, outcome, again, world, faults>>

\* preMergeIntegrity: refresh main, and merge it into a branch that is behind.
\* Whatever fails folds into a hold.
Hold == folds' = folds \cup {"integrity"} /\ act' = FALSE /\ Goto("record")
Preflight ==
    /\ pc = "checkMerge" /\ Ours
    /\ \/ ~act /\ Goto("record") /\ UNCHANGED <<folds, act, commits, round, faults>>
       \/ act /\ gated = "none" /\ Hold /\ UNCHANGED <<commits, round, faults>>
       \/ act /\ Fault /\ Hold /\ UNCHANGED <<commits, round>>
       \/ act /\ gated # "none" /\ ~behind /\ Goto("merge") /\ round' = 1
          /\ UNCHANGED <<folds, act, commits, faults>>
       \/ act /\ gated # "none" /\ behind /\ Hold /\ UNCHANGED <<commits, round, faults>> \* conflict
       \/ act /\ gated # "none" /\ behind /\ NewHead /\ behind' = FALSE /\ Goto("regate")
          /\ UNCHANGED <<folds, act, round, faults>>
    /\ UNCHANGED <<escalated, review, taste, browser, security, merged, result, outcome, again, world>>

\* Mutant of Regate: the branch that now contains main is pushed on its old green.
RegateSkipped ==
    /\ pc = "regate" /\ UNCHANGED green
    /\ IF pr # "foreign" THEN pr' = "head" /\ gated' = "head" /\ Goto("merge") /\ round' = 1
                                /\ UNCHANGED <<folds, act>>
                         ELSE Hold /\ UNCHANGED <<pr, gated, round>>
    /\ UNCHANGED <<escalated, review, taste, browser, security, behind,
                   merged, result, outcome, again, world, faults>>

\* The gates again, on the combined head; green is pushed, and pinned.
Regate ==
    /\ pc = "regate" /\ green' \in BOOLEAN
    /\ IF green' /\ pr # "foreign"
         THEN /\ pr' = "head" /\ Recorded
              /\ IF gated' = "head" THEN Goto("merge") /\ round' = 1 /\ UNCHANGED <<folds, act>>
                                    ELSE Hold /\ UNCHANGED round
         ELSE Hold /\ UNCHANGED <<pr, gated, round, faults>>
    /\ UNCHANGED <<escalated, review, taste, browser, security, behind,
                   merged, result, outcome, again, world>>

\* mergePr, pinned: GitHub refuses a branch that is elsewhere.  A transient failure,
\* which may hide a merge that took effect, is retried with the same pin.
Pinned == gated = "head" /\ pr = "head"
Merge ==
    /\ pc = "merge"
    /\ \/ (Pinned \/ merged) /\ merged' = TRUE /\ result' = "ok" /\ Goto("record")
          /\ UNCHANGED <<folds, round, faults>>
       \/ ~Pinned /\ ~merged /\ folds' = folds \cup {"integrity"} /\ result' = "failed" /\ Goto("record")
          /\ UNCHANGED <<merged, round, faults>>
       \/ Fault /\ merged' \in {merged, merged \/ Pinned} /\ result' = "failed"
          /\ \/ round < MergeAttempts /\ round' = round + 1 /\ Goto("merge")
             \/ Goto("record") /\ UNCHANGED round
          /\ UNCHANGED folds
    /\ UNCHANGED <<escalated, review, taste, browser, security, commits, act, outcome, again, world>>

\* Mutant of Outcome: stamped from the decision, before the merge was attempted.
OutcomeDecided == IF act THEN "merged" ELSE IF Holds THEN "needs_human" ELSE "pr_open"

Outcome == IF result = "ok" THEN "merged" ELSE IF Holds THEN "needs_human" ELSE "pr_open"

\* run_finished; then the report, the ladder's record and the approval item.
Record ==
    /\ pc = "record" /\ Report(Outcome, "close")
    /\ UNCHANGED <<loops, verdicts, commits, act, merged, result, world, faults>>

\* The board: best effort for a hold and for a refused merge.  The move to review or
\* to done, the ladder's record and the release go through the outer catch.
Close ==
    /\ pc = "close"
    /\ \/ Goto("done") /\ UNCHANGED <<outcome, again, faults>>
       \/ Fault /\ Park
    /\ UNCHANGED <<loops, verdicts, commits, act, merged, result, world>>

RunStep ==
    \/ Throw \/ Abandoned \/ Prepare \/ Implement \/ Implemented
    \/ (\E s \in {"implementer", "fixer"} : Retry(s) \/ GiveUp(s)) \/ Retry("tester")
    \/ Review \/ Reviewed \/ FellBack \/ BeforeFix \/ Fix \/ Fixed
    \/ Taste \/ Tasted \/ TasteFixed \/ TasteDone
    \/ VerifyRed \/ Repaired \/ VerifyGreen \/ Test \/ Tested \/ Secured \/ Guards
    \/ Deliver \/ NotDelivered \/ Decide \/ Preflight \/ Regate \/ Merge \/ Record \/ Close

-----------------------------------------------------------------------------
run == <<pc, resumed, loops, verdicts, green, gated, ending, faults>>

\* killSwitch aborts the stage in flight, unless it rests between two attempts; the
\* spend cap only enters the drain.  The first reason wins.
Stop ==
    /\ ~draining /\ stops < MaxStops /\ Trouble
    /\ draining' = TRUE /\ stops' = stops + 1 /\ late' = 0
    /\ doomed' \in {doomed, IF pc \in Stage THEN "switch" ELSE doomed}
    /\ lateCut' = (lateCut \/ pc = "checkFix")
    /\ UNCHANGED <<run, pr, behind, capped, lost>>
Resume ==
    /\ draining /\ draining' = FALSE /\ late' = 0
    /\ UNCHANGED <<run, doomed, pr, behind, capped, lost, stops, lateCut>>
CapReached ==
    /\ ~capped /\ Trouble /\ capped' = TRUE
    /\ lateCut' = (lateCut \/ pc = "checkFix")
    /\ UNCHANGED <<run, doomed, pr, behind, draining, lost, stops, late>>

\* A human takes the ticket; a later reconcile pass aborts the stage.
TakenAway == ~lost /\ Trouble /\ lost' = TRUE /\ UNCHANGED <<run, doomed, pr, behind, draining, capped, stops, late, lateCut>>
LossSwept ==
    /\ lost /\ pc \in Stage /\ doomed = "no" /\ doomed' = "loss"
    /\ UNCHANGED <<run, pr, behind, world, late, lateCut>>

MainMoves == ~behind /\ ~merged /\ behind' = TRUE /\ UNCHANGED <<run, doomed, pr, world, late, lateCut>>
BranchMoves ==
    /\ pr # "foreign" /\ ~merged /\ Trouble /\ pr' = "foreign"
    /\ UNCHANGED <<run, doomed, behind, world, late, lateCut>>

Environment == Stop \/ Resume \/ CapReached \/ TakenAway \/ LossSwept \/ MainMoves \/ BranchMoves

Ended == pc = "done" /\ UNCHANGED vars

Next == RunStep \/ (pc # "done" /\ Environment) \/ Ended

\* The run is a chain of awaited promises, and every stage has a deadline.
Spec == Init /\ [][Next]_vars
FairSpec == Spec /\ WF_vars(RunStep)

-----------------------------------------------------------------------------
Place == Stage \cup {"claimed", "ready", "checkCode", "reviewed", "fixReady", "checkFix", "checkTaste",
                     "verify", "testReady", "guards", "checkDeliver", "decide", "checkMerge", "regate",
                     "merge", "record", "close", "done"}

\* Every variable keeps its type.
TypeOK ==
    /\ pc \in Place /\ resumed \in BOOLEAN /\ escalated \in BOOLEAN
    /\ round \in 0 .. TasteRounds \cup 0 .. VerifierIterations \cup 0 .. MergeAttempts
    /\ doomed \in {"no", "switch", "loss"}
    /\ review \in {"ok", "none"}
    /\ taste \in {"ok", "skipped", "fail", "none", "transient"}
    /\ browser \in {"ok", "missing", "fail"}
    /\ security \in {"ok", "fail", "none", "transient"}
    /\ folds \subseteq {"guarded", "ratchet", "integrity"}
    /\ act \in BOOLEAN /\ merged \in BOOLEAN /\ again \in BOOLEAN
    /\ green \in BOOLEAN /\ behind \in BOOLEAN
    /\ gated \in {"none", "head", "older"} /\ pr \in {"head", "older", "foreign"}
    /\ result \in {"none", "ok", "failed"}
    /\ outcome \in {"none", "aborted", "stale", "parked", "needs_human", "pr_open", "merged"}
    /\ draining \in BOOLEAN /\ capped \in BOOLEAN /\ lost \in BOOLEAN
    /\ late \in Nat /\ lateCut \in BOOLEAN /\ faults \in 0 .. MaxFaults /\ stops \in 0 .. MaxStops

\* What is merged is what the gates passed: the very commit, on the branch that
\* GitHub has, whatever was committed, pushed or merged to main on the way.
MergedIsGated == merged => green /\ Pinned

\* Nothing merges past a hold: each review that was due came back with a pass, even
\* where the stage failed, was aborted, or ran into the caps.  One path is left open by
\* the code, and only that one: where the drain is entered, or a cap reached, during the
\* one await between the two questions about the budget before the design review, the
\* review of a UI diff is passed over and forgotten (loop.ts 948-973, see
\* TasteNeverSkipped).  A budget that ran out at any other time parks the run or holds.
MergedIsReviewed ==
    merged =>
        /\ folds = {} /\ review = "ok" /\ browser = "ok" /\ security = "ok"
        /\ taste = "ok" \/ (taste = "skipped" /\ lateCut)

\* loop.ts 378-384: the button stops the spend at the next stage boundary.  What can
\* still start after it is what is past its last question: the two reviewers, who start
\* together, and the fallback of one of them; or one stage and its cold retry.
StopHaltsSoon == late <= 3

\* The one outcome that is reported is what happened on GitHub: "merged" is never said
\* of a pull request that is not, whatever fails; and as long as no call fails there is
\* one report, and it says "merged" of each one that is.
OutcomeTruthful ==
    /\ outcome = "merged" => merged
    /\ pc = "done" /\ faults = 0 => ~again /\ (merged <=> outcome = "merged")

\* Every run comes to an end, whatever the gates and the reviews say.
RunEnds == <>(pc = "done")

\* loop.ts 956-959: a design review that never produced a verdict folds to needs_human
\* "rather than being waved through as an implicit pass".  The code does not keep this:
\* MergedIsReviewed says how far it goes.
TasteNeverSkipped == merged => taste # "skipped"

\* loop.ts 1666-1668: "a PR is never merged except against the exact main its checks
\* last passed on".
MergedOnCurrentMain == merged => ~behind
=============================================================================
