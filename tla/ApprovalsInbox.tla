--------------------------- MODULE ApprovalsInbox ----------------------------
(***************************************************************************)
(* The human lane of one ticket: the cards that runs file for their open   *)
(* pull requests, the two buttons of the dashboard, the reconcile pass     *)
(* that retires cards, and the owner's directive on its way from a         *)
(* pushback to the next run's prompt.                                      *)
(*                                                                         *)
(* Everything that waits for the store, for Linear or for another model    *)
(* stage is a step of its own: several requests, the pass and the run      *)
(* interleave, and the store serves them over a pool of connections, so    *)
(* two statements of different callers take effect in either order.        *)
(* Calls to git and GitHub are synchronous and belong to the step they are *)
(* made in.                                                                *)
(***************************************************************************)
EXTENDS Naturals, Sequences

CONSTANTS
    Owner,           \* the requests that may be under way at once (browser tabs, clicks)
    InsertAttempts,  \* MAX_APPROVAL_INSERT_ATTEMPTS (3 in the code)
    MaxRuns,         \* bound: runs of the ticket
    MaxSaid,         \* bound: directives that are recorded
    MaxFaults,       \* bound: calls to Linear, GitHub or the store that fail
    MaxByHand,       \* bound: what humans do on the board and on GitHub
    MaxCrashes,      \* bound: the process dies
    MaxTrouble       \* bound: faults, hands and crashes together

ASSUME InboxAssumption ==
    /\ InsertAttempts \in Nat \ {0}
    /\ MaxRuns \in Nat /\ MaxSaid \in Nat /\ MaxFaults \in Nat /\ MaxByHand \in Nat
    /\ MaxCrashes \in Nat /\ MaxTrouble \in Nat

VARIABLES
    cards,     \* approvals rows by id: status, pull request, gated SHA (0: none recorded)
    prs,       \* pull requests of the ticket: state, head, the card it was merged for (0: none)
    commits,   \* commits made so far; a SHA is the number of its commit
    directive, \* the row of pushback_feedback: the number of a directive, 0 without a row
    about,     \* ghost: for each directive ever recorded, the card it was said about
    lane,      \* of the ticket: "queue", "working", or "rest" where only humans move it
    run,       \* the run in flight: its place, the directive it took, its pull request (0
               \* before it delivered), the SHA its gates passed, its attempts to file
    spent,     \* ghost: the last directive that a delivering run had taken
    req,       \* each request: its place, its card, the status it is about to write
    rec,       \* the reconcile pass: its place, the card, the status it is about to write
    burned,    \* ghost: the directives that a failed statement or a dying run has lost
    stranded,  \* ghost: the cards whose request ended without writing their outcome
    runs, faults, byHand, crashes  \* the bounded counters

github == <<prs, commits>>
mishaps == <<faults, byHand, crashes, burned, stranded>>  \* what went wrong, what it cost
vars == <<cards, github, directive, about, lane, run, spent, req, rec, runs, mishaps>>

NoRun == [at |-> "none", held |-> 0, pr |-> 0, sha |-> 0, tries |-> 0]
Idle == [at |-> "idle", card |-> 0, to |-> "pending"]

Init ==
    /\ cards = <<>> /\ prs = <<>> /\ commits = 0
    /\ directive = 0 /\ about = <<>> /\ spent = 0
    /\ lane = "queue" /\ run = NoRun
    /\ req = [o \in Owner |-> Idle] /\ rec = Idle
    /\ burned = {} /\ stranded = {} /\ runs = 0 /\ faults = 0 /\ byHand = 0 /\ crashes = 0

-----------------------------------------------------------------------------
Trouble == faults + byHand + crashes < MaxTrouble
Fine == UNCHANGED mishaps

\* A call fails.  A statement of the store that fails may or may not have taken effect:
\* its connection can go before or after the commit.
Loses(words, claims) ==
    /\ faults < MaxFaults /\ Trouble /\ faults' = faults + 1 /\ UNCHANGED <<byHand, crashes>>
    /\ burned' = burned \cup words /\ stranded' = stranded \cup claims
Fault == Loses({}, {})

Pending == {c \in DOMAIN cards : cards[c].status = "pending"}
SetStatus(c, s) == cards' = [cards EXCEPT ![c].status = s]

\* The branch's open pull request moves with a push; without one a push opens the next.
PushOf(sha) ==
    IF prs # <<>> /\ prs[Len(prs)].state = "open"
      THEN [prs EXCEPT ![Len(prs)].head = sha]
      ELSE Append(prs, [state |-> "open", head |-> sha, for |-> 0])

-----------------------------------------------------------------------------
\* The run.  A tick launches it from the queue; ClaimLifecycle has the details.
RunBegins ==
    /\ run.at = "none" /\ lane = "queue" /\ runs < MaxRuns
    /\ run' = [NoRun EXCEPT !.at = "begun"] /\ lane' = "working" /\ runs' = runs + 1
    /\ UNCHANGED <<cards, github, directive, about, spent, req, rec, mishaps>>

\* ownerFeedbackHandoff.take, at the implementer's prompt: read and delete in one
\* statement.  A failure parks the run with nothing in its hands.
RunTakes ==
    /\ run.at = "begun"
    /\ \/ /\ run' = [run EXCEPT !.at = "took", !.held = directive] /\ directive' = 0
          /\ UNCHANGED lane /\ Fine
       \/ /\ run' = [run EXCEPT !.at = "settle"] /\ lane' = "rest"
          /\ \/ UNCHANGED directive /\ Fault
             \/ directive' = 0 /\ Loses({directive} \ {0}, {})
    /\ UNCHANGED <<cards, github, about, spent, req, rec, runs>>

\* Each way to end before a pull request exists: parked, or, where the ticket is not in
\* the working lane any more, abandoned.
RunGivesUp ==
    /\ run.at \in {"begun", "took"} /\ run' = [run EXCEPT !.at = "settle"]
    /\ lane' \in {"rest"} \cup ({lane} \ {"working"})
    /\ UNCHANGED <<cards, github, directive, about, spent, req, rec, runs, mishaps>>

\* Push and createPr; the claim was read just before.  A pull request that cannot be
\* opened parks the run although the branch has moved.
RunDelivers ==
    /\ run.at = "took" /\ lane = "working"
    /\ commits' = commits + 1
    /\ \/ /\ prs' = PushOf(commits + 1)
          /\ \E sha \in {0, commits + 1} :
               run' = [run EXCEPT !.at = "delivered", !.pr = Len(prs'), !.sha = sha]
          /\ spent' = (IF run.held # 0 THEN run.held ELSE spent) /\ Fine /\ UNCHANGED lane
       \/ /\ prs' \in {prs, IF Len(PushOf(commits + 1)) = Len(prs) THEN PushOf(commits + 1) ELSE prs}
          /\ run' = [run EXCEPT !.at = "settle"] /\ lane' = "rest"
          /\ Fault /\ UNCHANGED spent
    /\ UNCHANGED <<cards, directive, about, req, rec, runs>>

\* The claim is read once more before the merge decision; without it, or after an error,
\* the run ends with a pull request and no card.
RunAbandons ==
    /\ run.at = "delivered" /\ run' = [run EXCEPT !.at = "settle"]
    /\ \/ lane # "working" /\ UNCHANGED lane /\ Fine
       \/ lane' = "rest" /\ Fault
    /\ UNCHANGED <<cards, github, directive, about, spent, req, rec, runs>>

\* The ladder merges, pinned to the gated SHA; a failed call may hide that it did.
Fresh(p, sha) == sha # 0 /\ prs[p].state = "open" /\ prs[p].head = sha
RunMerges ==
    /\ run.at = "delivered" /\ lane = "working" /\ Fresh(run.pr, run.sha)
    /\ prs' = [prs EXCEPT ![run.pr].state = "merged"]
    /\ \/ run' = [run EXCEPT !.at = "close"] /\ Fine
       \/ run' = [run EXCEPT !.at = "again"] /\ Fault
    /\ UNCHANGED <<cards, commits, directive, about, lane, spent, req, rec, runs>>

\* insertApproval is two statements: supersede what is pending, then insert; an insert
\* that meets a pending row starts over.  fileApproval swallows its errors.
Supersede == cards' = [c \in DOMAIN cards |->
    IF c \in Pending THEN [cards[c] EXCEPT !.status = "stale"] ELSE cards[c]]
File == Pending = {} /\ cards' = Append(cards, [status |-> "pending", pr |-> run.pr, sha |-> run.sha])

RunSupersedes ==
    /\ (run.at = "delivered" /\ lane = "working") \/ run.at = "again"
    /\ \/ Supersede /\ run' = [run EXCEPT !.at = "insert"] /\ Fine
       \/ (Supersede \/ UNCHANGED cards) /\ run' = [run EXCEPT !.at = "close"] /\ Fault
    /\ UNCHANGED <<github, directive, about, lane, spent, req, rec, runs>>
RunInserts ==
    /\ run.at = "insert"
    /\ \/ File /\ run' = [run EXCEPT !.at = "close"] /\ Fine
       \/ /\ Pending # {} /\ UNCHANGED cards /\ Fine
          /\ run' = [run EXCEPT !.at = IF run.tries + 1 < InsertAttempts THEN "again" ELSE "close",
                                !.tries = @ + 1]
       \/ (File \/ UNCHANGED cards) /\ run' = [run EXCEPT !.at = "close"] /\ Fault
    /\ UNCHANGED <<github, directive, about, lane, spent, req, rec, runs>>

\* The ticket goes to review, to needs-human or to done; nobody reads its claim again.
RunCloses ==
    /\ run.at = "close" /\ run' = [run EXCEPT !.at = "settle"] /\ lane' = "rest"
    /\ UNCHANGED <<cards, github, directive, about, spent, req, rec, runs, mishaps>>

\* restorePushbackFeedback: INSERT ... ON CONFLICT DO NOTHING.
Restored(old) == IF directive = 0 THEN old ELSE directive

\* The directive of a run that has not delivered, which owes it back.
Owed == IF run.pr = 0 THEN {run.held} \ {0} ELSE {}

\* ownerFeedbackHandoff.settle, in the finally of processIssue: where the statement
\* fails, the run ends all the same.
RunSettles ==
    /\ run.at = "settle" /\ run' = NoRun
    /\ \/ Owed = {} /\ UNCHANGED directive /\ Fine
       \/ Owed # {} /\ directive' = Restored(run.held) /\ (Fine \/ Fault)
       \/ Owed # {} /\ UNCHANGED directive /\ Loses(Owed, {})
    /\ UNCHANGED <<cards, github, about, lane, spent, req, rec, runs>>

RunStep ==
    \/ RunTakes \/ RunGivesUp \/ RunDelivers \/ RunAbandons \/ RunMerges \/ RunSupersedes
    \/ RunInserts \/ RunCloses \/ RunSettles

-----------------------------------------------------------------------------
Move(o, place, to) == req' = [req EXCEPT ![o].at = place, ![o].to = to]

\* Mutant of Claimable: the status is not looked at.
ClaimableAny(c) == c \in DOMAIN cards

\* claimApproval: UPDATE ... WHERE status = 'pending'.  Of a row only the status ever
\* changes, so what getApproval read before is what the handler acts on.
Claimable(c) == c \in Pending

\* The request shows the evidence the card carries; one that does not, or that finds
\* the card decided, changes nothing, and so does one whose claim fails before it takes
\* effect.  A claim that took effect and still failed ends the request too.
Claim(o, c, status, place) ==
    /\ req[o].at = "idle" /\ Claimable(c) /\ SetStatus(c, status)
    /\ \/ req' = [req EXCEPT ![o] = [at |-> place, card |-> c, to |-> "pending"]] /\ Fine
       \/ UNCHANGED req /\ Loses({}, {c})
    /\ UNCHANGED <<github, directive, about, lane, run, spent, rec, runs>>

Approve(o, c) == Claim(o, c, "approved", "decide")

\* No SHA and a moved head are stale; a head that cannot be read and a merge that fails
\* otherwise give the card back.  A failed call may hide a merge that took effect; a
\* merge of what is merged succeeds.
Decide(o) ==
    LET c == req[o].card
        p == cards[c].pr
        sha == cards[c].sha
        Merged == [prs EXCEPT ![p].state = "merged", ![p].for = IF @ = 0 THEN c ELSE @]
        Now(to, after) == Move(o, "finalize", to) /\ prs' = after
    IN  /\ req[o].at = "decide"
        /\ \/ sha = 0 /\ Now("stale", prs) /\ Fine
           \/ sha # 0 /\ prs[p].head # sha /\ Now("stale", prs) /\ Fine
           \/ Fresh(p, sha) /\ Now("approved", Merged) /\ Fine
           \/ sha # 0 /\ prs[p].head = sha /\ prs[p].state = "merged" /\ Now("approved", prs) /\ Fine
           \/ sha # 0 /\ prs[p].head = sha /\ prs[p].state = "closed" /\ Now("pending", prs) /\ Fine
           \/ sha # 0 /\ Now("pending", prs) /\ Fault
           \/ Fresh(p, sha) /\ Now("pending", Merged) /\ Fault
        /\ UNCHANGED <<cards, commits, directive, about, lane, run, spent, rec, runs>>

Pushback(o, c) == Len(about) < MaxSaid /\ Claim(o, c, "pushed_back", "comment")

\* The comment on the ticket; a failure gives the card back.
Comment(o) ==
    /\ req[o].at = "comment"
    /\ \/ Move(o, "record", "pending") /\ Fine
       \/ Move(o, "finalize", "pending") /\ Fault
    /\ UNCHANGED <<cards, github, directive, about, lane, run, spent, rec, runs>>

\* recordPushbackFeedback: one row per ticket, the last word wins.
Said(c) == about' = Append(about, c) /\ directive' = Len(about')
RecordFeedback(o) ==
    /\ req[o].at = "record"
    /\ \/ Said(req[o].card) /\ Move(o, "requeue", "pending") /\ Fine
       \/ (Said(req[o].card) \/ UNCHANGED <<about, directive>>)
          /\ Move(o, "finalize", "pending") /\ Fault
    /\ UNCHANGED <<cards, github, lane, run, spent, rec, runs>>

\* The hold labels come off and the ticket moves to the queue; where the move fails the
\* labels alone may have been what kept it out.
Requeue(o) ==
    /\ req[o].at = "requeue"
    /\ \/ lane' = "queue" /\ Move(o, "finalize", "pushed_back") /\ Fine
       \/ lane' \in {lane, "queue"} /\ Move(o, "finalize", "pending") /\ Fault
    /\ UNCHANGED <<cards, github, directive, about, run, spent, rec, runs>>

\* Mutant of Finalize: the outcome is never written, the claim stands in its place.
FinalizeNever(o) ==
    /\ req[o].at = "finalize"
    /\ req' = [req EXCEPT ![o] = IF req[o].to = "approved" THEN [@ EXCEPT !.at = "closeout"] ELSE Idle]
    /\ UNCHANGED <<cards, github, directive, about, lane, run, spent, rec, runs, mishaps>>

\* finalizeApproval: unconditional.  Only the index refuses a second pending row; then,
\* and where the statement fails, the request fails with its claim in place, or with the
\* outcome written all the same.
Refused(o) == req[o].to = "pending" /\ ~(Pending \subseteq {req[o].card})
Finalize(o) ==
    /\ req[o].at = "finalize"
    /\ \/ /\ ~Refused(o) /\ SetStatus(req[o].card, req[o].to)
          /\ \/ /\ Fine
                /\ req' = [req EXCEPT ![o] = IF req[o].to = "approved"
                                             THEN [@ EXCEPT !.at = "closeout"] ELSE Idle]
             \/ Fault /\ req' = [req EXCEPT ![o] = Idle]
       \/ /\ UNCHANGED cards /\ req' = [req EXCEPT ![o] = Idle]
          /\ (Refused(o) /\ Fine) \/ Loses({}, {req[o].card})
    /\ UNCHANGED <<github, directive, about, lane, run, spent, rec, runs>>

\* The board after an approved merge, best effort.
Closeout(o) ==
    /\ req[o].at = "closeout" /\ req' = [req EXCEPT ![o] = Idle]
    /\ \/ lane' = "rest" /\ Fine
       \/ UNCHANGED lane /\ Fault
    /\ UNCHANGED <<cards, github, directive, about, run, spent, rec, runs>>

ReqStep(o) ==
    Decide(o) \/ Comment(o) \/ RecordFeedback(o) \/ Requeue(o) \/ Finalize(o) \/ Closeout(o)

-----------------------------------------------------------------------------
\* reconcileTick, part 3: list, then look at each card's pull request, then write.
List ==
    /\ rec.at = "idle" /\ \E c \in Pending : rec' = [at |-> "look", card |-> c, to |-> "pending"]
    /\ UNCHANGED <<cards, github, directive, about, lane, run, spent, req, runs, mishaps>>

\* Mutant of RetiredTo: the card of a closed pull request is left alone.
RetiredToMerged(state) == IF state = "merged" THEN "approved" ELSE "pending"

RetiredTo(state) ==
    CASE state = "merged" -> "approved" [] state = "closed" -> "stale" [] OTHER -> "pending"

Look ==
    /\ rec.at = "look"
    /\ LET to == RetiredTo(prs[cards[rec.card].pr].state)
       IN  \/ rec' = (IF to = "pending" THEN Idle ELSE [rec EXCEPT !.at = "write", !.to = to]) /\ Fine
           \/ rec' = Idle /\ Fault
    /\ UNCHANGED <<cards, github, directive, about, lane, run, spent, req, runs>>
Write ==
    /\ rec.at = "write" /\ rec' = Idle
    /\ \/ SetStatus(rec.card, rec.to) /\ (Fine \/ Fault)
       \/ UNCHANGED cards /\ Fault
    /\ UNCHANGED <<github, directive, about, lane, run, spent, req, runs>>

Reconcile == List \/ Look \/ Write

-----------------------------------------------------------------------------
\* Humans on the board and on GitHub.
ByHand == /\ byHand < MaxByHand /\ Trouble /\ byHand' = byHand + 1
          /\ UNCHANGED <<faults, crashes, burned, stranded>>
MovesTicket ==
    /\ ByHand /\ \E l \in {"queue", "rest"} : lane # l /\ lane' = l
    /\ UNCHANGED <<cards, github, directive, about, run, spent, req, rec, runs>>
TouchesPr ==
    /\ ByHand /\ prs # <<>> /\ prs[Len(prs)].state = "open"
    /\ \/ \E s \in {"merged", "closed"} : prs' = [prs EXCEPT ![Len(prs)].state = s] /\ UNCHANGED commits
       \/ prs' = PushOf(commits + 1) /\ commits' = commits + 1
    /\ UNCHANGED <<cards, directive, about, lane, run, spent, req, rec, runs>>

\* Between the claim of a card and its outcome.
Undecided(o) == req[o].at \notin {"idle", "closeout"}

\* The process dies; the store and the board stay.  The sweep requeues the ticket.
Crash ==
    /\ crashes < MaxCrashes /\ Trouble /\ crashes' = crashes + 1 /\ UNCHANGED <<faults, byHand>>
    /\ burned' = burned \cup Owed
    /\ stranded' = stranded \cup {req[o].card : o \in {x \in Owner : Undecided(x)}}
    /\ run' = NoRun /\ req' = [o \in Owner |-> Idle] /\ rec' = Idle
    /\ UNCHANGED <<cards, github, directive, about, lane, spent, runs>>
Sweep ==
    /\ run.at = "none" /\ lane = "working" /\ lane' = "queue"
    /\ UNCHANGED <<cards, github, directive, about, run, spent, req, rec, runs, mishaps>>

Next ==
    \/ RunBegins \/ RunStep \/ Reconcile \/ MovesTicket \/ TouchesPr \/ Crash \/ Sweep
    \/ \E o \in Owner : ReqStep(o)
    \/ \E o \in Owner, c \in DOMAIN cards : Approve(o, c) \/ Pushback(o, c)

\* The pass comes with every few ticks; a request and a run are chains of awaits.
Spec == Init /\ [][Next]_vars
FairSpec ==
    /\ Spec /\ WF_vars(RunStep) /\ WF_vars(Reconcile)
    /\ \A o \in Owner : WF_vars(ReqStep(o))

-----------------------------------------------------------------------------
Status == {"pending", "approved", "pushed_back", "stale"}
Cards == DOMAIN cards
Prs == DOMAIN prs

\* Every variable keeps its type, and every reference its row.
TypeOK ==
    /\ cards \in Seq([status : Status, pr : Prs, sha : 0 .. commits])
    /\ prs \in Seq([state : {"open", "merged", "closed"}, head : 0 .. commits, for : {0} \cup Cards])
    /\ commits \in Nat
    /\ about \in Seq(Cards) /\ directive \in 0 .. Len(about) /\ spent \in 0 .. Len(about)
    /\ lane \in {"queue", "working", "rest"}
    /\ run \in [at : {"none", "begun", "took", "delivered", "again", "insert", "close", "settle"},
                held : 0 .. Len(about), pr : {0} \cup Prs, sha : 0 .. commits, tries : 0 .. InsertAttempts]
    /\ req \in [Owner -> [at : {"idle", "decide", "comment", "record", "requeue", "finalize", "closeout"},
                          card : {0} \cup Cards, to : Status]]
    /\ rec \in [at : {"idle", "look", "write"}, card : {0} \cup Cards, to : Status]
    /\ burned \subseteq 1 .. Len(about) /\ stranded \subseteq Cards
    /\ runs \in 0 .. MaxRuns /\ faults \in 0 .. MaxFaults /\ byHand \in 0 .. MaxByHand
    /\ crashes \in 0 .. MaxCrashes

AtWork(o) == req[o].at # "idle"
Latest == Len(about)

\* No two requests act on one card at a time: of two clicks, or of an approve and a
\* pushback, one gets the row, whatever runs and passes write to it in between.
DecidedOnce == \A o, x \in Owner : o # x /\ AtWork(o) /\ AtWork(x) => req[o].card # req[x].card

\* What was merged from the inbox is and stays approved: neither another request, nor a
\* newer run, nor the pass that decides from an older look rewrites it.
MergedStaysApproved ==
    faults = 0 => \A p \in Prs : prs[p].for # 0 => cards[prs[p].for].status = "approved"

\* An approved card that nobody works on is a merged pull request, or a newer card has
\* taken its place, as long as at most one thing goes wrong besides crashes: a failed call
\* or a human on GitHub.  No other card than the one whose own claim or outcome was cut
\* off, by the store or by a crash, is left with a claim that was never carried out.
ApprovedIsMerged ==
    faults + byHand <= 1 =>
        \A c \in Cards \ stranded :
            cards[c].status = "approved" /\ (\A o \in Owner : AtWork(o) => req[o].card # c) =>
                prs[cards[c].pr].state = "merged" \/ c # Len(cards)

\* The owner's last word is never overruled by an older one, and it is stored, or the run
\* in flight holds it, or a run that held it has delivered: only a take or a give-back
\* that fails in the store, or a crash of the run that holds it, loses it.
LastWordKept ==
    /\ Latest \in {directive, run.held, spent} \cup burned
    /\ directive \in {0, Latest}

\* A card whose pull request was merged or closed by other means leaves the inbox.
CardsRetire ==
    \A c \in 1 .. MaxRuns :
        (c \in Pending /\ prs[cards[c].pr].state # "open") ~> (c \notin Pending)

\* db.ts 179-183: a directive is consumed once, "so stale direction can never resurrect
\* on a later unrelated re-run": where a run begins, none waits for it that was said
\* about a card approved and merged before.
NoStaleDirective ==
    [][run.at = "none" /\ run'.at = "begun" /\ directive # 0 =>
         LET c == about[directive] IN
         ~(cards[c].status = "approved" /\ \E p \in Prs : prs[p].for = c)]_vars

\* approvals.ts 338-346: a pushback requeues like a human in Linear, "so the daemon's next
\* tick claims it like any ticket": only a human or an approval takes it out of the queue.
RequeueStands ==
    [][lane = "queue" /\ lane' = "rest" => byHand' # byHand \/ \E o \in Owner : req[o].at = "closeout"]_vars
=============================================================================
