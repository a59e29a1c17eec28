----------------------------- MODULE Groundskeeper -----------------------------
(* The scheduled work generators of groundskeepers.ts: cards with a cron schedule, the
   ledger file of what has run, the governance gates in front of a run, the run itself and
   the filing of what it drafted; with the event rows (db.ts 1013-1065) and the board reads
   (linear.ts 179-212) the gates decide on.

   A tick is sequential, one step per await.  Beside it the clock goes on (a stage takes
   most of an hour), humans file tickets, runs and humans move tickets from lane to lane,
   an operator vetoes cards, the ledger file may be damaged and the daemon may die. *)
EXTENDS Integers, Sequences, FiniteSets

CONSTANTS Files,        \* the card files in the order of their names
          Calendar,     \* the five cron fields of every minute
          MaxMinute,    \* bound: the last minute
          Day, Week,    \* DAY_MS and WEEK_MS in minutes
          AttentionCap, \* 5 in the code
          StageCeiling, \* stageCostCapUsd of the stage
          Tries,     \* tries of a stage, its fallback included
          MaxTickets,   \* bound: tickets on the board; filing beyond it fails
          MaxDrafts,    \* bound: ticket files a stage writes
          MaxHuman,     \* bound: tickets filed by humans and vetoes
          MaxMoves,     \* bound: moves of tickets
          MaxFaults,    \* bound: failed calls, damage and deaths
          MaxTrouble    \* bound: all of these together

Minutes == 0..MaxMinute
Never == -1
Tickets == 1..MaxTickets

-----------------------------------------------------------------------------
(* Cron.  A field is a set of list elements: a star, a step, a number, or text that is
   none of these. *)

FieldRange == <<0..59, 0..23, 1..31, 1..12, 0..6>>
FieldMatches(field, value) == \E p \in field :
    \/ p.kind = "star"
    \/ p.kind = "step" /\ p.n > 0 /\ value % p.n = 0
    \/ p.kind = "number" /\ p.n = value
ValidateCron(fields) ==
    /\ Len(fields) = 5
    /\ \A i \in 1..5 : \A p \in fields[i] :
        p.kind = "star" \/ (p.kind = "step" /\ p.n >= 1) \/ (p.kind = "number" /\ p.n \in FieldRange[i])
CronMatches(fields, date) == Len(fields) = 5 /\ \A i \in 1..5 : FieldMatches(fields[i], date[i])

(* loadGroundskeepers: files with a missing or invalid field are left out, and so is the
   second card of a name.  A card goes by the place of its file. *)
WellFormed(f) == f.complete /\ ValidateCron(f.schedule)
LoadGroundskeepers == {i \in DOMAIN Files : WellFormed(Files[i]) /\
    \A j \in 1..(i - 1) : WellFormed(Files[j]) => Files[j].name /= Files[i].name}
Keepers == {i \in LoadGroundskeepers : Files[i].enabled = "true"}
Last == Len(Files) + 1   \* behind the last card
After(i) == CHOOSE k \in Keepers \union {Last} : k > i /\ \A j \in Keepers : j > i => k <= j

(* Money is counted in units of MIN_STAGE_BUDGET_USD, half a dollar. *)
OrElse(field, default) == IF field = {} THEN default ELSE CHOOSE n \in field : TRUE
ParseCard(f) ==
    [name |-> f.name, schedule |-> f.schedule, repo |-> f.repo, active |-> f.active,
     perRun |-> OrElse(f.perRun, 6), weekly |-> OrElse(f.weekly, 30), max |-> IF f.max > 0 THEN f.max ELSE 1]
Keeper(i) == ParseCard(Files[i])
KeeperNames == {Keeper(i).name : i \in Keepers}
Repos == {Keeper(i).repo : i \in Keepers}

(* What one try of a stage may cost, and what all tries of one: a try is made while the
   tries before it cost less than the ceiling. *)
SdkBudget(c) == IF c.perRun >= StageCeiling THEN StageCeiling ELSE IF c.perRun > 0 THEN c.perRun ELSE 1
StageCost(c) == StageCeiling - 1 + SdkBudget(c)

CardFiles == [name : STRING, enabled : STRING, complete : BOOLEAN, active : BOOLEAN, repo : STRING,
              schedule : Seq(SUBSET [kind : STRING, n : Nat]), perRun : SUBSET Int, weekly : SUBSET Int, max : Int]
ASSUME GroundskeeperAssumption ==
    /\ {MaxMinute, Day, Week, AttentionCap, MaxDrafts, MaxHuman, MaxMoves, MaxFaults, MaxTrouble} \subseteq Nat
    /\ {MaxTickets, StageCeiling, Tries} \subseteq Nat \ {0}
    /\ Files \in Seq(CardFiles)
    /\ \A m \in Minutes : Len(Calendar[m]) = 5

-----------------------------------------------------------------------------
VARIABLES
    clock,
    file,      \* .groundskeepers.json: readable or not, the cursor, the ledger per card
    tick,      \* groundskeeperTick and runGroundskeeper: where they are and what they hold
    vetoed,    \* cards with a project_groundskeepers row that is off
    pipeline,  \* minute of the latest run_finished of a pipeline run
    rows,      \* the run_stage_finished rows, one for each try of a stage
    flushed,   \* how many of them the last flush has seen written
    board,     \* the tickets
    armed,     \* history: the first minute evaluated since the ledger was new
    marks,     \* history: windows marked in the ledger
    passed,    \* history: windows passed over by a gate or for want of the tick's slot
    lost,      \* history: windows older than a day, or cut off by a death or a failed write
    human, moves, faults

keeperVars == <<clock, file, tick, vetoed, pipeline, rows, flushed, board, armed, marks, passed, lost, human, moves, faults>>

NewFile == [readable |-> TRUE, at |-> Never, last |-> [c \in KeeperNames |-> Never], ranAt |-> [c \in KeeperNames |-> Never]]
NoTick == [pc |-> "idle", i |-> 1, from |-> 0, at |-> 0, state |-> NewFile, dirty |-> FALSE, queue |-> {}, piles |-> {},
           seen |-> {}, moved |-> {}, blind |-> FALSE, tries |-> 0, spent |-> 0, left |-> 0]
Lanes == {"none", "queue", "executing", "review", "parked", "needs_human", "closed"}
NoTicket == [lane |-> "none", repo |-> "none", eligible |-> FALSE]

KeeperInit ==
    /\ clock = 0 /\ file = NewFile /\ tick = NoTick /\ vetoed = {} /\ pipeline = Never /\ rows = << >> /\ flushed = 0
    /\ board = [t \in Tickets |-> NoTicket]
    /\ armed = Never /\ marks = {} /\ passed = {} /\ lost = {}
    /\ human = 0 /\ moves = 0 /\ faults = 0

Calm == human + moves + faults < MaxTrouble
Fault == Calm /\ faults < MaxFaults /\ faults' = faults + 1
Cur == Keeper(tick.i)
Lane(l) == {t \in Tickets : board[t].lane = l}
OpenTickets == {t \in Tickets : board[t].lane \notin {"none", "closed"}}
Eligible(ts) == {t \in ts : board[t].eligible}
FreeTicket == CHOOSE t \in Lane("none") : \A u \in Lane("none") : t <= u

-----------------------------------------------------------------------------
(* The scan.  Every minute since the last evaluation counts, at most a day of them, and the
   minute of the last evaluation counts again. *)

ScanFromNow(at) == clock
ScanFrom(at) ==
    LET since == IF at = Never THEN clock ELSE at
    IN  IF since < clock - Day THEN clock - Day ELSE IF since > clock THEN clock ELSE since
Matched(c) == {m \in Minutes : CronMatches(Keeper(c).schedule, Calendar[m])}
Windows(c) == {m \in Matched(c) : tick.from <= m /\ m <= tick.at}
(* Newest match wins; a window already in the ledger is handled. *)
Due(c) == {m \in Windows(c) : m /= tick.state.last[Keeper(c).name] /\ \A n \in Windows(c) : n <= m}
Pending(c) == {<<Keeper(c).name, m>> : m \in IF Due(c) = {} THEN {} ELSE Windows(c)}
PendingAfter(i) == UNION {Pending(c) : c \in {c \in Keepers : c > i}}
CutOff(i) == lost' = lost \union (IF tick.dirty THEN {} ELSE PendingAfter(i))   \* once the cursor is on disk
TooOld == {<<Keeper(c).name, m>> : c \in Keepers, m \in {m \in Minutes : file.at /= Never /\ file.at <= m /\ m < clock - Day}}

(* Event rows are written behind, in order, and all of them by the flush of a reader and
   the one between two ticks. *)
Flush == flushed' = Len(rows) /\ UNCHANGED rows

TickBegin ==
    /\ tick.pc = "idle" /\ Keepers /= {}
    /\ \/ /\ file.readable
          /\ tick' = [NoTick EXCEPT !.pc = "cards", !.i = After(0), !.from = ScanFrom(file.at), !.at = clock,
                                    !.state = [file EXCEPT !.at = clock], !.dirty = TRUE]
          /\ armed' = IF file.at = Never THEN clock ELSE armed
          /\ lost' = lost \union TooOld
          /\ UNCHANGED <<file, marks, passed>>
       \/ /\ ~file.readable   \* moved aside; the tick is skipped, and history starts anew
          /\ file' = NewFile /\ armed' = Never /\ marks' = {} /\ passed' = {} /\ lost' = {} /\ UNCHANGED tick
    /\ Flush
    /\ UNCHANGED <<clock, vetoed, pipeline, board, human, moves, faults>>

NextCard == [tick EXCEPT !.pc = "cards", !.i = After(tick.i),
                         !.queue = {}, !.piles = {}, !.seen = {}, !.moved = {}, !.blind = FALSE]

TickEnd ==
    /\ tick.pc = "cards" /\ tick.i = Last /\ tick' = NoTick
    /\ \/ file' = (IF tick.dirty THEN tick.state ELSE file) /\ UNCHANGED faults
       \/ tick.dirty /\ Fault /\ UNCHANGED file
    /\ UNCHANGED <<clock, vetoed, pipeline, rows, flushed, board, armed, marks, passed, lost, human, moves>>

NotDue ==
    /\ tick.pc = "cards" /\ tick.i < Last /\ Due(tick.i) = {} /\ tick' = NextCard
    /\ UNCHANGED <<clock, file, vetoed, pipeline, rows, flushed, board, armed, marks, passed, lost, human, moves, faults>>

(* The veto rows and the activity of the factory are looked at before the window is
   marked, and the window is marked on disk before the run. *)
Asleep(c) == /\ c.active /\ tick.state.ranAt[c.name] /= Never
             /\ pipeline < tick.state.ranAt[c.name]
ProjectGate(name) == name \notin vetoed
PassOver ==
    /\ tick.pc = "cards" /\ tick.i < Last /\ Due(tick.i) /= {}
    /\ \/ (~ProjectGate(Cur.name) \/ Asleep(Cur)) /\ UNCHANGED faults
       \/ Fault                                   \* the gate rows cannot be read
    /\ passed' = passed \union Pending(tick.i) /\ tick' = NextCard
    /\ UNCHANGED <<clock, file, vetoed, pipeline, rows, flushed, board, armed, marks, lost, human, moves>>

MarkedState(bucket) == [tick.state EXCEPT !.last[Cur.name] = bucket, !.ranAt[Cur.name] = tick.at]
Mark ==
    /\ tick.pc = "cards" /\ tick.i < Last /\ ProjectGate(Cur.name)
    /\ \E bucket \in Due(tick.i) :
        \/ /\ \/ ~Asleep(Cur) /\ UNCHANGED faults
              \/ Asleep(Cur) /\ Fault   \* its activity cannot be read: it runs
           /\ tick' = [tick EXCEPT !.pc = "budget", !.state = MarkedState(bucket), !.dirty = FALSE]
           /\ file' = MarkedState(bucket) /\ marks' = marks \union {<<Cur.name, bucket>>}
           /\ UNCHANGED lost
        \/ /\ ~Asleep(Cur) /\ Fault /\ tick' = NoTick   \* no run goes unrecorded
           /\ CutOff(tick.i - 1) /\ UNCHANGED <<file, marks>>
    /\ UNCHANGED <<clock, vetoed, pipeline, rows, flushed, board, armed, passed, human, moves>>

-----------------------------------------------------------------------------
(* Governance. *)

(* The run_stage_finished rows of a card within the last week, and what their costs add
   up to. *)
RecentRows(name) == {r \in DOMAIN rows : rows[r].card = name /\ rows[r].at >= clock - Week}
Total(f, n) == LET sum[k \in 0..n] == IF k = 0 THEN 0 ELSE sum[k - 1] + f[k] IN sum[n]
Costs(name) == [r \in DOMAIN rows |-> IF r \in RecentRows(name) THEN rows[r].cost ELSE 0]
StageSpend(name) == Total(Costs(name), Len(rows))
StageRunCount(name) == Cardinality(RecentRows(name))
Estimate(c) == StageRunCount(c.name) * c.perRun
EffectiveSpend(c) ==
    IF StageSpend(c.name) > c.perRun \/ StageSpend(c.name) >= Estimate(c) THEN StageSpend(c.name) ELSE Estimate(c)
WithinBudgetLoose(c) == EffectiveSpend(c) <= c.weekly
WithinBudget(c) == EffectiveSpend(c) < c.weekly

(* A refused or failed gate ends the card; its window stays marked. *)
Refused == tick' = NextCard

Budget ==
    /\ tick.pc = "budget"
    /\ \/ WithinBudget(Cur) /\ tick' = [tick EXCEPT !.pc = "humans"] /\ UNCHANGED faults
       \/ ~WithinBudget(Cur) /\ Refused /\ UNCHANGED faults
       \/ Fault /\ Refused
    /\ Flush   \* before the rows are read
    /\ UNCHANGED <<clock, file, vetoed, pipeline, board, armed, marks, passed, lost, human, moves>>

(* The tickets open for the repository of a card that has one, as its governance begins
   to read. *)
SameRepo(ts) == {t \in ts : Cur.repo /= "none" /\ board[t].repo = Cur.repo}
Humans ==
    /\ tick.pc = "humans"
    /\ \/ /\ Eligible(Lane("queue")) = {}
          /\ tick' = [tick EXCEPT !.pc = "piles", !.queue = Lane("queue"), !.seen = SameRepo(OpenTickets)]
          /\ UNCHANGED faults
       \/ Eligible(Lane("queue")) /= {} /\ Refused /\ UNCHANGED faults
       \/ Fault /\ Refused
    /\ UNCHANGED <<clock, file, vetoed, pipeline, rows, flushed, board, armed, marks, passed, lost, human, moves>>

Attention == Lane("needs_human") \union Lane("parked") \union Lane("review")
Piles ==
    /\ tick.pc = "piles"
    /\ \/ /\ Cardinality(Attention) <= AttentionCap
          /\ tick' = [tick EXCEPT !.pc = "serial", !.piles = Attention] /\ UNCHANGED faults
       \/ Cardinality(Attention) > AttentionCap /\ Refused /\ UNCHANGED faults
       \/ Fault /\ Refused
    /\ UNCHANGED <<clock, file, vetoed, pipeline, rows, flushed, board, armed, marks, passed, lost, human, moves>>

(* Serial per repository: whatever lane its ticket is in.  A failed read of the executing
   tickets counts as none. *)
StillOpenUnparked(executing) == SameRepo(tick.queue \union executing \union Lane("review"))
StillOpen(executing) == SameRepo(tick.queue \union tick.piles \union executing)
Serial ==
    /\ tick.pc = "serial"
    /\ \E executing \in {Lane("executing"), {}} :
        /\ \/ executing = Lane("executing") /\ UNCHANGED faults
           \/ executing /= Lane("executing") /\ Fault
        /\ \/ /\ StillOpen(executing) = {}
              /\ tick' = [tick EXCEPT !.pc = "stage", !.queue = {}, !.piles = {}, !.tries = 0, !.spent = 0,
                                      !.blind = executing /= Lane("executing")]
           \/ StillOpen(executing) /= {} /\ Refused
    /\ UNCHANGED <<clock, file, vetoed, pipeline, rows, flushed, board, armed, marks, passed, lost, human, moves>>
Workspace ==   \* no workspace, no run
    /\ tick.pc = "serial" /\ Fault /\ Refused
    /\ UNCHANGED <<clock, file, vetoed, pipeline, rows, flushed, board, armed, marks, passed, lost, human, moves>>

-----------------------------------------------------------------------------
(* The run.  It takes the tick's one slot, whatever becomes of it. *)

EndRun == tick' = NoTick /\ passed' = passed \union PendingAfter(tick.i)

(* A try of the stage: each leaves a row of its own. *)
Try ==
    /\ tick.pc = "stage" /\ tick.tries < Tries /\ (tick.tries = 0 \/ tick.spent < StageCeiling)
    /\ \E cost \in 0..SdkBudget(Cur) :
        /\ rows' = Append(rows, [card |-> Cur.name, at |-> clock, cost |-> cost])
        /\ tick' = [tick EXCEPT !.tries = @ + 1, !.spent = @ + cost]
    /\ UNCHANGED <<clock, file, vetoed, pipeline, flushed, board, armed, marks, passed, lost, human, moves, faults>>

StageEnd ==
    /\ tick.pc = "stage" /\ tick.tries > 0
    /\ \/ EndRun     \* nothing worth doing, or the stage failed
       \/ /\ \E drafts \in 1..MaxDrafts :
                tick' = [tick EXCEPT !.pc = "recheck", !.left = IF drafts < Cur.max THEN drafts ELSE Cur.max,
                                     !.seen = Eligible(Lane("queue")), !.moved = {}, !.tries = 0, !.spent = 0]
          /\ UNCHANGED passed
    /\ UNCHANGED <<clock, file, vetoed, pipeline, rows, flushed, board, armed, marks, lost, human, moves, faults>>

Recheck ==
    /\ tick.pc = "recheck"
    /\ \/ Eligible(Lane("queue")) = {} /\ tick' = [tick EXCEPT !.pc = "file"] /\ UNCHANGED <<faults, passed>>
       \/ Eligible(Lane("queue")) /= {} /\ EndRun /\ UNCHANGED faults
       \/ Fault /\ EndRun
    /\ UNCHANGED <<clock, file, vetoed, pipeline, rows, flushed, board, armed, marks, lost, human, moves>>

(* Tickets are filed one by one; a failed call, which may have landed, ends the run. *)
FileTicket ==
    /\ tick.pc = "file"
    /\ \/ /\ Lane("none") /= {}
          /\ \E eligible \in BOOLEAN :
                board' = [board EXCEPT ![FreeTicket] = [lane |-> "queue", repo |-> Cur.repo, eligible |-> eligible]]
          /\ \/ tick.left > 1 /\ tick' = [tick EXCEPT !.left = @ - 1] /\ UNCHANGED <<faults, passed>>
             \/ tick.left = 1 /\ EndRun /\ UNCHANGED faults
             \/ Fault /\ EndRun
       \/ Lane("none") = {} /\ EndRun /\ UNCHANGED <<board, faults>>
       \/ Fault /\ EndRun /\ UNCHANGED board
    /\ UNCHANGED <<clock, file, vetoed, pipeline, rows, flushed, armed, marks, lost, human, moves>>

-----------------------------------------------------------------------------
(* Beside the tick. *)

Pass ==
    /\ clock < MaxMinute /\ clock' = clock + 1
    /\ UNCHANGED <<file, tick, vetoed, pipeline, rows, flushed, board, armed, marks, passed, lost, human, moves, faults>>

Arrive ==
    /\ Calm /\ human < MaxHuman /\ human' = human + 1 /\ Lane("none") /= {}
    /\ \E repo \in Repos \union {"elsewhere"}, eligible \in BOOLEAN :
        board' = [board EXCEPT ![FreeTicket] = [lane |-> "queue", repo |-> repo, eligible |-> eligible]]
    /\ UNCHANGED <<clock, file, tick, vetoed, pipeline, rows, flushed, armed, marks, passed, lost, moves, faults>>

Veto ==
    /\ Calm /\ human < MaxHuman /\ human' = human + 1
    /\ \E c \in KeeperNames : vetoed' = IF c \in vetoed THEN vetoed \ {c} ELSE vetoed \union {c}
    /\ UNCHANGED <<clock, file, tick, pipeline, rows, flushed, board, armed, marks, passed, lost, moves, faults>>

Onward == [queue |-> {"executing", "closed"}, executing |-> {"queue", "review", "parked", "needs_human"},
           review |-> {"closed"}, parked |-> {"queue"}, needs_human |-> {"queue"}]
Move ==
    /\ Calm /\ moves < MaxMoves /\ moves' = moves + 1
    /\ \E t \in OpenTickets : \E to \in Onward[board[t].lane] :
        /\ board[t].lane = "queue" /\ to = "executing" => board[t].eligible
        /\ board' = [board EXCEPT ![t] = IF to = "closed" THEN [NoTicket EXCEPT !.lane = to] ELSE [@ EXCEPT !.lane = to]]
        /\ pipeline' = IF to \in {"review", "parked", "needs_human"} THEN clock ELSE pipeline
        /\ tick' = [tick EXCEPT !.moved = IF tick.seen = {} THEN {} ELSE @ \union {t}]
    /\ UNCHANGED <<clock, file, vetoed, rows, flushed, armed, marks, passed, lost, human, faults>>

Damage ==
    /\ Fault /\ file.at /= Never /\ file.readable /\ file' = [NewFile EXCEPT !.readable = FALSE]
    /\ UNCHANGED <<clock, tick, vetoed, pipeline, rows, flushed, board, armed, marks, passed, lost, human, moves>>

(* The rows not yet written go with the process. *)
DaemonCrash ==
    /\ Fault /\ tick.pc /= "idle" /\ tick' = NoTick
    /\ CutOff(IF tick.pc = "cards" THEN tick.i - 1 ELSE tick.i)
    /\ \E written \in flushed..Len(rows) : rows' = SubSeq(rows, 1, written) /\ flushed' = written
    /\ UNCHANGED <<clock, file, vetoed, pipeline, board, armed, marks, passed, human, moves>>

KeeperNext ==
    \/ TickBegin \/ NotDue \/ PassOver \/ Mark \/ TickEnd
    \/ Budget \/ Humans \/ Piles \/ Serial \/ Workspace
    \/ Try \/ StageEnd \/ Recheck \/ FileTicket
    \/ Pass \/ Arrive \/ Veto \/ Move \/ Damage \/ DaemonCrash

KeeperSpec == KeeperInit /\ [][KeeperNext]_keeperVars
-----------------------------------------------------------------------------
Ledgers == [readable : BOOLEAN, at : Minutes \union {Never}, last : [KeeperNames -> Minutes \union {Never}],
            ranAt : [KeeperNames -> Minutes \union {Never}]]
Ticks == [pc : {"idle", "cards", "budget", "humans", "piles", "serial", "stage", "recheck", "file"},
          i : Nat, from : Int, at : Minutes, state : Ledgers, dirty : BOOLEAN, queue : SUBSET Tickets,
          piles : SUBSET Tickets, seen : SUBSET Tickets, moved : SUBSET Tickets, blind : BOOLEAN,
          tries : 0..Tries, spent : Nat, left : Nat]

(* Types and bounds of everything above. *)
KeeperTypeOK ==
    /\ clock \in Minutes /\ file \in Ledgers /\ tick \in Ticks
    /\ vetoed \subseteq KeeperNames /\ pipeline \in Minutes \union {Never} /\ armed \in Minutes \union {Never}
    /\ rows \in Seq([card : KeeperNames, at : Minutes, cost : Nat]) /\ flushed \in 0..Len(rows)
    /\ board \in [Tickets -> [lane : Lanes, repo : Repos \union {"none", "elsewhere"}, eligible : BOOLEAN]]
    /\ (marks \union passed \union lost) \subseteq KeeperNames \X Minutes
    /\ {human, moves, faults} \subseteq Nat

(* A window of a card is marked, and so run, at most once: through restarts, catch-up
   scans and failed writes of the ledger, as long as the ledger file is not destroyed. *)
OncePerMinute == [][tick.pc = "cards" /\ tick'.pc = "budget" =>
    <<Cur.name, tick'.state.last[Cur.name]>> \notin marks]_keeperVars

(* What a card is recorded to have spent in a week stays below its envelope and one stage
   more, and so does the estimate for a card whose tries record nothing. *)
EnvelopeHolds == \A i \in Keepers : LET c == Keeper(i) IN RecentRows(c.name) /= {} =>
    /\ StageSpend(c.name) < c.weekly + StageCost(c)
    /\ c.perRun >= 0 /\ (\A r \in DOMAIN rows : rows[r].card = c.name => rows[r].cost = 0)
          => Estimate(c) < c.weekly + Tries * c.perRun

(* A stage is run for a repository with an open ticket, in whatever lane, only when the
   ticket moved while the gates were reading the lanes one after the other, or the read of
   the executing tickets failed. *)
DuplicatesAreRaces ==
    tick.pc = "stage" /\ ~tick.blind => {t \in tick.seen : board[t].lane /= "closed"} \subseteq tick.moved

(* No drafted ticket is filed past an eligible one that was waiting when the stage ended. *)
HumansOutrank == tick.pc = "file" => {t \in tick.seen : board[t].lane = "queue"} \subseteq tick.moved

(* A window of a card the ticks have left behind was marked, alone or with a newer one, or
   passed over by a gate or for want of the slot, or is older than a day, or was cut off
   by a death or a failed write: a tick that takes minutes does not swallow a schedule. *)
Handled(c, m) == \/ \E k \in m..MaxMinute : <<Keeper(c).name, k>> \in marks
                 \/ <<Keeper(c).name, m>> \in passed \union lost
WindowsFire ==
    tick.pc = "idle" /\ file.readable /\ armed /= Never =>
        \A c \in Keepers : \A m \in Matched(c) : armed <= m /\ m < file.at => Handled(c, m)

(* A window that a veto, the activity gate or another card's run kept a card from stays
   open for the ticks to come. *)
PassedOverStaysDue ==
    tick.pc = "idle" /\ file.readable => \A c \in Keepers : \A m \in Minutes :
        <<Keeper(c).name, m>> \in passed /\ m >= clock - Day =>
            \/ \E k \in m..MaxMinute : <<Keeper(c).name, k>> \in marks
            \/ m >= file.at
=============================================================================
