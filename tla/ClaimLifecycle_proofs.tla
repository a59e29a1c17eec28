----------------------- MODULE ClaimLifecycle_proofs -----------------------
(***************************************************************************)
(* Theorems about ClaimLifecycle, for every set of tickets, every WIP      *)
(* limit, every board and any number of failures, crashes and human edits. *)
(***************************************************************************)
EXTENDS ClaimLifecycle, FiniteSetTheorems, TLAPS

-----------------------------------------------------------------------------
\* The inductive invariant, conjunct by conjunct.

\* A run inside a stage still has that stage to account for.
StagesLeft == \A i \in Issue : pc[i] = "stage" => left[i] > 0

\* The in-flight map and the runs agree.
Tracked == \A i \in Issue : i \in inFlight <=> pc[i] # "idle"

\* What the tick remembers belongs to the phase that it is in.
PhaseShape ==
    /\ phase # "sweep" => orphans = {} /\ cur = None
    /\ phase \notin {"launch", "select"} => queue = {} /\ room = 0
    /\ phase # "close" => toClose = {} /\ suspects = {}

\* The sweep and the runs of this process never work on the same ticket.
SweepApart == orphans \cap inFlight = {} /\ cur \in requeue \cup {None}

\* Between the count and the launch nothing but the launch takes a slot: the room
\* that was counted is still there, and no candidate has been started.
RoomLeft ==
    phase = "select" =>
        /\ queue \cap inFlight = {}
        /\ Cardinality(inFlight) + room <= WipLimit

\* A ticket that a human put in a terminal column and the tick, or the run, has
\* seen there is in no list that the tick, or the run, would move it by.
Resting(i) == i \in byHand /\ column[i] \in Terminal
Quiet == {"idle", "settle", "release", "rollback"}
TickSaw == \A i \in Issue : Resting(i) /\ "tick" \notin dirty[i] => i \notin queue \cup requeue \cup toClose
RunSaw == \A i \in Issue : Resting(i) /\ "run" \notin dirty[i] => pc[i] \in Quiet

-----------------------------------------------------------------------------
\* The type invariant: the calls of a run, the rest of a run, the tick, the others.

LEMMA InitTypes == Init => TypeOK
BY BoundsAssumption DEF Init, TypeOK, Column, Unstarted, Started, Terminal, Optional, Phase, PC, None

LEMMA SpendTypes ==
    ASSUME faults \in 0 .. MaxFaults, NEW o, Spend(o)
    PROVE  faults' \in 0 .. MaxFaults
BY BoundsAssumption DEF Spend

LEMMA SetColumnTypes ==
    ASSUME column \in [Issue -> Column], byHand \subseteq Issue, NEW i \in Issue,
           NEW c \in Column, NEW o, SetColumn(i, c, o)
    PROVE  column' \in [Issue -> Column] /\ byHand' \subseteq Issue
BY DEF SetColumn

LEMMA TargetTypes == ASSUME NEW k \in Column PROVE Target(k) \in Column
BY DEF Target, Column, Unstarted

LabelStep(i) ==
    \/ RefuseLabel(i) \/ ClaimLabel(i) \/ Rollback(i) \/ HoldLabel(i) \/ StaleLabel(i)
    \/ Release(i) \/ ParkLabel(i) \/ ParkRelease(i)

MoveStep(i) ==
    \/ RefuseMove(i) \/ ClaimMove(i) \/ HoldMove(i) \/ ReviewMove(i) \/ FallbackMove(i)
    \/ DoneMove(i) \/ StaleMove(i) \/ ParkMove(i)

LEMMA LabelTypes ==
    ASSUME TypeOK, NEW i \in Issue, LabelStep(i)
    PROVE  TypeOK'
<1>1. faults' \in 0 .. MaxFaults
  BY SpendTypes DEF TypeOK, LabelStep, RefuseLabel, ClaimLabel, Rollback, HoldLabel, StaleLabel,
       Release, ParkLabel, ParkRelease, LabelCall
<1>2. labels' \in [Issue -> SUBSET Label]
  BY DEF TypeOK, LabelStep, RefuseLabel, ClaimLabel, Rollback, HoldLabel, StaleLabel,
       Release, ParkLabel, ParkRelease, LabelCall, Label
<1>3. pc' \in [Issue -> PC]
  BY DEF TypeOK, LabelStep, RefuseLabel, ClaimLabel, Rollback, HoldLabel, StaleLabel,
       Release, ParkLabel, ParkRelease, LabelCall, Goto, PC
<1>4. UNCHANGED <<column, merged, tick, inFlight, left, signal, ghost, edits, crashes>>
  BY DEF LabelStep, RefuseLabel, ClaimLabel, Rollback, HoldLabel, StaleLabel,
       Release, ParkLabel, ParkRelease, LabelCall
<1> QED BY <1>1, <1>2, <1>3, <1>4 DEF TypeOK, tick, ghost, sweepVars, reconVars

LEMMA MoveTypes ==
    ASSUME TypeOK, NEW i \in Issue, MoveStep(i)
    PROVE  TypeOK'
<1>1. faults' \in 0 .. MaxFaults
  BY SpendTypes DEF TypeOK, MoveStep, RefuseMove, ClaimMove, HoldMove, ReviewMove, FallbackMove,
       DoneMove, StaleMove, ParkMove, MoveCall
<1>2. column' \in [Issue -> Column] /\ byHand' \subseteq Issue
  <2>1. {"needs_human", "working", "review", "done", "blocked"} \subseteq Column
    BY DEF Column, Unstarted, Started, Terminal, Optional
  <2> QED BY <2>1, SetColumnTypes, TargetTypes DEF TypeOK, MoveStep, RefuseMove, ClaimMove, HoldMove, ReviewMove,
       FallbackMove, DoneMove, StaleMove, ParkMove, MoveCall
<1>3. pc' \in [Issue -> PC]
  BY DEF TypeOK, MoveStep, RefuseMove, ClaimMove, HoldMove, ReviewMove, FallbackMove,
       DoneMove, StaleMove, ParkMove, MoveCall, Goto, PC
<1>4. UNCHANGED <<labels, merged, tick, inFlight, left, signal, dirty, edits, crashes>>
  BY DEF MoveStep, RefuseMove, ClaimMove, HoldMove, ReviewMove, FallbackMove,
       DoneMove, StaleMove, ParkMove, MoveCall
<1> QED BY <1>1, <1>2, <1>3, <1>4 DEF TypeOK, tick, sweepVars, reconVars


OtherStep(i) ==
    \/ Admit(i) \/ ClaimRead(i) \/ ClaimVerify(i) \/ Prepare(i) \/ StageEnd(i)
    \/ Check(i) \/ Deliver(i) \/ MergeCheck(i) \/ Decide(i) \/ Settle(i)

LEMMA ReadTypes ==
    ASSUME dirty \in [Issue -> SUBSET {"run", "tick"}], NEW who, NEW S, Read(who, S)
    PROVE  dirty' \in [Issue -> SUBSET {"run", "tick"}]
BY DEF Read

LEMMA OtherTypes ==
    ASSUME TypeOK, StagesLeft, NEW i \in Issue, OtherStep(i)
    PROVE  TypeOK'
<1>1. CASE Deliver(i)
  BY <1>1 DEF TypeOK, Deliver, Choose, Goto, PC, board, tick, ghost, bounds, sweepVars, reconVars
<1>2. CASE Admit(i)
  <2>1. faults' \in 0 .. MaxFaults BY <1>2, SpendTypes DEF TypeOK, Admit
  <2> QED BY <1>2, <2>1 DEF TypeOK, Admit, Goto, PC, board, tick, ghost, sweepVars, reconVars
<1>3. CASE ClaimRead(i) \/ ClaimVerify(i) \/ Check(i) \/ MergeCheck(i)
  <2>1. faults' \in 0 .. MaxFaults
    BY <1>3, SpendTypes DEF TypeOK, ClaimRead, ClaimVerify, Check, MergeCheck, ReadCall
  <2>2. dirty' \in [Issue -> SUBSET {"run", "tick"}]
    BY <1>3, ReadTypes DEF TypeOK, ClaimRead, ClaimVerify, Check, MergeCheck, ReadCall
  <2>3. pc' \in [Issue -> PC]
    BY <1>3 DEF TypeOK, ClaimRead, ClaimVerify, Check, MergeCheck, ReadCall, Goto, PC
  <2>4. UNCHANGED <<board, tick, inFlight, left, signal, byHand, edits, crashes>>
    BY <1>3 DEF ClaimRead, ClaimVerify, Check, MergeCheck, ReadCall
  <2> QED BY <2>1, <2>2, <2>3, <2>4 DEF TypeOK, board, tick, sweepVars, reconVars
<1>4. CASE Prepare(i)
  BY <1>4, BoundsAssumption DEF TypeOK, Prepare, Goto, PC, board, tick, ghost, bounds, sweepVars, reconVars
<1>5. CASE StageEnd(i)
  BY <1>5, BoundsAssumption DEF TypeOK, StagesLeft, StageEnd, Goto, PC, board, tick, ghost, bounds, sweepVars, reconVars
<1>6. CASE Decide(i)
  BY <1>6 DEF TypeOK, Decide, Goto, PC, tick, ghost, bounds, sweepVars, reconVars
<1>7. CASE Settle(i)
  BY <1>7, BoundsAssumption DEF TypeOK, Settle, Goto, PC, board, tick, ghost, bounds, sweepVars, reconVars
<1> QED BY <1>1, <1>2, <1>3, <1>4, <1>5, <1>6, <1>7 DEF OtherStep

\* The steps of a run, in three classes.
LEMMA RunClasses ==
    ASSUME NEW i \in Issue, RunStep(i) PROVE LabelStep(i) \/ MoveStep(i) \/ OtherStep(i)
BY DEF RunStep, LabelStep, MoveStep, OtherStep

LEMMA RunTypes ==
    ASSUME TypeOK, StagesLeft, NEW i \in Issue, RunStep(i) PROVE TypeOK'
BY RunClasses, LabelTypes, MoveTypes, OtherTypes

LEMMA QueueIsColumn == "queue" \in Column /\ "done" \in Column
BY DEF Column, Unstarted, Terminal

LEMMA TickTypes ==
    ASSUME TypeOK, PhaseShape, WipBound, TickStep
    PROVE  TypeOK'
<1>1. CASE TickBegin
  BY <1>1, BoundsAssumption DEF TypeOK, TickBegin, Phase, board, sweepVars, reconVars, run, ghost, bounds
<1>2. CASE SweepRead
  <2>1. faults' \in 0 .. MaxFaults BY <1>2, SpendTypes DEF TypeOK, SweepRead
  <2>2. dirty' \in [Issue -> SUBSET {"run", "tick"}] BY <1>2, ReadTypes DEF TypeOK, SweepRead
  <2>3. orphans' \subseteq Issue /\ requeue' \subseteq orphans' /\ phase' \in Phase
    BY <1>2 DEF SweepRead, Phase
  <2> QED BY <1>2, <2>1, <2>2, <2>3 DEF TypeOK, SweepRead, board, reconVars, run
<1>3. CASE Fetch
  <2>1. faults' \in 0 .. MaxFaults BY <1>3, SpendTypes DEF TypeOK, Fetch
  <2>2. dirty' \in [Issue -> SUBSET {"run", "tick"}] BY <1>3, ReadTypes DEF TypeOK, Fetch
  <2>3. queue' \subseteq Issue /\ phase' \in Phase BY <1>3 DEF Fetch, Phase
  <2> QED BY <1>3, <2>1, <2>2, <2>3 DEF TypeOK, Fetch, board, sweepVars, reconVars, run
<1>0. CASE Select
  <2>1. faults' \in 0 .. MaxFaults BY <1>0, SpendTypes DEF TypeOK, Select
  <2>2. IsFiniteSet(inFlight) /\ Cardinality(inFlight) \in Nat
    BY IssueAssumption, FS_Subset, FS_CardinalityType DEF TypeOK
  <2>3. room' \in 0 .. WipLimit /\ queue' \subseteq Issue /\ phase' \in Phase
    BY <1>0, <2>2, BoundsAssumption DEF TypeOK, WipBound, Select, Capacity, Candidates, Phase
  <2> QED BY <1>0, <2>1, <2>3 DEF TypeOK, Select, board, sweepVars, reconVars, run, ghost
<1>10. CASE ReconCall
  BY <1>10 DEF TypeOK, PhaseShape, ReconCall, Phase, board, sweepVars, run, ghost, bounds
<1>4. CASE Launch
  <2>1. Batch \subseteq Issue BY DEF TypeOK, Batch
  <2>2. pc' \in [Issue -> PC] BY <1>4 DEF TypeOK, Launch, PC
  <2>3. dirty' \in [Issue -> SUBSET {"run", "tick"}] BY <1>4 DEF TypeOK, Launch
  <2> QED BY <1>4, <2>1, <2>2, <2>3, BoundsAssumption
           DEF TypeOK, Launch, Phase, board, sweepVars, reconVars, bounds
<1>5. CASE ReconRead
  <2>1. faults' \in 0 .. MaxFaults BY <1>5, SpendTypes DEF TypeOK, ReconRead
  <2>2. dirty' \in [Issue -> SUBSET {"run", "tick"}] BY <1>5, ReadTypes DEF TypeOK, ReconRead
  <2>3. suspects' \subseteq keys' /\ keys' \subseteq Issue /\ toClose' \subseteq Issue /\ phase' \in Phase
    BY <1>5 DEF TypeOK, ReconRead, Phase
  <2> QED BY <1>5, <2>1, <2>2, <2>3 DEF TypeOK, ReconRead, board, sweepVars, run
<1>6. CASE ClaimLoss
  <2>1. signal' \in [Issue -> BOOLEAN] BY <1>6 DEF TypeOK, ClaimLoss
  <2>2. pending' \subseteq Issue BY <1>6 DEF TypeOK, ClaimLoss, Warned
  <2>3. faults' \in 0 .. MaxFaults BY <1>6, SpendTypes DEF TypeOK, ClaimLoss
  <2> QED BY <1>6, <2>1, <2>2, <2>3 DEF TypeOK, ClaimLoss, PassEnd, Phase, board, sweepVars, ghost
<1>7. ASSUME NEW i \in Issue, SweepStrip(i) PROVE TypeOK'
  <2>1. faults' \in 0 .. MaxFaults BY <1>7, SpendTypes DEF TypeOK, SweepStrip
  <2>2. labels' \in [Issue -> SUBSET Label] BY <1>7 DEF TypeOK, SweepStrip
  <2>3. /\ orphans' \subseteq Issue /\ requeue' \subseteq orphans' /\ phase' \in Phase
        /\ cur' \in Issue \cup {None}
    BY <1>7 DEF TypeOK, SweepStrip, SweepNext, Phase
  <2> QED BY <1>7, <2>1, <2>2, <2>3 DEF TypeOK, SweepStrip, reconVars, run, ghost
<1>8. ASSUME NEW i \in Issue, SweepReset(i) PROVE TypeOK'
  <2>1. faults' \in 0 .. MaxFaults BY <1>8, SpendTypes DEF TypeOK, SweepReset
  <2>2. column' \in [Issue -> Column] /\ byHand' \subseteq Issue
    BY <1>8, SetColumnTypes, QueueIsColumn DEF TypeOK, SweepReset
  <2>3. /\ orphans' \subseteq Issue /\ requeue' \subseteq orphans' /\ phase' \in Phase
        /\ cur' \in Issue \cup {None}
    BY <1>8 DEF TypeOK, SweepReset, SweepNext, Phase
  <2> QED BY <1>8, <2>1, <2>2, <2>3 DEF TypeOK, SweepReset, reconVars, run
<1>9. ASSUME NEW i \in Issue, ReconClose(i) PROVE TypeOK'
  <2>1. faults' \in 0 .. MaxFaults BY <1>9, SpendTypes DEF TypeOK, ReconClose
  <2>2. column' \in [Issue -> Column] /\ byHand' \subseteq Issue
    BY <1>9, SetColumnTypes, QueueIsColumn DEF TypeOK, ReconClose
  <2>3. suspects' \subseteq keys' /\ keys' \subseteq Issue /\ toClose' \subseteq Issue /\ phase' \in Phase
    BY <1>9 DEF TypeOK, ReconClose, PassEnd, Phase
  <2> QED BY <1>9, <2>1, <2>2, <2>3 DEF TypeOK, ReconClose, sweepVars, run
<1> QED BY <1>0, <1>1, <1>2, <1>3, <1>4, <1>5, <1>6, <1>7, <1>8, <1>9, <1>10 DEF TickStep

\* The start, the crash and the humans.
LEMMA OutsideTypes ==
    ASSUME TypeOK, Start \/ Stop \/ Crash \/ Exit \/ Human
    PROVE  TypeOK'
<1>1. CASE Start \/ Stop
  BY <1>1, BoundsAssumption DEF TypeOK, Start, Stop, Phase, board, sweepVars, reconVars, run, ghost, bounds
<1>2. CASE Crash \/ Exit
  <2>0. Down BY <1>2 DEF Crash, Exit
  <2>1. pc' \in [Issue -> PC] /\ left' \in [Issue -> 0 .. Stages] /\ signal' \in [Issue -> BOOLEAN]
    BY <2>0, BoundsAssumption DEF Down, PC
  <2>2. crashes' \in 0 .. MaxCrashes BY <1>2, BoundsAssumption DEF TypeOK, Crash, Exit
  <2> QED BY <2>0, <2>1, <2>2, BoundsAssumption DEF TypeOK, Down, Phase, None, board, ghost
<1>3. ASSUME NEW i \in Issue, HumanMove(i) \/ HumanUnlabel(i) \/ HumanMerge(i) PROVE TypeOK'
  <2>1. /\ edits' \in 0 .. MaxEdits /\ dirty' \in [Issue -> SUBSET {"run", "tick"}]
        /\ UNCHANGED <<tick, run, faults, crashes>>
    BY <1>3, BoundsAssumption DEF TypeOK, Edit, HumanMove, HumanUnlabel, HumanMerge
  <2>2. column' \in [Issue -> Column] /\ byHand' \subseteq Issue
    BY <1>3, BoardAssumption DEF TypeOK, HumanMove, HumanUnlabel, HumanMerge
  <2>3. labels' \in [Issue -> SUBSET Label]
    BY <1>3 DEF TypeOK, HumanMove, HumanUnlabel, HumanMerge
  <2>4. merged' \in [Issue -> BOOLEAN]
    BY <1>3 DEF TypeOK, HumanMove, HumanUnlabel, HumanMerge
  <2> QED BY <2>1, <2>2, <2>3, <2>4 DEF TypeOK, tick, sweepVars, reconVars, run
<1> QED BY <1>1, <1>2, <1>3 DEF Human

LEMMA StutterTypes == TypeOK /\ UNCHANGED vars => TypeOK'
BY DEF TypeOK, vars, board, tick, sweepVars, reconVars, run, ghost, bounds

-----------------------------------------------------------------------------
\* What a step of a run leaves alone: the tick, and every other ticket.

Frame(i) ==
    /\ UNCHANGED tick /\ edits' = edits
    /\ pc[i] # "idle" /\ pc'[i] # "admit" /\ (column'[i] # column[i] => pc'[i] # pc[i])
    /\ inFlight' = IF pc'[i] = "idle" THEN inFlight \ {i} ELSE inFlight
    /\ \A j \in Issue \ {i} :
         /\ pc'[j] = pc[j] /\ left'[j] = left[j]
         /\ column'[j] = column[j] /\ labels'[j] = labels[j] /\ merged'[j] = merged[j]
         /\ dirty'[j] = dirty[j] /\ (j \in byHand' <=> j \in byHand)

LEMMA LabelFrame == ASSUME TypeOK, NEW i \in Issue, LabelStep(i) PROVE Frame(i)
BY DEF TypeOK, Frame, LabelStep, RefuseLabel, ClaimLabel, Rollback, HoldLabel, StaleLabel,
       Release, ParkLabel, ParkRelease, LabelCall, Goto, ghost

LEMMA MoveFrame == ASSUME TypeOK, NEW i \in Issue, MoveStep(i) PROVE Frame(i)
BY DEF TypeOK, Frame, MoveStep, RefuseMove, ClaimMove, HoldMove, ReviewMove, FallbackMove,
       DoneMove, StaleMove, ParkMove, MoveCall, SetColumn, Goto

LEMMA OtherFrame == ASSUME TypeOK, NEW i \in Issue, OtherStep(i) PROVE Frame(i)
<1>1. CASE Admit(i) \/ Deliver(i)
  BY <1>1 DEF TypeOK, Frame, Admit, Deliver, Choose, Goto, board, ghost, bounds
<1>2. CASE ClaimRead(i) \/ ClaimVerify(i) \/ Check(i) \/ MergeCheck(i)
  BY <1>2 DEF TypeOK, Frame, ClaimRead, ClaimVerify, Check, MergeCheck, ReadCall, Read, Goto, board
<1>3. CASE Prepare(i)
  BY <1>3 DEF TypeOK, Frame, Prepare, Goto, board, ghost, bounds
<1>4. CASE StageEnd(i)
  BY <1>4 DEF TypeOK, Frame, StageEnd, Goto, board, ghost, bounds
<1>5. CASE Decide(i)
  BY <1>5 DEF TypeOK, Frame, Decide, Goto, ghost, bounds
<1>6. CASE Settle(i)
  BY <1>6 DEF TypeOK, Frame, Settle, Goto, board, ghost, bounds
<1> QED BY <1>1, <1>2, <1>3, <1>4, <1>5, <1>6 DEF OtherStep

LEMMA RunFrame == ASSUME TypeOK, NEW i \in Issue, RunStep(i) PROVE Frame(i)
BY RunClasses, LabelFrame, MoveFrame, OtherFrame

\* What a step of the tick leaves alone: the runs, but for what Launch starts
\* and what ClaimLoss signals.
LEMMA TickFrame ==
    ASSUME TypeOK, TickStep
    PROVE  /\ UNCHANGED <<merged, left, edits>>
           /\ Launch \/ UNCHANGED <<pc, inFlight>>
           /\ \A i \in Issue : ~Launch => ("run" \in dirty'[i] <=> "run" \in dirty[i])
BY DEF TypeOK, TickStep, TickBegin, SweepRead, SweepStrip, SweepReset, Fetch, Select, Launch, ReconCall, ReconRead,
       ReconClose, ClaimLoss, Read, board, run, ghost, bounds

LEMMA HumanFrame ==
    ASSUME TypeOK, Human
    PROVE  \E i \in Issue :
             /\ UNCHANGED <<tick, run>> /\ edits' = edits + 1
             /\ dirty' = [dirty EXCEPT ![i] = {"run", "tick"}]
             /\ \A j \in Issue \ {i} :
                  /\ column'[j] = column[j] /\ labels'[j] = labels[j] /\ merged'[j] = merged[j]
                  /\ j \in byHand' <=> j \in byHand
BY DEF TypeOK, Human, HumanMove, HumanUnlabel, HumanMerge, Edit

-----------------------------------------------------------------------------
\* The tick and the runs: who owns what.

Owned == StagesLeft /\ Tracked /\ PhaseShape /\ SweepApart

LEMMA InitOwned == Init => Owned
BY DEF Init, Owned, StagesLeft, Tracked, PhaseShape, SweepApart, None

LEMMA RunOwned ==
    ASSUME TypeOK, Owned, NEW i \in Issue, RunStep(i)
    PROVE  Owned'
<1>1. Frame(i) BY RunFrame
<1>2. Tracked' BY <1>1 DEF Owned, Tracked, Frame
<1>3. PhaseShape' /\ SweepApart'
  BY <1>1 DEF TypeOK, Owned, PhaseShape, SweepApart, Frame, tick, sweepVars, reconVars
<1>4. pc'[i] = "stage" => left'[i] > 0
  <2>1. CASE LabelStep(i)
    BY <2>1 DEF TypeOK, LabelStep, RefuseLabel, ClaimLabel, Rollback, HoldLabel, StaleLabel,
         Release, ParkLabel, ParkRelease, LabelCall, Goto
  <2>2. CASE MoveStep(i)
    BY <2>2 DEF TypeOK, MoveStep, RefuseMove, ClaimMove, HoldMove, ReviewMove, FallbackMove,
         DoneMove, StaleMove, ParkMove, MoveCall, Goto
  <2>3. CASE OtherStep(i)
    BY <2>3, BoundsAssumption DEF TypeOK, Owned, StagesLeft, OtherStep, Admit, ClaimRead, ClaimVerify,
         Prepare, StageEnd, Check, Deliver, MergeCheck, Decide, Settle, ReadCall, Choose, Goto
  <2> QED BY <2>1, <2>2, <2>3, RunClasses
<1>5. StagesLeft' BY <1>1, <1>4 DEF Owned, StagesLeft, Frame
<1> QED BY <1>2, <1>3, <1>5 DEF Owned

LEMMA LaunchFresh ==
    ASSUME TypeOK, Owned, RoomLeft, phase = "select"
    PROVE  Batch \subseteq Issue /\ Batch \cap inFlight = {} /\ \A i \in Batch : pc[i] = "idle"
BY DEF TypeOK, Owned, Tracked, RoomLeft, Batch

LEMMA TickOwned ==
    ASSUME TypeOK, Owned, RoomLeft, TickStep
    PROVE  Owned'
<1>1. CASE Launch
  <2>1. Tracked' /\ StagesLeft' BY <1>1, LaunchFresh DEF TypeOK, Owned, Tracked, StagesLeft, Launch
  <2>2. PhaseShape' BY <1>1 DEF Owned, PhaseShape, Launch, sweepVars, reconVars
  <2>3. SweepApart' BY <1>1 DEF Owned, PhaseShape, SweepApart, Launch, sweepVars
  <2> QED BY <2>1, <2>2, <2>3 DEF Owned
<1>2. CASE ~Launch
  <2>1. Tracked' /\ StagesLeft' BY <1>2, TickFrame DEF Owned, Tracked, StagesLeft
  <2>2. PhaseShape'
    BY <1>2 DEF Owned, PhaseShape, TickStep, TickBegin, SweepRead, SweepStrip, SweepReset, SweepNext,
         Fetch, Select, ReconCall, ReconRead, ReconClose, ClaimLoss, PassEnd, sweepVars, reconVars
  <2>3. SweepApart'
    BY <1>2 DEF TypeOK, Owned, PhaseShape, SweepApart, TickStep, TickBegin, SweepRead, SweepStrip,
         SweepReset, SweepNext, Orphaned, Fetch, Select, ReconCall, ReconRead, ReconClose, ClaimLoss, PassEnd, sweepVars,
         reconVars, run
  <2> QED BY <2>1, <2>2, <2>3 DEF Owned
<1> QED BY <1>1, <1>2

LEMMA OutsideOwned ==
    ASSUME TypeOK, Owned, Start \/ Stop \/ Crash \/ Exit \/ Human \/ UNCHANGED vars
    PROVE  Owned'
<1>1. CASE Start \/ Stop
  BY <1>1 DEF Owned, StagesLeft, Tracked, PhaseShape, SweepApart, Start, Stop, sweepVars, reconVars, run
<1>2. CASE Crash \/ Exit
  BY <1>2 DEF Owned, StagesLeft, Tracked, PhaseShape, SweepApart, Crash, Exit, Down, None
<1>3. CASE Human
  BY <1>3, HumanFrame DEF Owned, StagesLeft, Tracked, PhaseShape, SweepApart, tick, sweepVars, reconVars, run
<1>4. CASE UNCHANGED vars
  BY <1>4 DEF Owned, StagesLeft, Tracked, PhaseShape, SweepApart, vars, tick, sweepVars, reconVars, run
<1> QED BY <1>1, <1>2, <1>3, <1>4

-----------------------------------------------------------------------------
\* Claims of this process stay intact.

LEMMA RunClaims ==
    ASSUME TypeOK, Owned, OwnClaimsIntact, NEW i \in Issue, RunStep(i)
    PROVE  OwnClaimsIntact'
<1> DEFINE Mine(j) == /\ "Executing" \in labels[j] /\ (column[j] \in Started \/ merged[j])
<1>1. Frame(i) BY RunFrame
<1>2. SUFFICES ASSUME pc'[i] \in Holding, "run" \notin dirty'[i]
               PROVE  Mine(i)'
  BY <1>1 DEF OwnClaimsIntact, Frame
<1>3. ~LabelStep(i)
  BY <1>2 DEF TypeOK, Holding, LabelStep, RefuseLabel, ClaimLabel, Rollback, HoldLabel, StaleLabel,
       Release, ParkLabel, ParkRelease, LabelCall, Goto
<1>4. ~MoveStep(i)
  BY <1>2 DEF TypeOK, Holding, MoveStep, RefuseMove, ClaimMove, HoldMove, ReviewMove, FallbackMove,
       DoneMove, StaleMove, ParkMove, MoveCall, Goto
<1>5. OtherStep(i) BY <1>3, <1>4, RunClasses
<1>6. CASE Check(i) \/ MergeCheck(i) \/ ClaimVerify(i)
  BY <1>2, <1>6 DEF TypeOK, Holding, Check, MergeCheck, ClaimVerify, ReadCall, IsOurs, Goto, board
<1>7. CASE Prepare(i) \/ StageEnd(i) \/ Deliver(i)
  BY <1>2, <1>7 DEF TypeOK, OwnClaimsIntact, Holding, Prepare, StageEnd, Deliver, Choose, Goto, board, ghost
<1>8. CASE Admit(i) \/ ClaimRead(i) \/ Decide(i) \/ Settle(i)
  BY <1>2, <1>8 DEF TypeOK, Holding, Admit, ClaimRead, Decide, Settle, ReadCall, Choose, Goto
<1> QED BY <1>5, <1>6, <1>7, <1>8 DEF OtherStep

LEMMA TickClaims ==
    ASSUME TypeOK, Owned, RoomLeft, OwnClaimsIntact, TickStep
    PROVE  OwnClaimsIntact'
<1>1. CASE Launch
  BY <1>1, LaunchFresh DEF TypeOK, OwnClaimsIntact, Holding, Launch, board
<1>2. CASE ~Launch
  <2>1. SUFFICES ASSUME NEW i \in Issue, pc[i] \in Holding, "run" \notin dirty[i]
                 PROVE  "Executing" \in labels'[i] /\ (column'[i] \in Started \/ merged'[i])
    BY <1>2, TickFrame DEF OwnClaimsIntact
  <2>2. i \in inFlight /\ i \notin orphans /\ cur # i
    BY <2>1, IssueAssumption DEF TypeOK, Owned, Tracked, SweepApart, Holding, None
  <2>3. "Executing" \in labels[i] /\ (column[i] \in Started \/ merged[i])
    BY <2>1 DEF OwnClaimsIntact
  <2>4. "Executing" \in labels'[i]
    BY <1>2, <2>2, <2>3 DEF TypeOK, TickStep, TickBegin, SweepRead, SweepStrip, SweepReset,
         Fetch, Select, ReconCall, ReconRead, ReconClose, ClaimLoss, board
  <2>5. column'[i] # column[i] => merged[i]
    BY <1>2, <2>2, <2>3 DEF TypeOK, TickStep, TickBegin, SweepRead, SweepStrip, SweepReset, SetColumn,
         Fetch, Select, ReconCall, ReconRead, ReconClose, ClaimLoss, board
  <2> QED BY <2>3, <2>4, <2>5, TickFrame
<1> QED BY <1>1, <1>2

LEMMA OutsideClaims ==
    ASSUME TypeOK, OwnClaimsIntact, Start \/ Stop \/ Crash \/ Exit \/ Human \/ UNCHANGED vars
    PROVE  OwnClaimsIntact'
<1>1. CASE Start \/ Stop BY <1>1 DEF OwnClaimsIntact, Start, Stop, board, run, ghost
<1>2. CASE Crash \/ Exit BY <1>2 DEF OwnClaimsIntact, Crash, Exit, Down, Holding
<1>3. CASE Human BY <1>3, HumanFrame DEF TypeOK, OwnClaimsIntact, run
<1>4. CASE UNCHANGED vars BY <1>4 DEF OwnClaimsIntact, vars, board, run, ghost
<1> QED BY <1>1, <1>2, <1>3, <1>4

-----------------------------------------------------------------------------
\* The WIP bound: the tickets of a batch have different ranks below the capacity.

LEMMA FewLowRanks ==
    ASSUME NEW C \in SUBSET Nat, IsFiniteSet(C), NEW k \in Nat
    PROVE  /\ IsFiniteSet({i \in C : Cardinality({j \in C : j < i}) < k})
           /\ Cardinality({i \in C : Cardinality({j \in C : j < i}) < k}) <= k
<1> DEFINE Below(i) == {j \in C : j < i}
           B == {i \in C : Cardinality(Below(i)) < k}
           rank == [i \in B |-> Cardinality(Below(i)) + 1]
<1>1. ASSUME NEW i \in C PROVE IsFiniteSet(Below(i)) /\ Cardinality(Below(i)) \in Nat
  <2>1. Below(i) \in SUBSET C OBVIOUS
  <2> HIDE DEF Below
  <2> QED BY <2>1, FS_Subset, FS_CardinalityType
<1>2. ASSUME NEW i \in C, NEW j \in C, i < j
      PROVE  Cardinality(Below(i)) < Cardinality(Below(j))
  <2>1. Below(i) \in SUBSET Below(j)
    <3>1. ASSUME NEW x \in C, x < i PROVE x < j BY <1>2, <3>1
    <3> QED BY <3>1
  <2>2. i \in Below(j) /\ i \notin Below(i) BY <1>2
  <2> HIDE DEF Below
  <2> QED BY <2>1, <2>2, <1>1, FS_Subset
<1> HIDE DEF Below
<1>3. rank \in [B -> 1 .. k]
  <2>1. ASSUME NEW i \in B PROVE Cardinality(Below(i)) + 1 \in 1 .. k
    <3>1. Cardinality(Below(i)) \in Nat /\ Cardinality(Below(i)) < k BY <1>1
    <3> QED BY <3>1
  <2> QED BY <2>1
<1>4. rank \in Injection(B, 1 .. k)
  <2>1. ASSUME NEW i \in B, NEW j \in B, i # j PROVE rank[i] # rank[j]
    <3>1. CASE i < j BY <3>1, <1>1, <1>2
    <3>2. CASE j < i BY <3>2, <1>1, <1>2
    <3> QED BY <3>1, <3>2, <2>1
  <2> QED BY <2>1, <1>3 DEF Injection, IsInjective
<1>5. IsFiniteSet(1 .. k) /\ Cardinality(1 .. k) = k BY FS_Interval
<1>6. B = {i \in C : Cardinality({j \in C : j < i}) < k} BY DEF Below
<1> HIDE DEF B
<1>7. IsFiniteSet(B) /\ Cardinality(B) <= k BY <1>4, <1>5, FS_Injection
<1> QED BY <1>6, <1>7

\* Only the launch adds to the in-flight map.
LEMMA OthersShrink ==
    ASSUME TypeOK, [Next]_vars, ~Launch
    PROVE  inFlight' \subseteq inFlight
<1>1. CASE Start \/ Stop \/ Crash \/ Exit \/ UNCHANGED vars
  BY <1>1 DEF Start, Stop, Crash, Exit, Down, vars, run
<1>2. CASE Human BY <1>2, HumanFrame DEF run
<1>3. CASE TickStep BY <1>3, TickFrame
<1>4. CASE \E i \in Issue : RunStep(i) BY <1>4, RunFrame DEF Frame
<1> QED BY <1>1, <1>2, <1>3, <1>4 DEF Next

LEMMA FlightFinite ==
    ASSUME TypeOK
    PROVE  IsFiniteSet(inFlight) /\ Cardinality(inFlight) \in Nat
BY IssueAssumption, FS_Subset, FS_CardinalityType DEF TypeOK

\* The room that was counted is there until it is used.
LEMMA RoomStep ==
    ASSUME TypeOK, Owned, RoomLeft, [Next]_vars
    PROVE  RoomLeft'
<1>1. CASE Select
  <2>1. inFlight' = inFlight BY <1>1 DEF Select, run
  <2>2. phase' = "select" => queue' = queue \ inFlight /\ room' = WipLimit - Cardinality(inFlight)
    BY <1>1 DEF Select, Candidates, Capacity
  <2>3. Cardinality(inFlight) \in Nat BY FlightFinite
  <2> QED BY <2>1, <2>2, <2>3, BoundsAssumption DEF RoomLeft
<1>2. CASE ~Select
  <2>1. SUFFICES ASSUME phase' = "select"
                 PROVE  queue' \cap inFlight' = {} /\ Cardinality(inFlight') + room' <= WipLimit
    BY DEF RoomLeft
  <2>2. phase = "select" /\ queue' = queue /\ room' = room /\ ~Launch
    <3>0. CASE UNCHANGED vars BY <2>1, <3>0 DEF vars, tick, Launch
    <3>1. ~(Start \/ Stop \/ Crash \/ Exit) BY <2>1 DEF Start, Stop, Crash, Exit, Down
    <3>2. CASE Human BY <2>1, <3>2, HumanFrame DEF tick, Launch
    <3>3. CASE TickStep
      BY <1>2, <2>1, <3>3 DEF TickStep, TickBegin, SweepRead, SweepStrip, SweepReset, SweepNext, Fetch,
           Launch, ReconCall, ReconRead, ReconClose, ClaimLoss, PassEnd
    <3>4. CASE \E i \in Issue : RunStep(i) BY <2>1, <3>4, RunFrame DEF Frame, tick, Launch
    <3> QED BY <3>0, <3>1, <3>2, <3>3, <3>4 DEF Next
  <2>3. inFlight' \subseteq inFlight BY <2>2, OthersShrink
  <2>4. Cardinality(inFlight') \in Nat /\ Cardinality(inFlight') <= Cardinality(inFlight)
    BY <2>3, FlightFinite, FS_Subset, FS_CardinalityType
  <2> QED BY <2>2, <2>3, <2>4, FlightFinite, BoundsAssumption DEF TypeOK, RoomLeft
<1> QED BY <1>1, <1>2

LEMMA WipStep ==
    ASSUME TypeOK, Owned, WipBound, RoomLeft, [Next]_vars
    PROVE  WipBound'
<1>0. IsFiniteSet(inFlight) /\ Cardinality(inFlight) \in Nat BY FlightFinite
<1>1. CASE Launch
  <2>1. IsFiniteSet(queue) /\ queue \in SUBSET Nat /\ room \in Nat
    <3>1. queue \in SUBSET Issue /\ room \in 0 .. WipLimit BY DEF TypeOK
    <3>2. IsFiniteSet(queue) BY <3>1, IssueAssumption, FS_Subset
    <3> QED BY <3>1, <3>2, IssueAssumption, BoundsAssumption
  <2>2. IsFiniteSet(Batch) /\ Cardinality(Batch) <= room /\ Cardinality(Batch) \in Nat
    BY <2>1, FewLowRanks, FS_CardinalityType DEF Batch
  <2>3. inFlight \cap Batch = {} BY <1>1, LaunchFresh DEF Launch
  <2>4. Cardinality(inFlight \cup Batch) = Cardinality(inFlight) + Cardinality(Batch)
    <3>1. Cardinality({}) = 0 BY FS_EmptySet
    <3>2. Cardinality(inFlight \cup Batch)
             = Cardinality(inFlight) + Cardinality(Batch) - Cardinality(inFlight \cap Batch)
      BY <2>2, <1>0, FS_Union
    <3>3. Cardinality(inFlight \cap Batch) = 0 BY <2>3, <3>1
    <3>4. Cardinality(Batch) \in Nat BY <2>2
    <3> QED BY <1>0, <3>2, <3>3, <3>4
  <2>5. Cardinality(inFlight) + room <= WipLimit BY <1>1 DEF RoomLeft, Launch
  <2> QED BY <1>1, <2>1, <2>2, <2>4, <2>5, <1>0, BoundsAssumption DEF WipBound, Launch
<1>2. CASE ~Launch
  <2>1. inFlight' \subseteq inFlight BY <1>2, OthersShrink
  <2>2. Cardinality(inFlight') <= Cardinality(inFlight) /\ Cardinality(inFlight') \in Nat
    BY <2>1, <1>0, FS_Subset, FS_CardinalityType
  <2> QED BY <2>2, <1>0, BoundsAssumption DEF WipBound
<1> QED BY <1>1, <1>2

-----------------------------------------------------------------------------
\* What the tick and the runs have seen of the tickets that humans put to rest.

Saw == TickSaw /\ RunSaw

LEMMA InitSaw == Init => Saw
BY DEF Init, Saw, TickSaw, RunSaw, Resting

LEMMA RunSaws ==
    ASSUME TypeOK, Saw, NEW i \in Issue, RunStep(i)
    PROVE  Saw'
<1>1. Frame(i) BY RunFrame
<1>2. Resting(i)' => Resting(i)
  <2>1. CASE LabelStep(i)
    BY <2>1 DEF Resting, LabelStep, RefuseLabel, ClaimLabel, Rollback, HoldLabel, StaleLabel,
         Release, ParkLabel, ParkRelease, LabelCall, ghost
  <2>2. CASE MoveStep(i)
    BY <2>2 DEF Resting, MoveStep, RefuseMove, ClaimMove, HoldMove, ReviewMove, FallbackMove,
         DoneMove, StaleMove, ParkMove, MoveCall, SetColumn
  <2>3. CASE OtherStep(i)
    BY <2>3 DEF Resting, OtherStep, Admit, ClaimRead, ClaimVerify, Prepare, StageEnd, Check,
         Deliver, MergeCheck, Decide, Settle, ReadCall, Choose, board, ghost
  <2> QED BY <2>1, <2>2, <2>3, RunClasses
<1>3. TickSaw'
  <2>1. "tick" \in dirty'[i] <=> "tick" \in dirty[i]
    <3>1. CASE OtherStep(i)
      BY <3>1 DEF TypeOK, OtherStep, Admit, ClaimRead, ClaimVerify, Prepare, StageEnd, Check,
           Deliver, MergeCheck, Decide, Settle, ReadCall, Choose, Read, ghost
    <3>2. CASE LabelStep(i) \/ MoveStep(i)
      BY <3>2 DEF LabelStep, RefuseLabel, ClaimLabel, Rollback, HoldLabel, StaleLabel,
           Release, ParkLabel, ParkRelease, LabelCall, ghost, MoveStep, RefuseMove, ClaimMove, HoldMove,
           ReviewMove, FallbackMove, DoneMove, StaleMove, ParkMove, MoveCall
    <3> QED BY <3>1, <3>2, RunClasses
  <2> QED BY <1>1, <1>2, <2>1 DEF TypeOK, Saw, TickSaw, Resting, Frame, tick, sweepVars, reconVars
<1>4. Resting(i)' /\ "run" \notin dirty'[i] => pc'[i] \in Quiet
  <2> SUFFICES ASSUME Resting(i)', "run" \notin dirty'[i] PROVE pc'[i] \in Quiet
    OBVIOUS
  <2>1. Resting(i) /\ ("run" \notin dirty[i] => pc[i] \in Quiet) BY <1>2 DEF Saw, RunSaw
  <2>2. CASE LabelStep(i)
    BY <2>1, <2>2 DEF TypeOK, Quiet, LabelStep, RefuseLabel, ClaimLabel, Rollback, HoldLabel, StaleLabel,
         Release, ParkLabel, ParkRelease, LabelCall, Goto, ghost
  <2>3. CASE MoveStep(i)
    BY <2>1, <2>3 DEF TypeOK, Quiet, MoveStep, RefuseMove, ClaimMove, HoldMove, ReviewMove, FallbackMove,
         DoneMove, StaleMove, ParkMove, MoveCall, Goto
  <2>4. CASE ClaimRead(i) \/ ClaimVerify(i) \/ Check(i) \/ MergeCheck(i)
    BY <2>1, <2>4 DEF TypeOK, Quiet, Resting, Terminal, Unstarted, Started, Optional, ClaimRead, ClaimRefused,
         ClaimVerify, Check, MergeCheck, ReadCall, IsOurs, Goto, board
  <2>5. CASE Admit(i) \/ Prepare(i) \/ StageEnd(i) \/ Deliver(i) \/ Decide(i) \/ Settle(i)
    BY <2>1, <2>5 DEF TypeOK, Quiet, Admit, Prepare, StageEnd, Deliver, Decide, Settle, Choose,
         Goto, ghost
  <2> QED BY <2>2, <2>3, <2>4, <2>5, RunClasses DEF OtherStep
<1>5. RunSaw' BY <1>1, <1>4 DEF Saw, RunSaw, Resting, Frame
<1> QED BY <1>3, <1>5 DEF Saw

LEMMA TickSaws ==
    ASSUME TypeOK, Owned, Saw, TickStep
    PROVE  Saw'
<1>1. \A i \in Issue : Resting(i)' => Resting(i)
  BY DEF TypeOK, Resting, TickStep, TickBegin, SweepRead, SweepStrip, SweepReset, SetColumn, Fetch,
         Select, Launch, ReconCall, ReconRead, ReconClose, ClaimLoss, board, ghost
<1>2. RunSaw'
  <2>1. CASE Launch
    <3> SUFFICES ASSUME NEW i \in Issue, Resting(i), "run" \notin dirty'[i]
                 PROVE  pc'[i] \in Quiet
      BY <1>1 DEF RunSaw
    <3>1. CASE i \in Batch
      BY <2>1, <3>1 DEF TypeOK, Saw, TickSaw, Batch, Launch
    <3>2. CASE i \notin Batch
      BY <2>1, <3>2 DEF TypeOK, Saw, RunSaw, Launch
    <3> QED BY <3>1, <3>2
  <2>2. CASE ~Launch BY <1>1, <2>2, TickFrame DEF Saw, RunSaw
  <2> QED BY <2>1, <2>2
<1>3. TickSaw'
  <2>1. CASE TickBegin \/ Select \/ ReconCall \/ ClaimLoss
    BY <1>1, <2>1 DEF Saw, TickSaw, TickBegin, Select, Candidates, ReconCall, ClaimLoss, PassEnd,
         sweepVars, reconVars, ghost
  <2>2. CASE SweepRead
    BY <1>1, <2>2 DEF TypeOK, Owned, PhaseShape, Saw, TickSaw, SweepRead, ShouldRequeue, Resting,
         Unstarted, Started, Terminal, Optional, Read, board, reconVars
  <2>3. CASE Fetch
    BY <1>1, <2>3 DEF TypeOK, Owned, PhaseShape, Saw, TickSaw, Fetch, Claimable, Resting, Terminal,
         Read, board, sweepVars, reconVars
  <2>4. CASE Launch
    BY <1>1, <2>4 DEF TypeOK, Owned, PhaseShape, Saw, TickSaw, Launch, sweepVars, reconVars
  <2>5. CASE ReconRead
    BY <1>1, <2>5 DEF TypeOK, Owned, PhaseShape, Saw, TickSaw, ReconRead, Resting, Started, Terminal,
         Read, board, sweepVars
  <2>6. ASSUME NEW i \in Issue, SweepStrip(i) \/ SweepReset(i) PROVE TickSaw'
    BY <1>1, <2>6 DEF Saw, TickSaw, SweepStrip, SweepReset, SweepNext, reconVars, ghost
  <2>7. ASSUME NEW i \in Issue, ReconClose(i) PROVE TickSaw'
    BY <1>1, <2>7 DEF Saw, TickSaw, ReconClose, PassEnd, sweepVars
  <2> QED BY <2>1, <2>2, <2>3, <2>4, <2>5, <2>6, <2>7 DEF TickStep
<1> QED BY <1>2, <1>3 DEF Saw

LEMMA OutsideSaws ==
    ASSUME TypeOK, Saw, Start \/ Stop \/ Crash \/ Exit \/ Human \/ UNCHANGED vars
    PROVE  Saw'
<1>1. CASE Start \/ Stop
  BY <1>1 DEF Saw, TickSaw, RunSaw, Resting, Start, Stop, board, sweepVars, reconVars, run, ghost
<1>2. CASE Crash \/ Exit
  BY <1>2 DEF TypeOK, Saw, TickSaw, RunSaw, Resting, Quiet, Crash, Exit, Down, board, ghost
<1>3. CASE Human
  BY <1>3, HumanFrame DEF TypeOK, Saw, TickSaw, RunSaw, Resting, tick, sweepVars, reconVars, run
<1>4. CASE UNCHANGED vars
  BY <1>4 DEF Saw, TickSaw, RunSaw, Resting, vars, board, tick, sweepVars, reconVars, run, ghost
<1> QED BY <1>1, <1>2, <1>3, <1>4

-----------------------------------------------------------------------------
\* The inductive invariant and what follows from it.

IndInv == TypeOK /\ Owned /\ OwnClaimsIntact /\ WipBound /\ RoomLeft /\ Saw

LEMMA InitInv == Init => IndInv
<1>1. Init => OwnClaimsIntact BY DEF Init, OwnClaimsIntact, Holding
<1>2. Init => WipBound BY FS_EmptySet, BoundsAssumption DEF Init, WipBound
<1>3. Init => RoomLeft BY DEF Init, RoomLeft
<1> QED BY <1>1, <1>2, <1>3, InitTypes, InitOwned, InitSaw DEF IndInv

LEMMA StepInv == IndInv /\ [Next]_vars => IndInv'
<1> SUFFICES ASSUME IndInv, [Next]_vars PROVE IndInv'
  OBVIOUS
<1> USE DEF IndInv
<1>1. CASE TickStep
  BY <1>1, TickTypes, TickOwned, TickClaims, TickSaws, WipStep, RoomStep DEF Owned
<1>2. ASSUME NEW i \in Issue, RunStep(i) PROVE IndInv'
  <2>1. TypeOK' BY <1>2, RunTypes DEF Owned
  <2> QED BY <1>2, <2>1, RunOwned, RunClaims, RunSaws, WipStep, RoomStep
<1>3. CASE Start \/ Stop \/ Crash \/ Exit \/ Human \/ UNCHANGED vars
  <2>1. TypeOK' BY <1>3, OutsideTypes, StutterTypes
  <2> QED BY <1>3, <2>1, OutsideOwned, OutsideClaims, OutsideSaws, WipStep, RoomStep
<1> QED BY <1>1, <1>2, <1>3 DEF Next

THEOREM Invariance == Spec => []IndInv
<1> QED BY InitInv, StepInv, PTL DEF Spec

\* Every variable keeps its type.
THEOREM TypeCorrectness == Spec => []TypeOK
<1>1. IndInv => TypeOK BY DEF IndInv
<1> QED BY <1>1, Invariance, PTL

\* Whatever the sweep, the reconcile pass, failures and crashes do, a run's claim
\* is intact as long as no human touched the ticket since the run last read it.
THEOREM ClaimsIntact == Spec => []OwnClaimsIntact
<1>1. IndInv => OwnClaimsIntact BY DEF IndInv
<1> QED BY <1>1, Invariance, PTL

\* There are never more runs in flight than the WIP limit, although the launch
\* relies on a count that it took before an await (index.ts 185-223).
THEOREM WipNeverExceeded == Spec => []WipBound
<1>1. IndInv => WipBound BY DEF IndInv
<1> QED BY <1>1, Invariance, PTL

\* A launch never starts a ticket whose previous run is still going.
THEOREM StartedOnce == Spec => NeverStartedTwice
<1> DEFINE Fresh == \A i \in Issue : pc'[i] = "admit" => pc[i] \in {"idle", "admit"}
<1>1. IndInv /\ [Next]_vars => [Fresh]_vars
  <2> SUFFICES ASSUME IndInv, Next PROVE Fresh
    OBVIOUS
  <2> USE DEF IndInv
  <2>1. CASE TickStep
    <3>1. CASE Launch BY <3>1, LaunchFresh DEF TypeOK, Launch
    <3>2. CASE ~Launch BY <2>1, <3>2, TickFrame
    <3> QED BY <3>1, <3>2
  <2>2. ASSUME NEW i \in Issue, RunStep(i) PROVE Fresh BY <2>2, RunFrame DEF Frame
  <2>3. CASE Start \/ Stop \/ Crash \/ Exit BY <2>3 DEF Start, Stop, Crash, Exit, Down, run
  <2>4. CASE Human BY <2>4, HumanFrame DEF run
  <2> QED BY <2>1, <2>2, <2>3, <2>4 DEF Next
<1> QED BY <1>1, Invariance, PTL DEF Spec, NeverStartedTwice

\* The daemon moves a ticket out of a terminal column where a human put it only
\* if the human did so after the daemon's last look at the ticket.
THEOREM TerminalMoves == Spec => TerminalMovesAreRaces
<1> DEFINE Races ==
      \A i \in Issue :
         i \in byHand /\ column[i] \in Terminal /\ column'[i] # column[i] =>
            \/ edits' # edits
            \/ pc'[i] # pc[i] /\ "run" \in dirty[i]
            \/ pc'[i] = pc[i] /\ "tick" \in dirty[i]
<1>1. IndInv /\ [Next]_vars => [Races]_vars
  <2> SUFFICES ASSUME IndInv, Next PROVE Races
    OBVIOUS
  <2> USE DEF IndInv
  <2>1. CASE TickStep
    <3> SUFFICES ASSUME NEW i \in Issue, Resting(i), column'[i] # column[i]
                 PROVE  pc' = pc /\ "tick" \in dirty[i]
      BY DEF Resting
    <3>1. \/ SweepReset(i) \/ ReconClose(i)
      BY <2>1 DEF TypeOK, TickStep, TickBegin, SweepRead, SweepStrip, SweepReset, SetColumn, Fetch,
           Select, Launch, ReconCall, ReconRead, ReconClose, ClaimLoss, board
    <3>2. i \in requeue \cup toClose
      BY <3>1, IssueAssumption DEF Owned, SweepApart, SweepReset, ReconClose, None
    <3>3. "tick" \in dirty[i] BY <3>2 DEF Saw, TickSaw
    <3> QED BY <3>1, <3>3 DEF SweepReset, ReconClose, run
  <2>2. ASSUME NEW i \in Issue, RunStep(i) PROVE Races
    <3>1. Frame(i) BY <2>2, RunFrame
    <3> SUFFICES ASSUME Resting(i), column'[i] # column[i]
                 PROVE  "run" \in dirty[i]
      BY <3>1 DEF Frame, Resting
    <3>2. MoveStep(i)
      BY <2>2, RunClasses DEF LabelStep, RefuseLabel, ClaimLabel, Rollback, HoldLabel, StaleLabel, Release,
           ParkLabel, ParkRelease, LabelCall, OtherStep, Admit, ClaimRead, ClaimVerify,
           Prepare, StageEnd, Check, Deliver, MergeCheck, Decide, Settle, ReadCall, Choose, board
    <3>3. pc[i] \notin Quiet
      BY <3>2 DEF Quiet, MoveStep, RefuseMove, ClaimMove, HoldMove, ReviewMove, FallbackMove, DoneMove,
           StaleMove, ParkMove, MoveCall
    <3> QED BY <3>3 DEF Saw, RunSaw
  <2>3. CASE Start \/ Stop \/ Crash \/ Exit BY <2>3 DEF Start, Stop, Crash, Exit, Down, board
  <2>4. CASE Human
    <3>1. edits' # edits BY <2>4, HumanFrame DEF TypeOK
    <3> QED BY <3>1
  <2> QED BY <2>1, <2>2, <2>3, <2>4 DEF Next
<1> QED BY <1>1, Invariance, PTL DEF Spec, TerminalMovesAreRaces
=============================================================================
