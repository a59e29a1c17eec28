---------------------------- MODULE MissionControl ----------------------------
(* The dashboard: the event bus with its ring (events.ts), the daemon's fold of the events
   into the mission state and the two ways it is handed out, GET /state and the stream
   GET /events (server.ts), and a browser tab that keeps a mirror of it over connections
   that come and go (ui/src/lib/sse.ts, store.ts); with the reconstruction of a run from
   the durable log (ui/src/lib/reconstruct.ts).

   One daemon, one tab.  An event is stamped, folded and written to the open stream in one
   synchronous step.  Frames in the stream arrive in order until the connection drops; a
   request for /state is answered and its answer handled in steps of their own, so requests
   of several connections may be open at once.  The daemon may restart: sequence numbers
   start over and the ring is empty.  e.seq stands for the time stamp e.at as well.
   Nothing is lost on the way to the durable log here (EventLog models what may be). *)
EXTENDS Integers, Sequences, FiniteSets

CONSTANTS Scripts,       \* what the daemon may emit in one life, each in order
          RingCap,       \* RING_CAP
          FeedCap,       \* FEED_CAP
          MaxFinished,   \* MAX_FINISHED_RUNS
          MaxTrouble     \* bound: dropped connections, restarts and failed requests together

(* FactoryEventBody, as far as a view depends on it. *)
RunEvents == {"run_started", "run_stage_started", "run_tool_use", "run_assistant_text",
              "run_stage_finished", "run_gates", "run_finished"}
OtherTypes == STRING \ (RunEvents \union {"daemon_started", "tick_finished", "linear_backoff", "queue_snapshot",
                                          "issue_needs_human"})
Bodies ==
    [type : {"daemon_started"} \union OtherTypes] \union [type : OtherTypes, key : STRING]
    \union [type : {"tick_finished"}, error : BOOLEAN] \union [type : {"linear_backoff"}, seconds : Nat]
    \union [type : {"queue_snapshot"}, issues : STRING]
    \union [type : {"issue_needs_human", "run_started", "run_assistant_text"}, key : STRING]
    \union [type : {"run_stage_started", "run_tool_use"}, key : STRING, stage : STRING]
    \union [type : {"run_stage_finished"}, key : STRING, stage : STRING, cost : Nat]
    \union [type : {"run_gates"}, key : STRING, round : Nat]
    \union [type : {"run_finished"}, key : STRING, outcome : STRING, cost : Nat, degraded : SUBSET STRING]

ASSUME MissionControlAssumption ==
    /\ {RingCap, FeedCap, MaxFinished} \subseteq Nat \ {0}
    /\ MaxTrouble \in Nat
    /\ Scripts \subseteq Seq(Bodies)

(* SelectSeq and FoldLeft, as functions of the length: what of s is at the places keep. *)
Filtered(s, keep) ==
    LET part[n \in 0..Len(s)] ==
            IF n = 0 THEN << >> ELSE IF n \in keep THEN Append(part[n - 1], s[n]) ELSE part[n - 1]
    IN  part[Len(s)]

-----------------------------------------------------------------------------
(* The reducer.  A mission state holds what the daemon says of itself, the board, the runs
   by issue, and who waits for a human. *)

InitialMission == [seq |-> 0, daemon |-> [up |-> FALSE], board |-> "none", runs |-> << >>, needsHuman |-> << >>]
FreshRun(at) == [startedAt |-> at, finishedAt |-> 0, status |-> "active", titled |-> FALSE,
                 stages |-> << >>, gates |-> 0, cost |-> 0]
StageView(e) == [stage |-> e.stage, finishedAt |-> 0, cost |-> 0, tools |-> 0, degraded |-> FALSE]

(* The last unfinished stage of that label; 0 if there is none. *)
OpenStageIndex(stages, label) ==
    LET open == {i \in DOMAIN stages : stages[i].stage = label /\ stages[i].finishedAt = 0}
    IN  IF open = {} THEN 0 ELSE CHOOSE i \in open : \A j \in open : j <= i

(* An event of a run nobody has heard of makes a run. *)
RunOf(m, e) == IF e.key \in DOMAIN m.runs THEN m.runs[e.key] ELSE FreshRun(e.seq)
Put(f, key, value) == [k \in DOMAIN f \union {key} |-> IF k = key THEN value ELSE f[k]]

PruneFinishedRuns(runs) ==
    LET finished == {k \in DOMAIN runs : runs[k].status /= "active"}
        newer(k) == {j \in finished : runs[j].finishedAt > runs[k].finishedAt}
    IN  [k \in {k \in DOMAIN runs : k \in finished => Cardinality(newer(k)) < MaxFinished} |-> runs[k]]

DaemonStarted(m, e) == [m EXCEPT !.daemon = [up |-> TRUE, tick |-> 0, backoff |-> 0]]
TickFinished(m, e) ==
    IF ~m.daemon.up THEN m
    ELSE [m EXCEPT !.daemon.tick = e.seq, !.daemon.backoff = IF e.error THEN @ ELSE 0]
LinearBackoff(m, e) == IF ~m.daemon.up THEN m ELSE [m EXCEPT !.daemon.backoff = e.seconds]
QueueSnapshot(m, e) == [m EXCEPT !.board = e.issues]
IssueNeedsHuman(m, e) ==
    [m EXCEPT !.needsHuman = Append(Filtered(@, {i \in DOMAIN @ : @[i].key /= e.key}), [key |-> e.key, at |-> e.seq])]

(* What an event makes of the run it is about. *)
RunStartedAgain(run, e) == [run EXCEPT !.startedAt = e.seq, !.status = "active", !.titled = TRUE]
RunStarted(run, e) == [FreshRun(e.seq) EXCEPT !.titled = TRUE]
RunStageStarted(run, e) == [run EXCEPT !.stages = Append(@, StageView(e))]
RunToolUse(run, e) ==
    LET i == OpenStageIndex(run.stages, e.stage) IN IF i = 0 THEN run ELSE [run EXCEPT !.stages[i].tools = @ + 1]
RunAssistantText(run, e) == run   \* the line it shows is left out
RunStageFinished(run, e) ==
    LET i == OpenStageIndex(run.stages, e.stage)
        paid == [run EXCEPT !.cost = @ + e.cost]
    IN  IF i = 0 THEN paid ELSE [paid EXCEPT !.stages[i].finishedAt = e.seq, !.stages[i].cost = e.cost]
RunGates(run, e) == [run EXCEPT !.gates = e.round]
RunFinished(run, e) ==
    [run EXCEPT !.status = e.outcome, !.finishedAt = e.seq, !.cost = e.cost,
                !.stages = [i \in DOMAIN @ |-> [run.stages[i] EXCEPT !.degraded = @ \/ run.stages[i].stage \in e.degraded]]]
RunAfter(run, e) ==
    CASE e.type = "run_started" -> RunStarted(run, e)
      [] e.type = "run_stage_started" -> RunStageStarted(run, e)
      [] e.type = "run_tool_use" -> RunToolUse(run, e)
      [] e.type = "run_assistant_text" -> RunAssistantText(run, e)
      [] e.type = "run_stage_finished" -> RunStageFinished(run, e)
      [] e.type = "run_gates" -> RunGates(run, e)
      [] e.type = "run_finished" -> RunFinished(run, e)
WithRun(m, e) == [m EXCEPT !.runs = Put(@, e.key, RunAfter(RunOf(m, e), e))]

Reduce(m, e) ==
    CASE e.type = "daemon_started" -> DaemonStarted(m, e)
      [] e.type = "tick_finished" -> TickFinished(m, e)
      [] e.type = "linear_backoff" -> LinearBackoff(m, e)
      [] e.type = "queue_snapshot" -> QueueSnapshot(m, e)
      [] e.type = "issue_needs_human" -> IssueNeedsHuman(m, e)
      [] e.type = "run_finished" -> [WithRun(m, e) EXCEPT !.runs = PruneFinishedRuns(@)]
      [] e.type \in RunEvents \ {"run_finished"} -> WithRun(m, e)
      [] OTHER -> m     \* the other events change no view
ApplyEvent(m, e) == [Reduce(m, e) EXCEPT !.seq = e.seq]

-----------------------------------------------------------------------------
VARIABLES
    life,      \* restarts of the daemon so far
    script,    \* what is left to emit in this life
    lastSeq, ring,
    mission,   \* the daemon's mission state
    replay,    \* per issue, what reconstructRun makes of its rows in the durable log
    stream,    \* the frames on the way to the tab, and the state of the connection
    tab,       \* the mirror, the feeds, the resync buffer, where a stream resumes; whole: history, the
               \*   life of the daemon the mirror is a copy of, -1 when it may have gaps
    requests,  \* requests for /state, one per opened connection
    synced,    \* history: the request of this connection has been answered, see Resynced
    trouble

missionVars == <<life, script, lastSeq, ring, mission, replay, stream, tab, requests, synced, trouble>>
daemon == <<life, script, lastSeq, ring, mission, replay>>

NewTab == [booted |-> FALSE, mission |-> InitialMission, whole |-> 0, feeds |-> << >>,
           buffering |-> FALSE, buffer |-> << >>, resume |-> 0]
Cut == [state |-> "down", frames |-> << >>]

MissionInit ==
    /\ life = 0 /\ script \in Scripts
    /\ lastSeq = 0 /\ ring = << >> /\ mission = InitialMission /\ replay = << >>
    /\ stream = Cut /\ tab = NewTab /\ requests = {}
    /\ synced = FALSE /\ trouble = 0

Troubled == trouble < MaxTrouble /\ trouble' = trouble + 1

-----------------------------------------------------------------------------
(* The bus and the server. *)

(* Of the queue snapshots the ring keeps the latest, and of all events the latest RingCap. *)
Remember(events, e) ==
    LET rest == IF e.type = "queue_snapshot"
                THEN Filtered(events, {i \in DOMAIN events : events[i].type /= "queue_snapshot"}) ELSE events
        all == Append(rest, e)
    IN  IF Len(all) > RingCap THEN SubSeq(all, Len(all) - RingCap + 1, Len(all)) ELSE all
HistorySince(seq) == Filtered(ring, {i \in DOMAIN ring : ring[i].seq > seq})

(* GET /run-events and reconstructRun: the rows of the issue, of every life, in order,
   folded by the tab's reducer; here one row at a time. *)
UiApplyEvent(m, e) == ApplyEvent(m, e)
Reconstructed(e) ==
    IF "key" \notin DOMAIN e THEN replay
    ELSE LET before == [InitialMission EXCEPT !.runs = [k \in DOMAIN replay \intersect {e.key} |-> replay[k]]]
             after == UiApplyEvent(before, e).runs
         IN  [k \in DOMAIN after \union DOMAIN replay |-> IF k \in DOMAIN after THEN after[k] ELSE replay[k]]

Stamped(n, x) == [field \in DOMAIN x \union {"seq"} |-> IF field = "seq" THEN n ELSE x[field]]
BusEmit ==
    /\ script /= << >>
    /\ LET e == Stamped(lastSeq + 1, Head(script))
       IN  /\ ring' = Remember(ring, e)
           /\ mission' = ApplyEvent(mission, e)
           /\ replay' = Reconstructed(e)
           /\ stream' = IF stream.state = "down" THEN stream ELSE [stream EXCEPT !.frames = Append(@, e)]
    /\ script' = Tail(script) /\ lastSeq' = lastSeq + 1
    /\ UNCHANGED <<life, tab, requests, synced, trouble>>

(* GET /events: the ring since what the tab has, then whatever comes.  What it has is in
   the address, the number the boot knew, until a header tells the last frame's. *)
Connect ==
    /\ tab.booted /\ stream.state = "down"
    /\ stream' = [state |-> "opening", frames |-> HistorySince(tab.resume)]
    /\ UNCHANGED <<daemon, tab, requests, synced, trouble>>

ServeState(r) ==
    /\ ~r.served
    /\ requests' = (requests \ {r}) \union {[r EXCEPT !.served = TRUE, !.answer = mission, !.life = life]}
    /\ UNCHANGED <<daemon, stream, tab, synced, trouble>>

Drop ==
    /\ Troubled /\ stream.state /= "down" /\ stream' = Cut
    /\ UNCHANGED <<daemon, tab, requests, synced>>

(* An answer that was sent may still be on its way. *)
Restart ==
    /\ Troubled /\ life' = life + 1
    /\ script' \in Scripts /\ lastSeq' = 0 /\ ring' = << >>
    /\ mission' = InitialMission /\ stream' = Cut
    /\ requests' = {r \in requests : r.served}
    /\ UNCHANGED <<replay, tab, synced>>

-----------------------------------------------------------------------------
(* The tab. *)

Feed(t, e) == IF e.key \in DOMAIN t.feeds THEN t.feeds[e.key] ELSE << >>
Capped(feed) == IF Len(feed) > FeedCap THEN SubSeq(feed, Len(feed) - FeedCap + 1, Len(feed)) ELSE feed
Ingest(t, e) ==
    LET next == UiApplyEvent(t.mission, e)
        fed == IF e.type \in {"run_tool_use", "run_assistant_text"}
               THEN Put(t.feeds, e.key, Capped(Append(Feed(t, e), e.seq))) ELSE t.feeds
    IN  [t EXCEPT !.mission = next,
                  !.feeds = IF e.type = "run_finished"
                            THEN [k \in DOMAIN fed \intersect DOMAIN next.runs |-> fed[k]] ELSE fed]
ResetMission(t, m, l, keepFeeds) == [t EXCEPT !.mission = m, !.whole = l, !.feeds = IF keepFeeds THEN @ ELSE << >>]

(* fold skips what the mirror has: replay overlaps after a resume. *)
FoldAll(t, e) == Ingest(t, e)
Fold(t, e) == IF e.seq <= t.mission.seq THEN t ELSE Ingest(t, e)

(* The first request is answered before the stream is opened, or fails. *)
Boot ==
    /\ ~tab.booted
    /\ \/ /\ tab' = [ResetMission(tab, mission, life, TRUE) EXCEPT !.booted = TRUE, !.resume = mission.seq]
          /\ UNCHANGED trouble
       \/ Troubled /\ tab' = [tab EXCEPT !.booted = TRUE]
    /\ UNCHANGED <<daemon, stream, requests, synced>>

(* onopen: events are buffered until the answer is there. *)
OpenBare ==
    /\ stream.state = "opening" /\ stream' = [stream EXCEPT !.state = "open"]
    /\ requests' = {[r EXCEPT !.alone = FALSE] : r \in requests} \union
                   {[id |-> trouble, served |-> FALSE, answer |-> InitialMission, life |-> life, alone |-> requests = {}]}
    /\ synced' = FALSE
    /\ UNCHANGED <<daemon, tab, trouble>>
Open ==
    /\ stream.state = "opening" /\ stream' = [stream EXCEPT !.state = "open"]
    /\ tab' = [tab EXCEPT !.buffering = TRUE, !.buffer = << >>]
    /\ requests' = {[r EXCEPT !.alone = FALSE] : r \in requests} \union
                   {[id |-> trouble, served |-> FALSE, answer |-> InitialMission, life |-> life, alone |-> requests = {}]}
    /\ synced' = FALSE
    /\ UNCHANGED <<daemon, trouble>>

Message ==
    /\ stream.state = "open" /\ stream.frames /= << >>
    /\ LET e == Head(stream.frames)
       IN  tab' = [IF tab.buffering THEN [tab EXCEPT !.buffer = Append(@, e)] ELSE Fold(tab, e)
                   EXCEPT !.resume = e.seq]
    /\ stream' = [stream EXCEPT !.frames = Tail(@)]
    /\ UNCHANGED <<daemon, requests, synced, trouble>>

(* The answer: ahead of the mirror, a gap; behind it, a daemon that restarted.  Then the
   buffer, whichever connection filled it. *)
FoldOver(t, events) ==
    LET fold[n \in 0..Len(events)] == IF n = 0 THEN t ELSE Fold(fold[n - 1], events[n])
    IN  fold[Len(events)]
Unbuffered(t) == [FoldOver(t, t.buffer) EXCEPT !.buffering = FALSE, !.buffer = << >>]
Resync(t, r) ==
    IF r.answer.seq > t.mission.seq THEN ResetMission(t, r.answer, r.life, TRUE)
    ELSE IF r.answer.seq < t.mission.seq THEN ResetMission(t, r.answer, r.life, FALSE) ELSE t

(* synced: the connection is open, no other connection's request was under way with this
   one's, and when the answer has the very number of the mirror, so that nothing is reset,
   the mirror was a whole copy of this life. *)
Resynced(r) ==
    /\ r.served
    /\ tab' = LET t == Unbuffered(Resync(tab, r)) IN IF r.alone THEN t ELSE [t EXCEPT !.whole = -1]
    /\ synced' = /\ stream.state = "open" /\ r.alone
                 /\ r.answer.seq = tab.mission.seq => r.life = tab.whole
    /\ requests' = requests \ {r}
    /\ UNCHANGED <<daemon, stream, trouble>>
ResyncFailed(r) ==
    /\ Troubled /\ tab' = [Unbuffered(tab) EXCEPT !.whole = -1] /\ requests' = requests \ {r}
    /\ UNCHANGED <<daemon, stream, synced>>

MissionNext ==
    \/ BusEmit \/ Connect \/ Drop \/ Restart \/ Boot \/ Open \/ Message
    \/ \E r \in requests : ServeState(r) \/ Resynced(r) \/ ResyncFailed(r)

MissionSpec == MissionInit /\ [][MissionNext]_missionVars

-----------------------------------------------------------------------------
(* A mirror that was resynced over the open connection, with every frame taken, is what
   the daemon holds, event by event: nothing between the snapshot and the stream is
   missing, nothing is folded twice (sse.ts 11-19, server.ts 78-79). *)
MirrorExact ==
    stream.state = "open" /\ synced /\ requests = {} /\ stream.frames = << >> => tab.mission = mission

(* The feed of a run shows its activity once each and in order, over replays, resyncs and
   restarts (sse.ts 56). *)
FeedsInOrder ==
    \A k \in DOMAIN tab.feeds : \A i \in 1 .. Len(tab.feeds[k]) - 1 : tab.feeds[k][i] < tab.feeds[k][i + 1]

(* A run the daemon saw start looks the same on the live board and on the page that is
   rebuilt from its rows, although those rows span restarts and the live state is pruned
   (server.ts 75-80, reconstruct.ts 103-105). *)
ReplayAgrees ==
    \A k \in DOMAIN mission.runs : mission.runs[k].titled => mission.runs[k] = replay[k]
=============================================================================
