--------------------------- MODULE MCMissionControl ---------------------------
EXTENDS MissionControl

Of(key, type) == [type |-> type, key |-> key]
Stage(key, type, stage) == [type |-> type, key |-> key, stage |-> stage]
Finished(key, outcome, cost, degraded) ==
    [type |-> "run_finished", key |-> key, outcome |-> outcome, cost |-> cost, degraded |-> degraded]

(* The life of a run with a degraded stage, which the end of a second run prunes; and the
   reports of the daemon on itself. *)
TheScripts ==
    {<< Of("A", "run_started"), Stage("A", "run_stage_started", "review"), Stage("A", "run_tool_use", "review"),
        Finished("A", "pr_open", 2, {"review"}), Finished("B", "parked", 0, {}) >>,
     << [type |-> "daemon_started"], [type |-> "queue_snapshot", issues |-> "b1"],
        [type |-> "tick_finished", error |-> FALSE] >>}
=============================================================================
