-------------------------- MODULE MCMergeAuthority --------------------------
(* Two runs of one repository, promoted after two clean decisions. *)
EXTENDS MergeAuthority

CONSTANTS a, b

MCRuns == {a, b}

\* In the ladder under its default ceiling; and, with deploys switched on, an auto
\* repository (a failed smoke is reverted on main) and one that is neither (not
\* enrolled, a failed smoke opens a revert PR).
MCConfigs ==
    LET off == [self |-> FALSE, inLadder |-> FALSE, autoRepo |-> FALSE,
                ceiling |-> "none", overrideAll |-> FALSE, autoDefault |-> FALSE,
                deployEnabled |-> FALSE]
    IN  {[off EXCEPT !.inLadder = TRUE],
         [off EXCEPT !.autoRepo = TRUE, !.deployEnabled = TRUE],
         [off EXCEPT !.deployEnabled = TRUE]}

(* The ladder is exercised by three decisions; where deploys are on, one run merges
   beside the watch. *)
MCInit == Init /\ decisions = IF cfg.deployEnabled THEN MaxDecisions - 1 ELSE 0
MCSpec == MCInit /\ [][Next]_vars
=============================================================================
