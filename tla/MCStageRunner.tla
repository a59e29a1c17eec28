--------------------------- MODULE MCStageRunner ---------------------------
(* A writer with a fallback model beside a judge without one. *)
EXTENDS StageRunner, MCStageRouting, TLC

CONSTANTS writer, judge

MCStages == {writer, judge}
MCLabel == (writer :> "implementer") @@ (judge :> "reviewer")
MCFallback == (writer :> TRUE) @@ (judge :> FALSE)
MCGrants == {{"other", "git-read"}, {"other", "git-push-wild"}}
MCBudgets == {0, 2}
MCCostCap == [f \in Families |-> IF f = "implementer" THEN 2 ELSE 1]
=============================================================================
