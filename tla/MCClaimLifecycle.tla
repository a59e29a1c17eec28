-------------------------- MODULE MCClaimLifecycle --------------------------
(* Instances of ClaimLifecycle for TLC. *)
EXTENDS ClaimLifecycle

OneIssue == {1}
TwoIssues == {1, 2}
FullBoard == {"blocked", "needs_human"}
BareBoard == {}
AnyTarget == {"queue", "working", "review", "canceled"}
Canceled == {"canceled"}
=============================================================================
