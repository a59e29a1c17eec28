--------------------------- MODULE MCStageRouting ---------------------------
(***************************************************************************)
(* The operators of StageRouting on the inputs of the repository's own     *)
(* tests and on all small ones, evaluated before the stage runner, which   *)
(* is given their models and tools, is explored.                           *)
(***************************************************************************)
EXTENDS Naturals, Sequences, FiniteSets

Vendors == {"anthropic", "openai"}
FactTerms == {"ui", "no-ui", "gate:e2e"}
CardNames == {"implementer", "ui-builder", "e2e-builder"}

Routing == INSTANCE StageRouting WITH
    Models <- Vendors, VendorOf <- [m \in Vendors |-> m], Terms <- FactTerms,
    Names <- CardNames,
    NameOrder <- [n \in CardNames |-> CASE n = "e2e-builder" -> 1 [] n = "implementer" -> 2 [] OTHER -> 3]

Quiet == [diffLines |-> 5, files |-> 1, sensitive |-> FALSE, guarded |-> FALSE,
          diffUnavailable |-> FALSE, testFilesRemoved |-> FALSE]

\* The table of tests/risk.test.ts: each signal alone, at its threshold and just below it.
ASSUME RiskTable ==
    /\ Routing!DeriveRiskClass(Quiet) = "low"
    /\ Routing!DeriveRiskClass([Quiet EXCEPT !.diffLines = 39]) = "low"
    /\ Routing!DeriveRiskClass([Quiet EXCEPT !.diffLines = 40]) = "medium"
    /\ Routing!DeriveRiskClass([Quiet EXCEPT !.diffLines = 400]) = "high"
    /\ Routing!DeriveRiskClass([Quiet EXCEPT !.files = 5]) = "medium"
    /\ Routing!DeriveRiskClass([Quiet EXCEPT !.files = 20]) = "high"
    /\ Routing!DeriveRiskClass([Quiet EXCEPT !.sensitive = TRUE]) = "high"
    /\ Routing!DeriveRiskClass([Quiet EXCEPT !.guarded = TRUE]) = "critical"
    /\ Routing!DeriveRiskClass([Quiet EXCEPT !.testFilesRemoved = TRUE]) = "critical"
    /\ Routing!DeriveRiskClass([Quiet EXCEPT !.diffUnavailable = TRUE]) = "critical"

Card(name, match) == [name |-> name, role |-> "implementer", match |-> match]
Here == [t \in FactTerms |-> t # "no-ui"]

\* The more specific card wins, an unknown term rejects its card, a term that does not hold
\* leaves it out, and a role that is not routable keeps its default card.
ASSUME CardTable ==
    /\ Routing!SelectCard("implementer", {}, Here) = "implementer"
    /\ Routing!SelectCard("implementer", {Card("ui-builder", <<"ui">>)}, Here) = "ui-builder"
    /\ Routing!SelectCard("implementer", {Card("ui-builder", <<"no-ui">>)}, Here) = "implementer"
    /\ Routing!SelectCard("implementer", {Card("ui-builder", <<"ui", "mood">>)}, Here) = "implementer"
    /\ Routing!SelectCard("implementer", {Card("ui-builder", <<"ui">>), Card("e2e-builder", <<"ui">>)}, Here) = "e2e-builder"
    /\ Routing!SelectCard("implementer", {Card("ui-builder", <<"ui", "gate:e2e">>), Card("e2e-builder", <<"ui">>)}, Here) = "ui-builder"
    /\ Routing!SelectCard("fixer", {[Card("ui-builder", <<"ui">>) EXCEPT !.role = "fixer"]}, Here) = "fixer"

\* gate.ts folds its candidates left to right; the set form agrees on every short list.
ASSUME FoldAgrees ==
    \A a, b, c \in Routing!Verdicts :
        LET worse(v, w) == IF Routing!VerdictRank[w] <= Routing!VerdictRank[v] THEN w ELSE v
        IN Routing!ResolveGateOutput(FALSE, a, b, {c}) = worse(worse(a, b), c)

Gates == {"build", "test", "e2e"}
Runs == [ok : BOOLEAN, errored : {FALSE}, count : {{}, {1}, {2}}]

\* Over every pair of outcomes of three scripts: the strength depends on which scripts were
\* green before the change, never on how they end after it.
ASSUME StrengthIsCapability ==
    \A before, after \in [Gates -> {r \in Runs : r.count = {2}}] :
        LET base == Routing!Baseline(Gates, before, before)
        IN Routing!GateSummary(Routing!Verify(Gates, base, after)).strength
             = Routing!GateSummary(Routing!Verify(Gates, base, before)).strength
=============================================================================
