---------------------------- MODULE StageRouting ----------------------------
(***************************************************************************)
(* The pure decisions a run takes about its stages: how risky the diff is  *)
(* and which model that buys (risk.ts, meta.ts, config.ts), which card and *)
(* which tools serve a stage (routing.ts), what a judge's several answers  *)
(* amount to (gate.ts), and what the gate scripts' results amount to       *)
(* (verify.ts).  There is no state here: each operator is a function of    *)
(* the evidence, as in the code.  A partial map of the code (a Partial<>   *)
(* record, an optional field) is a function whose DOMAIN is what is there. *)
(***************************************************************************)
EXTENDS Naturals, Sequences, FiniteSets

CONSTANTS
    Models,      \* the operator's roster
    VendorOf,    \* modelVendor: the family of a model id
    Terms,       \* the match terms of the grammar (ui, no-ui, gate:test, ...)
    Names,       \* the cards' file names, the roles' default cards among them
    NameOrder    \* a name's place in localeCompare order

-----------------------------------------------------------------------------
(* Risk class *)

RiskClasses == {"low", "medium", "high", "critical"}
RiskRank == [low |-> 0, medium |-> 1, high |-> 2, critical |-> 3]

MaxRiskClass(S) == CHOOSE c \in S : \A d \in S : RiskRank[d] <= RiskRank[c]

MediumDiffLines == 40
HighDiffLines == 400
MediumFiles == 5
HighFiles == 20

RiskSignals ==
    [diffLines : Nat, files : Nat, sensitive : BOOLEAN, guarded : BOOLEAN,
     diffUnavailable : BOOLEAN, testFilesRemoved : BOOLEAN]

Raised(s) ==
    {c \in RiskClasses :
        \/ c = "low"
        \/ c = "medium" /\ (s.diffLines >= MediumDiffLines \/ s.files >= MediumFiles)
        \/ c = "high" /\ (s.sensitive \/ s.diffLines >= HighDiffLines \/ s.files >= HighFiles)
        \/ c = "critical" /\ (s.diffUnavailable \/ s.testFilesRemoved \/ s.guarded)}

DeriveRiskClass(s) == MaxRiskClass(Raised(s))

-----------------------------------------------------------------------------
(* Models *)

GateStages == {"reviewerClaude", "reviewerCodex", "securityReviewer"}
JudgeStages == GateStages \union {"designReviewer", "tester"}
RoutedStages == JudgeStages \union {"fixer"}

ModelTiers == {"cheap", "standard", "strong"}
TierRank == [cheap |-> 0, standard |-> 1, strong |-> 2]

RiskModelTiers(risk, stage) ==
    IF risk = "critical" \/ (risk = "high" /\ stage \in GateStages) THEN "strong"
    ELSE IF risk = "low" /\ stage = "fixer" THEN "cheap" ELSE "standard"

\* config.modelTiers: for each stage, the models declared beside the standard one
TierConfigs == [RoutedStages -> UNION {[D -> Models] : D \in SUBSET {"cheap", "strong"}}]
Rosters == [RoutedStages -> Models]
Pins == UNION {[D -> Models] : D \in SUBSET RoutedStages}

ResolveTierModel(stage, risk, tiers, base) ==
    LET tier == RiskModelTiers(risk, stage)
    IN IF tier \in DOMAIN tiers[stage] THEN tiers[stage][tier] ELSE base

\* ticket pins outrank the project's rows, which outrank the roster
ResolveModel(stage, roster, meta, project) ==
    IF stage \in GateStages THEN roster[stage]
    ELSE IF stage \in DOMAIN meta THEN meta[stage]
    ELSE IF stage \in DOMAIN project THEN project[stage] ELSE roster[stage]

MetaPinsModel(stage, meta) == stage \notin GateStages /\ stage \in DOMAIN meta

ResolveModelForRisk(stage, risk, roster, tiers, meta, project) ==
    LET base == ResolveModel(stage, roster, meta, project)
    IN IF MetaPinsModel(stage, meta) \/ stage \in DOMAIN project
       THEN base
       ELSE ResolveTierModel(stage, risk, tiers, base)

\* the model one tier up, as a set: empty where the code answers null
TierModel(stage, tier, tiers, base) ==
    IF tier = "standard" THEN {base} ELSE {tiers[stage][t] : t \in DOMAIN tiers[stage] \cap {tier}}

EscalationModel(stage, risk, tiers, base, current) ==
    LET usable(t) == TierModel(stage, t, tiers, base) \ {current}
        from == TierRank[RiskModelTiers(risk, stage)]
    IN IF from < TierRank["standard"] /\ usable("standard") # {} THEN usable("standard")
       ELSE IF from < TierRank["strong"] THEN usable("strong") ELSE {}

\* the vendors of the three judgments, given the model of each
Collapsed(modelOf) ==
    /\ VendorOf[modelOf["reviewerClaude"]] = VendorOf[modelOf["securityReviewer"]]
    /\ VendorOf[modelOf["reviewerCodex"]] = VendorOf[modelOf["securityReviewer"]]

VendorDiversityViolations(roster, tiers) ==
    {risk \in {"high", "critical"} :
        Collapsed([s \in GateStages |-> ResolveTierModel(s, risk, tiers, roster[s])])}

GateTiersDeclared(tiers) == \E s \in GateStages : DOMAIN tiers[s] # {}

VendorDiversityPolicy(violations, adopted) ==
    IF violations = {} THEN "ok" ELSE IF adopted THEN "throw" ELSE "warn"

\* config.ts runs the check once, when it is loaded
LoadPolicy(roster, tiers) ==
    VendorDiversityPolicy(VendorDiversityViolations(roster, tiers), GateTiersDeclared(tiers))

-----------------------------------------------------------------------------
(* Cards and tools *)

SpecialistRoles == {"implementer"}

\* a Bash matcher is represented by what it lets a stage do
Plain(bases) == {[base |-> b, arg |-> "none"] : b \in bases}
Bash(uses) == {[base |-> "Bash", arg |-> u] : u \in uses}
WriterBash == Bash({"run", "git-read", "git-rm", "look"})
RoleCeilings(role) ==
    IF role = "implementer" THEN Plain({"Read", "Glob", "Grep", "Write", "Edit", "Task", "Agent"}) \union WriterBash
    ELSE IF role = "fixer" THEN Plain({"Read", "Glob", "Grep", "Edit", "Task", "Agent"}) \union WriterBash
    ELSE IF role = "tester" THEN Plain({"Read", "Glob", "Grep", "Task", "Agent"}) \union WriterBash
    ELSE IF role \in {"reviewer-repo", "design-reviewer"} THEN Plain({"Read", "Glob", "Grep"}) \union Bash({"git-read"})
    ELSE IF role = "scout" THEN Plain({"Read", "Glob", "Grep", "WebSearch", "WebFetch", "Task", "Agent"})
    ELSE IF role \in {"decomposer", "intake-author"} THEN Plain({"Write", "Read"})
    ELSE IF role = "steward" THEN Plain({"Write", "Read"}) \union Bash({"gh-read"})
    ELSE IF role = "scaffolder" THEN Plain({"Read", "Glob", "Grep", "Write", "Edit"}) \union Bash({"run", "git-read", "look"})
    ELSE {}     \* deliberately tool-less, or unknown

\* an entry selects itself, and a bare base all of its matchers
Hits(ceiling, entry) ==
    {c \in ceiling : c = entry \/ (entry.arg = "none" /\ c.base = entry.base)}

\* card.tools is the set of its entries; a card that declares none is not in DOMAIN declared
ResolveTools(ceiling, declared, card) ==
    IF card \notin DOMAIN declared THEN ceiling
    ELSE {c \in ceiling : \E e \in declared[card] : c \in Hits(ceiling, e)}

MaxMatchTerms == 8

\* the terms after the eighth are not looked at
ParseTermList(match) ==
    SubSeq(match, 1, IF Len(match) < MaxMatchTerms THEN Len(match) ELSE MaxMatchTerms)

Holding(match, facts) ==
    LET terms == ParseTermList(match)
    IN /\ Len(terms) > 0
       /\ \A i \in 1..Len(terms) : terms[i] \in Terms /\ facts[terms[i]]

Viable(role, cards, facts) ==
    {c \in cards : c.role = role /\ c.name # role /\ Holding(c.match, facts)}

\* more terms first, then by name
Beats(c, d) ==
    LET n == Len(ParseTermList(c.match))
        m == Len(ParseTermList(d.match))
    IN n > m \/ (n = m /\ NameOrder[c.name] <= NameOrder[d.name])

SelectCard(role, cards, facts) ==
    LET viable == IF role \in SpecialistRoles THEN Viable(role, cards, facts) ELSE {}
    IN IF viable = {} THEN role
       ELSE (CHOOSE c \in viable : \A d \in viable : Beats(c, d)).name

\* declared: what each card says of tools, by its name
RouteStage(role, cards, declared, facts) ==
    LET card == SelectCard(role, cards, facts)
    IN [card |-> card, tools |-> ResolveTools(RoleCeilings(role), declared, card)]

-----------------------------------------------------------------------------
(* A judge's verdict *)

Verdicts == {"fail", "uncertain", "pass"}
VerdictRank == [fail |-> 0, uncertain |-> 1, pass |-> 2]

\* a transport's answer: a verdict, or nothing a validator accepts
Candidates == Verdicts \union {"none"}

MostConservative(S) == CHOOSE v \in S : \A w \in S : VerdictRank[v] <= VerdictRank[w]

\* errored stages have no verdict; otherwise all transports are folded at once
ResolveGateOutput(errored, token, structured, fenced) ==
    LET candidates == ({token, structured} \union fenced) \ {"none"}
    IN IF errored \/ candidates = {} THEN "none" ELSE MostConservative(candidates)

SecurityVerdictFromGate(verdict) == IF verdict = "uncertain" THEN "none" ELSE verdict

BrowserEvidenceFromGate(requires, verdict) ==
    CASE verdict = "none" -> IF requires THEN "missing" ELSE "not-required"
      [] verdict \in {"pass", "fail"} -> verdict
      [] OTHER -> "partial"

-----------------------------------------------------------------------------
(* The gate scripts: results are functions of the gate's name *)

E2eGates == {"e2e", "test:e2e", "test:browser", "playwright"}
UnitGates == {"test", "test:ci", "test:unit"}
OtherGates == {"typecheck", "check", "build", "lint"}
GateNames == E2eGates \union UnitGates \union OtherGates
TestGates == E2eGates \union UnitGates

\* a script's run; count is a set: empty where the output is not understood
ScriptRuns == [ok : BOOLEAN, errored : BOOLEAN, count : {{}} \union {{n} : n \in Nat}]

RunWithRetryOnError(first, second) == IF first.errored THEN second ELSE first

Baseline(gates, first, second) ==
    [g \in gates |-> LET r == RunWithRetryOnError(first[g], second[g])
                     IN [ok |-> r.ok,
                         testCount |-> IF r.ok /\ g \in TestGates THEN r.count ELSE {}]]

Verify(gates, base, after) ==
    [g \in gates |->
        IF ~base[g].ok
        THEN [passed |-> "skipped", baselineCount |-> {}, count |-> {}]
        ELSE [passed |-> IF after[g].ok THEN "yes" ELSE "no",
              baselineCount |-> base[g].testCount,
              count |-> IF g \in TestGates THEN after[g].count ELSE {}]]

Usable(results) == {g \in DOMAIN results : results[g].passed # "skipped"}
Failures(results) == {g \in Usable(results) : results[g].passed = "no"}

GateSummary(results) ==
    LET unit == Usable(results) \cap UnitGates
        e2e == Usable(results) \cap E2eGates
    IN [green |-> Failures(results) = {},
        strength |-> IF Usable(results) = {} THEN "none"
                     ELSE IF unit # {} /\ e2e # {} THEN "strong"
                     ELSE IF unit # {} \/ e2e # {} THEN "real" ELSE "weak",
        hasE2eGate |-> e2e # {}]

TestCountRatchet(results) ==
    LET ran == Usable(results) \cap TestGates
        less(g) == \E b \in results[g].baselineCount, n \in results[g].count : n < b
        unread(g) == results[g].baselineCount = {} \/ results[g].count = {}
    IN IF ran = {} THEN "skipped"
       ELSE IF \E g \in ran : less(g) THEN "decreased"
       ELSE IF \E g \in ran : unread(g) THEN "unknown" ELSE "ok"
=============================================================================
