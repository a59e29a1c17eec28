---------------------------- MODULE MergeLadder ----------------------------
(* The merge policy of src/merge-ladder.ts: pure operators over evidence, the
   earned tier and the configuration.  Ticket text is no input of any of them. *)
EXTENDS Naturals

Tiers == {"human", "shadow", "auto-low-risk", "auto"}

Strengths == {"none", "weak", "real", "strong"}

\* An active project policy; "none" when no approved row names the repository.
MergePolicies == {"none", "auto", "shadow", "review"}

(* The configuration the policy reads.  `ceiling' is "none" when
   MERGE_LADDER_CEILING has no pair for the repository. *)
Configurations ==
    [self : BOOLEAN, inLadder : BOOLEAN, autoRepo : BOOLEAN,
     ceiling : Tiers \union {"none"}, overrideAll : BOOLEAN, autoDefault : BOOLEAN,
     deployEnabled : BOOLEAN]

Evidence ==
    [green : BOOLEAN, strength : Strengths, guarded : BOOLEAN, needsHuman : BOOLEAN,
     security : {"pass", "fail", "none"},
     browser : {"pass", "fail", "missing", "none"}, small : BOOLEAN]

(* human < shadow < auto-low-risk < auto *)
TierRank(t) ==
    CASE t = "auto" -> 3 [] t = "auto-low-risk" -> 2 [] t = "shadow" -> 1 [] OTHER -> 0

MinTier(a, b) == IF TierRank(a) <= TierRank(b) THEN a ELSE b

(* A passing browser check lifts "real" evidence to "strong" and nothing else. *)
MergeStrength(strength, browser) ==
    IF strength = "real" /\ browser = "pass" THEN "strong" ELSE strength

StrengthOk(ev, floor) ==
    ev.strength = "strong" \/ (floor = "real" /\ ev.strength = "real")

WouldMerge(ev, floor, allowGuarded) ==
    /\ ev.green
    /\ StrengthOk(ev, floor)
    /\ ev.guarded => allowGuarded
    /\ ~ev.needsHuman
    /\ ev.security # "fail"
    /\ ev.browser \notin {"fail", "missing"}

(* Does the tier in force merge what would merge? `small' is a diff within the
   low-risk cap. *)
Acts(tier, ev, floor, allowGuarded) ==
    /\ WouldMerge(ev, floor, allowGuarded)
    /\ \/ tier = "auto"
       \/ tier = "auto-low-risk" /\ ev.small

GuardBypassAllowed(cfg, policy, mergeGuarded, humanReview) ==
    /\ cfg.overrideAll \/ (policy = "auto" /\ mergeGuarded)
    /\ ~humanReview
    /\ ~cfg.self

DeferMergeForDeps(hasDeps, baseActs, explicitGrant) ==
    hasDeps /\ baseActs /\ ~explicitGrant

IsEnrolled(cfg) == cfg.inLadder \/ cfg.autoRepo

CeilingFor(cfg) ==
    IF cfg.ceiling # "none" THEN cfg.ceiling
    ELSE IF cfg.autoRepo THEN "auto" ELSE "auto-low-risk"

(* Withholds first, then grants, then the earned tier under its ceiling. *)
EffectiveMergeTier(cfg, earned, policy, humanReview) ==
    CASE cfg.self \/ humanReview \/ policy = "review" -> "human"
      [] policy = "shadow" /\ ~cfg.self /\ ~humanReview -> "shadow"
      [] OTHER ->
           IF cfg.overrideAll \/ policy = "auto" THEN "auto"
           ELSE IF IsEnrolled(cfg) THEN MinTier(earned, CeilingFor(cfg))
           ELSE IF cfg.autoDefault THEN "auto" ELSE "human"

SeedLadderState == [tier |-> "shadow", streak |-> 0]

(* A clean decision extends the streak, a dirty one resets it; a full streak at
   shadow promotes when the ceiling allows. *)
AdvanceLadder(prev, clean, promoteAfter, ceiling) ==
    LET streak == IF clean THEN prev.streak + 1 ELSE 0
    IN  IF /\ prev.tier = "shadow"
           /\ streak >= promoteAfter
           /\ TierRank(ceiling) >= TierRank("auto-low-risk")
        THEN [tier |-> "auto-low-risk", streak |-> 0]
        ELSE [tier |-> prev.tier, streak |-> streak]
=============================================================================
