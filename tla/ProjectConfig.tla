---------------------------- MODULE ProjectConfig ----------------------------
(* The configuration of one project (project-config.ts, registry.ts and their rows in
   db.ts): a card file that a human edits, a one-way projection of the card's
   repositories into the database, and authority policies -- proposed, approved or
   rejected by dashboard requests -- that overlay the card.

   Every statement of the database is one step, save the proposal, whose snapshot is
   taken before it commits: requests run on a pool of eight connections.  Requests
   interleave between statements, fail at any of them, and die with the daemon. *)
EXTENDS Integers, Sequences, FiniteSets

CONSTANTS Requests,      \* dashboard requests in flight at once
          Repos,         \* repositories a card may name
          Cards,         \* what the card file may say: [repos, deployEnabled]
          Keys,          \* the authority keys in play
          Values,        \* Keys -> the values validatePolicyValue accepts
          MaxPolicyActivateAttempts, \* MAX_POLICY_ACTIVATE_ATTEMPTS
          MaxOps,        \* bound: requests and edits of the card
          MaxFaults      \* bound: failed statements and deaths of the daemon

AuthorityKeys == {"repos", "deploy", "smoke", "deployEnabled", "merge", "mergeGuarded"}
CardShapes == [repos : SUBSET Repos \ {{}}, deployEnabled : BOOLEAN]

ASSUME ConfigAssumption ==
    /\ Cards \subseteq CardShapes
    /\ Keys \subseteq AuthorityKeys
    /\ \A k \in Keys : Values[k] /= {}
    /\ MaxPolicyActivateAttempts \in Nat \ {0}
    /\ {MaxOps, MaxFaults} \subseteq Nat

VARIABLES
    card,      \* projects/<name>.md
    row,       \* the projects row: "none", or its status
    repos,     \* project_repos of the project
    policy,    \* project_policy: [key, value, state, claimed] in the order of their ids
    req,       \* per request: its operation and where it is
    aligned,   \* history: the last projection met no other and no failure
    enforced,  \* history: keys of which a policy was ever in force
    raced,     \* history: keys whose approval was overtaken, failed or died half way
    ops, faults

configVars == <<card, row, repos, policy, req, aligned, enforced, raced, ops, faults>>

States == {"pending", "active", "superseded", "rejected"}
Ids(k, s) == {i \in DOMAIN policy : policy[i].key = k /\ policy[i].state = s}
InForce(k) == Ids(k, "active") /= {}

NoRequest == [pc |-> "idle", op |-> "none", key |-> "none", value |-> "none", id |-> 0, tries |-> 0,
              next |-> {}, seen |-> {}, todo |-> {}, alone |-> FALSE]
Places == {"idle", "lookup", "ensure", "list", "delete", "insert", "audit", "write", "commit",
           "claim", "supersede", "activate"}
Projecting(q) == req[q].pc \in {"list", "delete", "insert", "audit"}
Approving(k) == \E q \in Requests : req[q].pc \in {"supersede", "activate"} /\ req[q].key = k
AllIdle == \A q \in Requests : req[q].pc = "idle"

ConfigInit ==
    /\ card \in Cards
    /\ \/ row = "none" /\ repos = {} /\ policy = << >> /\ aligned = FALSE
       \/ /\ row = "active" /\ repos = card.repos /\ aligned = TRUE
          /\ \E k \in Keys : \E v \in Values[k] :
                policy = <<[key |-> k, value |-> v, state |-> "active", claimed |-> TRUE]>>
    /\ req = [q \in Requests |-> NoRequest]
    /\ enforced = {k \in Keys : InForce(k)}
    /\ raced = {} /\ ops = 0 /\ faults = 0

-----------------------------------------------------------------------------
(* What the pipeline reads. *)

(* projectOwningRepo: the membership gate.  An unregistered repository goes to a human,
   an unavailable store defers. *)
ProjectOwningRepo(r, open) ==
    IF ~open THEN "unavailable"
    ELSE IF row = "active" /\ r \in repos THEN "registered" ELSE "unregistered"

(* activeMergePolicyForRepo, activeGuardedOverrideForRepo: the value in force, or the
   absence that the tier resolution falls back from. *)
ActivePolicy(k, r, open, absent) ==
    IF ProjectOwningRepo(r, open) = "registered" /\ InForce(k)
    THEN policy[CHOOSE i \in Ids(k, "active") : TRUE].value ELSE absent

(* activePoliciesByProjectName *)
Overlay == [k \in {k \in AuthorityKeys : InForce(k)} |-> policy[CHOOSE i \in Ids(k, "active") : TRUE].value]

(* applyPolicyOverlay: a policy narrows the repositories and disarms the deploy; it can
   neither add a repository nor arm a card that is not armed. *)
ApplyPolicyOverlay(c, overlay) ==
    [repos |-> IF "repos" \in DOMAIN overlay THEN c.repos \intersect overlay["repos"] ELSE c.repos,
     deployEnabled |-> c.deployEnabled
                       /\ ("deployEnabled" \in DOMAIN overlay => overlay["deployEnabled"] = TRUE),
     merge |-> IF "merge" \in DOMAIN overlay THEN overlay["merge"] ELSE "card"]

(* effectiveProjects: the card alone when the policies cannot be read *)
EffectiveProject(open) == ApplyPolicyOverlay(card, IF open THEN Overlay ELSE [k \in {} |-> "none"])
EffectiveProjectForRepo(r, open) == r \in EffectiveProject(open).repos

(* validatePolicyValue: closed keys, typed values *)
ValidPolicyValue(k, v) == k \in Keys /\ v \in Values[k]

(* validateProjectModels: an override counts only while its role and its model are still
   offered, whatever was saved. *)
ValidateProjectModels(overrides, roles, models) ==
    {o \in overrides : o.role \in roles /\ o.model \in models}

-----------------------------------------------------------------------------
(* Requests: begin, look the project up, and project its card when it has no row. *)

Step(q, r) == req' = [req EXCEPT ![q] = r]
End(q) == req' = [req EXCEPT ![q] = NoRequest]
RowsKept == UNCHANGED <<row, repos, policy>>

Begin(q, r) ==
    /\ req[q].pc = "idle" /\ ops < MaxOps /\ ops' = ops + 1
    /\ Step(q, r)
    /\ RowsKept /\ UNCHANGED <<card, aligned, enforced, raced, faults>>

(* projectsView: every view of the dashboard first syncs the cards as it reads them. *)
View(q) == Begin(q, [NoRequest EXCEPT !.pc = "ensure", !.op = "view", !.next = card.repos])
Propose(q) == \E k \in Keys : \E v \in Values[k] :
    Begin(q, [NoRequest EXCEPT !.pc = "lookup", !.op = "propose", !.key = k, !.value = v])
SaveStatus(q) == \E s \in {"active", "paused"} \ {row} :
    Begin(q, [NoRequest EXCEPT !.pc = "lookup", !.op = "status", !.value = s])
(* approvePolicyItem: a body that does not restate the row's key and value is refused, and
   neither of them ever changes. *)
Approve(q) == \E i \in DOMAIN policy :
    Begin(q, [NoRequest EXCEPT !.pc = "claim", !.op = "approve", !.key = policy[i].key, !.id = i])
Reject(q) == \E i \in DOMAIN policy :
    Begin(q, [NoRequest EXCEPT !.pc = "write", !.op = "reject", !.key = policy[i].key, !.id = i])

(* createProject: refused when the row exists (only then a request without effect),
   never when the file does; the next view
   projects the card over the repositories of the body. *)
Create(q) == \E c \in Cards :
    row = "none" /\ Begin(q, [NoRequest EXCEPT !.pc = "lookup", !.op = "create", !.next = c.repos])

(* resolveProject: a project without a row is created from its card and projected. *)
Lookup(q) ==
    /\ req[q].pc = "lookup"
    /\ IF req[q].op = "create"
       THEN IF row /= "none" THEN End(q) ELSE Step(q, [req[q] EXCEPT !.pc = "ensure"])
       ELSE IF row /= "none" THEN Step(q, [req[q] EXCEPT !.pc = "write"])
       ELSE Step(q, [req[q] EXCEPT !.pc = "ensure", !.next = card.repos])
    /\ RowsKept /\ UNCHANGED <<card, aligned, enforced, raced, ops, faults>>

(* ensureProjectRow never touches an existing row. *)
Ensure(q) ==
    /\ req[q].pc = "ensure"
    /\ row' = IF row = "none" THEN "active" ELSE row
    /\ req' = [o \in Requests |-> IF o = q
                  THEN [req[q] EXCEPT !.pc = "list", !.alone = \A x \in Requests \ {q} : ~Projecting(x)]
                  ELSE [req[o] EXCEPT !.alone = FALSE]]
    /\ UNCHANGED <<card, repos, policy, aligned, enforced, raced, ops, faults>>

Resolved(q) == IF req[q].op \in {"view", "create"} THEN NoRequest ELSE [req[q] EXCEPT !.pc = "write"]

(* replaceProjectRepos: compare, delete, insert one by one, audit. *)
ListRepos(q) ==
    /\ req[q].pc = "list"
    /\ IF repos = req[q].next
       THEN req' = [req EXCEPT ![q] = Resolved(q)] /\ aligned' = (req[q].alone /\ req[q].next = card.repos)
       ELSE Step(q, [req[q] EXCEPT !.pc = "delete", !.todo = req[q].next]) /\ UNCHANGED aligned
    /\ RowsKept /\ UNCHANGED <<card, enforced, raced, ops, faults>>

DeleteNothing(q) ==
    /\ req[q].pc = "delete"
    /\ aligned' = FALSE
    /\ Step(q, [req[q] EXCEPT !.pc = "insert"])
    /\ RowsKept /\ UNCHANGED <<card, enforced, raced, ops, faults>>

DeleteRepos(q) ==
    /\ req[q].pc = "delete"
    /\ repos' = {}
    /\ aligned' = FALSE
    /\ Step(q, [req[q] EXCEPT !.pc = "insert"])
    /\ UNCHANGED <<card, row, policy, enforced, raced, ops, faults>>

InsertRepo(q) ==
    /\ req[q].pc = "insert" /\ req[q].todo /= {}
    /\ LET r == CHOOSE r \in req[q].todo : TRUE
       IN  /\ repos' = repos \union {r}
           /\ Step(q, [req[q] EXCEPT !.todo = @ \ {r}, !.pc = IF req[q].todo = {r} THEN "audit" ELSE "insert"])
    /\ UNCHANGED <<card, row, policy, aligned, enforced, raced, ops, faults>>

AuditRepos(q) ==
    /\ req[q].pc = "audit"
    /\ req' = [req EXCEPT ![q] = Resolved(q)]
    /\ aligned' = (req[q].alone /\ req[q].next = card.repos)
    /\ RowsKept /\ UNCHANGED <<card, enforced, raced, ops, faults>>

-----------------------------------------------------------------------------
(* The writes. *)

(* updateProjectDescriptive *)
WriteStatus(q) ==
    /\ req[q].pc = "write" /\ req[q].op = "status"
    /\ row' = req[q].value
    /\ End(q)
    /\ UNCHANGED <<card, repos, policy, aligned, enforced, raced, ops, faults>>

(* insertPendingPolicy: one statement supersedes the pending rows its snapshot shows and
   inserts; a row that is claimed but not yet active is pending too. *)
ProposalSees(q) ==
    /\ req[q].pc = "write" /\ req[q].op = "propose" /\ ValidPolicyValue(req[q].key, req[q].value)
    /\ Step(q, [req[q] EXCEPT !.pc = "commit", !.seen = Ids(req[q].key, "pending")])
    /\ RowsKept /\ UNCHANGED <<card, aligned, enforced, raced, ops, faults>>

ProposalCommits(q) ==
    LET r == req[q]
        gone == {i \in r.seen : policy[i].state = "pending"}
    IN  /\ r.pc = "commit"
        /\ policy' = Append([i \in DOMAIN policy |->
                               IF i \in gone THEN [policy[i] EXCEPT !.state = "superseded"] ELSE policy[i]],
                            [key |-> r.key, value |-> r.value, state |-> "pending", claimed |-> FALSE])
        /\ raced' = IF \E i \in gone : policy[i].claimed THEN raced \union {r.key} ELSE raced
        /\ End(q)
        /\ UNCHANGED <<card, row, repos, aligned, enforced, ops, faults>>

UndecidedOrActive(i) == policy[i].state \in {"pending", "active"}
Undecided(i) == policy[i].state = "pending" /\ ~policy[i].claimed

(* rejectProjectPolicy *)
WriteReject(q) ==
    /\ req[q].pc = "write" /\ req[q].op = "reject"
    /\ policy' = IF Undecided(req[q].id)
                 THEN [policy EXCEPT ![req[q].id].state = "rejected", ![req[q].id].claimed = TRUE]
                 ELSE policy
    /\ End(q)
    /\ UNCHANGED <<card, row, repos, aligned, enforced, raced, ops, faults>>

(* approveProjectPolicy: the claim, then up to three rounds of supersede and activate. *)
Claim(q) ==
    /\ req[q].pc = "claim"
    /\ IF Undecided(req[q].id)
       THEN policy' = [policy EXCEPT ![req[q].id].claimed = TRUE] /\ Step(q, [req[q] EXCEPT !.pc = "supersede"])
       ELSE UNCHANGED policy /\ End(q)
    /\ UNCHANGED <<card, row, repos, aligned, enforced, raced, ops, faults>>

SupersedeActive(q) ==
    LET r == req[q] IN
    /\ r.pc = "supersede"
    /\ policy' = [i \in DOMAIN policy |-> IF i \in Ids(r.key, "active") \ {r.id}
                                          THEN [policy[i] EXCEPT !.state = "superseded"] ELSE policy[i]]
    /\ Step(q, [r EXCEPT !.pc = "activate"])
    /\ UNCHANGED <<card, row, repos, aligned, enforced, raced, ops, faults>>

Activate(q) ==
    LET r == req[q] IN
    /\ r.pc = "activate"
    /\ \/ /\ policy[r.id].state /= "pending"          \* 0 rows: refuse
          /\ End(q) /\ UNCHANGED <<policy, enforced>>
       \/ /\ policy[r.id].state = "pending" /\ ~InForce(r.key)
          /\ policy' = [policy EXCEPT ![r.id].state = "active"]
          /\ enforced' = enforced \union {r.key}
          /\ End(q)
       \/ /\ policy[r.id].state = "pending" /\ InForce(r.key)  \* the unique index: a concurrent approval
          /\ UNCHANGED <<policy, enforced>>
          /\ IF r.tries + 1 < MaxPolicyActivateAttempts
             THEN Step(q, [r EXCEPT !.pc = "supersede", !.tries = @ + 1]) ELSE End(q)
    /\ UNCHANGED <<card, row, repos, aligned, raced, ops, faults>>

-----------------------------------------------------------------------------
(* The surroundings. *)

EditCard ==
    /\ ops < MaxOps /\ ops' = ops + 1
    /\ \E c \in Cards \ {card} : card' = c
    /\ aligned' = FALSE
    /\ RowsKept /\ UNCHANGED <<req, enforced, raced, faults>>

HalfApproved(lost) == {req[q].key : q \in {x \in lost : req[x].pc \in {"supersede", "activate"}}}

(* A statement fails: the exception ends the request where it is. *)
StatementFails(q) ==
    /\ req[q].pc /= "idle" /\ faults < MaxFaults /\ faults' = faults + 1
    /\ req' = [o \in Requests |-> IF o = q THEN NoRequest ELSE [req[o] EXCEPT !.alone = FALSE]]
    /\ aligned' = (aligned /\ ~Projecting(q))
    /\ raced' = raced \union HalfApproved({q})
    /\ RowsKept /\ UNCHANGED <<card, enforced, ops>>

DaemonDies ==
    /\ ~AllIdle /\ faults < MaxFaults /\ faults' = faults + 1
    /\ req' = [q \in Requests |-> NoRequest]
    /\ aligned' = (aligned /\ \A q \in Requests : ~Projecting(q))
    /\ raced' = raced \union HalfApproved(Requests)
    /\ RowsKept /\ UNCHANGED <<card, enforced, ops>>

Done == AllIdle /\ ops = MaxOps /\ UNCHANGED configVars

Progress(q) ==
    \/ Lookup(q) \/ Ensure(q) \/ ListRepos(q) \/ DeleteRepos(q) \/ InsertRepo(q) \/ AuditRepos(q)
    \/ WriteStatus(q) \/ ProposalSees(q) \/ ProposalCommits(q) \/ WriteReject(q)
    \/ Claim(q) \/ SupersedeActive(q) \/ Activate(q)

ConfigNext ==
    \/ \E q \in Requests : \/ View(q) \/ Create(q) \/ Propose(q) \/ SaveStatus(q) \/ Approve(q) \/ Reject(q)
                           \/ Progress(q) \/ StatementFails(q)
    \/ EditCard \/ DaemonDies \/ Done

ConfigSpec == ConfigInit /\ [][ConfigNext]_configVars /\ \A q \in Requests : WF_configVars(Progress(q))

-----------------------------------------------------------------------------
(* Properties. *)

ConfigTypeOK ==
    /\ card \in Cards /\ row \in {"none", "active", "paused"} /\ repos \subseteq Repos
    /\ \A i \in DOMAIN policy : /\ ValidPolicyValue(policy[i].key, policy[i].value)
                                /\ policy[i].state \in States /\ policy[i].claimed \in BOOLEAN
    /\ \A q \in Requests : req[q].pc \in Places
    /\ aligned \in BOOLEAN /\ enforced \subseteq Keys /\ raced \subseteq Keys

(* db.ts 2116-2119: the configuration in force stands until another is activated.  Once
   a policy was activated for a key, one stays in force -- unless an approval is between
   its two statements, or one was overtaken by a proposal, failed or died there. *)
ForceStands == \A k \in enforced \ raced : ~Approving(k) => InForce(k)

(* The same without the exceptions, as the comment states it. *)
PolicyStands == \A k \in enforced : ~Approving(k) => InForce(k)

(* db.ts 2103-2116: a retracted or decided revision is never approvable again. *)
RetractedStays == [][\A i \in DOMAIN policy :
    policy[i].state \in {"superseded", "rejected"} => policy'[i].state = policy[i].state]_configVars

(* db.ts 1982-1985: "the card always wins".  The projection equals the card once a sync
   that met no other sync and no failure ran, and until the card is edited again. *)
ProjectionMirrorsCard == aligned => repos = card.repos

(* db.ts 2106-2107: "At most ONE pending revision per key can therefore exist". *)
OnePending == \A k \in Keys : Cardinality(Ids(k, "pending")) <= 1

(* Every request ends: the activation loop is bounded. *)
RequestsReturn == \A q \in Requests : req[q].pc /= "idle" ~> req[q].pc = "idle"
=============================================================================
