------------------------------ MODULE Registers ------------------------------
(* The agent and skill registers (db.ts, register-io.ts, register-manager.ts): one
   append-only history of versions per name with at most one of them active, edited
   by dashboard requests that read, decide and write in separate awaits, and mirrored
   in memory by a snapshot that the card catalog (catalog.ts) memoises by generation.
   One agent card and one skill stand for each register.

   A statement of the database is one step; its answer may arrive later. *)
EXTENDS Integers, Sequences

CONSTANTS Editors,       \* requests in flight at once
          Texts,         \* prompts and skill bodies
          Refused,       \* the texts contentViolation refuses: a secret, control characters, over 64 KB
          Routes,        \* role: and match: of an agent card
          Tools,         \* its tools: line
          Attaches,      \* attach selectors of a skill beyond the empty one
          Files,         \* agents/<name>.md as checked in
          Histories,     \* what the registers may hold at boot
          MaxWriteAttempts, \* MAX_REGISTER_WRITE_ATTEMPTS
          MaxOps,        \* bound: operations of editors and saves of files
          MaxFaults      \* bound: failed database calls

Kinds == {"agent", "skill"}
Detached == "detached"              \* attach = {}: carried by no role
AgentCards == [text : Texts, route : Routes, tools : Tools]
SkillPacks == [text : Texts, attach : Attaches \union {Detached}]
Unknown == [text |-> "unknown"]     \* no row, no card

ASSUME RegisterAssumption ==
    /\ Refused \subseteq Texts
    /\ Files \subseteq AgentCards /\ \A f \in Files : f.text \notin Refused
    /\ Detached \notin Attaches
    /\ Histories \subseteq [agent : Seq(AgentCards), skill : Seq(SkillPacks)]
    /\ \A h \in Histories : h.agent = << >> <=> h.skill = << >>
    /\ MaxWriteAttempts \in Nat \ {0}
    /\ {MaxOps, MaxFaults} \subseteq Nat

VARIABLES
    reg,       \* agent_register, skill_register: per kind the versions in order
    active,    \* per kind the enabled version, 0: none (the partial unique index)
    snap,      \* agentRegisterSnapshot, skillRegisterSnapshot: the active row or Unknown
    gen,       \* registerGen
    cache,     \* catalog.ts cache: [gen, card], gen = -1 when there is no entry
    file,      \* agents/<name>.md: the card of the working tree
    dirty,     \* the files git would report as modified and not committed
    ed,        \* per editor: its request and where it is
    fresh,     \* history: the last refresh met no other refresh and no failure
    ops, faults

vars == <<reg, active, snap, gen, cache, file, dirty, ed, fresh, ops, faults>>

Row(k) == IF active[k] = 0 THEN Unknown ELSE reg[k][active[k]]

(* A request: op and target kind; `new' the proposed content; `base' the row its
   checks and its write use, `version' the version it wants enabled; `moved': another
   write of that register landed since its first read; `got' what its refresh read. *)
Request == [pc |-> "idle", op |-> "none", kind |-> "agent", new |-> Unknown, base |-> Unknown,
            version |-> 0, tries |-> 0, moved |-> FALSE, alone |-> FALSE,
            got |-> [agent |-> Unknown, skill |-> Unknown]]

Places == {"idle", "baseline", "read", "insert", "enable", "disable", "agents", "skills", "publish"}
Writing(e) == ed[e].pc \in {"insert", "enable", "disable"}
Refreshing(e) == ed[e].pc \in {"skills", "publish"}
AllIdle == \A e \in Editors : ed[e].pc = "idle"

(* contentViolation, registerWriteViolation *)
ContentViolation(text) == text \in Refused

(* validateAgentRoutingAgainst: role and match are never changed from the dashboard;
   a rollback may not change the tools either, a save may within the role's ceiling. *)
ValidateAgentRoutingAgainst(new, baseline, lockTools) ==
    /\ new.route = baseline.route
    /\ lockTools => new.tools = baseline.tools

(* agentRoutingBaseline: the active row, or the committed file *)
AgentRoutingBaseline == IF active["agent"] = 0 THEN file ELSE Row("agent")

(* startEventStore loads the snapshot before anything is served; seedRegistersIfEmpty
   imports the files when both registers are empty, unless that fails. *)
Init ==
    /\ \E h \in Histories, f \in Files :
          /\ file = f
          /\ \/ reg = h
             \/ h.agent = << >> /\ reg = [agent |-> <<f>>, skill |-> <<[text |-> f.text, attach |-> Detached]>>]
    /\ active = [k \in Kinds |-> Len(reg[k])]
    /\ snap = [k \in Kinds |-> Row(k)]
    /\ gen = 0 /\ cache = [gen |-> -1, card |-> Unknown]
    /\ dirty = {}
    /\ ed = [e \in Editors |-> Request]
    /\ fresh = TRUE /\ ops = 0 /\ faults = 0

-----------------------------------------------------------------------------
(* The catalog's side: synchronous, it reads the snapshot. *)

Lookup == IF snap["agent"] = Unknown THEN file ELSE snap["agent"]
CacheHit == cache.gen = gen
GetCard == IF CacheHit THEN cache.card ELSE Lookup

(* A stage renders the card: getCard fills the cache. *)
StageReadsCard ==
    /\ ~CacheHit
    /\ cache' = [gen |-> gen, card |-> Lookup]
    /\ UNCHANGED <<reg, active, snap, gen, file, dirty, ed, fresh, ops, faults>>

InvalidateNothing == cache
InvalidateCard == [cache EXCEPT !.gen = -1]

(* commitBlockers: modified files of others would be swept into the commit. *)
CommitBlockers(own) == dirty \ {own}

(* saveCatalogEntry for an agent card: one synchronous handler.  The commit may fail
   and leave the written file modified. *)
SaveCatalogEntry ==
    /\ ops < MaxOps
    /\ \E new \in AgentCards :
          /\ ~ContentViolation(new.text)
          /\ ValidateAgentRoutingAgainst(new, file, FALSE)
          /\ CommitBlockers("agent") = {}
          /\ new /= file
          /\ file' = new
          /\ \/ dirty' = dirty \ {"agent"} /\ UNCHANGED faults
             \/ faults < MaxFaults /\ faults' = faults + 1 /\ dirty' = dirty \union {"agent"}
    /\ cache' = InvalidateCard
    /\ ops' = ops + 1
    /\ UNCHANGED <<reg, active, snap, gen, ed, fresh>>

-----------------------------------------------------------------------------
(* The requests. *)

Step(e, r) == ed' = [ed EXCEPT ![e] = r]
End(e) == Step(e, Request)
RowsKept == UNCHANGED <<reg, active>>
MirrorKept == UNCHANGED <<snap, gen, cache, fresh>>

Begin(e, request) ==
    /\ ed[e].pc = "idle" /\ ops < MaxOps
    /\ ops' = ops + 1
    /\ Step(e, request)
    /\ RowsKept /\ MirrorKept
    /\ UNCHANGED <<file, dirty, faults>>

(* saveRegisterEntry *)
SaveAgent(e) == \E new \in AgentCards :
    Begin(e, [Request EXCEPT !.pc = "baseline", !.op = "save", !.new = new])
SaveSkill(e) == \E text \in Texts :
    /\ ~ContentViolation(text)
    /\ Begin(e, [Request EXCEPT !.pc = "read", !.op = "save", !.kind = "skill", !.new = [text |-> text]])

(* setSkillAttach, setSkillEnabledState *)
SetSkillAttach(e) == \E a \in Attaches \union {Detached} :
    Begin(e, [Request EXCEPT !.pc = "read", !.op = "attach", !.kind = "skill", !.new = [attach |-> a]])
SetSkillEnabledState(e) == \E on \in {"on", "off"} :
    Begin(e, [Request EXCEPT !.pc = "read", !.op = on, !.kind = "skill"])

(* rollbackRegisterVersion; the probe of setRegisterEnabled always agrees with the
   listing, versions are never deleted *)
Rollback(e) == \E k \in Kinds : \E v \in DOMAIN reg[k] :
    Begin(e, [Request EXCEPT !.pc = IF k = "agent" THEN "baseline" ELSE "enable",
                             !.op = "rollback", !.kind = k, !.version = v])

(* The routing lock is checked against a baseline that the write does not read again. *)
ReadBaseline(e) ==
    LET r == ed[e]
        new == IF r.op = "save" THEN r.new ELSE reg["agent"][r.version]
    IN  /\ r.pc = "baseline"
        /\ IF ~ValidateAgentRoutingAgainst(new, AgentRoutingBaseline, r.op = "rollback")
              \/ (r.op = "save" /\ ContentViolation(new.text))
           THEN End(e)
           ELSE Step(e, [r EXCEPT !.pc = IF r.op = "save" THEN "read" ELSE "enable", !.base = AgentRoutingBaseline])
        /\ RowsKept /\ MirrorKept
        /\ UNCHANGED <<file, dirty, ops, faults>>

(* saveAgentRegisterVersionFromContent, saveSkillRegisterVersionFromContent and
   setSkillAttach read the active row; what the new version inherits comes from it. *)
InheritedAttach(row) == IF row = Unknown THEN Detached ELSE row.attach
NewVersionDetached(op, new, row) ==
    IF op = "attach" THEN [text |-> row.text, attach |-> new.attach]
    ELSE [text |-> new.text, attach |-> Detached]
NewVersion(op, new, row) ==
    IF op = "attach" THEN [text |-> row.text, attach |-> new.attach]
    ELSE [text |-> new.text, attach |-> InheritedAttach(row)]

SameContent(r, row) ==
    /\ row /= Unknown
    /\ IF r.kind = "agent" THEN r.new = row ELSE r.op = "save" /\ r.new.text = row.text

Unanswerable(r, row) ==
    \/ SameContent(r, row)
    \/ r.op = "attach" /\ row = Unknown      \* 404
    \/ r.op = "on" /\ row /= Unknown         \* already
    \/ r.op = "off" /\ row = Unknown

ReadActive(e) ==
    LET r == ed[e]
        row == Row(r.kind)
    IN  /\ r.pc = "read"
        /\ \/ Unanswerable(r, row) /\ End(e)
           \/ /\ ~Unanswerable(r, row)
              /\ \/ r.op = "on" /\ Step(e, [r EXCEPT !.pc = "enable", !.version = Len(reg["skill"]), !.base = row])
                 \/ r.op = "off" /\ Step(e, [r EXCEPT !.pc = "disable", !.version = active["skill"], !.base = row])
                 \/ r.kind = "agent" /\ Step(e, [r EXCEPT !.pc = "insert"])
                 \/ /\ r.kind = "skill" /\ r.op \in {"save", "attach"}
                    /\ Step(e, [r EXCEPT !.pc = "insert", !.new = NewVersion(r.op, r.new, row), !.base = row])
        /\ RowsKept /\ MirrorKept
        /\ UNCHANGED <<file, dirty, ops, faults>>

(* Every write is one statement: the demotion of the active version and the insert or
   the enabling of another land together or not at all.  Whatever the outcome, the
   helper refreshes the snapshot on its way out. *)
Landed(e, k) == [o \in Editors |->
    IF o = e THEN [ed[e] EXCEPT !.pc = "agents"]
    ELSE IF ed[o].kind = k /\ (Writing(o) \/ (k = "agent" /\ ed[o].pc = "read"))
         THEN [ed[o] EXCEPT !.moved = TRUE] ELSE ed[o]]

InsertVersion(e) ==
    LET r == ed[e] IN
    /\ r.pc = "insert"
    /\ reg' = [reg EXCEPT ![r.kind] = Append(@, r.new)]
    /\ active' = [active EXCEPT ![r.kind] = Len(reg[r.kind]) + 1]
    /\ ed' = Landed(e, r.kind)
    /\ MirrorKept /\ UNCHANGED <<file, dirty, ops, faults>>

EnableVersion(e) ==
    LET r == ed[e] IN
    /\ r.pc = "enable"
    /\ active' = [active EXCEPT ![r.kind] = r.version]
    /\ ed' = Landed(e, r.kind)
    /\ MirrorKept /\ UNCHANGED <<reg, file, dirty, ops, faults>>

(* Disables the version it read: another may have become active. *)
DisableVersionUnmirrored(e) ==
    LET r == ed[e] IN
    /\ r.pc = "disable"
    /\ active' = [active EXCEPT ![r.kind] = IF @ = r.version THEN 0 ELSE @]
    /\ End(e)
    /\ MirrorKept /\ UNCHANGED <<reg, file, dirty, ops, faults>>

DisableVersion(e) ==
    LET r == ed[e] IN
    /\ r.pc = "disable"
    /\ active' = [active EXCEPT ![r.kind] = IF @ = r.version THEN 0 ELSE @]
    /\ ed' = Landed(e, r.kind)
    /\ MirrorKept /\ UNCHANGED <<reg, file, dirty, ops, faults>>

(* The statement hits the unique index because another editor's write of that register
   ran at the same time: it changed nothing and is tried again. *)
LoseRace(e) ==
    LET r == ed[e] IN
    /\ r.pc \in {"insert", "enable"}
    /\ r.moved
    /\ IF r.tries + 1 < MaxWriteAttempts
       THEN Step(e, [r EXCEPT !.tries = @ + 1])
       ELSE Step(e, [r EXCEPT !.pc = "agents"])
    /\ RowsKept /\ MirrorKept
    /\ UNCHANGED <<file, dirty, ops, faults>>

(* Any other error of the database: nothing written, nothing retried. *)
WriteFails(e) ==
    /\ Writing(e) /\ faults < MaxFaults
    /\ faults' = faults + 1
    /\ Step(e, [ed[e] EXCEPT !.pc = "agents"])
    /\ RowsKept /\ MirrorKept
    /\ UNCHANGED <<file, dirty, ops>>

-----------------------------------------------------------------------------
(* refreshRegisterSnapshot: two queries, then one assignment. *)

RefreshAgents(e) ==
    /\ ed[e].pc = "agents"
    /\ ed' = [o \in Editors |->
                 IF o = e THEN [ed[e] EXCEPT !.pc = "skills", !.got.agent = Row("agent"),
                                             !.alone = \A x \in Editors \ {e} : ~Refreshing(x)]
                 ELSE [ed[o] EXCEPT !.alone = FALSE]]
    /\ RowsKept /\ MirrorKept
    /\ UNCHANGED <<file, dirty, ops, faults>>

RefreshSkills(e) ==
    /\ ed[e].pc = "skills"
    /\ Step(e, [ed[e] EXCEPT !.pc = "publish", !.got.skill = Row("skill")])
    /\ RowsKept /\ MirrorKept
    /\ UNCHANGED <<file, dirty, ops, faults>>

Publish(e) ==
    /\ ed[e].pc = "publish"
    /\ snap' = ed[e].got
    /\ gen' = gen + 1
    /\ fresh' = ed[e].alone
    /\ End(e)
    /\ RowsKept
    /\ UNCHANGED <<cache, file, dirty, ops, faults>>

(* A query of the refresh fails: the exception leaves the helper, the old snapshot stays. *)
RefreshFails(e) ==
    /\ ed[e].pc \in {"agents", "skills"} /\ faults < MaxFaults
    /\ faults' = faults + 1
    /\ fresh' = FALSE
    /\ ed' = [o \in Editors |-> IF o = e THEN Request ELSE [ed[o] EXCEPT !.alone = FALSE]]
    /\ RowsKept
    /\ UNCHANGED <<snap, gen, cache, file, dirty, ops>>

Done == AllIdle /\ ops = MaxOps /\ UNCHANGED vars

Progress(e) == ReadBaseline(e) \/ ReadActive(e) \/ InsertVersion(e) \/ EnableVersion(e)
               \/ DisableVersion(e) \/ LoseRace(e) \/ RefreshAgents(e) \/ RefreshSkills(e) \/ Publish(e)

Next == \/ \E e \in Editors : \/ SaveAgent(e) \/ SaveSkill(e) \/ SetSkillAttach(e)
                              \/ SetSkillEnabledState(e) \/ Rollback(e)
                              \/ Progress(e) \/ WriteFails(e) \/ RefreshFails(e)
        \/ StageReadsCard \/ SaveCatalogEntry \/ Done

Spec == Init /\ [][Next]_vars /\ \A e \in Editors : WF_vars(Progress(e))
-----------------------------------------------------------------------------
(* Properties. *)

TypeOK ==
    /\ reg.agent \in Seq(AgentCards) /\ reg.skill \in Seq(SkillPacks)
    /\ \A k \in Kinds : active[k] \in 0..Len(reg[k])
    /\ snap.agent \in AgentCards \union {Unknown} /\ snap.skill \in SkillPacks \union {Unknown}
    /\ gen \in Nat /\ cache.gen \in {-1} \union 0..gen
    /\ file \in AgentCards /\ dirty \subseteq {"agent"}
    /\ \A e \in Editors : ed[e].pc \in Places /\ ed[e].tries \in 0..MaxWriteAttempts
    /\ fresh \in BOOLEAN

(* register-io.ts 111-116 and register-manager.ts 271-278: a content edit never detaches
   a skill, an attach edit never reverts its text, no dashboard write moves the routing
   of an agent card and no rollback its tools -- provided that no other write of that
   register landed between the reads the decision rests on and the write. *)
KeepsWiring(r, before, after) ==
    /\ r.op = "save" /\ r.kind = "skill" => after.attach = InheritedAttach(before)
    /\ r.op = "attach" => after.text = before.text
    /\ r.op = "save" /\ r.kind = "agent" => after.route = before.route
    /\ r.op = "rollback" /\ r.kind = "agent" => after.route = before.route /\ after.tools = before.tools
    /\ r.op = "off" => after = Unknown

Wired(k) == IF k = "agent" THEN AgentRoutingBaseline ELSE Row(k)

WiringKept == [][\A e \in Editors :
    (Writing(e) /\ ~ed[e].moved /\ active'[ed[e].kind] /= active[ed[e].kind] /\ ed'[e].pc = "agents")
       => KeepsWiring(ed[e], Wired(ed[e].kind), Row(ed[e].kind)')]_vars

(* db.ts 2590-2593: "the snapshot must never outlive the rows it mirrors".  It holds
   whenever the last refresh overlapped no other and did not fail. *)
SnapshotMirrors == AllIdle /\ fresh => snap = [k \in Kinds |-> Row(k)]

(* catalog.ts 84-99 and catalog-manager.ts 446-452: a memoised card is what a lookup
   would return now; an edit of the file or of the register is never a silent no-op. *)
CardsFollow == CacheHit => cache.card = Lookup

(* Every request ends: the claim loops are bounded. *)
EditsReturn == \A e \in Editors : ed[e].pc /= "idle" ~> ed[e].pc = "idle"
=============================================================================
