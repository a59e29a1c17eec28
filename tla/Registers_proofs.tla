--------------------------- MODULE Registers_proofs ---------------------------
(***************************************************************************)
(* The safety properties of Registers, for any requests, contents, files,  *)
(* histories, number of write attempts and bounds.                         *)
(*                                                                         *)
(* The invariant says of every request what its place implies of what it   *)
(* carries (Shaped), ties what it is about to write to the row it will     *)
(* replace unless another write landed (Tied), and follows a refresh that  *)
(* met no other from the rows it read to the snapshot it leaves (Reads,    *)
(* Mirrors): a write in between leaves its writer at the door of a refresh *)
(* of its own, so that somebody is always on the way to repair the         *)
(* snapshot.                                                               *)
(***************************************************************************)
EXTENDS Registers, TLAPS

Ops == {"none", "save", "attach", "on", "off", "rollback"}
TextEdits == [text : Texts]
AttachEdits == [attach : Attaches \union {Detached}]
Drafts == AgentCards \union SkillPacks \union {Unknown} \union TextEdits \union AttachEdits
Snaps == [agent : AgentCards \union {Unknown}, skill : SkillPacks \union {Unknown}]
Registry == [agent : Seq(AgentCards), skill : Seq(SkillPacks)]
Requests == [pc : Places, op : Ops, kind : Kinds, new : Drafts,
             base : AgentCards \union SkillPacks \union {Unknown}, version : Nat, tries : Nat,
             moved : BOOLEAN, alone : BOOLEAN, got : Snaps]

\* What the place of a request implies of what it carries.
Shaped(r) ==
  /\ r.tries < MaxWriteAttempts
  /\ r.alone => r.pc \in {"skills", "publish"}
  /\ r.pc = "idle" => r = Request
  /\ r.pc = "baseline" => r.kind = "agent" /\ r.op \in {"save", "rollback"}
  /\ r.pc = "read" => r.op \in {"save", "attach", "on", "off"}
  /\ r.pc = "insert" => r.op \in {"save", "attach"} /\ r.new \in IF r.kind = "agent" THEN AgentCards ELSE SkillPacks
  /\ r.pc = "enable" => r.op \in {"on", "rollback"}
  /\ r.pc = "disable" => r.op = "off"
  /\ r.op \in {"attach", "on", "off"} => r.kind = "skill"
  /\ r.op = "save" /\ r.kind = "agent" => r.new \in AgentCards
  /\ r.pc = "read" /\ r.op = "save" /\ r.kind = "skill" => r.new \in TextEdits
  /\ r.pc = "read" /\ r.op = "attach" => r.new \in AttachEdits

\* The version a request wants enabled is one of the register, now and for good.
Listed(r) ==
  /\ r.op = "rollback" => r.version \in 1..Len(reg[r.kind])
  /\ r.pc = "enable" => r.version \in 0..Len(reg[r.kind])

\* What a request is about to write keeps the wiring of the row it replaces.
Tied(r) ==
  ~r.moved =>
    /\ r.op = "save" /\ r.kind = "agent" /\ r.pc \in {"read", "insert"}
         => r.new.route = AgentRoutingBaseline.route
    /\ r.op = "rollback" /\ r.kind = "agent" /\ r.pc = "enable"
         => /\ reg["agent"][r.version].route = AgentRoutingBaseline.route
            /\ reg["agent"][r.version].tools = AgentRoutingBaseline.tools
    /\ r.op = "save" /\ r.kind = "skill" /\ r.pc = "insert"
         => r.new.attach = InheritedAttach(Row("skill"))
    /\ r.op = "attach" /\ r.pc = "insert" => r.new.text = Row("skill").text

\* Somebody wrote and has not read the rows again yet.
Pending == \E o \in Editors : ed[o].pc = "agents"

\* A refresh that met no other has read what the rows hold, or another is to follow.
Reads(e) ==
  ed[e].alone =>
    /\ \A o \in Editors \ {e} : ~Refreshing(o)
    /\ \/ Pending
       \/ /\ ed[e].got.agent = Row("agent")
          /\ ed[e].pc = "publish" => ed[e].got.skill = Row("skill")

Mirrors ==
  fresh => \/ Pending
           \/ \E o \in Editors : Refreshing(o)
           \/ snap = [k \in Kinds |-> Row(k)]

Typed ==
  /\ reg \in Registry
  /\ active \in [Kinds -> Nat]
  /\ \A k \in Kinds : active[k] \in 0..Len(reg[k])
  /\ active["agent"] = 0 => reg["agent"] = << >>
  /\ snap \in Snaps
  /\ gen \in Nat
  /\ cache \in [gen : {-1} \union Nat, card : AgentCards \union {Unknown}]
  /\ cache.gen \in {-1} \union 0..gen
  /\ file \in AgentCards
  /\ dirty \subseteq {"agent"}
  /\ ed \in [Editors -> Requests]
  /\ fresh \in BOOLEAN

IInv ==
  /\ Typed
  /\ CardsFollow
  /\ \A e \in Editors : Shaped(ed[e]) /\ Listed(ed[e]) /\ Tied(ed[e]) /\ Reads(e)
  /\ Mirrors

-----------------------------------------------------------------------------
(* What is read. *)

LEMMA RequestTyped == Request \in Requests
BY DEF Request, Requests, Places, Ops, Kinds, Drafts, Snaps

LEMMA RequestShaped ==
    ASSUME Typed
    PROVE  Shaped(Request) /\ Listed(Request) /\ Tied(Request)
<1>1. 0 < MaxWriteAttempts
  BY RegisterAssumption DEF RegisterAssumption
<1>2. Shaped(Request)
  BY <1>1 DEF Shaped, Request
<1>3. Listed(Request)
  BY DEF Listed, Request
<1>4. Tied(Request)
  BY DEF Tied, Request
<1>5. QED BY <1>2, <1>3, <1>4

LEMMA RowTyped ==
    ASSUME Typed
    PROVE  /\ Row("agent") \in AgentCards \union {Unknown}
           /\ Row("skill") \in SkillPacks \union {Unknown}
           /\ active["agent"] # 0 => Row("agent") \in AgentCards
           /\ AgentRoutingBaseline \in AgentCards
           /\ Lookup \in AgentCards \union {Unknown}
<1>1. /\ active["agent"] \in 0..Len(reg["agent"])
      /\ active["skill"] \in 0..Len(reg["skill"])
      /\ reg["agent"] \in Seq(AgentCards)
      /\ reg["skill"] \in Seq(SkillPacks)
  BY DEF Typed, Kinds, Registry
<1>2. active["agent"] # 0 => reg["agent"][active["agent"]] \in AgentCards
  BY <1>1
<1>3. active["skill"] # 0 => reg["skill"][active["skill"]] \in SkillPacks
  BY <1>1
<1>4. AgentRoutingBaseline \in AgentCards
  BY <1>2 DEF AgentRoutingBaseline, Row, Typed
<1>5. Lookup \in AgentCards \union {Unknown}
  BY DEF Lookup, Typed, Snaps
<1>6. QED BY <1>2, <1>3, <1>4, <1>5 DEF Row

\* The invariant of the others after one request moved and nothing else did.
LEMMA OneMoves ==
    ASSUME IInv, NEW e \in Editors, NEW r \in Requests,
           ed' = [ed EXCEPT ![e] = r],
           UNCHANGED <<reg, active, snap, gen, cache, file, fresh>>, dirty' \subseteq {"agent"},
           ed[e].pc \notin {"agents", "skills", "publish"}, r.pc \notin {"skills", "publish"}, ~r.alone,
           Shaped(r), Listed(r), Tied(r)
    PROVE  IInv'
<1>1. /\ ed \in [Editors -> Requests]
      /\ ed'[e] = r
      /\ \A o \in Editors \ {e} : ed'[o] = ed[o]
  BY DEF IInv, Typed
<1>2. Typed'
  BY <1>1 DEF IInv, Typed
<1>3. CardsFollow'
  BY DEF IInv, CardsFollow, CacheHit, Lookup
<1>4. Row("agent")' = Row("agent") /\ Row("skill")' = Row("skill") /\ AgentRoutingBaseline' = AgentRoutingBaseline
  BY DEF Row, AgentRoutingBaseline
<1>5. ASSUME NEW o \in Editors
      PROVE  Shaped(ed[o])' /\ Listed(ed[o])' /\ Tied(ed[o])'
  <2>1. Shaped(ed'[o]) /\ Listed(ed'[o]) /\ Tied(ed'[o])
    BY <1>1 DEF IInv
  <2>2. Shaped(ed[o])'
    BY <2>1 DEF Shaped
  <2>3. Listed(ed[o])'
    BY <2>1 DEF Listed
  <2>4. Tied(ed[o])'
    BY <2>1, <1>4 DEF Tied
  <2>5. QED BY <2>2, <2>3, <2>4
<1>6. \A o \in Editors : Refreshing(o)' <=> Refreshing(o)
  BY <1>1 DEF Refreshing
<1>7. Pending => Pending'
  BY <1>1 DEF Pending
<1>8. ASSUME NEW o \in Editors
      PROVE  Reads(o)'
  BY <1>1, <1>4, <1>6, <1>7 DEF IInv, Reads
<1>9. Mirrors'
  BY <1>6, <1>7 DEF IInv, Mirrors, Row
<1>10. QED BY <1>2, <1>3, <1>5, <1>8, <1>9 DEF IInv

-----------------------------------------------------------------------------
(* The beginning of a request, and the reads its decision rests on. *)

LEMMA BeginStep ==
    ASSUME IInv, NEW e \in Editors, NEW r \in Requests, Begin(e, r),
           r.pc \notin {"skills", "publish"}, ~r.alone, Shaped(r), Listed(r), Tied(r)
    PROVE  IInv'
<1>1. /\ ed' = [ed EXCEPT ![e] = r]
      /\ UNCHANGED <<reg, active, snap, gen, cache, file, fresh>>
      /\ dirty' \subseteq {"agent"}
      /\ ed[e].pc = "idle"
  BY DEF Begin, Step, RowsKept, MirrorKept, IInv, Typed
<1>2. QED BY <1>1, OneMoves

LEMMA SaveAgentStep ==
    ASSUME IInv, NEW e \in Editors, SaveAgent(e)
    PROVE  IInv'
<1>1. PICK new \in AgentCards :
         Begin(e, [Request EXCEPT !.pc = "baseline", !.op = "save", !.new = new])
  BY DEF SaveAgent
<1> DEFINE r == [Request EXCEPT !.pc = "baseline", !.op = "save", !.new = new]
<1>2. /\ r \in Requests
      /\ r.pc = "baseline" /\ r.op = "save" /\ r.kind = "agent" /\ r.new = new
      /\ r.tries = 0 /\ ~r.alone /\ ~r.moved
  BY DEF Request, Requests, Places, Ops, Kinds, Drafts, Snaps
<1>3. Begin(e, r)
  BY <1>1
<1> HIDE DEF r
<1>4. 0 < MaxWriteAttempts
  BY RegisterAssumption DEF RegisterAssumption
<1>5. Shaped(r)
  BY <1>2, <1>4 DEF Shaped
<1>6. Listed(r) /\ Tied(r)
  BY <1>2 DEF Listed, Tied
<1>7. QED BY <1>2, <1>3, <1>5, <1>6, BeginStep

LEMMA SaveSkillStep ==
    ASSUME IInv, NEW e \in Editors, SaveSkill(e)
    PROVE  IInv'
<1>1. PICK text \in Texts :
         Begin(e, [Request EXCEPT !.pc = "read", !.op = "save", !.kind = "skill", !.new = [text |-> text]])
  BY DEF SaveSkill
<1> DEFINE r == [Request EXCEPT !.pc = "read", !.op = "save", !.kind = "skill", !.new = [text |-> text]]
<1>2. /\ r \in Requests
      /\ r.pc = "read" /\ r.op = "save" /\ r.kind = "skill" /\ r.new \in TextEdits
      /\ r.tries = 0 /\ ~r.alone /\ ~r.moved
  BY DEF Request, Requests, Places, Ops, Kinds, Drafts, Snaps, TextEdits
<1>3. Begin(e, r)
  BY <1>1
<1> HIDE DEF r
<1>4. 0 < MaxWriteAttempts
  BY RegisterAssumption DEF RegisterAssumption
<1>5. Shaped(r)
  BY <1>2, <1>4 DEF Shaped
<1>6. Listed(r) /\ Tied(r)
  BY <1>2 DEF Listed, Tied
<1>7. QED BY <1>2, <1>3, <1>5, <1>6, BeginStep

LEMMA SetSkillAttachStep ==
    ASSUME IInv, NEW e \in Editors, SetSkillAttach(e)
    PROVE  IInv'
<1>1. PICK a \in Attaches \union {Detached} :
         Begin(e, [Request EXCEPT !.pc = "read", !.op = "attach", !.kind = "skill", !.new = [attach |-> a]])
  BY DEF SetSkillAttach
<1> DEFINE r == [Request EXCEPT !.pc = "read", !.op = "attach", !.kind = "skill", !.new = [attach |-> a]]
<1>2. /\ r \in Requests
      /\ r.pc = "read" /\ r.op = "attach" /\ r.kind = "skill" /\ r.new \in AttachEdits
      /\ r.tries = 0 /\ ~r.alone /\ ~r.moved
  BY DEF Request, Requests, Places, Ops, Kinds, Drafts, Snaps, AttachEdits
<1>3. Begin(e, r)
  BY <1>1
<1> HIDE DEF r
<1>4. 0 < MaxWriteAttempts
  BY RegisterAssumption DEF RegisterAssumption
<1>5. Shaped(r)
  BY <1>2, <1>4 DEF Shaped
<1>6. Listed(r) /\ Tied(r)
  BY <1>2 DEF Listed, Tied
<1>7. QED BY <1>2, <1>3, <1>5, <1>6, BeginStep

LEMMA SetSkillEnabledStateStep ==
    ASSUME IInv, NEW e \in Editors, SetSkillEnabledState(e)
    PROVE  IInv'
<1>1. PICK on \in {"on", "off"} :
         Begin(e, [Request EXCEPT !.pc = "read", !.op = on, !.kind = "skill"])
  BY DEF SetSkillEnabledState
<1> DEFINE r == [Request EXCEPT !.pc = "read", !.op = on, !.kind = "skill"]
<1>2. /\ r \in Requests
      /\ r.pc = "read" /\ r.op \in {"on", "off"} /\ r.kind = "skill"
      /\ r.tries = 0 /\ ~r.alone /\ ~r.moved
  BY DEF Request, Requests, Places, Ops, Kinds, Drafts, Snaps
<1>3. Begin(e, r)
  BY <1>1
<1> HIDE DEF r
<1>4. 0 < MaxWriteAttempts
  BY RegisterAssumption DEF RegisterAssumption
<1>5. Shaped(r)
  BY <1>2, <1>4 DEF Shaped
<1>6. Listed(r) /\ Tied(r)
  BY <1>2 DEF Listed, Tied
<1>7. QED BY <1>2, <1>3, <1>5, <1>6, BeginStep

LEMMA RollbackStep ==
    ASSUME IInv, NEW e \in Editors, Rollback(e)
    PROVE  IInv'
<1>1. PICK k \in Kinds : \E v \in DOMAIN reg[k] :
         Begin(e, [Request EXCEPT !.pc = IF k = "agent" THEN "baseline" ELSE "enable",
                                  !.op = "rollback", !.kind = k, !.version = v])
  BY DEF Rollback
<1>2. PICK v \in DOMAIN reg[k] :
         Begin(e, [Request EXCEPT !.pc = IF k = "agent" THEN "baseline" ELSE "enable",
                                  !.op = "rollback", !.kind = k, !.version = v])
  BY <1>1
<1>3. v \in 1..Len(reg[k]) /\ v \in Nat
  BY DEF IInv, Typed, Registry, Kinds
<1> DEFINE r == [Request EXCEPT !.pc = IF k = "agent" THEN "baseline" ELSE "enable",
                                !.op = "rollback", !.kind = k, !.version = v]
<1>4. /\ r \in Requests
      /\ r.pc = IF k = "agent" THEN "baseline" ELSE "enable"
      /\ r.op = "rollback" /\ r.kind = k /\ r.version = v
      /\ r.tries = 0 /\ ~r.alone /\ ~r.moved
  BY <1>3 DEF Request, Requests, Places, Ops, Kinds, Drafts, Snaps
<1>5. Begin(e, r)
  BY <1>2
<1> HIDE DEF r
<1>6. 0 < MaxWriteAttempts
  BY RegisterAssumption DEF RegisterAssumption
<1>7. Shaped(r)
  BY <1>4, <1>6 DEF Shaped, Kinds
<1>8. Listed(r)
  BY <1>3, <1>4 DEF Listed
<1>9. Tied(r)
  BY <1>4 DEF Tied
<1>10. r.pc \notin {"skills", "publish"}
  BY <1>4
<1>11. QED BY <1>4, <1>5, <1>7, <1>8, <1>9, <1>10, BeginStep

LEMMA ReadBaselineStep ==
    ASSUME IInv, NEW e \in Editors, ReadBaseline(e)
    PROVE  IInv'
<1> DEFINE new == IF ed[e].op = "save" THEN ed[e].new ELSE reg["agent"][ed[e].version]
<1>1. /\ ed[e] \in Requests /\ ed[e].pc = "baseline" /\ ed[e].kind = "agent"
      /\ ed[e].op \in {"save", "rollback"} /\ ~ed[e].alone
      /\ Shaped(ed[e]) /\ Listed(ed[e])
  BY DEF IInv, Typed, ReadBaseline, Shaped
<1>2. /\ UNCHANGED <<reg, active, snap, gen, cache, file, fresh>>
      /\ dirty' \subseteq {"agent"}
  BY DEF ReadBaseline, RowsKept, MirrorKept, IInv, Typed
<1>3. CASE ed' = [ed EXCEPT ![e] = Request]
  <2>1. Request.pc = "idle" /\ ~Request.alone
    BY DEF Request
  <2>2. QED BY <1>1, <1>2, <1>3, <2>1, RequestTyped, RequestShaped, OneMoves DEF IInv
<1>4. CASE /\ ed' = [ed EXCEPT ![e] = [ed[e] EXCEPT !.pc = IF ed[e].op = "save" THEN "read" ELSE "enable",
                                                    !.base = AgentRoutingBaseline]]
           /\ ValidateAgentRoutingAgainst(new, AgentRoutingBaseline, ed[e].op = "rollback")
  <2> DEFINE r == [ed[e] EXCEPT !.pc = IF ed[e].op = "save" THEN "read" ELSE "enable", !.base = AgentRoutingBaseline]
  <2>1. AgentRoutingBaseline \in AgentCards
    BY RowTyped DEF IInv
  <2>2. r \in Requests
    BY <1>1, <2>1 DEF Requests, Places
  <2>3. /\ r.pc = IF ed[e].op = "save" THEN "read" ELSE "enable"
        /\ r.op = ed[e].op /\ r.kind = "agent" /\ r.new = ed[e].new /\ r.version = ed[e].version
        /\ r.tries = ed[e].tries /\ ~r.alone
    BY <1>1 DEF Requests
  <2>4. ed' = [ed EXCEPT ![e] = r]
    BY <1>4
  <2> HIDE DEF r
  <2>5. Shaped(r)
    BY <1>1, <2>3 DEF Shaped
  <2>6. Listed(r)
    BY <1>1, <2>3 DEF Listed
  <2>7. Tied(r)
    BY <1>1, <1>4, <2>3 DEF Tied, ValidateAgentRoutingAgainst
  <2>8. r.pc \notin {"skills", "publish"}
    BY <2>3
  <2>9. QED BY <1>1, <1>2, <2>2, <2>3, <2>4, <2>5, <2>6, <2>7, <2>8, OneMoves
<1>5. QED BY <1>3, <1>4, Zenon DEF ReadBaseline, Step, End

LEMMA ReadActiveStep ==
    ASSUME IInv, NEW e \in Editors, ReadActive(e)
    PROVE  IInv'
<1> DEFINE row == Row(ed[e].kind)
<1>1. /\ ed[e] \in Requests /\ ed[e].pc = "read" /\ ed[e].op \in {"save", "attach", "on", "off"} /\ ~ed[e].alone
      /\ ed[e].kind \in Kinds
      /\ Shaped(ed[e]) /\ Listed(ed[e]) /\ Tied(ed[e])
  BY DEF IInv, Typed, ReadActive, Shaped, Requests
<1>2. /\ UNCHANGED <<reg, active, snap, gen, cache, file, fresh>>
      /\ dirty' \subseteq {"agent"}
  BY DEF ReadActive, RowsKept, MirrorKept, IInv, Typed
<1>3. /\ row \in AgentCards \union SkillPacks \union {Unknown}
      /\ ed[e].kind = "skill" => row \in SkillPacks \union {Unknown}
  BY <1>1, RowTyped DEF IInv, Kinds
<1>4. CASE ed' = [ed EXCEPT ![e] = Request]
  <2>1. Request.pc = "idle" /\ ~Request.alone
    BY DEF Request
  <2>2. QED BY <1>1, <1>2, <1>4, <2>1, RequestTyped, RequestShaped, OneMoves DEF IInv
<1>5. CASE /\ ed[e].op = "on"
           /\ ed' = [ed EXCEPT ![e] = [ed[e] EXCEPT !.pc = "enable", !.version = Len(reg["skill"]), !.base = row]]
  <2> DEFINE r == [ed[e] EXCEPT !.pc = "enable", !.version = Len(reg["skill"]), !.base = row]
  <2>1. Len(reg["skill"]) \in Nat
    BY DEF IInv, Typed, Registry
  <2>2. r \in Requests
    BY <1>1, <1>3, <2>1 DEF Requests, Places
  <2>3. /\ r.pc = "enable" /\ r.op = "on" /\ r.kind = "skill" /\ r.version = Len(reg["skill"])
        /\ r.tries = ed[e].tries /\ ~r.alone
    BY <1>1, <1>5 DEF Requests, Shaped
  <2>4. ed' = [ed EXCEPT ![e] = r]
    BY <1>5
  <2> HIDE DEF r
  <2>5. Shaped(r)
    BY <1>1, <2>3 DEF Shaped
  <2>6. Listed(r)
    BY <2>1, <2>3 DEF Listed
  <2>7. Tied(r)
    BY <2>3 DEF Tied
  <2>8. QED BY <1>1, <1>2, <2>2, <2>3, <2>4, <2>5, <2>6, <2>7, OneMoves
<1>6. CASE /\ ed[e].op = "off"
           /\ ed' = [ed EXCEPT ![e] = [ed[e] EXCEPT !.pc = "disable", !.version = active["skill"], !.base = row]]
  <2> DEFINE r == [ed[e] EXCEPT !.pc = "disable", !.version = active["skill"], !.base = row]
  <2>1. active["skill"] \in Nat
    BY DEF IInv, Typed, Kinds
  <2>2. r \in Requests
    BY <1>1, <1>3, <2>1 DEF Requests, Places
  <2>3. /\ r.pc = "disable" /\ r.op = "off" /\ r.kind = "skill"
        /\ r.tries = ed[e].tries /\ ~r.alone
    BY <1>1, <1>6 DEF Requests, Shaped
  <2>4. ed' = [ed EXCEPT ![e] = r]
    BY <1>6
  <2> HIDE DEF r
  <2>5. Shaped(r)
    BY <1>1, <2>3 DEF Shaped
  <2>6. Listed(r)
    BY <2>3 DEF Listed
  <2>7. Tied(r)
    BY <2>3 DEF Tied
  <2>8. QED BY <1>1, <1>2, <2>2, <2>3, <2>4, <2>5, <2>6, <2>7, OneMoves
<1>7. CASE ed[e].kind = "agent" /\ ed' = [ed EXCEPT ![e] = [ed[e] EXCEPT !.pc = "insert"]]
  <2> DEFINE r == [ed[e] EXCEPT !.pc = "insert"]
  <2>1. r \in Requests
    BY <1>1 DEF Requests, Places
  <2>2. /\ r.pc = "insert" /\ r.op = ed[e].op /\ r.op = "save" /\ r.kind = "agent" /\ r.new = ed[e].new
        /\ r.tries = ed[e].tries /\ ~r.alone /\ r.moved = ed[e].moved
    BY <1>1, <1>7 DEF Requests, Shaped
  <2>3. ed' = [ed EXCEPT ![e] = r]
    BY <1>7
  <2> HIDE DEF r
  <2>4. Shaped(r)
    BY <1>1, <1>7, <2>2 DEF Shaped
  <2>5. Listed(r)
    BY <2>2 DEF Listed
  <2>6. Tied(r)
    BY <1>1, <1>7, <2>2 DEF Tied
  <2>7. QED BY <1>1, <1>2, <2>1, <2>2, <2>3, <2>4, <2>5, <2>6, OneMoves
<1>8. CASE /\ ed[e].kind = "skill" /\ ed[e].op \in {"save", "attach"} /\ ~Unanswerable(ed[e], row)
           /\ ed' = [ed EXCEPT ![e] = [ed[e] EXCEPT !.pc = "insert", !.new = NewVersion(ed[e].op, ed[e].new, row),
                                                    !.base = row]]
  <2> DEFINE r == [ed[e] EXCEPT !.pc = "insert", !.new = NewVersion(ed[e].op, ed[e].new, row), !.base = row]
  <2>1. ASSUME ed[e].op = "save"
        PROVE  /\ NewVersion(ed[e].op, ed[e].new, row) \in SkillPacks
               /\ NewVersion(ed[e].op, ed[e].new, row).attach = InheritedAttach(row)
    <3>1. ed[e].new \in TextEdits
      BY <1>1, <1>8, <2>1 DEF Shaped
    <3>2. InheritedAttach(row) \in Attaches \union {Detached}
      BY <1>3, <1>8 DEF InheritedAttach, SkillPacks
    <3>3. QED BY <2>1, <3>1, <3>2 DEF NewVersion, SkillPacks, TextEdits
  <2>2. ASSUME ed[e].op = "attach"
        PROVE  /\ NewVersion(ed[e].op, ed[e].new, row) \in SkillPacks
               /\ NewVersion(ed[e].op, ed[e].new, row).text = row.text
    <3>1. ed[e].new \in AttachEdits
      BY <1>1, <2>2 DEF Shaped
    <3>2. row \in SkillPacks
      BY <1>3, <1>8, <2>2 DEF Unanswerable
    <3>3. QED BY <2>2, <3>1, <3>2 DEF NewVersion, SkillPacks, AttachEdits
  <2>3. /\ NewVersion(ed[e].op, ed[e].new, row) \in SkillPacks
        /\ ed[e].op = "save" => NewVersion(ed[e].op, ed[e].new, row).attach = InheritedAttach(row)
        /\ ed[e].op = "attach" => NewVersion(ed[e].op, ed[e].new, row).text = row.text
    BY <2>1, <2>2, <1>8
  <2>4. r \in Requests
    BY <1>1, <1>3, <2>3 DEF Requests, Places, Drafts
  <2>5. /\ r.pc = "insert" /\ r.op = ed[e].op /\ r.kind = "skill" /\ r.new = NewVersion(ed[e].op, ed[e].new, row)
        /\ r.tries = ed[e].tries /\ ~r.alone
    BY <1>1, <1>8 DEF Requests
  <2>6. ed' = [ed EXCEPT ![e] = r]
    BY <1>8
  <2> HIDE DEF r
  <2>7. Shaped(r)
    BY <1>1, <1>8, <2>3, <2>5 DEF Shaped
  <2>8. Listed(r)
    BY <1>8, <2>5 DEF Listed
  <2>9. Tied(r)
    BY <1>8, <2>3, <2>5 DEF Tied
  <2>10. QED BY <1>1, <1>2, <2>4, <2>5, <2>6, <2>7, <2>8, <2>9, OneMoves
<1>9. QED BY <1>4, <1>5, <1>6, <1>7, <1>8, Zenon DEF ReadActive, Step, End

LEMMA LoseRaceStep ==
    ASSUME IInv, NEW e \in Editors, LoseRace(e)
    PROVE  IInv'
<1>1. /\ ed[e] \in Requests /\ ed[e].pc \in {"insert", "enable"} /\ ~ed[e].alone /\ ed[e].moved
      /\ Shaped(ed[e]) /\ Listed(ed[e])
  BY DEF IInv, Typed, LoseRace, Shaped
<1>2. /\ UNCHANGED <<reg, active, snap, gen, cache, file, fresh>>
      /\ dirty' \subseteq {"agent"}
  BY DEF LoseRace, RowsKept, MirrorKept, IInv, Typed
<1>3. CASE ed[e].tries + 1 < MaxWriteAttempts /\ ed' = [ed EXCEPT ![e] = [ed[e] EXCEPT !.tries = @ + 1]]
  <2> DEFINE r == [ed[e] EXCEPT !.tries = @ + 1]
  <2>1. r \in Requests
    BY <1>1 DEF Requests
  <2>2. /\ r.pc = ed[e].pc /\ r.op = ed[e].op /\ r.kind = ed[e].kind /\ r.new = ed[e].new
        /\ r.version = ed[e].version /\ r.tries = ed[e].tries + 1 /\ ~r.alone /\ r.moved
    BY <1>1 DEF Requests
  <2>3. ed' = [ed EXCEPT ![e] = r]
    BY <1>3
  <2> HIDE DEF r
  <2>4. Shaped(r)
    BY <1>1, <1>3, <2>2 DEF Shaped
  <2>5. Listed(r)
    BY <1>1, <2>2 DEF Listed
  <2>6. Tied(r)
    BY <2>2 DEF Tied
  <2>7. QED BY <1>1, <1>2, <2>1, <2>2, <2>3, <2>4, <2>5, <2>6, OneMoves
<1>4. CASE ed' = [ed EXCEPT ![e] = [ed[e] EXCEPT !.pc = "agents"]]
  <2> DEFINE r == [ed[e] EXCEPT !.pc = "agents"]
  <2>1. r \in Requests
    BY <1>1 DEF Requests, Places
  <2>2. /\ r.pc = "agents" /\ r.op = ed[e].op /\ r.kind = ed[e].kind /\ r.new = ed[e].new
        /\ r.version = ed[e].version /\ r.tries = ed[e].tries /\ ~r.alone /\ r.moved
    BY <1>1 DEF Requests
  <2>3. ed' = [ed EXCEPT ![e] = r]
    BY <1>4
  <2> HIDE DEF r
  <2>4. Shaped(r)
    BY <1>1, <2>2 DEF Shaped
  <2>5. Listed(r)
    BY <1>1, <2>2 DEF Listed
  <2>6. Tied(r)
    BY <2>2 DEF Tied
  <2>7. QED BY <1>1, <1>2, <2>1, <2>2, <2>3, <2>4, <2>5, <2>6, OneMoves
<1>5. QED BY <1>3, <1>4 DEF LoseRace, Step

LEMMA WriteFailsStep ==
    ASSUME IInv, NEW e \in Editors, WriteFails(e)
    PROVE  IInv'
<1>1. /\ ed[e] \in Requests /\ ed[e].pc \in {"insert", "enable", "disable"} /\ ~ed[e].alone
      /\ Shaped(ed[e]) /\ Listed(ed[e])
  BY DEF IInv, Typed, WriteFails, Writing, Shaped
<1>2. /\ UNCHANGED <<reg, active, snap, gen, cache, file, fresh>>
      /\ dirty' \subseteq {"agent"}
      /\ ed' = [ed EXCEPT ![e] = [ed[e] EXCEPT !.pc = "agents"]]
  BY DEF WriteFails, RowsKept, MirrorKept, Step, IInv, Typed
<1> DEFINE r == [ed[e] EXCEPT !.pc = "agents"]
<1>3. r \in Requests
  BY <1>1 DEF Requests, Places
<1>4. /\ r.pc = "agents" /\ r.op = ed[e].op /\ r.kind = ed[e].kind /\ r.new = ed[e].new
      /\ r.version = ed[e].version /\ r.tries = ed[e].tries /\ ~r.alone
  BY <1>1 DEF Requests
<1>5. ed' = [ed EXCEPT ![e] = r]
  BY <1>2
<1> HIDE DEF r
<1>6. Shaped(r)
  BY <1>1, <1>4 DEF Shaped
<1>7. Listed(r)
  BY <1>1, <1>4 DEF Listed
<1>8. Tied(r)
  BY <1>4 DEF Tied
<1>9. QED BY <1>1, <1>2, <1>3, <1>4, <1>5, <1>6, <1>7, <1>8, OneMoves

-----------------------------------------------------------------------------
(* The writes. *)

\* A write changes the rows of its register alone, keeps the versions that were there,
\* and moves those that were about to write it.
LEMMA LandedStep ==
    ASSUME IInv, NEW e \in Editors, Writing(e), ed' = Landed(e, ed[e].kind),
           UNCHANGED <<snap, gen, cache, fresh, file, dirty>>,
           reg' \in Registry, active' \in [Kinds -> Nat],
           \A k \in Kinds : /\ active'[k] \in 0..Len(reg'[k])
                            /\ Len(reg[k]) =< Len(reg'[k])
                            /\ k # ed[e].kind => reg'[k] = reg[k] /\ active'[k] = active[k],
           active'["agent"] = 0 => reg'["agent"] = << >>
    PROVE  IInv'
<1> DEFINE k == ed[e].kind
<1>1. /\ ed \in [Editors -> Requests]
      /\ \A o \in Editors : ed[o] \in Requests /\ Shaped(ed[o]) /\ Listed(ed[o]) /\ Tied(ed[o]) /\ Reads(o)
      /\ k \in Kinds
      /\ ed[e].pc \in {"insert", "enable", "disable"}
  BY DEF IInv, Typed, Requests, Writing
<1>2. /\ DOMAIN ed' = Editors
      /\ ed'[e] = [ed[e] EXCEPT !.pc = "agents"]
      /\ \A o \in Editors \ {e} :
            ed'[o] = IF ed[o].kind = k /\ (Writing(o) \/ (k = "agent" /\ ed[o].pc = "read"))
                     THEN [ed[o] EXCEPT !.moved = TRUE] ELSE ed[o]
  BY DEF Landed
<1>3. /\ ed'[e] \in Requests /\ ed'[e].pc = "agents" /\ ed'[e].kind = k
      /\ ed'[e].op = ed[e].op /\ ed'[e].new = ed[e].new /\ ed'[e].version = ed[e].version
      /\ ed'[e].tries = ed[e].tries /\ ed'[e].alone = ed[e].alone
  BY <1>1, <1>2 DEF Requests, Places
<1>4. ASSUME NEW o \in Editors \ {e}
      PROVE  /\ ed'[o] \in Requests /\ ed'[o].pc = ed[o].pc /\ ed'[o].kind = ed[o].kind
             /\ ed'[o].op = ed[o].op /\ ed'[o].new = ed[o].new /\ ed'[o].version = ed[o].version
             /\ ed'[o].tries = ed[o].tries /\ ed'[o].alone = ed[o].alone /\ ed'[o].got = ed[o].got
             /\ \/ ed'[o] = ed[o]
                \/ ed'[o].moved /\ ed[o].pc \in {"insert", "enable", "disable", "read"}
             /\ \/ ed'[o].moved
                \/ ed'[o].moved = ed[o].moved /\ ed[o].kind # k
                \/ /\ ed'[o].moved = ed[o].moved
                   /\ ed[o].pc \notin {"insert", "enable", "disable"}
                   /\ ~(ed[o].kind = "agent" /\ ed[o].pc = "read")
  <2>1. CASE ed[o].kind = k /\ (Writing(o) \/ (k = "agent" /\ ed[o].pc = "read"))
    <3>1. ed'[o] = [ed[o] EXCEPT !.moved = TRUE]
      BY <1>2, <2>1
    <3>2. ed[o].pc \in {"insert", "enable", "disable", "read"}
      BY <2>1 DEF Writing
    <3>3. QED BY <1>1, <3>1, <3>2 DEF Requests
  <2>2. CASE ~(ed[o].kind = k /\ (Writing(o) \/ (k = "agent" /\ ed[o].pc = "read")))
    <3>1. ed'[o] = ed[o]
      BY <1>2, <2>2
    <3>2. QED BY <1>1, <2>2, <3>1 DEF Writing
  <2>3. QED BY <2>1, <2>2
<1> HIDE DEF k
<1>5. Typed'
  <2>1. \A o \in Editors : ed'[o] \in Requests
    BY <1>3, <1>4
  <2>2. ed' = [o \in Editors |-> ed'[o]]
    BY DEF Landed
  <2>3. ed' \in [Editors -> Requests]
    BY <2>1, <2>2
  <2>4. QED BY <2>3 DEF Typed, IInv
<1>6. CardsFollow'
  BY DEF IInv, CardsFollow, CacheHit, Lookup
<1>7. Pending'
  BY <1>3 DEF Pending
<1>8. ASSUME NEW o \in Editors
      PROVE  Shaped(ed[o])'
  <2>1. CASE o = e
    BY <1>1, <1>3, <2>1 DEF Shaped, k
  <2>2. CASE o # e /\ ed'[o] = ed[o]
    BY <1>1, <2>2 DEF Shaped
  <2>3. CASE o # e /\ ed[o].pc \in {"insert", "enable", "disable", "read"}
    BY <1>1, <1>4, <2>3 DEF Shaped
  <2>4. QED BY <1>4, <2>1, <2>2, <2>3
<1>9. ASSUME NEW o \in Editors
      PROVE  Listed(ed[o])'
  <2>1. /\ ed'[o].op = ed[o].op /\ ed'[o].version = ed[o].version /\ ed'[o].kind = ed[o].kind
        /\ ed'[o].pc = "enable" => ed[o].pc = "enable"
    BY <1>3, <1>4 DEF k
  <2>2. ed[o].version \in Nat /\ ed[o].kind \in Kinds /\ Len(reg[ed[o].kind]) =< Len(reg'[ed[o].kind])
    BY <1>1 DEF Requests
  <2>3. Len(reg[ed[o].kind]) \in Nat /\ Len(reg'[ed[o].kind]) \in Nat
    BY <2>2 DEF Kinds, IInv, Typed, Registry
  <2>4. QED BY <1>1, <2>1, <2>2, <2>3 DEF Listed
<1>10. ASSUME NEW o \in Editors
       PROVE  Tied(ed[o])'
  <2>1. CASE o = e
    BY <1>3, <2>1 DEF Tied
  <2>2. CASE ed'[o].moved
    BY <2>2 DEF Tied
  <2>3. CASE o # e /\ ed'[o].moved = ed[o].moved /\ ed[o].kind # k
    <3>1. reg'[ed[o].kind] = reg[ed[o].kind] /\ active'[ed[o].kind] = active[ed[o].kind]
      BY <1>1, <2>3 DEF Requests, k
    <3>2. /\ ed[o].kind = "agent" => AgentRoutingBaseline' = AgentRoutingBaseline /\ reg'["agent"] = reg["agent"]
          /\ ed[o].kind = "skill" => Row("skill")' = Row("skill")
      BY <3>1 DEF AgentRoutingBaseline, Row
    <3>3. ed[o].op = "attach" => ed[o].kind = "skill"
      BY <1>1 DEF Shaped
    <3>4. QED BY <1>1, <1>4, <2>3, <3>2, <3>3 DEF Tied
  <2>4. CASE /\ o # e /\ ed[o].pc \notin {"insert", "enable", "disable"}
             /\ ~(ed[o].kind = "agent" /\ ed[o].pc = "read")
    BY <1>4, <2>4 DEF Tied
  <2>5. QED BY <1>4, <2>1, <2>2, <2>3, <2>4
<1>11. \A o \in Editors : Refreshing(o)' => Refreshing(o)
  BY <1>3, <1>4 DEF Refreshing
<1>12. ASSUME NEW o \in Editors
       PROVE  Reads(o)'
  <2>1. ed'[o].alone => ed[o].alone
    BY <1>3, <1>4
  <2>2. QED BY <1>1, <1>7, <1>11, <2>1 DEF Reads
<1>13. Mirrors'
  BY <1>7 DEF Mirrors
<1>14. QED BY <1>5, <1>6, <1>8, <1>9, <1>10, <1>12, <1>13 DEF IInv

LEMMA InsertVersionStep ==
    ASSUME IInv, NEW e \in Editors, InsertVersion(e)
    PROVE  /\ IInv'
           /\ ed[e].kind = "agent" => Row("agent")' = ed[e].new
           /\ ed[e].kind = "skill" => Row("skill")' = ed[e].new
<1> DEFINE k == ed[e].kind
           new == ed[e].new
<1>1. /\ k \in Kinds /\ ed[e].pc = "insert"
      /\ new \in IF k = "agent" THEN AgentCards ELSE SkillPacks
      /\ reg' = [reg EXCEPT ![k] = Append(reg[k], new)]
      /\ active' = [active EXCEPT ![k] = Len(reg[k]) + 1]
      /\ ed' = Landed(e, k)
      /\ UNCHANGED <<snap, gen, cache, fresh, file, dirty>>
  BY DEF InsertVersion, MirrorKept, IInv, Typed, Requests, Shaped
<1>2. /\ reg \in Registry /\ active \in [Kinds -> Nat]
      /\ reg["agent"] \in Seq(AgentCards) /\ reg["skill"] \in Seq(SkillPacks)
      /\ \A j \in Kinds : active[j] \in 0..Len(reg[j])
      /\ active["agent"] = 0 => reg["agent"] = << >>
  BY DEF IInv, Typed, Registry
<1> HIDE DEF k, new
<1>3. CASE k = "agent"
  <2>1. Append(reg["agent"], new) \in Seq(AgentCards) /\ Len(Append(reg["agent"], new)) = Len(reg["agent"]) + 1
        /\ Append(reg["agent"], new)[Len(reg["agent"]) + 1] = new
    BY <1>1, <1>2, <1>3
  <2>2. /\ reg' \in Registry
        /\ reg'["agent"] = Append(reg["agent"], new) /\ reg'["skill"] = reg["skill"]
    BY <1>1, <1>2, <1>3, <2>1 DEF Registry
  <2>3. /\ active'["agent"] = Len(reg["agent"]) + 1 /\ active'["skill"] = active["skill"]
        /\ active' \in [Kinds -> Nat] /\ Len(reg["agent"]) \in Nat /\ Len(reg["skill"]) \in Nat
    BY <1>1, <1>2, <1>3 DEF Kinds
  <2>4. \A j \in Kinds : /\ active'[j] \in 0..Len(reg'[j])
                         /\ Len(reg[j]) =< Len(reg'[j])
                         /\ j # k => reg'[j] = reg[j] /\ active'[j] = active[j]
    BY <1>2, <1>3, <2>1, <2>2, <2>3 DEF Kinds
  <2>5. active'["agent"] # 0 /\ Row("agent")' = new
    BY <1>3, <2>1, <2>2, <2>3 DEF Row
  <2>6. Writing(e)
    BY <1>1 DEF Writing
  <2>7. IInv'
    BY <1>1, <2>2, <2>3, <2>4, <2>5, <2>6, LandedStep DEF k
  <2>8. QED BY <1>3, <2>5, <2>7 DEF k, new
<1>4. CASE k = "skill"
  <2>1. Append(reg["skill"], new) \in Seq(SkillPacks) /\ Len(Append(reg["skill"], new)) = Len(reg["skill"]) + 1
        /\ Append(reg["skill"], new)[Len(reg["skill"]) + 1] = new
    BY <1>1, <1>2, <1>4
  <2>2. /\ reg' \in Registry
        /\ reg'["skill"] = Append(reg["skill"], new) /\ reg'["agent"] = reg["agent"]
    BY <1>1, <1>2, <1>4, <2>1 DEF Registry
  <2>3. /\ active'["skill"] = Len(reg["skill"]) + 1 /\ active'["agent"] = active["agent"]
        /\ active' \in [Kinds -> Nat] /\ Len(reg["agent"]) \in Nat /\ Len(reg["skill"]) \in Nat
    BY <1>1, <1>2, <1>4 DEF Kinds
  <2>4. \A j \in Kinds : /\ active'[j] \in 0..Len(reg'[j])
                         /\ Len(reg[j]) =< Len(reg'[j])
                         /\ j # k => reg'[j] = reg[j] /\ active'[j] = active[j]
    BY <1>2, <1>4, <2>1, <2>2, <2>3 DEF Kinds
  <2>5. Row("skill")' = new /\ (active'["agent"] = 0 => reg'["agent"] = << >>)
    BY <1>2, <1>4, <2>1, <2>2, <2>3 DEF Row
  <2>6. Writing(e)
    BY <1>1 DEF Writing
  <2>7. IInv'
    BY <1>1, <2>2, <2>3, <2>4, <2>5, <2>6, LandedStep DEF k
  <2>8. QED BY <1>4, <2>5, <2>7 DEF k, new
<1>5. QED BY <1>1, <1>3, <1>4 DEF Kinds, k

LEMMA EnableVersionStep ==
    ASSUME IInv, NEW e \in Editors, EnableVersion(e)
    PROVE  IInv'
<1> DEFINE k == ed[e].kind
           v == ed[e].version
<1>1. /\ k \in Kinds /\ ed[e].pc = "enable" /\ v \in 0..Len(reg[k]) /\ v \in Nat
      /\ ed[e].op = "rollback" => v \in 1..Len(reg[k])
      /\ ed[e].op = "on" => k = "skill"
      /\ ed[e].op \in {"on", "rollback"}
      /\ reg' = reg
      /\ active' = [active EXCEPT ![k] = v]
      /\ ed' = Landed(e, k)
      /\ UNCHANGED <<snap, gen, cache, fresh, file, dirty>>
  BY DEF EnableVersion, MirrorKept, IInv, Typed, Requests, Shaped, Listed
<1>2. /\ reg \in Registry /\ active \in [Kinds -> Nat]
      /\ Len(reg["agent"]) \in Nat /\ Len(reg["skill"]) \in Nat
      /\ \A j \in Kinds : active[j] \in 0..Len(reg[j])
      /\ active["agent"] = 0 => reg["agent"] = << >>
  BY DEF IInv, Typed, Registry
<1> HIDE DEF k, v
<1>3. /\ active' \in [Kinds -> Nat] /\ active'[k] = v
      /\ \A j \in Kinds : j # k => active'[j] = active[j]
  BY <1>1, <1>2
<1>4. \A j \in Kinds : /\ active'[j] \in 0..Len(reg'[j])
                       /\ Len(reg[j]) =< Len(reg'[j])
                       /\ j # k => reg'[j] = reg[j] /\ active'[j] = active[j]
  BY <1>1, <1>2, <1>3 DEF Kinds
<1>5. active'["agent"] = 0 => reg'["agent"] = << >>
  <2>1. CASE k = "agent"
    <3>1. v \in 1..Len(reg["agent"])
      BY <1>1, <2>1
    <3>2. QED BY <1>2, <1>3, <2>1, <3>1
  <2>2. CASE k # "agent"
    BY <1>1, <1>2, <1>3, <2>2 DEF Kinds
  <2>3. QED BY <2>1, <2>2
<1>6. Writing(e)
  BY <1>1 DEF Writing
<1>7. QED BY <1>1, <1>2, <1>3, <1>4, <1>5, <1>6, LandedStep DEF k

LEMMA DisableVersionStep ==
    ASSUME IInv, NEW e \in Editors, DisableVersion(e)
    PROVE  IInv'
<1>1. /\ ed[e].kind = "skill" /\ ed[e].pc = "disable"
      /\ reg' = reg
      /\ active' = [active EXCEPT !["skill"] = IF active["skill"] = ed[e].version THEN 0 ELSE active["skill"]]
      /\ ed' = Landed(e, ed[e].kind)
      /\ UNCHANGED <<snap, gen, cache, fresh, file, dirty>>
  BY DEF DisableVersion, MirrorKept, IInv, Shaped
<1>2. /\ reg \in Registry /\ active \in [Kinds -> Nat]
      /\ Len(reg["agent"]) \in Nat /\ Len(reg["skill"]) \in Nat
      /\ \A j \in Kinds : active[j] \in 0..Len(reg[j])
      /\ active["agent"] = 0 => reg["agent"] = << >>
  BY DEF IInv, Typed, Registry
<1>3. /\ active' \in [Kinds -> Nat]
      /\ active'["skill"] \in {0, active["skill"]} /\ active'["agent"] = active["agent"]
  BY <1>1, <1>2 DEF Kinds
<1>4. \A j \in Kinds : /\ active'[j] \in 0..Len(reg'[j])
                       /\ Len(reg[j]) =< Len(reg'[j])
                       /\ j # ed[e].kind => reg'[j] = reg[j] /\ active'[j] = active[j]
  BY <1>1, <1>2, <1>3 DEF Kinds
<1>5. Writing(e)
  BY <1>1 DEF Writing
<1>6. QED BY <1>1, <1>2, <1>3, <1>4, <1>5, LandedStep

-----------------------------------------------------------------------------
(* The refresh. *)

\* What a request carries does not depend on its being alone.
LEMMA MetAnother ==
    ASSUME IInv, NEW o \in Editors, ed'[o] = [ed[o] EXCEPT !.alone = FALSE],
           UNCHANGED <<reg, active, file>>
    PROVE  /\ ed'[o] \in Requests /\ ed'[o].pc = ed[o].pc /\ ~ed'[o].alone
           /\ Shaped(ed[o])' /\ Listed(ed[o])' /\ Tied(ed[o])'
<1>1. ed[o] \in Requests /\ Shaped(ed[o]) /\ Listed(ed[o]) /\ Tied(ed[o])
  BY DEF IInv, Typed
<1>2. /\ ed'[o] \in Requests /\ ed'[o].pc = ed[o].pc /\ ed'[o].alone = FALSE
      /\ ed'[o].op = ed[o].op /\ ed'[o].kind = ed[o].kind /\ ed'[o].new = ed[o].new
      /\ ed'[o].version = ed[o].version /\ ed'[o].tries = ed[o].tries /\ ed'[o].moved = ed[o].moved
  BY <1>1 DEF Requests
<1>3. ed[o].pc = "idle" => ed'[o] = Request
  <2>1. Request.alone = FALSE
    BY DEF Request
  <2>2. [Request EXCEPT !.alone = FALSE] = Request
    BY RequestTyped, <2>1 DEF Requests
  <2>3. QED BY <1>1, <2>2 DEF Shaped
<1>4. Shaped(ed[o])'
  BY <1>1, <1>2, <1>3 DEF Shaped
<1>5. Listed(ed[o])'
  BY <1>1, <1>2 DEF Listed
<1>6. AgentRoutingBaseline' = AgentRoutingBaseline /\ Row("skill")' = Row("skill")
  BY DEF AgentRoutingBaseline, Row
<1>7. Tied(ed[o])'
  BY <1>1, <1>2, <1>6 DEF Tied
<1>8. QED BY <1>2, <1>4, <1>5, <1>7

LEMMA RefreshAgentsStep ==
    ASSUME IInv, NEW e \in Editors, RefreshAgents(e)
    PROVE  IInv'
<1> DEFINE alone == \A x \in Editors \ {e} : ~Refreshing(x)
<1>1. /\ ed[e].pc = "agents" /\ ed[e] \in Requests
      /\ ed' = [o \in Editors |->
                 IF o = e THEN [ed[e] EXCEPT !.pc = "skills", !.got.agent = Row("agent"), !.alone = alone]
                 ELSE [ed[o] EXCEPT !.alone = FALSE]]
      /\ UNCHANGED <<reg, active, snap, gen, cache, fresh, file, dirty>>
      /\ Shaped(ed[e]) /\ Listed(ed[e])
      /\ Row("agent") \in AgentCards \union {Unknown}
  BY RowTyped DEF RefreshAgents, RowsKept, MirrorKept, IInv, Typed
<1>2. alone \in BOOLEAN
  OBVIOUS
<1>3. ed[e].got \in Snaps
  BY <1>1 DEF Requests
<1>4. [ed[e].got EXCEPT !.agent = Row("agent")] \in Snaps
  BY <1>1, <1>3 DEF Snaps
<1>5. ed'[e] = [ed[e] EXCEPT !.pc = "skills", !.got = [ed[e].got EXCEPT !.agent = Row("agent")], !.alone = alone]
  BY <1>1 DEF Requests
<1> HIDE DEF alone
<1>6. /\ ed'[e] \in Requests /\ ed'[e].pc = "skills" /\ (ed'[e].alone <=> alone)
      /\ ed'[e].got.agent = Row("agent")
      /\ ed'[e].op = ed[e].op /\ ed'[e].kind = ed[e].kind /\ ed'[e].new = ed[e].new
      /\ ed'[e].version = ed[e].version /\ ed'[e].tries = ed[e].tries
  BY <1>1, <1>2, <1>3, <1>4, <1>5 DEF Requests, Places, Snaps
<1>7. /\ \A o \in Editors \ {e} : /\ ed'[o] \in Requests /\ ed'[o].pc = ed[o].pc /\ ~ed'[o].alone
                                  /\ Shaped(ed[o])' /\ Listed(ed[o])' /\ Tied(ed[o])'
  BY <1>1, MetAnother
<1>8. Typed'
  <2>1. ed' \in [Editors -> Requests]
    BY <1>1, <1>6, <1>7
  <2>2. QED BY <1>1, <2>1 DEF IInv, Typed
<1>9. CardsFollow'
  BY <1>1 DEF IInv, CardsFollow, CacheHit, Lookup
<1>10. Shaped(ed[e])' /\ Listed(ed[e])' /\ Tied(ed[e])'
  <2>1. Shaped(ed[e])'
    BY <1>1, <1>6 DEF Shaped
  <2>2. Listed(ed[e])'
    BY <1>1, <1>6 DEF Listed
  <2>3. Tied(ed[e])'
    BY <1>6 DEF Tied
  <2>4. QED BY <2>1, <2>2, <2>3
<1>11. Reads(e)'
  <2>1. Row("agent")' = Row("agent")
    BY <1>1 DEF Row
  <2>2. alone => \A o \in Editors \ {e} : ~Refreshing(o)'
    BY <1>7 DEF Refreshing, alone
  <2>3. QED BY <1>6, <2>1, <2>2 DEF Reads
<1>12. \A o \in Editors \ {e} : Reads(o)'
  BY <1>7 DEF Reads
<1>13. Mirrors'
  BY <1>6 DEF Mirrors, Refreshing
<1>14. QED BY <1>7, <1>8, <1>9, <1>10, <1>11, <1>12, <1>13 DEF IInv

LEMMA RefreshSkillsStep ==
    ASSUME IInv, NEW e \in Editors, RefreshSkills(e)
    PROVE  IInv'
<1>1. /\ ed[e].pc = "skills" /\ ed[e] \in Requests
      /\ ed' = [ed EXCEPT ![e] = [ed[e] EXCEPT !.pc = "publish", !.got.skill = Row("skill")]]
      /\ UNCHANGED <<reg, active, snap, gen, cache, fresh, file, dirty>>
      /\ ed \in [Editors -> Requests]
      /\ Shaped(ed[e]) /\ Listed(ed[e]) /\ Reads(e)
      /\ Row("skill") \in SkillPacks \union {Unknown}
  BY RowTyped DEF RefreshSkills, Step, RowsKept, MirrorKept, IInv, Typed
<1>2. ed[e].got \in Snaps
  BY <1>1 DEF Requests
<1>3. [ed[e].got EXCEPT !.skill = Row("skill")] \in Snaps
  BY <1>1, <1>2 DEF Snaps
<1>4. ed'[e] = [ed[e] EXCEPT !.pc = "publish", !.got = [ed[e].got EXCEPT !.skill = Row("skill")]]
  BY <1>1 DEF Requests
<1>5. /\ ed'[e] \in Requests /\ ed'[e].pc = "publish" /\ ed'[e].alone = ed[e].alone
      /\ ed'[e].got.agent = ed[e].got.agent /\ ed'[e].got.skill = Row("skill")
      /\ ed'[e].op = ed[e].op /\ ed'[e].kind = ed[e].kind /\ ed'[e].new = ed[e].new
      /\ ed'[e].version = ed[e].version /\ ed'[e].tries = ed[e].tries
  BY <1>1, <1>2, <1>3, <1>4 DEF Requests, Places, Snaps
<1>6. \A o \in Editors \ {e} : ed'[o] = ed[o]
  BY <1>1
<1>7. Typed'
  BY <1>1, <1>5, <1>6 DEF IInv, Typed
<1>8. CardsFollow'
  BY <1>1 DEF IInv, CardsFollow, CacheHit, Lookup
<1>9. Row("agent")' = Row("agent") /\ Row("skill")' = Row("skill") /\ AgentRoutingBaseline' = AgentRoutingBaseline
  BY <1>1 DEF Row, AgentRoutingBaseline
<1>10. Shaped(ed[e])' /\ Listed(ed[e])' /\ Tied(ed[e])'
  <2>1. Shaped(ed[e])'
    BY <1>1, <1>5 DEF Shaped
  <2>2. Listed(ed[e])'
    BY <1>1, <1>5 DEF Listed
  <2>3. Tied(ed[e])'
    BY <1>5 DEF Tied
  <2>4. QED BY <2>1, <2>2, <2>3
<1>11. ASSUME NEW o \in Editors \ {e}
       PROVE  Shaped(ed[o])' /\ Listed(ed[o])' /\ Tied(ed[o])'
  <2>1. ed'[o] = ed[o] /\ Shaped(ed[o]) /\ Listed(ed[o]) /\ Tied(ed[o])
    BY <1>6 DEF IInv
  <2>2. Shaped(ed[o])'
    BY <2>1 DEF Shaped
  <2>3. Listed(ed[o])'
    BY <1>1, <2>1 DEF Listed
  <2>4. Tied(ed[o])'
    BY <1>1, <1>9, <2>1 DEF Tied
  <2>5. QED BY <2>2, <2>3, <2>4
<1>12. \A o \in Editors : Refreshing(o)' <=> Refreshing(o)
  BY <1>1, <1>5, <1>6 DEF Refreshing
<1>13. Pending => Pending'
  BY <1>1, <1>6 DEF Pending
<1>14. Reads(e)'
  BY <1>1, <1>5, <1>9, <1>12, <1>13 DEF Reads
<1>15. \A o \in Editors \ {e} : Reads(o)'
  BY <1>6, <1>9, <1>12, <1>13 DEF IInv, Reads
<1>16. Mirrors'
  BY <1>5 DEF Mirrors, Refreshing
<1>17. QED BY <1>7, <1>8, <1>10, <1>11, <1>14, <1>15, <1>16 DEF IInv

LEMMA PublishStep ==
    ASSUME IInv, NEW e \in Editors, Publish(e)
    PROVE  IInv'
<1>1. /\ ed[e].pc = "publish" /\ ed[e] \in Requests /\ ed[e].got \in Snaps
      /\ ed' = [ed EXCEPT ![e] = Request]
      /\ snap' = ed[e].got
      /\ gen' = gen + 1
      /\ fresh' = ed[e].alone
      /\ UNCHANGED <<reg, active, cache, file, dirty>>
      /\ ed \in [Editors -> Requests]
      /\ Reads(e)
  BY DEF Publish, End, Step, RowsKept, IInv, Typed, Requests
<1>2. ed'[e] = Request /\ ed'[e].pc = "idle" /\ ~ed'[e].alone /\ \A o \in Editors \ {e} : ed'[o] = ed[o]
  BY <1>1 DEF Request
<1>3. Typed'
  BY <1>1, RequestTyped DEF IInv, Typed, Requests
<1>4. CardsFollow'
  BY <1>1 DEF IInv, Typed, CardsFollow, CacheHit
<1>5. Row("agent")' = Row("agent") /\ Row("skill")' = Row("skill") /\ AgentRoutingBaseline' = AgentRoutingBaseline
  BY <1>1 DEF Row, AgentRoutingBaseline
<1>6. ASSUME NEW o \in Editors
      PROVE  Shaped(ed[o])' /\ Listed(ed[o])' /\ Tied(ed[o])'
  <2>1. Shaped(ed'[o]) /\ Listed(ed'[o]) /\ Tied(ed'[o])
    BY <1>2, RequestShaped DEF IInv
  <2>2. Shaped(ed[o])'
    BY <2>1 DEF Shaped
  <2>3. Listed(ed[o])'
    BY <1>1, <2>1 DEF Listed
  <2>4. Tied(ed[o])'
    BY <1>1, <1>5, <2>1 DEF Tied
  <2>5. QED BY <2>2, <2>3, <2>4
<1>7. \A o \in Editors : Reads(o)'
  <2>1. Refreshing(e)
    BY <1>1 DEF Refreshing
  <2>2. \A o \in Editors \ {e} : ~ed[o].alone
    BY <2>1 DEF IInv, Reads
  <2>3. QED BY <1>2, <2>2 DEF Reads
<1>8. Mirrors'
  <2>1. CASE ~ed[e].alone
    BY <1>1, <2>1 DEF Mirrors
  <2>2. CASE Pending
    <3>1. Pending'
      BY <1>1, <1>2, <2>2 DEF Pending
    <3>2. QED BY <3>1 DEF Mirrors
  <2>3. CASE ed[e].got.agent = Row("agent") /\ ed[e].got.skill = Row("skill")
    <3>1. ed[e].got = [k \in Kinds |-> Row(k)]
      BY <1>1, <2>3 DEF Snaps, Kinds
    <3>2. snap' = [k \in Kinds |-> Row(k)']
      BY <1>1, <1>5, <3>1 DEF Kinds
    <3>3. QED BY <3>2 DEF Mirrors
  <2>4. QED BY <1>1, <2>1, <2>2, <2>3 DEF Reads
<1>9. QED BY <1>3, <1>4, <1>6, <1>7, <1>8 DEF IInv

LEMMA RefreshFailsStep ==
    ASSUME IInv, NEW e \in Editors, RefreshFails(e)
    PROVE  IInv'
<1>1. /\ ed' = [o \in Editors |-> IF o = e THEN Request ELSE [ed[o] EXCEPT !.alone = FALSE]]
      /\ fresh' = FALSE
      /\ UNCHANGED <<reg, active, snap, gen, cache, file, dirty>>
  BY DEF RefreshFails, RowsKept
<1>2. ed'[e] = Request /\ ~ed'[e].alone
  BY <1>1 DEF Request
<1>3. \A o \in Editors \ {e} : /\ ed'[o] \in Requests /\ ed'[o].pc = ed[o].pc /\ ~ed'[o].alone
                               /\ Shaped(ed[o])' /\ Listed(ed[o])' /\ Tied(ed[o])'
  BY <1>1, MetAnother
<1>4. Typed'
  <2>1. ed' \in [Editors -> Requests]
    BY <1>1, <1>2, <1>3, RequestTyped
  <2>2. QED BY <1>1, <2>1 DEF IInv, Typed
<1>5. CardsFollow'
  BY <1>1 DEF IInv, CardsFollow, CacheHit, Lookup
<1>6. Shaped(ed[e])' /\ Listed(ed[e])' /\ Tied(ed[e])'
  <2>1. Shaped(Request)' /\ Listed(Request)' /\ Tied(Request)'
    <3>1. Shaped(Request) /\ Listed(Request) /\ Tied(Request)
      BY RequestShaped DEF IInv
    <3>2. Request' = Request
      BY DEF Request
    <3>3. Shaped(Request)'
      BY <3>1, <3>2 DEF Shaped
    <3>4. Listed(Request)'
      BY <1>1, <3>1, <3>2 DEF Listed
    <3>5. Tied(Request)'
      BY DEF Tied, Request
    <3>6. QED BY <3>3, <3>4, <3>5
  <2>2. Shaped(ed[e])'
    BY <1>2, <2>1 DEF Shaped
  <2>3. Listed(ed[e])'
    BY <1>2, <2>1 DEF Listed
  <2>4. Tied(ed[e])'
    BY <1>2 DEF Tied, Request
  <2>5. QED BY <2>2, <2>3, <2>4
<1>7. \A o \in Editors : Reads(o)'
  BY <1>2, <1>3 DEF Reads
<1>8. Mirrors'
  BY <1>1 DEF Mirrors
<1>9. QED BY <1>3, <1>4, <1>5, <1>6, <1>7, <1>8 DEF IInv

-----------------------------------------------------------------------------
(* The catalog. *)

LEMMA StageReadsCardStep ==
    ASSUME IInv, StageReadsCard
    PROVE  IInv'
<1>1. /\ cache' = [gen |-> gen, card |-> Lookup]
      /\ UNCHANGED <<reg, active, snap, gen, file, dirty, ed, fresh>>
      /\ Lookup \in AgentCards \union {Unknown}
  BY RowTyped DEF StageReadsCard, IInv
<1>2. Typed'
  BY <1>1 DEF IInv, Typed
<1>3. CardsFollow'
  BY <1>1 DEF CardsFollow, CacheHit, Lookup
<1>4. Mirrors'
  BY <1>1 DEF IInv, Mirrors, Pending, Refreshing, Row
<1>5. ASSUME NEW o \in Editors
      PROVE  Shaped(ed[o])' /\ Listed(ed[o])' /\ Tied(ed[o])' /\ Reads(o)'
  <2>1. Shaped(ed[o]) /\ Listed(ed[o]) /\ Tied(ed[o]) /\ Reads(o)
    BY DEF IInv
  <2>2. Shaped(ed[o])' /\ Listed(ed[o])'
    BY <1>1, <2>1 DEF Shaped, Listed
  <2>3. Tied(ed[o])'
    BY <1>1, <2>1 DEF Tied, AgentRoutingBaseline, Row
  <2>4. Reads(o)'
    BY <1>1, <2>1 DEF Reads, Pending, Refreshing, Row
  <2>5. QED BY <2>2, <2>3, <2>4
<1>6. QED BY <1>2, <1>3, <1>4, <1>5 DEF IInv

\* The saved file has the routing of the one it replaces, so that a request whose checks
\* rest on the file still keeps it.
LEMMA SaveCatalogEntryStep ==
    ASSUME IInv, SaveCatalogEntry
    PROVE  IInv'
<1>1. /\ file' \in AgentCards /\ file'.route = file.route
      /\ dirty' \subseteq {"agent"}
      /\ cache' = [cache EXCEPT !.gen = -1]
      /\ UNCHANGED <<reg, active, snap, gen, ed, fresh>>
  BY DEF SaveCatalogEntry, ValidateAgentRoutingAgainst, InvalidateCard, IInv, Typed
<1>2. Typed'
  BY <1>1 DEF IInv, Typed
<1>3. CardsFollow'
  BY <1>1 DEF IInv, Typed, CardsFollow, CacheHit
<1>4. Mirrors'
  BY <1>1 DEF IInv, Mirrors, Pending, Refreshing, Row
<1>5. ASSUME NEW o \in Editors
      PROVE  Shaped(ed[o])' /\ Listed(ed[o])' /\ Tied(ed[o])' /\ Reads(o)'
  <2>1. Shaped(ed[o]) /\ Listed(ed[o]) /\ Tied(ed[o]) /\ Reads(o)
    BY DEF IInv
  <2>2. Shaped(ed[o])' /\ Listed(ed[o])'
    BY <1>1, <2>1 DEF Shaped, Listed
  <2>3. Tied(ed[o])'
    <3>1. AgentRoutingBaseline'.route = AgentRoutingBaseline.route
      BY <1>1 DEF AgentRoutingBaseline, Row
    <3>2. active["agent"] # 0 => AgentRoutingBaseline' = AgentRoutingBaseline
      BY <1>1 DEF AgentRoutingBaseline, Row
    <3>3. ed[o].op = "rollback" /\ ed[o].kind = "agent" => active["agent"] # 0
      BY <2>1 DEF Listed, IInv, Typed
    <3>4. Row("skill")' = Row("skill")
      BY <1>1 DEF Row
    <3>5. QED BY <1>1, <2>1, <3>1, <3>2, <3>3, <3>4 DEF Tied
  <2>4. Reads(o)'
    BY <1>1, <2>1 DEF Reads, Pending, Refreshing, Row
  <2>5. QED BY <2>2, <2>3, <2>4
<1>6. QED BY <1>2, <1>3, <1>4, <1>5 DEF IInv

LEMMA IdleStep ==
    ASSUME IInv, UNCHANGED vars
    PROVE  IInv'
<1>1. UNCHANGED <<reg, active, snap, gen, cache, file, dirty, ed, fresh>>
  BY DEF vars
<1>2. Typed'
  BY <1>1 DEF IInv, Typed
<1>3. CardsFollow'
  BY <1>1 DEF IInv, CardsFollow, CacheHit, Lookup
<1>4. Mirrors'
  BY <1>1 DEF IInv, Mirrors, Pending, Refreshing, Row
<1>5. ASSUME NEW o \in Editors
      PROVE  Shaped(ed[o])' /\ Listed(ed[o])' /\ Tied(ed[o])' /\ Reads(o)'
  <2>1. Shaped(ed[o]) /\ Listed(ed[o]) /\ Tied(ed[o]) /\ Reads(o)
    BY DEF IInv
  <2>2. Shaped(ed[o])' /\ Listed(ed[o])'
    BY <1>1, <2>1 DEF Shaped, Listed
  <2>3. Tied(ed[o])'
    BY <1>1, <2>1 DEF Tied, AgentRoutingBaseline, Row
  <2>4. Reads(o)'
    BY <1>1, <2>1 DEF Reads, Pending, Refreshing, Row
  <2>5. QED BY <2>2, <2>3, <2>4
<1>6. QED BY <1>2, <1>3, <1>4, <1>5 DEF IInv

-----------------------------------------------------------------------------
(* The invariant. *)

LEMMA InitHolds == Init => IInv
<1> SUFFICES ASSUME Init PROVE IInv
  OBVIOUS
<1>1. PICK h \in Histories, f \in Files :
        /\ file = f
        /\ \/ reg = h
           \/ h.agent = << >> /\ reg = [agent |-> <<f>>, skill |-> <<[text |-> f.text, attach |-> Detached]>>]
  BY DEF Init
<1>2. h \in Registry /\ f \in AgentCards
  BY RegisterAssumption DEF RegisterAssumption, Registry
<1>3. [text |-> f.text, attach |-> Detached] \in SkillPacks
  BY <1>2 DEF AgentCards, SkillPacks
<1>4. reg \in Registry
  <2>1. <<f>> \in Seq(AgentCards) /\ <<[text |-> f.text, attach |-> Detached]>> \in Seq(SkillPacks)
    BY <1>2, <1>3
  <2>2. [agent |-> <<f>>, skill |-> <<[text |-> f.text, attach |-> Detached]>>] \in Registry
    BY <2>1, Zenon DEF Registry
  <2>3. QED BY <1>1, <1>2, <2>2, Zenon
<1>5. /\ reg["agent"] \in Seq(AgentCards) /\ reg["skill"] \in Seq(SkillPacks)
      /\ Len(reg["agent"]) \in Nat /\ Len(reg["skill"]) \in Nat
      /\ active = [k \in Kinds |-> Len(reg[k])]
  BY <1>4 DEF Registry, Init
<1>6. /\ active \in [Kinds -> Nat] /\ \A k \in Kinds : active[k] \in 0..Len(reg[k])
      /\ active["agent"] = 0 => reg["agent"] = << >>
  BY <1>5 DEF Kinds
<1>7. /\ Row("agent") \in AgentCards \union {Unknown}
      /\ Row("skill") \in SkillPacks \union {Unknown}
  <2>1. active["agent"] # 0 => reg["agent"][active["agent"]] \in AgentCards
    BY <1>5, <1>6 DEF Kinds
  <2>2. active["skill"] # 0 => reg["skill"][active["skill"]] \in SkillPacks
    BY <1>5, <1>6 DEF Kinds
  <2>3. QED BY <2>1, <2>2 DEF Row
<1>8. snap \in Snaps
  BY <1>7 DEF Init, Snaps, Kinds
<1>9. Typed
  BY <1>1, <1>2, <1>4, <1>6, <1>8, RequestTyped DEF Init, Typed
<1>10. CardsFollow
  BY DEF Init, CardsFollow, CacheHit
<1>11. \A e \in Editors : ed[e] = Request /\ ~ed[e].alone
  BY DEF Init, Request
<1>12. \A e \in Editors : Shaped(ed[e]) /\ Listed(ed[e]) /\ Tied(ed[e]) /\ Reads(e)
  BY <1>9, <1>11, RequestShaped DEF Reads
<1>13. Mirrors
  BY DEF Init, Mirrors
<1>14. QED BY <1>9, <1>10, <1>12, <1>13 DEF IInv

LEMMA NextKeeps == IInv /\ [Next]_vars => IInv'
<1> SUFFICES ASSUME IInv, [Next]_vars PROVE IInv'
  OBVIOUS
<1>1. ASSUME NEW e \in Editors,
             SaveAgent(e) \/ SaveSkill(e) \/ SetSkillAttach(e) \/ SetSkillEnabledState(e) \/ Rollback(e)
      PROVE  IInv'
  BY <1>1, SaveAgentStep, SaveSkillStep, SetSkillAttachStep, SetSkillEnabledStateStep, RollbackStep
<1>2. ASSUME NEW e \in Editors, Progress(e)
      PROVE  IInv'
  BY <1>2, ReadBaselineStep, ReadActiveStep, InsertVersionStep, EnableVersionStep, DisableVersionStep,
     LoseRaceStep, RefreshAgentsStep, RefreshSkillsStep, PublishStep DEF Progress
<1>3. ASSUME NEW e \in Editors, WriteFails(e) \/ RefreshFails(e)
      PROVE  IInv'
  BY <1>3, WriteFailsStep, RefreshFailsStep
<1>4. CASE StageReadsCard \/ SaveCatalogEntry
  BY <1>4, StageReadsCardStep, SaveCatalogEntryStep
<1>5. CASE Done \/ UNCHANGED vars
  BY <1>5, IdleStep DEF Done
<1>6. QED BY <1>1, <1>2, <1>3, <1>4, <1>5 DEF Next

LEMMA Invariance == Spec => []IInv
<1>1. QED BY InitHolds, NextKeeps, PTL DEF Spec

\* The registers hold versions of their own kind with at most one of them active, the
\* snapshot, the memoised card and every request in flight are of their types.
THEOREM TypeCorrect == Spec => []TypeOK
<1>1. IInv => TypeOK
  <2> SUFFICES ASSUME IInv PROVE TypeOK
    OBVIOUS
  <2>1. /\ reg.agent \in Seq(AgentCards) /\ reg.skill \in Seq(SkillPacks)
        /\ snap.agent \in AgentCards \union {Unknown} /\ snap.skill \in SkillPacks \union {Unknown}
    BY DEF IInv, Typed, Registry, Snaps
  <2>2. \A e \in Editors : ed[e].pc \in Places /\ ed[e].tries \in 0..MaxWriteAttempts
    <3>1. TAKE e \in Editors
    <3>2. ed[e].pc \in Places /\ ed[e].tries \in Nat /\ ed[e].tries < MaxWriteAttempts
      BY DEF IInv, Typed, Requests, Shaped
    <3>3. MaxWriteAttempts \in Nat
      BY RegisterAssumption DEF RegisterAssumption
    <3>4. QED BY <3>2, <3>3
  <2>3. QED BY <2>1, <2>2 DEF IInv, Typed, TypeOK
<1>2. QED BY <1>1, Invariance, PTL

\* With no request in flight the snapshot every stage reads is the active rows, unless the
\* last refresh overlapped another one or failed (db.ts 2590): a write always leaves its
\* request on the way to a refresh, and a refresh nobody met publishes what it read.
THEOREM SnapshotIsMirror == Spec => []SnapshotMirrors
<1>1. IInv => SnapshotMirrors
  BY DEF IInv, Mirrors, Pending, Refreshing, SnapshotMirrors, AllIdle
<1>2. QED BY <1>1, Invariance, PTL

\* A memoised card is what a lookup would return now (catalog.ts 84): every refresh has a
\* generation of its own and the save of a file drops the entry.
THEOREM MemoFollows == Spec => []CardsFollow
<1>1. IInv => CardsFollow
  BY DEF IInv
<1>2. QED BY <1>1, Invariance, PTL

LEMMA WritesKeepWiring ==
    ASSUME IInv, NEW e \in Editors, Writing(e), ~ed[e].moved,
           active'[ed[e].kind] # active[ed[e].kind], ed'[e].pc = "agents", [Next]_vars
    PROVE  KeepsWiring(ed[e], Wired(ed[e].kind), Row(ed[e].kind)')
<1>1. /\ ed[e] \in Requests /\ ed[e].kind \in Kinds /\ Shaped(ed[e]) /\ Listed(ed[e]) /\ Tied(ed[e])
      /\ ed \in [Editors -> Requests]
      /\ active \in [Kinds -> Nat]
  BY DEF IInv, Typed, Requests
<1>2. PICK f \in Editors : InsertVersion(f) \/ EnableVersion(f) \/ DisableVersion(f)
  <2>1. active' # active
    OBVIOUS
  <2>2. QED
    BY <2>1 DEF Next, Progress, SaveAgent, SaveSkill, SetSkillAttach, SetSkillEnabledState, Rollback, Begin,
                ReadBaseline, ReadActive, LoseRace, WriteFails, RefreshAgents, RefreshSkills, Publish,
                RefreshFails, StageReadsCard, SaveCatalogEntry, Done, RowsKept, vars
<1>3. /\ ed' = Landed(f, ed[f].kind)
      /\ ed[f] \in Requests
  BY <1>1, <1>2 DEF InsertVersion, EnableVersion, DisableVersion
<1>4. f = e
  <2>1. SUFFICES ASSUME f # e PROVE FALSE
    OBVIOUS
  <2>2. ed'[e].pc = ed[e].pc
    BY <1>1, <1>3, <2>1 DEF Landed, Requests
  <2>3. QED BY <2>2 DEF Writing
<1>5. ed'[e].kind = ed[e].kind
  BY <1>3, <1>4 DEF Landed, Requests
<1> DEFINE k == ed[e].kind
<1>6. CASE InsertVersion(e)
  <2>1. /\ ed[e].pc = "insert" /\ ed[e].op \in {"save", "attach"}
        /\ k = "agent" => Row("agent")' = ed[e].new
        /\ k = "skill" => Row("skill")' = ed[e].new
    BY <1>1, <1>6, InsertVersionStep DEF InsertVersion, Shaped
  <2>2. CASE k = "agent"
    BY <1>1, <1>5, <2>1, <2>2 DEF Tied, Shaped, KeepsWiring, Wired
  <2>3. CASE k = "skill"
    BY <1>1, <1>5, <2>1, <2>3 DEF Tied, Shaped, KeepsWiring, Wired
  <2>4. QED BY <1>1, <2>2, <2>3 DEF Kinds
<1>7. CASE EnableVersion(e)
  <2>1. /\ ed[e].pc = "enable" /\ ed[e].op \in {"on", "rollback"}
        /\ active'[k] = ed[e].version /\ reg' = reg
    BY <1>1, <1>7 DEF EnableVersion, Shaped
  <2>2. CASE ed[e].op = "rollback" /\ k = "agent"
    <3>1. ed[e].version # 0
      BY <1>1, <2>2 DEF Listed
    <3>2. Row("agent")' = reg["agent"][ed[e].version]
      BY <2>1, <2>2, <3>1 DEF Row
    <3>3. QED BY <1>1, <1>5, <2>1, <2>2, <3>2 DEF Tied, KeepsWiring, Wired
  <2>3. CASE ed[e].op = "on" \/ k # "agent"
    BY <2>1, <2>3 DEF KeepsWiring
  <2>4. QED BY <2>1, <2>2, <2>3
<1>8. CASE DisableVersion(e)
  <2>1. active'[k] = 0 /\ ed[e].op = "off"
    BY <1>1, <1>8 DEF DisableVersion, Shaped
  <2>2. Row(ed[e].kind)' = Unknown
    BY <1>5, <2>1 DEF Row
  <2>3. QED BY <2>1, <2>2 DEF KeepsWiring
<1>9. QED BY <1>2, <1>4, <1>6, <1>7, <1>8

\* A content edit never detaches a skill and an attach edit never reverts its text, no
\* dashboard write moves the routing of an agent card and no rollback its tools, and a
\* switch-off leaves no version active -- for every write whose register no other write
\* reached since its decision was made (register-io.ts 111, register-manager.ts 271).
THEOREM WiringIsKept == Spec => WiringKept
<1>1. IInv /\ [Next]_vars =>
        [\A e \in Editors :
           (Writing(e) /\ ~ed[e].moved /\ active'[ed[e].kind] /= active[ed[e].kind] /\ ed'[e].pc = "agents")
             => KeepsWiring(ed[e], Wired(ed[e].kind), Row(ed[e].kind)')]_vars
  BY WritesKeepWiring
<1>2. QED BY <1>1, Invariance, PTL DEF Spec, WiringKept
=============================================================================
