------------------------- MODULE ApprovalsInbox_proofs -------------------------
(***************************************************************************)
(* The safety properties of ApprovalsInbox for any number of concurrent    *)
(* requests, runs, directives, failed calls, humans and crashes.           *)
(*                                                                         *)
(* First what each kind of step does to the tables (rows are only ever     *)
(* added, and never change what they point to), then one lemma per part of *)
(* the invariant.                                                          *)
(***************************************************************************)
EXTENDS ApprovalsInbox, SequenceTheorems, TLAPS

\* The rows of the two tables and of GitHub, every reference to a row that is there.
Rows ==
    /\ cards \in Seq([status : Status, pr : Prs, sha : 0 .. commits])
    /\ prs \in Seq([state : {"open", "merged", "closed"}, head : 0 .. commits,
                    for : {0} \cup Cards])
    /\ commits \in Nat
Words == about \in Seq(Cards) /\ directive \in 0 .. Len(about) /\ spent \in 0 .. Len(about)

RunType ==
    /\ run \in [at : {"none", "begun", "took", "delivered", "again", "insert", "close", "settle"},
                held : 0 .. Len(about), pr : {0} \cup Prs, sha : 0 .. commits,
                tries : 0 .. InsertAttempts]
    /\ run.at \in {"delivered", "again", "insert"} => run.tries < InsertAttempts /\ run.pr \in Prs
    /\ run.at = "took" => run.pr = 0
    /\ run.at \in {"none", "begun"} => run.held = 0 /\ run.pr = 0 /\ run.tries = 0
    /\ run.at = "took" => run.tries = 0
ReqType ==
    /\ req \in [Owner -> [at : {"idle", "decide", "comment", "record", "requeue", "finalize",
                                "closeout"},
                          card : {0} \cup Cards, to : Status]]
    /\ \A o \in Owner : AtWork(o) => req[o].card \in Cards
    /\ \A o \in Owner : req[o].at = "closeout" => req[o].to = "approved"
RecType ==
    /\ rec \in [at : {"idle", "look", "write"}, card : {0} \cup Cards, to : Status]
    /\ rec.at # "idle" => rec.card \in Cards
    /\ rec.at = "write" => rec.to \in {"approved", "stale"}
World ==
    /\ lane \in {"queue", "working", "rest"}
    /\ runs \in 0 .. MaxRuns /\ faults \in 0 .. MaxFaults /\ byHand \in 0 .. MaxByHand
    /\ crashes \in 0 .. MaxCrashes
Costs == burned \subseteq 1 .. Len(about) /\ stranded \subseteq Cards
Typing == Rows /\ Words /\ RunType /\ ReqType /\ RecType /\ World /\ Costs

\* A card that is being decided is not pending, and no two requests decide it.
Claims ==
    /\ \A o \in Owner : AtWork(o) => cards[req[o].card].status # "pending"
    /\ DecidedOnce

\* Where the owner's last word is.
Heard ==
    /\ LastWordKept
    /\ run.held # 0 /\ run.pr = 0 => Latest \in {run.held, directive}
    /\ run.held # 0 /\ run.pr # 0 => run.held = spent

\* What was merged for a card, and what is about to be written to that card.
Closed(c) == prs[cards[c].pr].state = "closed"
Merged(c) == prs[cards[c].pr].state = "merged"
MergeFacts ==
    /\ \A p \in Prs : prs[p].for # 0 => prs[p].state = "merged" /\ cards[prs[p].for].pr = p
    /\ rec.at = "write" /\ rec.to = "stale" => Closed(rec.card)
    /\ \A o \in Owner : req[o].at = "decide" =>
         cards[req[o].card].status = "approved" \/ Closed(req[o].card)
    /\ MergedStaysApproved
    /\ faults = 0 => \A o \in Owner : AtWork(o) /\ prs[cards[req[o].card].pr].for = req[o].card =>
         req[o].to = "approved" /\ req[o].at \in {"finalize", "closeout"}

\* A SHA is of one card, and the card that a run is about to file has one of its own.
Shas ==
    /\ \A c, d \in Cards : c # d /\ cards[c].sha = cards[d].sha => cards[c].sha = 0
    /\ run.at \in {"delivered", "again", "insert"} /\ run.sha # 0 =>
         \A c \in Cards : cards[c].sha # run.sha

\* Only a human closes a pull request, one at a time; what is about to be written as
\* approved is merged.
Outcomes ==
    /\ \A p \in Prs : prs[p].state = "closed" => byHand > 0
    /\ \A p, q \in Prs : p # q /\ prs[p].state = "closed" /\ prs[q].state = "closed" => byHand > 1
    /\ rec.at = "write" /\ rec.to = "approved" => Merged(rec.card)
    /\ \A o \in Owner : req[o].at \in {"finalize", "closeout"} /\ req[o].to = "approved" =>
         Merged(req[o].card)

\* Cards that were, or are about to be, given back by their request: for a failed call, or
\* because their pull request is closed.  Of those there is one, as long as at most one
\* thing went wrong, so the one that the index refuses is not the newest.
Sound == faults + byHand <= 1
GivesBack(o) == req[o].at = "finalize" /\ req[o].to = "pending"
Returned(c) ==
    \/ c \in Pending /\ c # Len(cards)
    \/ \E o \in Owner : GivesBack(o) /\ req[o].card = c
Excused(c) == cards[c].sha # 0 /\ Closed(c) /\ prs[cards[c].pr].head = cards[c].sha
Returns ==
    Sound =>
        /\ \A c \in Cards : Returned(c) => faults > 0 \/ Excused(c)
        /\ \A c, d \in Cards : Returned(c) /\ Returned(d) => c = d

IInv == Typing /\ Claims /\ Heard /\ MergeFacts /\ Shas /\ Outcomes /\ Returns /\ ApprovedIsMerged

-----------------------------------------------------------------------------
\* Rows as functions from their numbers.
CardRow == [status : Status, pr : Prs, sha : 0 .. commits]
PrRow == [state : {"open", "merged", "closed"}, head : 0 .. commits, for : {0} \cup Cards]

\* Both tables as functions from their row numbers.
LEMMA RowFacts ==
    ASSUME Rows
    PROVE  /\ Len(cards) \in Nat /\ Cards = 1 .. Len(cards)
           /\ cards \in [1 .. Len(cards) -> CardRow]
           /\ Len(prs) \in Nat /\ Prs = 1 .. Len(prs) /\ prs \in [1 .. Len(prs) -> PrRow]
           /\ commits \in Nat
<1>1. cards \in Seq(CardRow) /\ prs \in Seq(PrRow) /\ commits \in Nat
  BY DEF Rows, CardRow, PrRow
<1>2. Len(cards) \in Nat /\ DOMAIN cards = 1 .. Len(cards) /\ cards \in [1 .. Len(cards) -> CardRow]
  BY <1>1, LenProperties
<1>3. Len(prs) \in Nat /\ DOMAIN prs = 1 .. Len(prs) /\ prs \in [1 .. Len(prs) -> PrRow]
  BY <1>1, LenProperties
<1> QED
  BY <1>1, <1>2, <1>3 DEF Cards, Prs

\* A sequence with the same numbers and rows of a type.
LEMMA Rebuilt ==
    ASSUME NEW S, NEW n \in Nat, NEW f, f \in [1 .. n -> S]
    PROVE  f \in Seq(S) /\ Len(f) = n
<1>1. f \in Seq(S)
  BY SeqDef
<1>2. DOMAIN f = 1 .. n /\ DOMAIN f = 1 .. Len(f) /\ Len(f) \in Nat
  BY <1>1, LenProperties
<1> QED
  BY <1>1, <1>2

\* One status is written: no row appears, moves or changes its pull request.
LEMMA StatusSet ==
    ASSUME Rows, NEW c \in Cards, NEW s \in Status, SetStatus(c, s)
    PROVE  /\ cards' \in Seq(CardRow) /\ Len(cards') = Len(cards) /\ Cards' = Cards
           /\ cards'[c].status = s
           /\ \A d \in Cards : d # c => cards'[d] = cards[d]
           /\ \A d \in Cards : cards'[d].pr = cards[d].pr /\ cards'[d].sha = cards[d].sha
<1>1. cards \in [1 .. Len(cards) -> CardRow] /\ Len(cards) \in Nat /\ Cards = 1 .. Len(cards)
  BY RowFacts
<1>2. cards' = [cards EXCEPT ![c] = [cards[c] EXCEPT !.status = s]]
  BY <1>1 DEF SetStatus
<1>3. [cards[c] EXCEPT !.status = s] \in CardRow
  BY <1>1 DEF CardRow
<1>4. cards' \in [1 .. Len(cards) -> CardRow]
  BY <1>1, <1>2, <1>3
<1>5. cards' \in Seq(CardRow) /\ Len(cards') = Len(cards)
  BY <1>1, <1>4, Rebuilt
<1>6. Cards' = Cards
  BY <1>1, <1>4 DEF Cards
<1>7. cards'[c] = [cards[c] EXCEPT !.status = s] /\ \A d \in Cards : d # c => cards'[d] = cards[d]
  BY <1>1, <1>2
<1>8. cards[c] \in CardRow
  BY <1>1
<1>9. cards'[c].status = s /\ cards'[c].pr = cards[c].pr /\ cards'[c].sha = cards[c].sha
  BY <1>7, <1>8 DEF CardRow
<1> QED
  BY <1>5, <1>6, <1>7, <1>9

\* The run closes the pending cards before it files its own.
LEMMA Superseded ==
    ASSUME Rows,
           cards' = [c \in DOMAIN cards |->
               IF c \in Pending THEN [cards[c] EXCEPT !.status = "stale"] ELSE cards[c]]
    PROVE  /\ cards' \in Seq(CardRow) /\ Len(cards') = Len(cards) /\ Cards' = Cards
           /\ \A c \in Cards :
                /\ cards'[c].pr = cards[c].pr /\ cards'[c].sha = cards[c].sha
                /\ c \in Pending => cards'[c].status = "stale"
                /\ c \notin Pending => cards'[c] = cards[c]
<1>1. cards \in [1 .. Len(cards) -> CardRow] /\ Len(cards) \in Nat /\ Cards = 1 .. Len(cards)
  BY RowFacts
<1>2. \A c \in Cards : cards'[c] = IF c \in Pending THEN [cards[c] EXCEPT !.status = "stale"]
                                   ELSE cards[c]
  BY DEF Cards
<1>3. \A c \in Cards : [cards[c] EXCEPT !.status = "stale"] \in CardRow
  BY <1>1 DEF CardRow, Status
<1>4. DOMAIN cards' = 1 .. Len(cards) /\ cards' \in [1 .. Len(cards) -> CardRow]
  <2>1. DOMAIN cards = 1 .. Len(cards)
    BY <1>1 DEF Cards
  <2>2. \A c \in 1 .. Len(cards) : cards'[c] \in CardRow
    BY <1>1, <1>2, <1>3
  <2> QED
    BY <2>1, <2>2
<1>5. cards' \in Seq(CardRow) /\ Len(cards') = Len(cards)
  BY <1>1, <1>4, Rebuilt
<1>6. Cards' = Cards
  BY <1>1, <1>4 DEF Cards
<1>7. \A c \in Cards : /\ cards'[c].pr = cards[c].pr /\ cards'[c].sha = cards[c].sha
                       /\ c \in Pending => cards'[c].status = "stale"
                       /\ c \notin Pending => cards'[c] = cards[c]
  <2> SUFFICES ASSUME NEW c \in Cards
               PROVE  /\ cards'[c].pr = cards[c].pr /\ cards'[c].sha = cards[c].sha
                      /\ c \in Pending => cards'[c].status = "stale"
                      /\ c \notin Pending => cards'[c] = cards[c]
    OBVIOUS
  <2>1. cards[c] \in CardRow
    BY <1>1
  <2>2. CASE c \in Pending
    <3>1. cards'[c] = [cards[c] EXCEPT !.status = "stale"]
      BY <1>2, <2>2
    <3> QED
      BY <2>1, <2>2, <3>1 DEF CardRow
  <2>3. CASE c \notin Pending
    <3>1. cards'[c] = cards[c]
      BY <1>2, <2>3
    <3> QED
      BY <2>3, <3>1
  <2> QED
    BY <2>2, <2>3
<1> QED
  BY <1>5, <1>6, <1>7

\* A card is filed behind the others.
LEMMA Filed ==
    ASSUME Rows, NEW r \in CardRow, r.status = "pending", cards' = Append(cards, r)
    PROVE  /\ cards' \in Seq(CardRow) /\ Len(cards') = Len(cards) + 1 /\ Cards \subseteq Cards'
           /\ \A c \in Cards : cards'[c] = cards[c]
           /\ \A c \in Cards' : c \notin Cards => c = Len(cards) + 1 /\ cards'[c] = r
<1>1. cards \in Seq(CardRow) /\ Len(cards) \in Nat /\ Cards = 1 .. Len(cards)
  BY RowFacts DEF Rows, CardRow
<1>2. cards' \in Seq(CardRow) /\ Len(cards') = Len(cards) + 1 /\ cards'[Len(cards) + 1] = r
      /\ \A c \in 1 .. Len(cards) : cards'[c] = cards[c]
  BY <1>1, AppendProperties
<1>3. Cards' = 1 .. Len(cards) + 1
  BY <1>2, LenProperties DEF Cards
<1> QED
  BY <1>1, <1>2, <1>3

\* One pull request's row changes.
LEMMA PrSet ==
    ASSUME Rows, NEW p \in Prs, NEW r \in PrRow
    PROVE  LET ps == [prs EXCEPT ![p] = r] IN
           /\ ps \in Seq(PrRow) /\ DOMAIN ps = Prs
           /\ ps[p] = r /\ \A q \in Prs : q # p => ps[q] = prs[q]
<1> DEFINE ps == [prs EXCEPT ![p] = r]
<1>1. prs \in Seq(PrRow) /\ Len(prs) \in Nat /\ Prs = 1 .. Len(prs)
  BY RowFacts DEF Rows, PrRow
<1>2. ps \in Seq(PrRow) /\ Len(ps) = Len(prs)
      /\ \A q \in 1 .. Len(prs) : ps[q] = IF q = p THEN r ELSE prs[q]
  BY <1>1, ExceptSeq
<1>3. DOMAIN ps = 1 .. Len(prs)
  BY <1>2, LenProperties
<1> HIDE DEF ps
<1>4. ps[p] = r /\ \A q \in Prs : q # p => ps[q] = prs[q]
  BY <1>1, <1>2
<1>5. ps \in Seq(PrRow) /\ DOMAIN ps = Prs
  BY <1>1, <1>2, <1>3
<1> QED
  BY <1>4, <1>5 DEF ps

\* A push moves the head of the open pull request or opens the next one.
LEMMA Pushed ==
    ASSUME Rows, NEW ps, ps = PushOf(commits + 1)
    PROVE  /\ ps \in Seq([state : {"open", "merged", "closed"}, head : 0 .. commits + 1,
                          for : {0} \cup Cards])
           /\ Len(ps) \in Nat /\ Len(prs) <= Len(ps) /\ 0 < Len(ps)
           /\ DOMAIN ps = 1 .. Len(ps) /\ Prs \subseteq DOMAIN ps
           /\ \A p \in Prs : ps[p].state = prs[p].state /\ ps[p].for = prs[p].for
           /\ \A p \in Prs : prs[p].state # "open" => ps[p] = prs[p]
           /\ \A p \in DOMAIN ps : p \notin Prs => ps[p].for = 0 /\ ps[p].state = "open"
<1> DEFINE T == [state : {"open", "merged", "closed"}, head : 0 .. commits + 1,
                 for : {0} \cup Cards]
<1>1. prs \in Seq(PrRow) /\ Len(prs) \in Nat /\ Prs = 1 .. Len(prs) /\ commits \in Nat
      /\ prs \in [1 .. Len(prs) -> PrRow]
  BY RowFacts DEF Rows, PrRow
<1>2. PrRow \subseteq T
  BY <1>1 DEF PrRow
<1>3. prs \in Seq(T)
  BY <1>1, <1>2, SeqMonotonic
<1>4. CASE prs # <<>> /\ prs[Len(prs)].state = "open"
  <2> DEFINE n == Len(prs)
             r == [prs[n] EXCEPT !.head = commits + 1]
  <2>1. n \in 1 .. n /\ n > 0
    BY <1>1, <1>4, EmptySeq
  <2>2. ps = [prs EXCEPT ![n] = r]
    BY <1>4 DEF PushOf
  <2>3. prs[n] \in PrRow
    BY <1>1, <2>1
  <2>4. r \in T /\ r.state = prs[n].state /\ r.for = prs[n].for
    BY <1>1, <2>3 DEF PrRow
  <2> HIDE DEF r, T
  <2>5. ps \in Seq(T) /\ Len(ps) = n /\ \A p \in 1 .. n : ps[p] = IF p = n THEN r ELSE prs[p]
    BY <1>3, <2>1, <2>2, <2>4, ExceptSeq
  <2>6. DOMAIN ps = 1 .. n
    BY <2>5, LenProperties
  <2>7. \A p \in Prs : ps[p].state = prs[p].state /\ ps[p].for = prs[p].for
    <3> SUFFICES ASSUME NEW p \in Prs
                 PROVE  ps[p].state = prs[p].state /\ ps[p].for = prs[p].for
      OBVIOUS
    <3>1. CASE p = n
      BY <1>1, <2>4, <2>5, <3>1
    <3>2. CASE p # n
      BY <1>1, <2>5, <3>2
    <3> QED
      BY <3>1, <3>2
  <2>8. Len(ps) \in Nat /\ Len(prs) <= Len(ps) /\ 0 < Len(ps) /\ DOMAIN ps = 1 .. Len(ps)
        /\ Prs = DOMAIN ps
    <3>1. Len(ps) = Len(prs)
      BY <2>5
    <3>2. Len(prs) \in Nat /\ 0 < Len(prs) /\ Prs = 1 .. Len(prs)
      BY <1>1, <2>1
    <3>3. DOMAIN ps = 1 .. Len(prs)
      BY <2>6
    <3> QED
      BY <3>1, <3>2, <3>3
  <2>9. ps \in Seq(T) /\ \A p \in Prs : prs[p].state # "open" => ps[p] = prs[p]
    BY <1>1, <1>4, <2>5
  <2> QED
    BY <2>7, <2>8, <2>9 DEF T
<1>5. CASE ~(prs # <<>> /\ prs[Len(prs)].state = "open")
  <2> DEFINE r == [state |-> "open", head |-> commits + 1, for |-> 0]
  <2>1. ps = Append(prs, r)
    BY <1>5 DEF PushOf
  <2>2. r \in T /\ r.for = 0 /\ r.state = "open"
    BY <1>1
  <2> HIDE DEF r, T
  <2>3. ps \in Seq(T) /\ Len(ps) = Len(prs) + 1 /\ ps[Len(prs) + 1] = r
        /\ \A p \in 1 .. Len(prs) : ps[p] = prs[p]
    BY <1>3, <2>1, <2>2, AppendProperties
  <2>4. DOMAIN ps = 1 .. Len(prs) + 1
    BY <2>3, LenProperties
  <2> QED
    BY <1>1, <2>2, <2>3, <2>4 DEF T
<1> QED
  BY <1>4, <1>5

\* The state of one pull request is written: its card stays.
LEMMA StateSet ==
    ASSUME Rows, NEW p \in Prs, NEW s \in {"open", "merged", "closed"}, NEW ps,
           ps = [prs EXCEPT ![p].state = s]
    PROVE  /\ ps \in Seq(PrRow) /\ DOMAIN ps = Prs
           /\ ps[p].state = s /\ ps[p].for = prs[p].for
           /\ \A q \in Prs : q # p => ps[q] = prs[q]
<1> DEFINE r == [prs[p] EXCEPT !.state = s]
<1>1. prs[p] \in PrRow
  BY RowFacts
<1>2. r \in PrRow /\ r.state = s /\ r.for = prs[p].for
  BY <1>1 DEF PrRow
<1>3. ps = [prs EXCEPT ![p] = r]
  OBVIOUS
<1> HIDE DEF r
<1>4. /\ ps \in Seq(PrRow) /\ DOMAIN ps = Prs
      /\ ps[p] = r /\ \A q \in Prs : q # p => ps[q] = prs[q]
  BY <1>2, <1>3, PrSet
<1> QED
  BY <1>2, <1>4

\* A merge from the inbox, with the card it is made for.
LEMMA MergedFor ==
    ASSUME Rows, NEW p \in Prs, NEW c \in Cards
    PROVE  LET ps == [prs EXCEPT ![p].state = "merged", ![p].for = IF @ = 0 THEN c ELSE @] IN
           /\ ps \in Seq(PrRow) /\ DOMAIN ps = Prs
           /\ ps[p].state = "merged"
           /\ prs[p].for = 0 => ps[p].for = c
           /\ prs[p].for # 0 => ps[p].for = prs[p].for
           /\ \A q \in Prs : q # p => ps[q] = prs[q]
<1> DEFINE ps == [prs EXCEPT ![p].state = "merged", ![p].for = IF @ = 0 THEN c ELSE @]
           f == IF prs[p].for = 0 THEN c ELSE prs[p].for
           r == [prs[p] EXCEPT !.state = "merged", !.for = f]
<1>1. prs[p] \in PrRow /\ Prs = DOMAIN prs
  BY RowFacts DEF Prs
<1>2. f \in {0} \cup Cards
  BY <1>1 DEF PrRow
<1>3. r \in PrRow
  BY <1>1, <1>2 DEF PrRow
<1>4. ps = [prs EXCEPT ![p] = r]
  BY <1>1
<1>5. r.state = "merged" /\ (prs[p].for = 0 => r.for = c) /\ (prs[p].for # 0 => r.for = prs[p].for)
  BY <1>1 DEF PrRow
<1> HIDE DEF r, f, ps
<1>6. /\ ps \in Seq(PrRow) /\ DOMAIN ps = Prs
      /\ ps[p] = r /\ \A q \in Prs : q # p => ps[q] = prs[q]
  <2> DEFINE qs == [prs EXCEPT ![p] = r]
  <2>1. /\ qs \in Seq(PrRow) /\ DOMAIN qs = Prs
        /\ qs[p] = r /\ \A q \in Prs : q # p => qs[q] = prs[q]
    BY <1>3, PrSet
  <2>2. ps = qs
    BY <1>4
  <2> HIDE DEF qs
  <2> QED
    BY <2>1, <2>2
<1> QED
  BY <1>5, <1>6 DEF ps

\* What one step does to the tables: rows stay, and with them what points to them.
Grown ==
    /\ Cards \subseteq Cards' /\ Prs \subseteq Prs' /\ commits' \in Nat /\ commits <= commits'
    /\ \A c \in Cards : cards'[c].pr = cards[c].pr /\ cards'[c].sha = cards[c].sha

\* A step that rewrites cards keeps the rows, if it keeps what they point to.
LEMMA CardsGrow ==
    ASSUME Rows, cards' \in Seq(CardRow), Cards \subseteq Cards', UNCHANGED github,
           \A c \in Cards : cards'[c].pr = cards[c].pr /\ cards'[c].sha = cards[c].sha
    PROVE  Rows' /\ Grown
<1>1. prs \in Seq(PrRow) /\ commits \in Nat
  BY RowFacts DEF Rows, PrRow
<1>2. PrRow \subseteq PrRow'
  BY DEF PrRow, github
<1>3. prs \in Seq(PrRow')
  BY <1>1, <1>2, SeqMonotonic
<1>4. CardRow' = CardRow
  BY DEF CardRow, Status, Prs, github
<1>5. prs' \in Seq(PrRow') /\ cards' \in Seq(CardRow') /\ commits' = commits /\ prs' = prs
  BY <1>3, <1>4 DEF github
<1>6. Rows'
  BY <1>1, <1>5 DEF Rows, CardRow, PrRow
<1> QED
  BY <1>1, <1>5, <1>6 DEF Grown, Prs

\* A step on GitHub keeps the rows, if commits and pull requests only grow.
LEMMA PrsGrow ==
    ASSUME Rows, UNCHANGED cards, commits' \in Nat, commits <= commits', Prs \subseteq Prs',
           prs' \in Seq([state : {"open", "merged", "closed"}, head : 0 .. commits',
                         for : {0} \cup Cards])
    PROVE  Rows' /\ Grown
<1>1. cards \in Seq(CardRow) /\ commits \in Nat
  BY RowFacts DEF Rows, CardRow
<1>2. CardRow \subseteq CardRow'
  <2>1. 0 .. commits \subseteq 0 .. commits'
    BY <1>1
  <2> QED
    BY <2>1 DEF CardRow, Status
<1>3. cards \in Seq(CardRow')
  BY <1>1, <1>2, SeqMonotonic
<1>4. Cards' = Cards /\ cards' \in Seq(CardRow')
  BY <1>3 DEF Cards
<1>5. Rows'
  BY <1>4 DEF Rows, CardRow, PrRow
<1> QED
  BY <1>4, <1>5 DEF Grown

\* The case of one status.
LEMMA WriteOne ==
    ASSUME Rows, NEW c \in Cards, NEW s \in Status, SetStatus(c, s), UNCHANGED github
    PROVE  Rows' /\ Grown
BY StatusSet, CardsGrow

\* The rows a request or the pass works on are there.
LEMMA AtRows ==
    ASSUME Typing
    PROVE  /\ \A o \in Owner : AtWork(o) => req[o].card \in Cards /\ req[o].to \in Status
           /\ rec.at # "idle" => rec.card \in Cards
           /\ rec.at = "write" => rec.to \in {"approved", "stale"}
           /\ run.at \in {"delivered", "again", "insert"} => run.pr \in Prs
           /\ \A c \in Cards : cards[c].pr \in Prs
<1>1. \A c \in Cards : cards[c].pr \in Prs
  BY RowFacts DEF Typing, CardRow
<1>2. \A o \in Owner : AtWork(o) => req[o].card \in Cards /\ req[o].to \in Status
  BY DEF Typing, ReqType
<1> QED
  BY <1>1, <1>2 DEF Typing, RecType, RunType

\* Every step keeps the rows and what they point to.
LEMMA RowsStep ==
    ASSUME Typing, [Next]_vars
    PROVE  Rows' /\ Grown
<1>1. Rows /\ commits \in Nat
  BY RowFacts DEF Typing
<1>2. CASE UNCHANGED <<cards, github>>
  <2>1. Rows'
    BY <1>1, <1>2 DEF Rows, Cards, Prs, github
  <2> QED
    BY <1>1, <1>2, <2>1 DEF Grown, Cards, Prs, github
<1>3. CASE RunDelivers
  <2> DEFINE ps == PushOf(commits + 1)
  <2>1. /\ ps \in Seq([state : {"open", "merged", "closed"}, head : 0 .. commits + 1,
                       for : {0} \cup Cards])
        /\ Prs \subseteq DOMAIN ps
    BY <1>1, Pushed
  <2>2. /\ prs \in Seq([state : {"open", "merged", "closed"}, head : 0 .. commits + 1,
                        for : {0} \cup Cards])
    <3>1. PrRow \subseteq [state : {"open", "merged", "closed"}, head : 0 .. commits + 1,
                           for : {0} \cup Cards]
      BY <1>1 DEF PrRow
    <3>2. prs \in Seq(PrRow)
      BY <1>1 DEF Rows, PrRow
    <3> QED
      BY <3>1, <3>2, SeqMonotonic
  <2>3. prs' \in {prs, ps} /\ commits' = commits + 1 /\ UNCHANGED cards
    BY <1>3 DEF RunDelivers
  <2> HIDE DEF ps
  <2>4. Prs \subseteq Prs'
    BY <2>1, <2>3 DEF Prs
  <2> QED
    BY <1>1, <2>1, <2>2, <2>3, <2>4, PrsGrow
<1>4. CASE RunMerges
  <2>1. run.pr \in Prs /\ prs' = [prs EXCEPT ![run.pr].state = "merged"]
        /\ UNCHANGED <<cards, commits>>
    BY <1>4, AtRows DEF RunMerges
  <2>2. prs' \in Seq(PrRow) /\ DOMAIN prs' = Prs
    BY <1>1, <2>1, StateSet
  <2> QED
    BY <1>1, <2>1, <2>2, PrsGrow DEF PrRow, Prs
<1>5. CASE RunSupersedes
  <2>1. CASE UNCHANGED cards
    BY <1>2, <1>5, <2>1 DEF RunSupersedes, Supersede
  <2>2. CASE cards' = [c \in DOMAIN cards |->
               IF c \in Pending THEN [cards[c] EXCEPT !.status = "stale"] ELSE cards[c]]
    <3>1. /\ cards' \in Seq(CardRow) /\ Cards' = Cards
          /\ \A c \in Cards : cards'[c].pr = cards[c].pr /\ cards'[c].sha = cards[c].sha
      BY <1>1, <2>2, Superseded
    <3> QED
      BY <1>1, <1>5, <3>1, CardsGrow DEF RunSupersedes, Supersede
  <2> QED
    BY <1>5, <2>1, <2>2 DEF RunSupersedes, Supersede
<1>6. CASE RunInserts
  <2>1. CASE UNCHANGED cards
    BY <1>2, <1>6, <2>1 DEF RunInserts, File
  <2>2. CASE cards' = Append(cards, [status |-> "pending", pr |-> run.pr, sha |-> run.sha])
    <3> DEFINE r == [status |-> "pending", pr |-> run.pr, sha |-> run.sha]
    <3>1. run.pr \in Prs /\ run.sha \in 0 .. commits
      BY <1>6, AtRows DEF RunInserts, Typing, RunType
    <3>2. r \in CardRow /\ r.status = "pending"
      BY <3>1 DEF CardRow, Status
    <3>3. cards' = Append(cards, r)
      BY <2>2
    <3> HIDE DEF r
    <3>4. cards' \in Seq(CardRow) /\ Cards \subseteq Cards' /\ \A c \in Cards : cards'[c] = cards[c]
      BY <1>1, <3>2, <3>3, Filed
    <3> QED
      BY <1>1, <1>6, <3>4, CardsGrow DEF RunInserts, File
  <2> QED
    BY <1>6, <2>1, <2>2 DEF RunInserts, File
<1>7. CASE Write
  <2>1. rec.card \in Cards /\ rec.to \in Status /\ UNCHANGED github
    BY <1>7, AtRows DEF Write, Status
  <2>2. SetStatus(rec.card, rec.to) \/ UNCHANGED cards
    BY <1>7 DEF Write
  <2> QED
    BY <1>1, <1>2, <2>1, <2>2, WriteOne
<1>8. ASSUME NEW o \in Owner, NEW c \in DOMAIN cards, Approve(o, c) \/ Pushback(o, c)
      PROVE  Rows' /\ Grown
  BY <1>1, <1>8, WriteOne DEF Approve, Pushback, Claim, Status, Cards
<1>9. ASSUME NEW o \in Owner, Finalize(o)
      PROVE  Rows' /\ Grown
  <2>1. req[o].card \in Cards /\ req[o].to \in Status /\ UNCHANGED github
    BY <1>9, AtRows DEF Finalize, AtWork
  <2>2. SetStatus(req[o].card, req[o].to) \/ UNCHANGED cards
    BY <1>9 DEF Finalize
  <2> QED
    BY <1>1, <1>2, <2>1, <2>2, WriteOne
<1>10. ASSUME NEW o \in Owner, Decide(o)
       PROVE  Rows' /\ Grown
  <2> DEFINE c == req[o].card
             p == cards[c].pr
             ps == [prs EXCEPT ![p].state = "merged", ![p].for = IF @ = 0 THEN c ELSE @]
  <2>1. c \in Cards /\ p \in Prs
    BY <1>10, AtRows DEF Decide, AtWork
  <2>2. prs' \in {prs, ps} /\ UNCHANGED <<cards, commits>>
    BY <1>10 DEF Decide
  <2>3. ps \in Seq(PrRow) /\ DOMAIN ps = Prs
    <3> HIDE DEF c, p
    <3> QED
      BY <1>1, <2>1, MergedFor
  <2> HIDE DEF ps
  <2>4. prs' \in Seq(PrRow) /\ Prs' = Prs
    BY <1>1, <2>2, <2>3 DEF Prs, Rows, PrRow
  <2> QED
    BY <1>1, <2>2, <2>4, PrsGrow DEF PrRow
<1>11. CASE TouchesPr
  <2> DEFINE ps == PushOf(commits + 1)
  <2>1. CASE prs' = ps /\ commits' = commits + 1
    <3>1. /\ ps \in Seq([state : {"open", "merged", "closed"}, head : 0 .. commits + 1,
                         for : {0} \cup Cards])
          /\ Prs \subseteq DOMAIN ps
      BY <1>1, Pushed
    <3> HIDE DEF ps
    <3>2. Prs \subseteq Prs' /\ UNCHANGED cards
      BY <1>11, <2>1, <3>1 DEF Prs, TouchesPr
    <3> QED
      BY <1>1, <2>1, <3>1, <3>2, PrsGrow
  <2>2. CASE \E s \in {"merged", "closed"} :
               prs' = [prs EXCEPT ![Len(prs)].state = s] /\ UNCHANGED commits
    <3>1. PICK s \in {"merged", "closed"} : prs' = [prs EXCEPT ![Len(prs)].state = s]
      BY <2>2
    <3>2. Len(prs) \in Prs
      <4>1. Len(prs) > 0
        BY <1>1, <1>11, EmptySeq DEF TouchesPr, Rows
      <4> QED
        BY <1>1, <4>1, RowFacts
    <3>3. prs' \in Seq(PrRow) /\ DOMAIN prs' = Prs
      BY <1>1, <3>1, <3>2, StateSet
    <3> QED
      BY <1>1, <1>11, <2>2, <3>3, PrsGrow DEF PrRow, Prs, TouchesPr
  <2> QED
    BY <1>11, <2>1, <2>2 DEF TouchesPr
<1>12. CASE \/ RunBegins \/ RunTakes \/ RunGivesUp \/ RunAbandons \/ RunCloses \/ RunSettles
            \/ List \/ Look
  BY <1>2, <1>12 DEF RunBegins, RunTakes, RunGivesUp, RunAbandons, RunCloses, RunSettles,
                     List, Look
<1>13. CASE MovesTicket \/ Crash \/ Sweep \/ UNCHANGED vars
  BY <1>2, <1>13 DEF MovesTicket, Crash, Sweep, vars
<1>14. ASSUME NEW o \in Owner, Comment(o) \/ RecordFeedback(o) \/ Requeue(o) \/ Closeout(o)
       PROVE  Rows' /\ Grown
  BY <1>2, <1>14 DEF Comment, RecordFeedback, Requeue, Closeout
<1> QED
  BY <1>3, <1>4, <1>5, <1>6, <1>7, <1>8, <1>9, <1>10, <1>11, <1>12, <1>13, <1>14
  DEF Next, RunStep, Reconcile, ReqStep

\* Every step keeps the directives; what was said stays said.
LEMMA WordsStep ==
    ASSUME Typing, [Next]_vars
    PROVE  /\ Words'
           /\ Len(about) \in Nat /\ Len(about') \in Nat /\ Len(about) <= Len(about')
           /\ Len(about) \in Int /\ \A i \in 1 .. Len(about) : about'[i] = about[i]
<1>1. about \in Seq(Cards) /\ Len(about) \in Nat
      /\ directive \in 0 .. Len(about) /\ spent \in 0 .. Len(about) /\ run.held \in 0 .. Len(about)
  BY LenProperties DEF Typing, Words, RunType
<1>2. Cards \subseteq Cards'
  BY RowsStep DEF Grown
<1>3. about \in Seq(Cards')
  BY <1>1, <1>2, SeqMonotonic
<1>4. CASE UNCHANGED <<about, directive, spent>>
  BY <1>1, <1>3, <1>4 DEF Words
<1>5. CASE RunTakes \/ RunSettles
  <2>1. UNCHANGED <<about, spent>> /\ directive' \in {0, directive, run.held}
    BY <1>5 DEF RunTakes, RunSettles, Restored
  <2> QED
    BY <1>1, <1>3, <2>1 DEF Words
<1>6. CASE RunDelivers
  <2>1. UNCHANGED <<about, directive>> /\ spent' \in {spent, run.held}
    BY <1>6 DEF RunDelivers
  <2> QED
    BY <1>1, <1>3, <2>1 DEF Words
<1>7. ASSUME NEW o \in Owner, RecordFeedback(o)
      PROVE  /\ Words'
             /\ Len(about') \in Nat /\ Len(about) <= Len(about')
             /\ \A i \in 1 .. Len(about) : about'[i] = about[i]
  <2>1. CASE UNCHANGED <<about, directive>>
    BY <1>4, <1>7, <2>1 DEF RecordFeedback, Said
  <2>2. CASE about' = Append(about, req[o].card) /\ directive' = Len(about')
    <3>1. req[o].card \in Cards'
      BY <1>2, <1>7, AtRows DEF RecordFeedback, AtWork
    <3>2. about' \in Seq(Cards') /\ Len(about') = Len(about) + 1
          /\ \A i \in 1 .. Len(about) : about'[i] = about[i]
      BY <1>3, <2>2, <3>1, AppendProperties
    <3>3. spent' = spent
      BY <1>7 DEF RecordFeedback, Said
    <3> QED
      BY <1>1, <2>2, <3>2, <3>3 DEF Words
  <2> QED
    BY <1>7, <2>1, <2>2 DEF RecordFeedback, Said
<1>8. CASE \/ RunBegins \/ RunGivesUp \/ RunAbandons \/ RunMerges \/ RunSupersedes \/ RunInserts
           \/ RunCloses
  BY <1>4, <1>8 DEF RunBegins, RunGivesUp, RunAbandons, RunMerges, RunSupersedes, RunInserts,
                    RunCloses
<1>9. CASE \/ List \/ Look \/ Write \/ MovesTicket \/ TouchesPr \/ Crash \/ Sweep \/ UNCHANGED vars
  BY <1>4, <1>9 DEF List, Look, Write, MovesTicket, TouchesPr, Crash, Sweep, vars
<1>10. ASSUME NEW o \in Owner, Decide(o) \/ Comment(o) \/ Requeue(o) \/ Finalize(o) \/ Closeout(o)
       PROVE  UNCHANGED <<about, directive, spent>>
  BY <1>10 DEF Decide, Comment, Requeue, Finalize, Closeout
<1>11. ASSUME NEW o \in Owner, NEW c \in DOMAIN cards, Approve(o, c) \/ Pushback(o, c)
       PROVE  UNCHANGED <<about, directive, spent>>
  BY <1>11 DEF Approve, Pushback, Claim
<1> QED
  BY <1>1, <1>4, <1>5, <1>6, <1>7, <1>8, <1>9, <1>10, <1>11 DEF Next, RunStep, Reconcile, ReqStep

\* What the run may hold.
RunRow == [at : {"none", "begun", "took", "delivered", "again", "insert", "close", "settle"},
           held : 0 .. Len(about), pr : {0} \cup Prs, sha : 0 .. commits,
           tries : 0 .. InsertAttempts]
RunPlaces ==
    /\ run.at \in {"delivered", "again", "insert"} => run.tries < InsertAttempts /\ run.pr \in Prs
    /\ run.at = "took" => run.pr = 0
    /\ run.at \in {"none", "begun"} => run.held = 0 /\ run.pr = 0 /\ run.tries = 0
    /\ run.at = "took" => run.tries = 0

\* The run before a step fits the tables after it.
LEMMA RunWide ==
    ASSUME Typing, [Next]_vars
    PROVE  /\ run \in RunRow' /\ RunPlaces /\ Prs \subseteq Prs' /\ InsertAttempts \in Nat \ {0}
           /\ 0 .. commits \subseteq 0 .. commits' /\ 0 .. Len(about) \subseteq 0 .. Len(about')
<1>1. commits \in Nat
  BY RowFacts DEF Typing
<1>2. Prs \subseteq Prs' /\ 0 .. commits \subseteq 0 .. commits'
  BY <1>1, RowsStep DEF Grown
<1>3. 0 .. Len(about) \subseteq 0 .. Len(about')
  BY WordsStep
<1>4. run \in RunRow /\ RunPlaces
  BY DEF Typing, RunType, RunRow, RunPlaces
<1>5. RunRow \subseteq RunRow'
  BY <1>2, <1>3 DEF RunRow
<1> QED
  BY <1>2, <1>3, <1>4, <1>5, InboxAssumption DEF InboxAssumption

\* The run in flight points to rows that exist and counts its attempts to file.
LEMMA RunTypeStep ==
    ASSUME Typing, [Next]_vars
    PROVE  RunType'
<1>1. /\ run \in RunRow' /\ RunPlaces /\ Prs \subseteq Prs' /\ InsertAttempts \in Nat \ {0}
      /\ 0 .. commits \subseteq 0 .. commits' /\ 0 .. Len(about) \subseteq 0 .. Len(about')
  BY RunWide
<1>2. SUFFICES run' \in RunRow' /\ RunPlaces'
  BY DEF RunType, RunRow, RunPlaces
<1>3. CASE UNCHANGED run
  BY <1>1, <1>3 DEF RunPlaces
<1>4. CASE RunBegins \/ Crash \/ RunSettles
  <2>1. run' = NoRun \/ run' = [NoRun EXCEPT !.at = "begun"]
    BY <1>4 DEF RunBegins, Crash, RunSettles
  <2> QED
    BY <1>1, <2>1, WordsStep, RowsStep DEF NoRun, RunRow, RunPlaces, Grown
<1>5. CASE RunTakes /\ run' = [run EXCEPT !.at = "took", !.held = directive]
  <2>1. run' = [run EXCEPT !.at = "took", !.held = directive] /\ run.at = "begun"
    BY <1>5 DEF RunTakes
  <2>2. directive \in 0 .. Len(about')
    BY <1>1 DEF Typing, Words
  <2>3. run' \in RunRow' /\ run'.at = "took" /\ run'.pr = run.pr /\ run'.tries = run.tries
    BY <1>1, <2>1, <2>2 DEF RunRow
  <2> QED
    BY <1>1, <2>1, <2>3 DEF RunPlaces
<1>6. CASE RunDelivers
  <2>1. CASE run' = [run EXCEPT !.at = "settle"]
    BY <1>1, <2>1 DEF RunRow, RunPlaces
  <2>2. CASE /\ prs' = PushOf(commits + 1) /\ commits' = commits + 1
             /\ \E sha \in {0, commits + 1} :
                  run' = [run EXCEPT !.at = "delivered", !.pr = Len(prs'), !.sha = sha]
    <3>1. PICK sha \in {0, commits + 1} :
                  run' = [run EXCEPT !.at = "delivered", !.pr = Len(prs'), !.sha = sha]
      BY <2>2
    <3>2. Len(prs') \in Prs'
      BY <2>2, Pushed DEF Prs, Typing
    <3>3. sha \in 0 .. commits'
      BY <2>2, RowsStep DEF Grown
    <3>4. run' \in RunRow' /\ run'.at = "delivered" /\ run'.pr = Len(prs') /\ run'.tries = run.tries
      BY <1>1, <3>1, <3>2, <3>3 DEF RunRow
    <3>5. run.tries = 0
      BY <1>1, <1>6 DEF RunPlaces, RunDelivers
    <3> QED
      BY <1>1, <3>2, <3>4, <3>5 DEF RunPlaces
  <2> QED
    BY <1>6, <2>1, <2>2 DEF RunDelivers
<1>7. CASE \/ RunGivesUp \/ RunAbandons \/ RunCloses
           \/ RunTakes /\ run' = [run EXCEPT !.at = "settle"]
  <2>1. run' = [run EXCEPT !.at = "settle"]
    BY <1>7 DEF RunGivesUp, RunAbandons, RunCloses
  <2> QED
    BY <1>1, <2>1 DEF RunRow, RunPlaces
<1>8. CASE RunMerges \/ RunSupersedes
  <2>1. PICK a \in {"close", "again", "insert"} : run' = [run EXCEPT !.at = a]
    BY <1>8 DEF RunMerges, RunSupersedes
  <2>2. run.at \in {"delivered", "again"}
    BY <1>8 DEF RunMerges, RunSupersedes
  <2>3. run' \in RunRow' /\ run'.at = a /\ run'.pr = run.pr /\ run'.tries = run.tries
    BY <1>1, <2>1 DEF RunRow
  <2> QED
    BY <1>1, <2>1, <2>2, <2>3 DEF RunPlaces
<1>9. CASE RunInserts
  <2>1. CASE run' = [run EXCEPT !.at = "close"]
    BY <1>1, <2>1 DEF RunRow, RunPlaces
  <2>2. CASE run' = [run EXCEPT !.at = IF run.tries + 1 < InsertAttempts THEN "again" ELSE "close",
                                !.tries = @ + 1]
    <3>1. run.tries < InsertAttempts /\ run.pr \in Prs /\ run.tries \in Nat
      BY <1>1, <1>9 DEF RunPlaces, RunInserts, RunRow
    <3> DEFINE t == run.tries + 1
    <3>t. t \in 0 .. InsertAttempts
      BY <1>1, <3>1
    <3>2. CASE t < InsertAttempts
      <4>1. run' = [run EXCEPT !.at = "again", !.tries = t]
        BY <2>2, <3>2
      <4>2. /\ run' \in RunRow' /\ run'.at = "again" /\ run'.pr = run.pr
            /\ run'.tries = t
        <5> HIDE DEF t
        <5> QED
          BY <1>1, <3>t, <4>1 DEF RunRow
      <4> QED
        BY <1>1, <3>1, <3>2, <4>2 DEF RunPlaces
    <3>3. CASE ~(t < InsertAttempts)
      <4>1. run' = [run EXCEPT !.at = "close", !.tries = t]
        BY <2>2, <3>3
      <4>2. run' \in RunRow' /\ run'.at = "close"
        <5> HIDE DEF t
        <5> QED
          BY <1>1, <3>t, <4>1 DEF RunRow
      <4> QED
        BY <4>2 DEF RunPlaces
    <3> QED
      BY <3>2, <3>3
  <2> QED
    BY <1>9, <2>1, <2>2 DEF RunInserts, File
<1>10. CASE List \/ Look \/ Write \/ MovesTicket \/ TouchesPr \/ Sweep \/ UNCHANGED vars
  BY <1>3, <1>10 DEF List, Look, Write, MovesTicket, TouchesPr, Sweep, vars
<1>11. ASSUME NEW o \in Owner, ReqStep(o)
       PROVE  UNCHANGED run
  BY <1>11 DEF ReqStep, Decide, Comment, RecordFeedback, Requeue, Finalize, Closeout
<1>12. ASSUME NEW o \in Owner, NEW c \in DOMAIN cards, Approve(o, c) \/ Pushback(o, c)
       PROVE  UNCHANGED run
  BY <1>12 DEF Approve, Pushback, Claim
<1> QED
  BY <1>3, <1>4, <1>5, <1>6, <1>7, <1>8, <1>9, <1>10, <1>11, <1>12
  DEF Next, RunStep, RunTakes, Reconcile

ReqRow == [at : {"idle", "decide", "comment", "record", "requeue", "finalize", "closeout"},
           card : {0} \cup Cards, to : Status]

\* One request's row changes.
LEMMA ReqSet ==
    ASSUME Typing, Cards \subseteq Cards', NEW o \in Owner, NEW r \in ReqRow',
           req' = [req EXCEPT ![o] = r],
           r.at # "idle" => r.card \in Cards', r.at = "closeout" => r.to = "approved"
    PROVE  ReqType' /\ req'[o] = r /\ \A x \in Owner : x # o => req'[x] = req[x]
<1>1. req \in [Owner -> ReqRow]
  BY DEF Typing, ReqType, ReqRow
<1>2. ReqRow \subseteq ReqRow'
  BY DEF ReqRow, Status
<1>3. req' \in [Owner -> ReqRow'] /\ req'[o] = r /\ \A x \in Owner : x # o => req'[x] = req[x]
  BY <1>1, <1>2
<1>4. \A x \in Owner : /\ req'[x].at # "idle" => req'[x].card \in Cards'
                       /\ req'[x].at = "closeout" => req'[x].to = "approved"
  <2> SUFFICES ASSUME NEW x \in Owner
               PROVE  /\ req'[x].at # "idle" => req'[x].card \in Cards'
                      /\ req'[x].at = "closeout" => req'[x].to = "approved"
    OBVIOUS
  <2>1. CASE x = o
    BY <1>3, <2>1
  <2>2. CASE x # o
    BY <1>3, <2>2 DEF Typing, ReqType, AtWork
  <2> QED
    BY <2>1, <2>2
<1> QED
  BY <1>3, <1>4 DEF ReqType, AtWork, ReqRow

\* A request moves on with its card.
LEMMA Moved ==
    ASSUME Typing, NEW o \in Owner, NEW place, NEW to, Move(o, place, to)
    PROVE  req' = [req EXCEPT ![o] = [req[o] EXCEPT !.at = place, !.to = to]]
<1>1. req \in [Owner -> ReqRow]
  BY DEF Typing, ReqType, ReqRow
<1> QED
  BY <1>1 DEF Move

\* What each step of a request leaves in its row; the other requests keep theirs.
LEMMA DecideEffect ==
    ASSUME Typing, [Next]_vars, NEW o \in Owner, Decide(o)
    PROVE  /\ ReqType' /\ \A x \in Owner : x # o => req'[x] = req[x]
           /\ AtWork(o) /\ req[o].card \in Cards
           /\ req'[o].at = "finalize" /\ req'[o].card = req[o].card
           /\ Move(o, "finalize", "approved") => req'[o].to = "approved"
<1>1. Cards \subseteq Cards' /\ AtWork(o) /\ req[o].card \in Cards
  BY RowsStep, AtRows DEF Grown, Decide, AtWork
<1>2. PICK to \in {"stale", "approved", "pending"} : Move(o, "finalize", to)
  BY DEF Decide
<1> DEFINE r == [req[o] EXCEPT !.at = "finalize", !.to = to]
<1>3. req' = [req EXCEPT ![o] = r]
  BY <1>2, Moved, ZenonT(30)
<1>4. r \in ReqRow' /\ r.at = "finalize" /\ r.card = req[o].card /\ r.card \in Cards'
  <2>1. req[o] \in ReqRow /\ ReqRow \subseteq ReqRow'
    BY <1>1 DEF Typing, ReqType, ReqRow, Status
  <2> QED
    BY <1>1, <2>1 DEF ReqRow, Status
<1>5. Move(o, "finalize", "approved") => req'[o].to = "approved"
  <2>1. req \in [Owner -> ReqRow]
    BY DEF Typing, ReqType, ReqRow
  <2>2. ASSUME req' = [req EXCEPT ![o] = [req[o] EXCEPT !.at = "finalize", !.to = "approved"]]
        PROVE  req'[o].to = "approved"
    BY <2>1, <2>2 DEF ReqRow
  <2> QED
    BY <2>2, Moved, ZenonT(30)
<1> HIDE DEF r
<1>6. ReqType' /\ req'[o] = r /\ \A x \in Owner : x # o => req'[x] = req[x]
  BY <1>1, <1>3, <1>4, ReqSet
<1> QED
  BY <1>1, <1>4, <1>5, <1>6

\* The steps of a pushback between its claim and its outcome.
LEMMA MiddleEffect ==
    ASSUME Typing, [Next]_vars, NEW o \in Owner, Comment(o) \/ RecordFeedback(o) \/ Requeue(o)
    PROVE  /\ ReqType' /\ \A x \in Owner : x # o => req'[x] = req[x]
           /\ AtWork(o) /\ req[o].card \in Cards
           /\ req'[o].at \in {"record", "requeue", "finalize"} /\ req'[o].card = req[o].card
<1>1. Cards \subseteq Cards' /\ AtWork(o) /\ req[o].card \in Cards
  BY RowsStep, AtRows DEF Grown, Comment, RecordFeedback, Requeue, AtWork
<1>2. PICK place \in {"record", "requeue", "finalize"}, to \in Status : Move(o, place, to)
  BY DEF Comment, RecordFeedback, Requeue, Status
<1> DEFINE r == [req[o] EXCEPT !.at = place, !.to = to]
<1>3. req' = [req EXCEPT ![o] = r]
  BY <1>2 DEF Move, Typing, ReqType
<1>4. r \in ReqRow' /\ r.at = place /\ r.card = req[o].card /\ r.card \in Cards'
  <2>1. req[o] \in ReqRow /\ ReqRow \subseteq ReqRow'
    BY <1>1 DEF Typing, ReqType, ReqRow, Status
  <2> QED
    BY <1>1, <2>1 DEF ReqRow, Status
<1> HIDE DEF r
<1>6. ReqType' /\ req'[o] = r /\ \A x \in Owner : x # o => req'[x] = req[x]
  BY <1>1, <1>3, <1>4, ReqSet
<1> QED
  BY <1>1, <1>4, <1>6

\* The outcome is written: the request goes on only after an approval.
LEMMA FinalizeEffect ==
    ASSUME Typing, [Next]_vars, NEW o \in Owner, Finalize(o)
    PROVE  /\ ReqType' /\ \A x \in Owner : x # o => req'[x] = req[x]
           /\ AtWork(o) /\ req[o].card \in Cards
           /\ \/ req'[o].at = "closeout" /\ req'[o].card = req[o].card /\ req[o].to = "approved"
              \/ req'[o].at = "idle"
           /\ req'[o].at = "idle" \/ req'[o].to = "approved"
<1>1. Cards \subseteq Cards' /\ AtWork(o) /\ req[o].card \in Cards
  BY RowsStep, AtRows DEF Grown, Finalize, AtWork
<1>2. CASE req[o].to = "approved" /\ req' = [req EXCEPT ![o] = [@ EXCEPT !.at = "closeout"]]
  <2> DEFINE r == [req[o] EXCEPT !.at = "closeout"]
  <2>1. req[o] \in ReqRow /\ ReqRow \subseteq ReqRow'
    BY <1>1 DEF Typing, ReqType, ReqRow, Status
  <2>2. req' = [req EXCEPT ![o] = r]
    BY <1>2
  <2>3. r \in ReqRow' /\ r.at = "closeout" /\ r.card = req[o].card /\ r.to = "approved"
    BY <1>2, <2>1 DEF ReqRow
  <2> HIDE DEF r
  <2>4. ReqType' /\ req'[o] = r /\ \A x \in Owner : x # o => req'[x] = req[x]
    BY <1>1, <2>2, <2>3, ReqSet
  <2> QED
    BY <1>1, <1>2, <2>3, <2>4
<1>3. CASE req' = [req EXCEPT ![o] = Idle]
  <2>1. Idle \in ReqRow' /\ Idle.at = "idle"
    BY DEF Idle, ReqRow, Status
  <2>2. ReqType' /\ req'[o] = Idle /\ \A x \in Owner : x # o => req'[x] = req[x]
    BY <1>1, <1>3, <2>1, ReqSet
  <2> QED
    BY <1>1, <2>1, <2>2
<1> QED
  BY <1>2, <1>3 DEF Finalize

\* The last step of an approval.
LEMMA CloseoutEffect ==
    ASSUME Typing, [Next]_vars, NEW o \in Owner, Closeout(o)
    PROVE  /\ ReqType' /\ \A x \in Owner : x # o => req'[x] = req[x]
           /\ req'[o].at = "idle"
<1>1. Cards \subseteq Cards' /\ req' = [req EXCEPT ![o] = Idle]
  BY RowsStep DEF Grown, Closeout
<1>2. Idle \in ReqRow' /\ Idle.at = "idle"
  BY DEF Idle, ReqRow, Status
<1> QED
  BY <1>1, <1>2, ReqSet

\* A click takes a pending card and nothing else; where the answer of its claim is lost,
\* the request ends and the card is stranded.
LEMMA ClickEffect ==
    ASSUME Typing, [Next]_vars, NEW o \in Owner, NEW c \in Cards, Approve(o, c) \/ Pushback(o, c)
    PROVE  /\ ReqType' /\ \A x \in Owner : x # o => req'[x] = req[x]
           /\ ~AtWork(o) /\ c \in Pending
           /\ \/ req' = req /\ c \in stranded'
              \/ /\ req'[o].card = c /\ req'[o].at \in {"decide", "comment"}
                 /\ req'[o].at = "decide" => Approve(o, c)
<1>1. Cards \subseteq Cards' /\ ~AtWork(o) /\ c \in Pending
  BY RowsStep DEF Grown, Approve, Pushback, Claim, AtWork, Claimable
<1>2. ASSUME NEW place \in {"decide", "comment"},
             req' = [req EXCEPT ![o] = [at |-> place, card |-> c, to |-> "pending"]]
      PROVE  /\ ReqType' /\ \A x \in Owner : x # o => req'[x] = req[x]
             /\ req'[o].card = c /\ req'[o].at = place
  <2> DEFINE r == [at |-> place, card |-> c, to |-> "pending"]
  <2>1. req' = [req EXCEPT ![o] = r]
    BY <1>2
  <2>2. r \in ReqRow' /\ r.at = place /\ r.card = c /\ c \in Cards'
    BY <1>1, <1>2 DEF ReqRow, Status
  <2> HIDE DEF r
  <2>3. ReqType' /\ req'[o] = r /\ \A x \in Owner : x # o => req'[x] = req[x]
    BY <1>1, <1>2, <2>1, <2>2, ReqSet
  <2> QED
    BY <2>2, <2>3
<1>3. ASSUME req' = req
      PROVE  ReqType'
  BY <1>1, <1>3 DEF Typing, ReqType, AtWork, Status
<1>4. ASSUME Loses({}, {c})
      PROVE  c \in stranded'
  BY <1>4 DEF Loses
<1>5. CASE Approve(o, c)
  BY <1>1, <1>2, <1>3, <1>4, <1>5 DEF Approve, Claim
<1>6. CASE Pushback(o, c)
  BY <1>1, <1>2, <1>3, <1>4, <1>6 DEF Pushback, Claim
<1> QED
  BY <1>5, <1>6

\* Requests at work have a card, and close out only what they approved.
LEMMA ReqTypeStep ==
    ASSUME Typing, [Next]_vars
    PROVE  ReqType'
<1>1. Cards \subseteq Cards'
  BY RowsStep DEF Grown
<1>2. CASE UNCHANGED req
  <2>1. ReqType'
    BY <1>1, <1>2 DEF Typing, ReqType, AtWork, Status
  <2> QED
    BY <2>1
<1>3. CASE Crash
  BY <1>3 DEF Crash, ReqType, Idle, Status, AtWork
<1>4. CASE RunStep
  BY <1>2, <1>4 DEF RunStep, RunTakes, RunGivesUp, RunDelivers, RunAbandons, RunMerges,
                    RunSupersedes, RunInserts, RunCloses, RunSettles
<1>5. CASE RunBegins \/ Reconcile \/ MovesTicket \/ TouchesPr \/ Sweep \/ UNCHANGED vars
  BY <1>2, <1>5 DEF RunBegins, Reconcile, List, Look, Write, MovesTicket, TouchesPr, Sweep, vars
<1>6. ASSUME NEW o \in Owner, ReqStep(o)
      PROVE  ReqType'
  BY <1>6, DecideEffect, MiddleEffect, FinalizeEffect, CloseoutEffect DEF ReqStep
<1>7. ASSUME NEW o \in Owner, NEW c \in DOMAIN cards, Approve(o, c) \/ Pushback(o, c)
      PROVE  ReqType'
  BY <1>7, ClickEffect DEF Cards
<1> QED
  BY <1>3, <1>4, <1>5, <1>6, <1>7 DEF Next

\* The pass works on a card that exists, and writes approved or stale.
LEMMA RecTypeStep ==
    ASSUME Typing, [Next]_vars
    PROVE  RecType'
<1>1. Cards \subseteq Cards'
  BY RowsStep DEF Grown
<1>2. CASE UNCHANGED rec
  BY <1>1, <1>2 DEF Typing, RecType, Status
<1>3. CASE Crash \/ Write
  BY <1>3 DEF Crash, Write, RecType, Idle, Status
<1>4. CASE List
  BY <1>1, <1>4 DEF List, RecType, Pending, Cards, Status
<1>5. CASE Look
  <2>1. CASE rec' = Idle
    BY <2>1 DEF RecType, Idle, Status
  <2>2. CASE \E to \in {"approved", "stale"} : rec' = [rec EXCEPT !.at = "write", !.to = to]
    <3>1. rec.card \in Cards'
      BY <1>1, <1>5, AtRows DEF Look
    <3> QED
      BY <2>2, <3>1 DEF Typing, RecType, Status
  <2>3. \A s : RetiredTo(s) \in {"approved", "stale", "pending"}
    BY DEF RetiredTo
  <2> QED
    BY <1>5, <2>1, <2>2, <2>3 DEF Look
<1>6. CASE RunStep
  BY <1>2, <1>6 DEF RunStep, RunTakes, RunGivesUp, RunDelivers, RunAbandons, RunMerges,
                    RunSupersedes, RunInserts, RunCloses, RunSettles
<1>7. CASE RunBegins \/ MovesTicket \/ TouchesPr \/ Sweep \/ UNCHANGED vars
  BY <1>2, <1>7 DEF RunBegins, MovesTicket, TouchesPr, Sweep, vars
<1>8. ASSUME NEW o \in Owner, ReqStep(o)
      PROVE  UNCHANGED rec
  BY <1>8 DEF ReqStep, Decide, Comment, RecordFeedback, Requeue, Finalize, Closeout
<1>9. ASSUME NEW o \in Owner, NEW c \in DOMAIN cards, Approve(o, c) \/ Pushback(o, c)
      PROVE  UNCHANGED rec
  BY <1>9 DEF Approve, Pushback, Claim
<1> QED
  BY <1>2, <1>3, <1>4, <1>5, <1>6, <1>7, <1>8, <1>9 DEF Next, Reconcile

\* The bounded counters only grow.
LEMMA WorldStep ==
    ASSUME Typing, [Next]_vars
    PROVE  World' /\ faults <= faults' /\ byHand <= byHand' /\ crashes <= crashes'
<1>0. World /\ InboxAssumption
  BY InboxAssumption DEF Typing
<1>1. Fine => UNCHANGED <<faults, byHand, crashes>>
  BY DEF Fine, mishaps
<1> DEFINE Fails == faults < MaxFaults /\ faults' = faults + 1 /\ UNCHANGED <<byHand, crashes>>
<1>f. /\ Fault => Fails
      /\ \A b, s : Loses(b, s) => Fails
  BY DEF Fault, Loses
<1>2. ASSUME UNCHANGED <<runs, faults, byHand, crashes>> \/ (Fails /\ UNCHANGED runs),
             lane' \in {"queue", "working", "rest"}
      PROVE  World' /\ faults <= faults' /\ byHand <= byHand' /\ crashes <= crashes'
  BY <1>0, <1>2 DEF World, InboxAssumption
<1> HIDE DEF Fails
<1>3. CASE RunBegins
  BY <1>0, <1>3 DEF RunBegins, World, InboxAssumption, mishaps
<1>4. CASE MovesTicket
  BY <1>0, <1>4 DEF MovesTicket, ByHand, World, InboxAssumption
<1>5. CASE TouchesPr
  BY <1>0, <1>5 DEF TouchesPr, ByHand, World, InboxAssumption
<1>6. CASE Crash
  BY <1>0, <1>6 DEF Crash, World, InboxAssumption
<1>7. CASE RunStep
  <2>1. UNCHANGED runs /\ (Fine \/ Fails)
    BY <1>f, <1>7 DEF RunStep, RunTakes, RunGivesUp, RunDelivers, RunAbandons, RunMerges,
                RunSupersedes, RunInserts, RunCloses, RunSettles, Fine
  <2>2. lane' \in {"queue", "working", "rest"}
    BY <1>0, <1>7 DEF World, RunStep, RunTakes, RunGivesUp, RunDelivers, RunAbandons, RunMerges,
                      RunSupersedes, RunInserts, RunCloses, RunSettles
  <2> QED
    BY <1>1, <1>2, <2>1, <2>2
<1>8. CASE Reconcile \/ Sweep \/ UNCHANGED vars
  <2>1. UNCHANGED runs /\ (Fine \/ Fails) /\ lane' \in {"queue", "working", "rest"}
    BY <1>0, <1>f, <1>8 DEF World, Reconcile, List, Look, Write, Sweep, vars, Fine
  <2> QED
    BY <1>1, <1>2, <2>1
<1>9. ASSUME NEW o \in Owner, ReqStep(o)
      PROVE  UNCHANGED runs /\ (Fine \/ Fails) /\ lane' \in {"queue", "working", "rest"}
  BY <1>0, <1>f, <1>9 DEF World, ReqStep, Decide, Comment, RecordFeedback, Requeue, Finalize, Closeout,
                    Fine
<1>10. ASSUME NEW o \in Owner, NEW c \in DOMAIN cards, Approve(o, c) \/ Pushback(o, c)
       PROVE  UNCHANGED runs /\ (Fine \/ Fails) /\ lane' \in {"queue", "working", "rest"}
  BY <1>0, <1>f, <1>10 DEF World, Approve, Pushback, Claim, Fine
<1> QED
  BY <1>1, <1>2, <1>3, <1>4, <1>5, <1>6, <1>7, <1>8, <1>9, <1>10 DEF Next

\* What a step adds to the two lists of losses.
LEMMA CostsStep ==
    ASSUME Typing, [Next]_vars
    PROVE  /\ Costs' /\ burned \subseteq burned' /\ stranded \subseteq stranded'
<1>1. Cards \subseteq Cards' /\ 1 .. Len(about) \subseteq 1 .. Len(about')
  BY RowsStep, WordsStep DEF Grown
<1>2. burned \subseteq 1 .. Len(about) /\ stranded \subseteq Cards
  BY DEF Typing, Costs
<1>3. ASSUME NEW b, NEW s, b \subseteq 1 .. Len(about), s \subseteq Cards,
             burned' = burned \cup b, stranded' = stranded \cup s
      PROVE  Costs' /\ burned \subseteq burned' /\ stranded \subseteq stranded'
  BY <1>1, <1>2, <1>3 DEF Costs
<1>4. ASSUME Fine \/ Fault
      PROVE  Costs' /\ burned \subseteq burned' /\ stranded \subseteq stranded'
  <2>1. burned' = burned /\ stranded' = stranded
    BY <1>4 DEF Fine, Fault, Loses, mishaps
  <2> QED
    BY <1>1, <1>2, <2>1 DEF Costs
<1>5. ASSUME NEW b, NEW s, b \subseteq 1 .. Len(about), s \subseteq Cards, Loses(b, s)
      PROVE  Costs' /\ burned \subseteq burned' /\ stranded \subseteq stranded'
  BY <1>3, <1>5 DEF Loses
<1>6. directive \in 0 .. Len(about) /\ run.held \in 0 .. Len(about) /\ Len(about) \in Nat
  BY WordsStep DEF Typing, Words, RunType
<1>7. Owed \subseteq 1 .. Len(about) /\ {directive} \ {0} \subseteq 1 .. Len(about)
  BY <1>6 DEF Owed
<1>8. CASE RunTakes
  BY <1>4, <1>5, <1>7, <1>8 DEF RunTakes
<1>9. CASE RunSettles
  BY <1>4, <1>5, <1>7, <1>9 DEF RunSettles
<1>10. CASE Crash
  <2>1. {req[o].card : o \in {x \in Owner : Undecided(x)}} \subseteq Cards
    BY AtRows DEF Undecided, AtWork
  <2> QED
    BY <1>3, <1>7, <1>10, <2>1 DEF Crash
<1>11. ASSUME NEW o \in Owner, NEW c \in DOMAIN cards, Approve(o, c) \/ Pushback(o, c)
       PROVE  Costs' /\ burned \subseteq burned' /\ stranded \subseteq stranded'
  BY <1>4, <1>5, <1>11 DEF Approve, Pushback, Claim, Cards
<1>12. ASSUME NEW o \in Owner, Finalize(o)
       PROVE  Costs' /\ burned \subseteq burned' /\ stranded \subseteq stranded'
  BY <1>4, <1>5, <1>12, AtRows DEF Finalize, AtWork
<1>13. CASE \/ RunBegins \/ RunGivesUp \/ RunDelivers \/ RunAbandons \/ RunMerges
            \/ RunSupersedes \/ RunInserts \/ RunCloses
  BY <1>4, <1>13 DEF RunBegins, RunGivesUp, RunDelivers, RunAbandons, RunMerges, RunSupersedes,
                     RunInserts, RunCloses, Fine
<1>14. CASE List \/ Look \/ Write \/ Sweep \/ UNCHANGED vars
  BY <1>4, <1>14 DEF List, Look, Write, Sweep, vars, Fine
<1>15. CASE MovesTicket \/ TouchesPr
  <2>1. burned' = burned /\ stranded' = stranded
    BY <1>15 DEF MovesTicket, TouchesPr, ByHand
  <2> QED
    BY <1>1, <1>2, <2>1 DEF Costs
<1>16. ASSUME NEW o \in Owner,
              Decide(o) \/ Comment(o) \/ RecordFeedback(o) \/ Requeue(o) \/ Closeout(o)
       PROVE  Fine \/ Fault
  BY <1>16 DEF Decide, Comment, RecordFeedback, Requeue, Closeout
<1> QED
  BY <1>4, <1>8, <1>9, <1>10, <1>11, <1>12, <1>13, <1>14, <1>15, <1>16
  DEF Next, RunStep, Reconcile, ReqStep

\* All of the typing.
LEMMA TypingStep ==
    ASSUME Typing, [Next]_vars
    PROVE  Typing'
BY RowsStep, WordsStep, RunTypeStep, ReqTypeStep, RecTypeStep, WorldStep, CostsStep DEF Typing

-----------------------------------------------------------------------------
\* A card that is not pending changes only when its request or the pass writes it.
LEMMA StatusStep ==
    ASSUME Typing, [Next]_vars, NEW c \in Cards, cards[c].status # "pending"
    PROVE  \/ cards'[c].status = cards[c].status
           \/ Write /\ rec.card = c /\ cards'[c].status = rec.to
           \/ \E o \in Owner : Finalize(o) /\ req[o].card = c /\ cards'[c].status = req[o].to
<1>1. Rows /\ c \notin Pending
  BY DEF Typing, Pending
<1>2. CASE UNCHANGED cards
  BY <1>2
<1>3. CASE RunSupersedes
  <2>1. CASE cards' = [d \in DOMAIN cards |->
               IF d \in Pending THEN [cards[d] EXCEPT !.status = "stale"] ELSE cards[d]]
    BY <1>1, <2>1, Superseded
  <2> QED
    BY <1>2, <1>3, <2>1 DEF RunSupersedes, Supersede
<1>4. CASE RunInserts
  <2>1. CASE cards' = Append(cards, [status |-> "pending", pr |-> run.pr, sha |-> run.sha])
    <3> DEFINE r == [status |-> "pending", pr |-> run.pr, sha |-> run.sha]
    <3>1. run.pr \in Prs /\ run.sha \in 0 .. commits
      BY <1>4, AtRows DEF RunInserts, Typing, RunType
    <3>2. r \in CardRow /\ r.status = "pending"
      BY <3>1 DEF CardRow, Status
    <3>3. cards' = Append(cards, r)
      BY <2>1
    <3> HIDE DEF r
    <3> QED
      BY <1>1, <3>2, <3>3, Filed
  <2> QED
    BY <1>2, <1>4, <2>1 DEF RunInserts, File
<1>5. CASE Write /\ ~UNCHANGED cards
  <2>1. rec.card \in Cards /\ rec.to \in Status /\ SetStatus(rec.card, rec.to)
    BY <1>5, AtRows DEF Write, Status
  <2> QED
    BY <1>1, <1>5, <2>1, StatusSet
<1>6. ASSUME NEW o \in Owner, Finalize(o), ~UNCHANGED cards
      PROVE  \/ cards'[c].status = cards[c].status
             \/ req[o].card = c /\ cards'[c].status = req[o].to
  <2>1. req[o].card \in Cards /\ req[o].to \in Status /\ SetStatus(req[o].card, req[o].to)
    BY <1>6, AtRows DEF Finalize, AtWork
  <2> QED
    BY <1>1, <2>1, StatusSet
<1>7. ASSUME NEW o \in Owner, NEW d \in DOMAIN cards, Approve(o, d) \/ Pushback(o, d)
      PROVE  cards'[c].status = cards[c].status
  <2>1. d # c /\ d \in Cards /\ \E s \in Status : SetStatus(d, s)
    BY <1>1, <1>7 DEF Approve, Pushback, Claim, Claimable, Status, Cards
  <2> QED
    BY <1>1, <2>1, StatusSet
<1>8. CASE \/ RunBegins \/ RunTakes \/ RunGivesUp \/ RunDelivers \/ RunAbandons \/ RunMerges
           \/ RunCloses \/ RunSettles \/ List \/ Look
  BY <1>2, <1>8 DEF RunBegins, RunTakes, RunGivesUp, RunDelivers, RunAbandons, RunMerges,
                    RunCloses, RunSettles, List, Look
<1>9. CASE MovesTicket \/ TouchesPr \/ Crash \/ Sweep \/ UNCHANGED vars
  BY <1>2, <1>9 DEF MovesTicket, TouchesPr, Crash, Sweep, vars
<1>10. ASSUME NEW o \in Owner,
              Decide(o) \/ Comment(o) \/ RecordFeedback(o) \/ Requeue(o) \/ Closeout(o)
       PROVE  UNCHANGED cards
  BY <1>10 DEF Decide, Comment, RecordFeedback, Requeue, Closeout
<1> QED
  BY <1>2, <1>3, <1>4, <1>5, <1>6, <1>7, <1>8, <1>9, <1>10 DEF Next, RunStep, Reconcile, ReqStep

\* A claimed card is not pending, so nobody else can claim it.
LEMMA ClaimsStep ==
    ASSUME Typing, Claims, [Next]_vars
    PROVE  Claims'
<1>1. /\ \A c \in Cards : c \in Pending <=> cards[c].status = "pending"
      /\ \A o \in Owner :
           AtWork(o) => req[o].card \in Cards /\ cards[req[o].card].status # "pending"
      /\ \A o, x \in Owner : o # x /\ AtWork(o) /\ AtWork(x) => req[o].card # req[x].card
  BY AtRows DEF Claims, DecidedOnce, Pending, Cards
\* The requests stand still, or are all gone.
<1>2. ASSUME UNCHANGED req, \A o \in Owner : ~Finalize(o)
      PROVE  Claims'
  <2>1. DecidedOnce'
    BY <1>2 DEF Claims, DecidedOnce, AtWork
  <2>2. ASSUME NEW o \in Owner, AtWork(o)
        PROVE  cards'[req[o].card].status # "pending"
    <3>1. req[o].card \in Cards /\ cards[req[o].card].status # "pending"
      BY <1>1, <2>2
    <3>2. Write => rec.to \in {"approved", "stale"}
      BY AtRows DEF Write
    <3> QED
      BY <1>2, <3>1, <3>2, StatusStep
  <2> QED
    BY <1>2, <2>1, <2>2 DEF Claims, AtWork
<1>3. CASE Crash
  BY <1>3 DEF Crash, Claims, DecidedOnce, AtWork, Idle
\* A request goes on with its card or lets it go.
<1>4. ASSUME NEW o \in Owner,
             UNCHANGED cards, \A x \in Owner : x # o => req'[x] = req[x],
             AtWork(o)' => AtWork(o) /\ req'[o].card = req[o].card
      PROVE  Claims'
  BY <1>1, <1>4 DEF Claims, DecidedOnce, AtWork
<1>5. ASSUME NEW o \in Owner,
             Decide(o) \/ Comment(o) \/ RecordFeedback(o) \/ Requeue(o) \/ Closeout(o)
      PROVE  Claims'
  <2>1. UNCHANGED cards
    BY <1>5 DEF Decide, Comment, RecordFeedback, Requeue, Closeout
  <2>2. /\ \A x \in Owner : x # o => req'[x] = req[x]
        /\ AtWork(o)' => AtWork(o) /\ req'[o].card = req[o].card
    BY <1>5, DecideEffect, MiddleEffect, CloseoutEffect DEF AtWork
  <2> QED
    BY <1>4, <2>1, <2>2
<1>6. ASSUME NEW o \in Owner, Finalize(o)
      PROVE  Claims'
  <2>1. /\ \A x \in Owner : x # o => req'[x] = req[x]
        /\ AtWork(o) /\ req[o].card \in Cards /\ req[o].to \in Status
        /\ AtWork(o)' => req'[o].card = req[o].card /\ req[o].to = "approved"
    BY <1>6, FinalizeEffect, AtRows DEF AtWork
  <2>2. CASE UNCHANGED cards
    BY <1>4, <2>1, <2>2
  <2>3. CASE SetStatus(req[o].card, req[o].to)
    <3>1. /\ cards'[req[o].card].status = req[o].to
          /\ \A d \in Cards : d # req[o].card => cards'[d] = cards[d]
      BY <2>1, <2>3, StatusSet DEF Typing
    <3>2. \A x \in Owner : x # o /\ AtWork(x)' => cards'[req'[x].card].status # "pending"
      BY <1>1, <2>1, <3>1 DEF AtWork
    <3>3. AtWork(o)' => cards'[req'[o].card].status # "pending"
      BY <2>1, <3>1
    <3>4. DecidedOnce'
      BY <1>1, <2>1 DEF DecidedOnce, AtWork
    <3> QED
      BY <3>2, <3>3, <3>4 DEF Claims
  <2> QED
    BY <1>6, <2>2, <2>3 DEF Finalize
<1>7. ASSUME NEW o \in Owner, NEW c \in DOMAIN cards, Approve(o, c) \/ Pushback(o, c)
      PROVE  Claims'
  <2>1. c \in Cards
    BY DEF Cards
  <2>2. /\ \A x \in Owner : x # o => req'[x] = req[x]
        /\ ~AtWork(o) /\ cards[c].status = "pending"
        /\ AtWork(o)' => req'[o].card = c
    BY <1>1, <1>7, <2>1, ClickEffect DEF AtWork
  <2>3. PICK s \in {"approved", "pushed_back"} : SetStatus(c, s)
    BY <1>7 DEF Approve, Pushback, Claim
  <2>4. cards'[c].status = s /\ \A d \in Cards : d # c => cards'[d] = cards[d]
    BY <2>1, <2>3, StatusSet DEF Typing, Status
  <2>5. \A x \in Owner : x # o /\ AtWork(x)' =>
           req'[x].card # c /\ cards'[req'[x].card].status # "pending"
    BY <1>1, <2>2, <2>4 DEF AtWork
  <2>6. AtWork(o)' => cards'[req'[o].card].status # "pending"
    BY <2>2, <2>4
  <2>7. DecidedOnce'
    BY <1>1, <2>2, <2>5 DEF DecidedOnce, AtWork
  <2> QED
    BY <2>5, <2>6, <2>7 DEF Claims
<1>8. CASE RunStep \/ RunBegins \/ Reconcile \/ MovesTicket \/ TouchesPr \/ Sweep \/ UNCHANGED vars
  <2>1. UNCHANGED req
    BY <1>8 DEF RunStep, RunTakes, RunGivesUp, RunDelivers, RunAbandons, RunMerges,
                RunSupersedes, RunInserts, RunCloses, RunSettles, RunBegins, Reconcile,
                List, Look, Write, MovesTicket, TouchesPr, Sweep, vars
  <2> QED
    BY <1>2, <1>6, <2>1
<1> QED
  BY <1>3, <1>5, <1>6, <1>7, <1>8 DEF Next, ReqStep

\* Where the owner's last word is, step by step.
LEMMA HeardStep ==
    ASSUME Typing, Heard, [Next]_vars
    PROVE  Heard'
<1> DEFINE n == Len(about)
           h == run.held
<1>1. /\ n \in Nat /\ directive \in 0 .. n /\ spent \in 0 .. n /\ h \in 0 .. n /\ Latest = n
      /\ burned \subseteq burned'
  BY WordsStep, CostsStep DEF Typing, Words, RunType, Latest
<1>2. /\ n \in {directive, h, spent} \cup burned
      /\ directive \in {0, n}
      /\ h # 0 /\ run.pr = 0 => n \in {h, directive}
      /\ h # 0 /\ run.pr # 0 => h = spent
  BY DEF Heard, LastWordKept, Latest
<1>3. ASSUME UNCHANGED <<about, directive, spent>>, run'.held = h, run'.pr = run.pr
      PROVE  Heard'
  BY <1>1, <1>2, <1>3 DEF Heard, LastWordKept, Latest
<1>4. CASE Crash
  <2>1. /\ run'.held = 0 /\ UNCHANGED <<about, directive, spent>>
        /\ h # 0 /\ run.pr = 0 => h \in burned'
    BY <1>4 DEF Crash, NoRun, Owed
  <2>2. n \in {directive, 0, spent} \cup burned'
    BY <1>1, <1>2, <2>1
  <2> QED
    BY <1>1, <1>2, <2>1, <2>2 DEF Heard, LastWordKept, Latest
<1>5. CASE RunTakes
  <2>1. UNCHANGED <<about, spent>> /\ run.at = "begun"
    BY <1>5 DEF RunTakes
  <2>2. run.pr = 0 /\ h = 0
    BY <2>1 DEF Typing, RunType
  <2>3. CASE run' = [run EXCEPT !.at = "took", !.held = directive] /\ directive' = 0
    <3>1. run'.held = directive /\ run'.pr = run.pr
      BY <2>3 DEF Typing, RunType
    <3> QED
      BY <1>1, <1>2, <2>1, <2>2, <2>3, <3>1 DEF Heard, LastWordKept, Latest
  <2>4. CASE run' = [run EXCEPT !.at = "settle"] /\ UNCHANGED directive
    <3>1. run'.held = h /\ run'.pr = run.pr
      BY <2>4 DEF Typing, RunType
    <3> QED
      BY <1>3, <2>1, <2>4, <3>1
  <2>5. CASE run' = [run EXCEPT !.at = "settle"] /\ directive' = 0 /\ Loses({directive} \ {0}, {})
    <3>1. run'.held = h /\ run'.pr = run.pr
      BY <2>5 DEF Typing, RunType
    <3>2. directive # 0 => directive \in burned'
      BY <2>5 DEF Loses
    <3>3. n \in {0, 0, spent} \cup burned'
      BY <1>1, <1>2, <2>2, <3>2
    <3> QED
      BY <1>1, <2>1, <2>2, <2>5, <3>1, <3>3 DEF Heard, LastWordKept, Latest
  <2> QED
    BY <1>5, <2>3, <2>4, <2>5 DEF RunTakes
<1>6. CASE RunSettles
  <2>1. run' = NoRun /\ UNCHANGED <<about, spent>>
    BY <1>6 DEF RunSettles
  <2>2. run'.held = 0
    BY <2>1 DEF NoRun
  <2>3. CASE Owed # {} /\ directive' = Restored(run.held)
    <3>1. h # 0 /\ run.pr = 0 /\ directive' = IF directive = 0 THEN h ELSE directive
      BY <2>3 DEF Restored, Owed
    <3>2. directive' = n
      BY <1>1, <1>2, <3>1
    <3> QED
      BY <1>1, <2>1, <2>2, <3>2 DEF Heard, LastWordKept, Latest
  <2>4. CASE UNCHANGED directive /\ (Owed = {} \/ Loses(Owed, {}))
    <3>1. Owed \subseteq burned'
      BY <2>4 DEF Loses
    <3>2. h # 0 /\ run.pr = 0 => h \in burned'
      BY <3>1 DEF Owed
    <3>3. n \in {directive, 0, spent} \cup burned'
      BY <1>1, <1>2, <3>2
    <3> QED
      BY <1>1, <1>2, <2>1, <2>2, <2>4, <3>3 DEF Heard, LastWordKept, Latest
  <2> QED
    BY <1>6, <2>3, <2>4 DEF RunSettles
<1>7. CASE RunDelivers
  <2>1. UNCHANGED <<about, directive>> /\ run.at = "took" /\ run.pr = 0
    BY <1>7 DEF RunDelivers, Typing, RunType
  <2>2. CASE run' = [run EXCEPT !.at = "settle"] /\ UNCHANGED spent
    <3>1. run'.held = h /\ run'.pr = run.pr
      BY <2>2 DEF Typing, RunType
    <3> QED
      BY <1>3, <2>1, <2>2, <3>1
  <2>3. CASE /\ prs' = PushOf(commits + 1) /\ commits' = commits + 1
             /\ \E sha \in {0, commits + 1} :
                  run' = [run EXCEPT !.at = "delivered", !.pr = Len(prs'), !.sha = sha]
             /\ spent' = (IF run.held # 0 THEN run.held ELSE spent)
    <3>1. run'.held = h /\ run'.pr = Len(prs')
      BY <2>3 DEF Typing, RunType
    <3>2. Len(prs') # 0
      BY <2>3, Pushed DEF Typing
    <3>3. spent' = IF h # 0 THEN h ELSE spent
      BY <2>3
    <3> QED
      BY <1>1, <1>2, <2>1, <3>1, <3>2, <3>3 DEF Heard, LastWordKept, Latest
  <2> QED
    BY <1>7, <2>2, <2>3 DEF RunDelivers
<1>8. CASE \/ RunGivesUp \/ RunAbandons \/ RunMerges \/ RunSupersedes \/ RunInserts \/ RunCloses
           \/ RunBegins
  <2>1. UNCHANGED <<about, directive, spent>>
    BY <1>8 DEF RunGivesUp, RunAbandons, RunMerges, RunSupersedes, RunInserts, RunCloses, RunBegins
  <2>2. CASE RunBegins
    <3>1. run'.held = 0 /\ run'.pr = 0
      BY <2>2 DEF RunBegins, NoRun
    <3>2. h = 0 /\ run.pr = 0
      BY <2>2 DEF RunBegins, Typing, RunType
    <3> QED
      BY <1>3, <2>1, <3>1, <3>2
  <2>3. CASE RunGivesUp \/ RunAbandons \/ RunMerges \/ RunSupersedes \/ RunInserts \/ RunCloses
    <3>1. \/ \E a \in {"settle", "close", "again", "insert"} : run' = [run EXCEPT !.at = a]
          \/ run' = [run EXCEPT !.at = IF run.tries + 1 < InsertAttempts THEN "again" ELSE "close",
                                !.tries = @ + 1]
      BY <2>3 DEF RunGivesUp, RunAbandons, RunMerges, RunSupersedes, RunInserts, RunCloses
    <3>2. run'.held = h /\ run'.pr = run.pr
      BY <3>1 DEF Typing, RunType
    <3> QED
      BY <1>3, <2>1, <3>2
  <2> QED
    BY <1>8, <2>2, <2>3
<1>9. CASE Reconcile \/ MovesTicket \/ TouchesPr \/ Sweep \/ UNCHANGED vars
  <2>1. UNCHANGED <<about, directive, spent, run>>
    BY <1>9 DEF Reconcile, List, Look, Write, MovesTicket, TouchesPr, Sweep, vars
  <2> QED
    BY <1>3, <2>1
<1>10. ASSUME NEW o \in Owner, RecordFeedback(o)
       PROVE  Heard'
  <2>1. CASE UNCHANGED <<about, directive>>
    BY <1>3, <1>10, <2>1 DEF RecordFeedback, Said
  <2>2. CASE about' = Append(about, req[o].card) /\ directive' = Len(about')
    <3>1. UNCHANGED <<run, spent>>
      BY <1>10 DEF RecordFeedback, Said
    <3> QED
      BY <1>2, <2>2, <3>1 DEF Heard, LastWordKept, Latest
  <2> QED
    BY <1>10, <2>1, <2>2 DEF RecordFeedback, Said
<1>11. ASSUME NEW o \in Owner, Decide(o) \/ Comment(o) \/ Requeue(o) \/ Finalize(o) \/ Closeout(o)
       PROVE  UNCHANGED <<about, directive, spent, run>>
  BY <1>11 DEF Decide, Comment, Requeue, Finalize, Closeout
<1>12. ASSUME NEW o \in Owner, NEW c \in DOMAIN cards, Approve(o, c) \/ Pushback(o, c)
       PROVE  UNCHANGED <<about, directive, spent, run>>
  BY <1>12 DEF Approve, Pushback, Claim
<1> QED
  BY <1>3, <1>4, <1>5, <1>6, <1>7, <1>8, <1>9, <1>10, <1>11, <1>12 DEF Next, RunStep, ReqStep

-----------------------------------------------------------------------------
\* What is merged or closed stays so; a merge from the inbox is the only step that
\* records a card, and it takes an open pull request.
LEMMA PrsStep ==
    ASSUME Typing, [Next]_vars, \A p \in Prs : prs[p].for # 0 => prs[p].state = "merged"
    PROVE  /\ \A p \in Prs : prs[p].state # "open" => prs'[p] = prs[p]
           /\ \A p \in Prs : prs'[p].for # prs[p].for =>
                /\ prs[p].state = "open" /\ prs'[p].state = "merged"
                /\ \E o \in Owner : /\ Decide(o) /\ prs'[p].for = req[o].card
                                    /\ cards[req[o].card].pr = p
                                    /\ Move(o, "finalize", "approved") \/ faults' # 0
           /\ \A p \in Prs' : p \notin Prs => prs'[p].for = 0 /\ prs'[p].state = "open"
<1>1. Rows /\ Len(prs) \in Nat /\ Prs = 1 .. Len(prs)
  BY RowFacts DEF Typing
<1>2. CASE UNCHANGED prs
  BY <1>2 DEF Prs
<1>3. ASSUME prs' = PushOf(commits + 1)
      PROVE  /\ \A p \in Prs : prs'[p].state = prs[p].state /\ prs'[p].for = prs[p].for
             /\ \A p \in Prs : prs[p].state # "open" => prs'[p] = prs[p]
             /\ \A p \in Prs' : p \notin Prs => prs'[p].for = 0 /\ prs'[p].state = "open"
  BY <1>1, <1>3, Pushed DEF Prs
<1>4. ASSUME NEW q \in Prs, NEW s \in {"merged", "closed"}, prs[q].state = "open",
             prs' = [prs EXCEPT ![q].state = s]
      PROVE  /\ \A p \in Prs : prs[p].state # "open" => prs'[p] = prs[p]
             /\ \A p \in Prs : prs'[p].for = prs[p].for
             /\ Prs' = Prs
  <2>1. /\ DOMAIN prs' = Prs /\ prs'[q].for = prs[q].for
        /\ \A p \in Prs : p # q => prs'[p] = prs[p]
    BY <1>1, <1>4, StateSet
  <2> QED
    BY <1>4, <2>1 DEF Prs
<1>5. CASE RunDelivers
  <2>1. prs' = prs \/ prs' = PushOf(commits + 1)
    BY <1>5 DEF RunDelivers
  <2> QED
    BY <1>2, <1>3, <2>1
<1>6. CASE RunMerges
  <2>1. /\ run.pr \in Prs /\ prs[run.pr].state = "open"
        /\ prs' = [prs EXCEPT ![run.pr].state = "merged"]
    BY <1>6, AtRows DEF RunMerges, Fresh
  <2> QED
    BY <1>4, <2>1
<1>7. CASE TouchesPr
  <2>1. CASE prs' = PushOf(commits + 1)
    BY <1>3, <2>1
  <2>2. CASE \E s \in {"merged", "closed"} : prs' = [prs EXCEPT ![Len(prs)].state = s]
    <3>1. Len(prs) \in Prs
      <4>1. Len(prs) > 0
        BY <1>1, <1>7, EmptySeq DEF TouchesPr, Rows
      <4> QED
        BY <1>1, <4>1
    <3>2. prs[Len(prs)].state = "open"
      BY <1>7 DEF TouchesPr
    <3> QED
      BY <1>4, <2>2, <3>1, <3>2
  <2> QED
    BY <1>7, <2>1, <2>2 DEF TouchesPr
<1>8. ASSUME NEW o \in Owner, Decide(o), ~UNCHANGED prs
      PROVE  LET c == req[o].card IN
             /\ \A p \in Prs : prs[p].state # "open" => prs'[p] = prs[p]
             /\ \A p \in Prs : prs'[p].for # prs[p].for =>
                  /\ prs[p].state = "open" /\ prs'[p].state = "merged"
                  /\ prs'[p].for = c /\ cards[c].pr = p
                  /\ Move(o, "finalize", "approved") \/ faults' # 0
             /\ Prs' = Prs
  <2> DEFINE c == req[o].card
             q == cards[c].pr
             ps == [prs EXCEPT ![q].state = "merged", ![q].for = IF @ = 0 THEN c ELSE @]
  <2>1. c \in Cards /\ q \in Prs
    BY <1>8, AtRows DEF Decide, AtWork
  <2>2. /\ prs[q].state = "open" /\ prs' = ps
        /\ Move(o, "finalize", "approved") \/ Fault
    BY <1>8 DEF Decide, Fresh
  <2>3. Fault => faults' # 0
    BY InboxAssumption DEF Fault, Loses, Typing, World, InboxAssumption
  <2>4. /\ DOMAIN ps = Prs /\ ps[q].state = "merged"
        /\ prs[q].for = 0 => ps[q].for = c
        /\ prs[q].for # 0 => ps[q].for = prs[q].for
        /\ \A p \in Prs : p # q => ps[p] = prs[p]
    <3> HIDE DEF c, q
    <3> QED
      BY <1>1, <2>1, MergedFor
  <2> HIDE DEF ps
  <2> QED
    BY <2>1, <2>2, <2>3, <2>4 DEF Prs
<1>9. CASE RunBegins \/ Reconcile \/ MovesTicket \/ Crash \/ Sweep \/ UNCHANGED vars
  BY <1>2, <1>9 DEF RunBegins, Reconcile, List, Look, Write, MovesTicket, Crash, Sweep, vars, github
<1>10. CASE \/ RunTakes \/ RunGivesUp \/ RunAbandons \/ RunSupersedes \/ RunInserts \/ RunCloses
            \/ RunSettles
  BY <1>2, <1>10 DEF RunTakes, RunGivesUp, RunAbandons, RunSupersedes, RunInserts, RunCloses,
                     RunSettles, github
<1>11. ASSUME NEW o \in Owner,
              Comment(o) \/ RecordFeedback(o) \/ Requeue(o) \/ Finalize(o) \/ Closeout(o)
       PROVE  UNCHANGED prs
  BY <1>11 DEF Comment, RecordFeedback, Requeue, Finalize, Closeout, github
<1>12. ASSUME NEW o \in Owner, NEW c \in DOMAIN cards, Approve(o, c) \/ Pushback(o, c)
       PROVE  UNCHANGED prs
  BY <1>12 DEF Approve, Pushback, Claim, github
<1>13. ASSUME NEW o \in Owner, Decide(o)
       PROVE  /\ \A p \in Prs : prs[p].state # "open" => prs'[p] = prs[p]
              /\ \A p \in Prs : prs'[p].for # prs[p].for =>
                   /\ prs[p].state = "open" /\ prs'[p].state = "merged"
                   /\ \E x \in Owner : /\ Decide(x) /\ prs'[p].for = req[x].card
                                       /\ cards[req[x].card].pr = p
                                       /\ Move(x, "finalize", "approved") \/ faults' # 0
              /\ \A p \in Prs' : p \notin Prs => prs'[p].for = 0 /\ prs'[p].state = "open"
  <2>1. CASE UNCHANGED prs
    BY <2>1 DEF Prs
  <2>2. CASE ~UNCHANGED prs
    BY <1>8, <1>13, <2>2
  <2> QED
    BY <2>1, <2>2
<1> QED
  BY <1>2, <1>5, <1>6, <1>7, <1>9, <1>10, <1>11, <1>12, <1>13 DEF Next, RunStep, ReqStep

\* What is merged for a card, and what is about to be written to it.
LEMMA MergeFactsStep ==
    ASSUME Typing, Claims, MergeFacts, [Next]_vars
    PROVE  MergeFacts'
<1>1. /\ \A p \in Prs : prs[p].for # 0 =>
           prs[p].for \in Cards /\ prs[p].state = "merged" /\ cards[prs[p].for].pr = p
      /\ \A c \in Cards : c # 0 /\ cards[c].pr \in Prs
      /\ \A o \in Owner :
           AtWork(o) => req[o].card \in Cards /\ cards[req[o].card].status # "pending"
      /\ \A o, x \in Owner : o # x /\ AtWork(o) /\ AtWork(x) => req[o].card # req[x].card
  <2>1. \A p \in Prs : prs[p].for # 0 => prs[p].for \in Cards
    BY RowFacts DEF Typing, PrRow
  <2>2. \A c \in Cards : c # 0
    BY RowFacts DEF Typing
  <2> QED
    BY <2>1, <2>2, AtRows DEF MergeFacts, Claims, DecidedOnce
<1>2. /\ Cards \subseteq Cards' /\ Prs \subseteq Prs' /\ \A c \in Cards : cards'[c].pr = cards[c].pr
      /\ \A p \in Prs : prs[p].state # "open" =>
           prs'[p].state = prs[p].state /\ prs'[p].for = prs[p].for
      /\ \A p \in Prs : prs'[p].for # prs[p].for =>
           /\ prs[p].state = "open" /\ prs'[p].state = "merged"
           /\ \E o \in Owner : /\ Decide(o) /\ prs'[p].for = req[o].card
                               /\ cards[req[o].card].pr = p
                               /\ Move(o, "finalize", "approved") \/ faults' # 0
      /\ \A p \in Prs' : p \notin Prs => prs'[p].for = 0
  BY <1>1, RowsStep, PrsStep DEF Grown
\* A decision is made about a card that is not closed, or finds its pull request closed.
<1>3. /\ \A c \in Cards : Closed(c) => prs'[cards'[c].pr].state = "closed"
      /\ \A o \in Owner : Decide(o) => AtWork(o) /\ req[o].card \in Cards /\ UNCHANGED cards
  <2>1. \A c \in Cards : Closed(c) => prs'[cards'[c].pr].state = "closed"
    <3> SUFFICES ASSUME NEW c \in Cards, Closed(c)
                 PROVE  prs'[cards'[c].pr].state = "closed"
      OBVIOUS
    <3>1. cards[c].pr \in Prs /\ prs[cards[c].pr].state = "closed" /\ cards'[c].pr = cards[c].pr
      BY <1>1, <1>2 DEF Closed
    <3> QED
      BY <1>2, <3>1
  <2>2. \A o \in Owner : Decide(o) => AtWork(o) /\ UNCHANGED cards
    BY DEF Decide, AtWork
  <2> QED
    BY <1>1, <2>1, <2>2
<1>4. /\ rec.at = "write" /\ rec.to = "stale" => Closed(rec.card)
      /\ \A o \in Owner : req[o].at = "decide" =>
           cards[req[o].card].status = "approved" \/ Closed(req[o].card)
      /\ faults = 0 => \A p \in Prs : prs[p].for # 0 => cards[prs[p].for].status = "approved"
      /\ faults = 0 => \A o \in Owner : AtWork(o) /\ prs[cards[req[o].card].pr].for = req[o].card =>
           req[o].to = "approved" /\ req[o].at \in {"finalize", "closeout"}
      /\ rec.at = "write" => rec.card \in Cards /\ rec.to \in {"approved", "stale"}
      /\ faults' = 0 => faults = 0
  BY AtRows, WorldStep, InboxAssumption
  DEF MergeFacts, MergedStaysApproved, Typing, World, InboxAssumption
\* What was merged for a card is of that card.
<1>5. \A p \in Prs' : prs'[p].for # 0 => prs'[p].state = "merged" /\ cards'[prs'[p].for].pr = p
  <2> SUFFICES ASSUME NEW p \in Prs, prs'[p].for # 0
               PROVE  prs'[p].state = "merged" /\ cards'[prs'[p].for].pr = p
    BY <1>2
  <2>1. CASE prs'[p].for = prs[p].for
    BY <1>1, <1>2, <2>1
  <2>2. CASE prs'[p].for # prs[p].for
    BY <1>2, <1>3, <2>2
  <2> QED
    BY <2>1, <2>2
\* The pass retires a card as stale for a closed pull request only.
<1>6. rec'.at = "write" /\ rec'.to = "stale" => rec'.card \in Cards /\ Closed(rec'.card)
  <2>1. CASE UNCHANGED rec
    BY <1>4, <2>1
  <2>2. CASE List \/ Write \/ Crash
    BY <2>2 DEF List, Write, Crash, Idle
  <2>3. CASE Look
    <3>1. CASE rec' = Idle
      BY <3>1 DEF Idle
    <3>2. CASE /\ RetiredTo(prs[cards[rec.card].pr].state) # "pending"
               /\ rec' = [rec EXCEPT !.at = "write",
                                     !.to = RetiredTo(prs[cards[rec.card].pr].state)]
      <4>1. rec'.card = rec.card /\ rec'.to = RetiredTo(prs[cards[rec.card].pr].state)
        BY <3>2 DEF Typing, RecType
      <4>2. rec.card \in Cards
        BY <2>3, AtRows DEF Look
      <4>3. \A s : RetiredTo(s) = "stale" => s = "closed"
        BY DEF RetiredTo
      <4> QED
        BY <4>1, <4>2, <4>3 DEF Closed
    <3> QED
      BY <2>3, <3>1, <3>2 DEF Look
  <2>4. CASE RunStep \/ RunBegins \/ MovesTicket \/ TouchesPr \/ Sweep \/ UNCHANGED vars
    BY <2>1, <2>4 DEF RunStep, RunTakes, RunGivesUp, RunDelivers, RunAbandons, RunMerges,
                      RunSupersedes, RunInserts, RunCloses, RunSettles, RunBegins, MovesTicket,
                      TouchesPr, Sweep, vars
  <2>5. ASSUME NEW o \in Owner, ReqStep(o)
        PROVE  UNCHANGED rec
    BY <2>5 DEF ReqStep, Decide, Comment, RecordFeedback, Requeue, Finalize, Closeout
  <2>6. ASSUME NEW o \in Owner, NEW c \in DOMAIN cards, Approve(o, c) \/ Pushback(o, c)
        PROVE  UNCHANGED rec
    BY <2>6 DEF Approve, Pushback, Claim
  <2> QED
    BY <2>1, <2>2, <2>3, <2>4, <2>5, <2>6 DEF Next, Reconcile
\* How a request came to its place: from its place before, by a click, or not at all.
<1>7. \A o \in Owner :
        \/ req'[o] = req[o] /\ ~Finalize(o) /\ ~Decide(o)
        \/ AtWork(o)' => /\ AtWork(o) /\ req'[o].card = req[o].card /\ req'[o].at # "decide"
                         /\ \/ Decide(o) /\ (Move(o, "finalize", "approved") =>
                                               req'[o].at = "finalize" /\ req'[o].to = "approved")
                            \/ Comment(o) \/ RecordFeedback(o) \/ Requeue(o)
                            \/ Finalize(o) /\ req'[o].at = "closeout" /\ req'[o].to = "approved"
        \/ \E c \in Cards : /\ Approve(o, c) \/ Pushback(o, c)
                            /\ req'[o].card = c /\ c \in Pending
                            /\ req'[o].at = "decide" => Approve(o, c)
  <2> SUFFICES ASSUME NEW o \in Owner, ~(req'[o] = req[o] /\ ~Finalize(o) /\ ~Decide(o)), AtWork(o)'
               PROVE
        \/ /\ AtWork(o) /\ req'[o].card = req[o].card /\ req'[o].at # "decide"
           /\ \/ Decide(o) /\ (Move(o, "finalize", "approved") =>
                                 req'[o].at = "finalize" /\ req'[o].to = "approved")
              \/ Comment(o) \/ RecordFeedback(o) \/ Requeue(o)
              \/ Finalize(o) /\ req'[o].at = "closeout" /\ req'[o].to = "approved"
        \/ \E c \in Cards : /\ Approve(o, c) \/ Pushback(o, c)
                            /\ req'[o].card = c /\ c \in Pending
                            /\ req'[o].at = "decide" => Approve(o, c)
    OBVIOUS
  <2>1. ReqStep(o) \/ \E c \in DOMAIN cards : Approve(o, c) \/ Pushback(o, c)
    <3>1. CASE \E x \in Owner : ReqStep(x)
      <4>1. PICK x \in Owner : ReqStep(x)
        BY <3>1
      <4>2. CASE x # o
        <5>1. req'[o] = req[o]
          BY <4>1, <4>2, DecideEffect, MiddleEffect, FinalizeEffect, CloseoutEffect DEF ReqStep
        <5> QED
          BY <5>1 DEF ReqStep
      <4> QED
        BY <4>1, <4>2
    <3>2. CASE \E x \in Owner, c \in DOMAIN cards : Approve(x, c) \/ Pushback(x, c)
      <4>1. PICK x \in Owner, c \in DOMAIN cards : Approve(x, c) \/ Pushback(x, c)
        BY <3>2
      <4>2. CASE x # o
        <5>1. req'[o] = req[o]
          BY <4>1, <4>2, ClickEffect DEF Cards
        <5> QED
          BY <5>1 DEF ReqStep
      <4> QED
        BY <4>1, <4>2
    <3>3. CASE Crash
      BY <3>3 DEF Crash, Idle, AtWork
    <3>4. CASE \/ RunStep \/ RunBegins \/ Reconcile \/ MovesTicket \/ TouchesPr \/ Sweep
               \/ UNCHANGED vars
      <4>1. req' = req
        BY <3>4 DEF RunStep, RunTakes, RunGivesUp, RunDelivers, RunAbandons, RunMerges,
                    RunSupersedes, RunInserts, RunCloses, RunSettles, RunBegins, Reconcile,
                    List, Look, Write, MovesTicket, TouchesPr, Sweep, vars
      <4> QED
        BY <4>1 DEF ReqStep
    <3> QED
      BY <3>1, <3>2, <3>3, <3>4 DEF Next
  <2>2. CASE Decide(o)
    BY <2>2, DecideEffect
  <2>3. CASE Comment(o) \/ RecordFeedback(o) \/ Requeue(o)
    BY <2>3, MiddleEffect
  <2>4. CASE Finalize(o)
    BY <2>4, FinalizeEffect DEF AtWork
  <2>5. CASE Closeout(o)
    BY <2>5, CloseoutEffect DEF AtWork
  <2>6. CASE \E c \in DOMAIN cards : Approve(o, c) \/ Pushback(o, c)
    <3>1. PICK c \in Cards : Approve(o, c) \/ Pushback(o, c)
      BY <2>6 DEF Cards
    <3>2. /\ ~AtWork(o) /\ c \in Pending
          /\ req' = req \/ (req'[o].card = c /\ (req'[o].at = "decide" => Approve(o, c)))
      BY <3>1, ClickEffect
    <3>3. req' # req
      BY <3>2 DEF AtWork
    <3> QED
      BY <3>1, <3>2, <3>3
  <2> QED
    BY <2>1, <2>2, <2>3, <2>4, <2>5, <2>6 DEF ReqStep
\* Nobody but the card's own request and the pass write an approved card.
<1>8. ASSUME NEW c \in Cards, cards[c].status = "approved"
      PROVE  \/ cards'[c].status = "approved"
             \/ Closed(c)
             \/ \E o \in Owner : Finalize(o) /\ req[o].card = c /\ cards'[c].status = req[o].to
  <2>1. CASE Write /\ rec.card = c /\ cards'[c].status = rec.to
    BY <1>4, <2>1 DEF Write
  <2> QED
    BY <1>8, <2>1, StatusStep
<1>9. \A o \in Owner : req'[o].at = "decide" =>
        req'[o].card \in Cards /\ (cards'[req'[o].card].status = "approved" \/ Closed(req'[o].card))
  <2> SUFFICES ASSUME NEW o \in Owner, req'[o].at = "decide"
               PROVE  req'[o].card \in Cards
                      /\ (cards'[req'[o].card].status = "approved" \/ Closed(req'[o].card))
    OBVIOUS
  <2>1. CASE req'[o] = req[o] /\ ~Finalize(o)
    <3> DEFINE c == req[o].card
    <3>1. AtWork(o) /\ c \in Cards /\ (cards[c].status = "approved" \/ Closed(c))
      BY <1>1, <1>4, <2>1 DEF AtWork
    <3>2. \A x \in Owner : Finalize(x) => req[x].card # c
      BY <1>1, <2>1, <3>1 DEF Finalize, AtWork
    <3> QED
      BY <1>8, <2>1, <3>1, <3>2
  <2>2. CASE \E c \in Cards : Approve(o, c) /\ req'[o].card = c
    <3>1. PICK c \in Cards : Approve(o, c) /\ req'[o].card = c
      BY <2>2
    <3>2. cards'[c].status = "approved"
      BY <3>1, StatusSet DEF Approve, Claim, Typing, Status
    <3> QED
      BY <3>1, <3>2
  <2> QED
    BY <1>7, <2>1, <2>2 DEF AtWork
\* A merge from the inbox stands.
<1>10. ASSUME faults' = 0, NEW p \in Prs', prs'[p].for # 0
       PROVE  cards'[prs'[p].for].status = "approved"
  <2>1. p \in Prs /\ faults = 0
    BY <1>2, <1>4, <1>10
  <2>2. CASE prs'[p].for # prs[p].for
    <3>1. PICK o \in Owner : Decide(o) /\ prs'[p].for = req[o].card /\ cards[req[o].card].pr = p
      BY <1>2, <2>1, <2>2
    <3>2. ~Closed(req[o].card)
      BY <1>2, <2>1, <2>2, <3>1 DEF Closed
    <3>3. cards[req[o].card].status = "approved" /\ cards' = cards
      BY <1>3, <1>4, <3>1, <3>2 DEF Decide
    <3> QED
      BY <3>1, <3>3
  <2>3. CASE prs'[p].for = prs[p].for
    <3> DEFINE c == prs[p].for
    <3>1. c \in Cards /\ cards[c].status = "approved" /\ prs[p].state = "merged" /\ cards[c].pr = p
      BY <1>1, <1>4, <1>10, <2>1, <2>3
    <3>2. ~Closed(c)
      BY <3>1 DEF Closed
    <3>3. \A o \in Owner : Finalize(o) /\ req[o].card = c => req[o].to = "approved"
      BY <1>4, <2>1, <3>1 DEF Finalize, AtWork
    <3> QED
      BY <1>8, <2>3, <3>1, <3>2, <3>3
  <2> QED
    BY <2>2, <2>3
\* Whoever has merged is on the way to write that it did.
<1>11. ASSUME faults' = 0, NEW o \in Owner, AtWork(o)',
              prs'[cards'[req'[o].card].pr].for = req'[o].card
       PROVE  req'[o].to = "approved" /\ req'[o].at \in {"finalize", "closeout"}
  <2> DEFINE c == req'[o].card
             p == cards[c].pr
  <2>1. ASSUME c \in Cards, \A x \in Owner : Decide(x) => req[x].card # c
        PROVE  prs[p].for = c /\ p \in Prs /\ faults = 0 /\ cards[c].status = "approved"
    <3>1. p \in Prs /\ prs'[p].for = c /\ c # 0 /\ faults = 0
      BY <1>1, <1>2, <1>4, <1>11, <2>1
    <3>2. prs'[p].for = prs[p].for
      BY <1>2, <2>1, <3>1
    <3> QED
      BY <1>4, <3>1, <3>2
  <2>2. CASE req'[o] = req[o] /\ ~Decide(o)
    <3>1. AtWork(o) /\ c = req[o].card /\ c \in Cards
      BY <1>1, <1>11, <2>2 DEF AtWork
    <3>2. \A x \in Owner : Decide(x) => req[x].card # c
      BY <1>1, <1>3, <2>2, <3>1
    <3> QED
      BY <1>4, <2>1, <2>2, <3>1, <3>2
  <2>3. CASE AtWork(o) /\ c = req[o].card /\ Decide(o)
    <3>1. c \in Cards /\ p \in Prs /\ faults = 0 /\ prs'[p].for = c
      BY <1>1, <1>2, <1>4, <1>11, <2>3
    <3>2. prs[p].for # c
      BY <1>4, <2>3, <3>1 DEF Decide
    <3>3. PICK x \in Owner : /\ Decide(x) /\ prs'[p].for = req[x].card
                             /\ Move(x, "finalize", "approved") \/ faults' # 0
      BY <1>2, <3>1, <3>2
    <3>4. x = o
      <4>1. AtWork(x) /\ req[x].card = c
        BY <1>3, <3>1, <3>3
      <4> QED
        BY <1>1, <2>3, <4>1
    <3> QED
      BY <1>11, <2>3, <3>3, <3>4, DecideEffect
  <2>4. CASE AtWork(o) /\ c = req[o].card /\ (Comment(o) \/ RecordFeedback(o) \/ Requeue(o))
    <3>1. c \in Cards /\ req[o].at \notin {"finalize", "closeout", "decide"}
      BY <1>1, <2>4 DEF Comment, RecordFeedback, Requeue
    <3>2. ~Decide(o)
      BY <3>1 DEF Decide
    <3>3. \A x \in Owner : Decide(x) => req[x].card # c
      BY <1>1, <1>3, <2>4, <3>2
    <3> QED
      BY <1>4, <2>1, <2>4, <3>1, <3>3
  <2>5. CASE Finalize(o) /\ req'[o].at = "closeout" /\ req'[o].to = "approved"
    BY <2>5
  <2>6. CASE c \in Cards /\ c \in Pending
    <3>1. cards[c].status = "pending" /\ c \in Cards
      BY <2>6 DEF Pending
    <3>2. \A x \in Owner : Decide(x) => req[x].card # c
      BY <1>1, <1>3, <3>1
    <3> QED
      BY <2>1, <3>1, <3>2
  <2> QED
    BY <1>7, <1>11, <2>2, <2>3, <2>4, <2>5, <2>6
<1>12. /\ \A o \in Owner : req'[o].at = "decide" =>
            \/ cards'[req'[o].card].status = "approved"
            \/ prs'[cards'[req'[o].card].pr].state = "closed"
       /\ rec'.at = "write" /\ rec'.to = "stale" => prs'[cards'[rec'.card].pr].state = "closed"
  BY <1>3, <1>6, <1>9
<1>13. MergedStaysApproved'
  BY <1>10 DEF MergedStaysApproved
<1>14. (faults = 0 => \A o \in Owner : AtWork(o) /\ prs[cards[req[o].card].pr].for = req[o].card =>
          req[o].to = "approved" /\ req[o].at \in {"finalize", "closeout"})'
  BY <1>11
<1> QED
  BY <1>5, <1>12, <1>13, <1>14 DEF MergeFacts, Closed

-----------------------------------------------------------------------------
\* Who makes an approved card, and when a request lets its card go.
LEMMA ApprovedStep ==
    ASSUME Typing, [Next]_vars, NEW c \in Cards,
           cards[c].status # "approved", cards'[c].status = "approved"
    PROVE  \/ Write /\ rec.card = c /\ rec.to = "approved"
           \/ \E o \in Owner : Finalize(o) /\ req[o].card = c /\ req[o].to = "approved"
           \/ \E o \in Owner : AtWork(o)' /\ req'[o].card = c
           \/ c \in stranded'
<1>1. CASE cards[c].status # "pending"
  BY <1>1, StatusStep
<1>2. CASE cards[c].status = "pending"
  <2>1. Rows /\ c \in Pending
    BY <1>2 DEF Typing, Pending, Cards
  <2>2. CASE RunSupersedes
    <3>1. CASE cards' = [d \in DOMAIN cards |->
                 IF d \in Pending THEN [cards[d] EXCEPT !.status = "stale"] ELSE cards[d]]
      BY <2>1, <3>1, Superseded
    <3> QED
      BY <2>2, <3>1 DEF RunSupersedes, Supersede
  <2>3. CASE RunInserts
    BY <2>1, <2>3 DEF RunInserts, File
  <2>4. CASE Write
    <3>1. rec.card \in Cards /\ rec.to \in Status /\ SetStatus(rec.card, rec.to)
      BY <2>4, AtRows DEF Write, Status
    <3> QED
      BY <2>1, <2>4, <3>1, StatusSet
  <2>5. ASSUME NEW o \in Owner, Finalize(o)
        PROVE  req[o].card = c /\ req[o].to = "approved"
    <3>1. req[o].card \in Cards /\ req[o].to \in Status
      BY <2>5, AtRows DEF Finalize, AtWork
    <3>2. SetStatus(req[o].card, req[o].to)
      BY <1>2, <2>5 DEF Finalize
    <3> QED
      BY <2>1, <3>1, <3>2, StatusSet
  <2>6. ASSUME NEW o \in Owner, NEW d \in DOMAIN cards, Approve(o, d) \/ Pushback(o, d)
        PROVE  c \in stranded' \/ (AtWork(o)' /\ req'[o].card = c)
    <3>1. d \in Cards /\ \E s \in Status : SetStatus(d, s)
      BY <2>6 DEF Approve, Pushback, Claim, Status, Cards
    <3>2. d = c
      BY <2>1, <3>1, StatusSet
    <3> QED
      BY <2>6, <3>1, <3>2, ClickEffect DEF AtWork
  <2>7. ASSUME UNCHANGED cards PROVE FALSE
    BY <2>7
  <2>8. CASE \/ RunBegins \/ RunTakes \/ RunGivesUp \/ RunDelivers \/ RunAbandons \/ RunMerges
             \/ RunCloses \/ RunSettles \/ List \/ Look
    BY <2>7, <2>8 DEF RunBegins, RunTakes, RunGivesUp, RunDelivers, RunAbandons, RunMerges,
                      RunCloses, RunSettles, List, Look
  <2>9. CASE MovesTicket \/ TouchesPr \/ Crash \/ Sweep \/ UNCHANGED vars
    BY <2>7, <2>9 DEF MovesTicket, TouchesPr, Crash, Sweep, vars
  <2>10. ASSUME NEW o \in Owner,
                Decide(o) \/ Comment(o) \/ RecordFeedback(o) \/ Requeue(o) \/ Closeout(o)
         PROVE  UNCHANGED cards
    BY <2>10 DEF Decide, Comment, RecordFeedback, Requeue, Closeout
  <2> QED
    BY <2>2, <2>3, <2>4, <2>5, <2>6, <2>7, <2>8, <2>9, <2>10
    DEF Next, RunStep, Reconcile, ReqStep
<1> QED
  BY <1>1, <1>2

\* What one request did in a step, if anything.
LEMMA RequestStep ==
    ASSUME Typing, [Next]_vars, ~Crash, NEW o \in Owner
    PROVE  \/ req'[o] = req[o]
           \/ /\ ReqStep(o) \/ \E c \in Cards : Approve(o, c) \/ Pushback(o, c)
              /\ \A x \in Owner : x # o => req'[x] = req[x]
<1>1. CASE \E x \in Owner : ReqStep(x)
  <2>1. PICK x \in Owner : ReqStep(x)
    BY <1>1
  <2>2. \A y \in Owner : y # x => req'[y] = req[y]
    BY <2>1, DecideEffect, MiddleEffect, FinalizeEffect, CloseoutEffect DEF ReqStep
  <2> QED
    BY <2>1, <2>2
<1>2. CASE \E x \in Owner, c \in DOMAIN cards : Approve(x, c) \/ Pushback(x, c)
  <2>1. PICK x \in Owner, c \in Cards : Approve(x, c) \/ Pushback(x, c)
    BY <1>2 DEF Cards
  <2>2. \A y \in Owner : y # x => req'[y] = req[y]
    BY <2>1, ClickEffect
  <2> QED
    BY <2>1, <2>2
<1>3. CASE \/ RunStep \/ RunBegins \/ Reconcile \/ MovesTicket \/ TouchesPr \/ Sweep
           \/ UNCHANGED vars
  BY <1>3 DEF RunStep, RunTakes, RunGivesUp, RunDelivers, RunAbandons, RunMerges,
              RunSupersedes, RunInserts, RunCloses, RunSettles, RunBegins, Reconcile,
              List, Look, Write, MovesTicket, TouchesPr, Sweep, vars
<1> QED
  BY <1>1, <1>2, <1>3 DEF Next

\* Filing is all that makes rows, and it does so where no card is pending.
LEMMA FiledStep ==
    ASSUME Typing, [Next]_vars
    PROVE  \/ Cards' = Cards /\ Len(cards') = Len(cards)
           \/ /\ run.at = "insert" /\ Pending = {} /\ UNCHANGED <<req, rec, github>>
              /\ run'.at = "close"
              /\ Len(cards') = Len(cards) + 1 /\ Cards' = Cards \cup {Len(cards) + 1}
              /\ cards'[Len(cards) + 1].sha = run.sha
              /\ cards'[Len(cards) + 1].status = "pending"
<1>1. Rows /\ Len(cards) \in Nat /\ Cards = 1 .. Len(cards)
  BY RowFacts DEF Typing
<1>2. ASSUME UNCHANGED cards PROVE Cards' = Cards /\ Len(cards') = Len(cards)
  BY <1>2 DEF Cards
<1>3. ASSUME NEW c \in Cards, NEW s \in Status, SetStatus(c, s)
      PROVE  Cards' = Cards /\ Len(cards') = Len(cards)
  BY <1>1, <1>3, StatusSet
<1>4. CASE RunSupersedes
  <2>1. CASE cards' = [d \in DOMAIN cards |->
               IF d \in Pending THEN [cards[d] EXCEPT !.status = "stale"] ELSE cards[d]]
    BY <1>1, <2>1, Superseded
  <2> QED
    BY <1>2, <1>4, <2>1 DEF RunSupersedes, Supersede
<1>5. CASE RunInserts
  <2>1. CASE /\ cards' = Append(cards, [status |-> "pending", pr |-> run.pr, sha |-> run.sha])
             /\ Pending = {} /\ run' = [run EXCEPT !.at = "close"]
    <3> DEFINE r == [status |-> "pending", pr |-> run.pr, sha |-> run.sha]
    <3>1. run.pr \in Prs /\ run.sha \in 0 .. commits /\ run.at = "insert"
      BY <1>5, AtRows DEF RunInserts, Typing, RunType
    <3>2. r \in CardRow /\ r.status = "pending" /\ r.sha = run.sha
      BY <3>1 DEF CardRow, Status
    <3>3. cards' = Append(cards, r)
      BY <2>1
    <3> HIDE DEF r
    <3>4. cards' \in Seq(CardRow) /\ Len(cards') = Len(cards) + 1 /\ cards'[Len(cards) + 1] = r
      BY <1>1, <3>2, <3>3, AppendProperties DEF Rows, CardRow
    <3>5. Cards' = 1 .. Len(cards) + 1
      BY <3>4, LenProperties DEF Cards
    <3>6. run'.at = "close"
      BY <2>1 DEF Typing, RunType
    <3> QED
      BY <1>1, <1>5, <2>1, <3>1, <3>2, <3>4, <3>5, <3>6 DEF RunInserts, File
  <2> QED
    BY <1>2, <1>5, <2>1 DEF RunInserts, File
<1>6. CASE Write
  BY <1>2, <1>3, <1>6, AtRows DEF Write, Status
<1>7. ASSUME NEW o \in Owner, Finalize(o)
      PROVE  Cards' = Cards /\ Len(cards') = Len(cards)
  <2>1. req[o].card \in Cards /\ req[o].to \in Status
    BY <1>7, AtRows DEF Finalize, AtWork
  <2> QED
    BY <1>2, <1>3, <1>7, <2>1 DEF Finalize
<1>8. ASSUME NEW o \in Owner, NEW d \in DOMAIN cards, Approve(o, d) \/ Pushback(o, d)
      PROVE  Cards' = Cards /\ Len(cards') = Len(cards)
  BY <1>3, <1>8 DEF Approve, Pushback, Claim, Status, Cards
<1>9. CASE \/ RunBegins \/ RunTakes \/ RunGivesUp \/ RunDelivers \/ RunAbandons \/ RunMerges
           \/ RunCloses \/ RunSettles \/ List \/ Look
  BY <1>2, <1>9 DEF RunBegins, RunTakes, RunGivesUp, RunDelivers, RunAbandons, RunMerges,
                    RunCloses, RunSettles, List, Look
<1>10. CASE MovesTicket \/ TouchesPr \/ Crash \/ Sweep \/ UNCHANGED vars
  BY <1>2, <1>10 DEF MovesTicket, TouchesPr, Crash, Sweep, vars
<1>11. ASSUME NEW o \in Owner,
              Decide(o) \/ Comment(o) \/ RecordFeedback(o) \/ Requeue(o) \/ Closeout(o)
       PROVE  UNCHANGED cards
  BY <1>11 DEF Decide, Comment, RecordFeedback, Requeue, Closeout
<1> QED
  BY <1>2, <1>4, <1>5, <1>6, <1>7, <1>8, <1>9, <1>10, <1>11 DEF Next, RunStep, Reconcile, ReqStep

\* The SHA of a run is new when it delivers, and stays with it until its card is filed.
LEMMA ShasStep ==
    ASSUME Typing, Shas, [Next]_vars
    PROVE  Shas'
<1>1. /\ \A c \in Cards : cards[c].sha \in 0 .. commits /\ cards'[c].sha = cards[c].sha
      /\ commits \in Nat /\ Len(cards) + 1 \notin Cards /\ run.sha \in 0 .. commits
  <2>1. /\ \A c \in Cards : cards[c].sha \in 0 .. commits
        /\ Len(cards) \in Nat /\ Cards = 1 .. Len(cards) /\ commits \in Nat
    BY RowFacts DEF Typing, CardRow
  <2>2. Len(cards) + 1 \notin Cards
    BY <2>1
  <2> QED
    BY <2>1, <2>2, RowsStep DEF Grown, Typing, RunType
<1>2. run'.at \in {"delivered", "again", "insert"} =>
        \/ run'.sha \in {0, commits + 1}
        \/ run.at \in {"delivered", "again", "insert"} /\ run'.sha = run.sha
  <2>1. run \in [at : {"none", "begun", "took", "delivered", "again", "insert", "close", "settle"},
                 held : 0 .. Len(about), pr : {0} \cup Prs, sha : 0 .. commits,
                 tries : 0 .. InsertAttempts]
    BY DEF Typing, RunType
  <2>2. CASE UNCHANGED run
    BY <2>2
  <2>3. CASE RunBegins
    BY <2>3 DEF RunBegins, NoRun
  <2>4. CASE RunTakes \/ RunGivesUp \/ RunAbandons \/ RunCloses
    BY <2>1, <2>4 DEF RunTakes, RunGivesUp, RunAbandons, RunCloses
  <2>5. CASE RunDelivers
    <3>1. ASSUME NEW q, NEW sha \in {0, commits + 1},
                 run' = [run EXCEPT !.at = "delivered", !.pr = q, !.sha = sha]
          PROVE  run'.sha \in {0, commits + 1}
      BY <2>1, <3>1
    <3>2. ASSUME run' = [run EXCEPT !.at = "settle"]
          PROVE  run'.at = "settle"
      BY <2>1, <3>2
    <3> QED
      BY <2>5, <3>1, <3>2 DEF RunDelivers
  <2>6. CASE RunMerges
    BY <2>1, <2>6 DEF RunMerges
  <2>7. CASE RunSupersedes
    BY <2>1, <2>7 DEF RunSupersedes, Supersede
  <2>8. CASE RunInserts
    BY <2>1, <2>8 DEF RunInserts, File
  <2>9. CASE RunSettles \/ Crash
    BY <2>9 DEF RunSettles, Crash, NoRun
  <2>10. CASE Reconcile \/ MovesTicket \/ TouchesPr \/ Sweep \/ UNCHANGED vars
    BY <2>2, <2>10 DEF Reconcile, List, Look, Write, MovesTicket, TouchesPr, Sweep, vars
  <2>11. ASSUME NEW o \in Owner, ReqStep(o)
         PROVE  UNCHANGED run
    BY <2>11 DEF ReqStep, Decide, Comment, RecordFeedback, Requeue, Finalize, Closeout
  <2>12. ASSUME NEW o \in Owner, NEW c \in DOMAIN cards, Approve(o, c) \/ Pushback(o, c)
         PROVE  UNCHANGED run
    BY <2>12 DEF Approve, Pushback, Claim
  <2> QED
    BY <2>2, <2>3, <2>4, <2>5, <2>6, <2>7, <2>8, <2>9, <2>10, <2>11, <2>12 DEF Next, RunStep
<1>3. \A c \in Cards : cards[c].sha # commits + 1
  BY <1>1
<1>4. CASE Cards' = Cards
  BY <1>1, <1>2, <1>3, <1>4 DEF Shas
<1>5. CASE /\ run.at = "insert" /\ run'.at = "close" /\ Cards' = Cards \cup {Len(cards) + 1}
           /\ cards'[Len(cards) + 1].sha = run.sha
  BY <1>1, <1>5 DEF Shas
<1> QED
  BY <1>4, <1>5, FiledStep

\* What a decision is about to write, and why.
LEMMA DecideOutcome ==
    ASSUME Typing, [Next]_vars, NEW o \in Owner, Decide(o)
    PROVE  LET c == req[o].card IN
           /\ req'[o].to = "approved" => prs'[cards[c].pr].state = "merged"
           /\ req'[o].to = "pending" => Fault \/ Excused(c)
<1> DEFINE c == req[o].card
           p == cards[c].pr
           ps == [prs EXCEPT ![p].state = "merged", ![p].for = IF @ = 0 THEN c ELSE @]
<1>1. ASSUME NEW to \in {"stale", "approved", "pending"}, Move(o, "finalize", to)
      PROVE  req'[o].to = to
  <2>1. req[o] \in ReqRow /\ req \in [Owner -> ReqRow]
    BY DEF Typing, ReqType, ReqRow
  <2>2. req' = [req EXCEPT ![o] = [req[o] EXCEPT !.at = "finalize", !.to = to]]
    BY <1>1, Moved, ZenonT(30)
  <2> QED
    BY <2>1, <2>2 DEF ReqRow
<1>2. ps[p].state = "merged"
  <2>1. c \in Cards /\ p \in Prs /\ Rows
    BY AtRows DEF Decide, AtWork, Typing
  <2> HIDE DEF c, p
  <2> QED
    BY <2>1, MergedFor
<1>3. \/ \E to \in {"stale", "pending"} : Move(o, "finalize", to) /\ (to = "pending" => Fault \/ Excused(c))
      \/ Move(o, "finalize", "approved") /\ prs' = ps
      \/ Move(o, "finalize", "approved") /\ prs' = prs /\ prs[p].state = "merged"
  BY DEF Decide, Excused, Closed
<1> HIDE DEF ps
<1>4. CASE \E to \in {"stale", "pending"} : Move(o, "finalize", to) /\ (to = "pending" => Fault \/ Excused(c))
  BY <1>1, <1>4
<1>5. CASE Move(o, "finalize", "approved") /\ prs'[p].state = "merged"
  BY <1>1, <1>5
<1> QED
  BY <1>2, <1>3, <1>4, <1>5

\* A pushback gives its card back only for a failed call, and never approves.
LEMMA MiddleOutcome ==
    ASSUME Typing, [Next]_vars, NEW o \in Owner, Comment(o) \/ RecordFeedback(o) \/ Requeue(o)
    PROVE  /\ req'[o].to # "approved"
           /\ req'[o].at = "finalize" /\ req'[o].to = "pending" => Fault
<1>1. ASSUME NEW place \in {"record", "requeue", "finalize"}, NEW to \in {"pending", "pushed_back"},
             Move(o, place, to)
      PROVE  req'[o].to = to /\ req'[o].at = place
  <2>1. req[o] \in ReqRow /\ req \in [Owner -> ReqRow]
    BY DEF Typing, ReqType, ReqRow
  <2>2. req' = [req EXCEPT ![o] = [req[o] EXCEPT !.at = place, !.to = to]]
    BY <1>1, Moved, ZenonT(30)
  <2> QED
    BY <2>1, <2>2 DEF ReqRow
<1>2. CASE Comment(o)
  BY <1>1, <1>2 DEF Comment
<1>3. CASE RecordFeedback(o)
  BY <1>1, <1>3 DEF RecordFeedback, Said
<1>4. CASE Requeue(o)
  BY <1>1, <1>4 DEF Requeue
<1> QED
  BY <1>2, <1>3, <1>4

\* The row of a card's pull request, once it is not open any more, stands still.
LEMMA PrStands ==
    ASSUME Typing, MergeFacts, [Next]_vars, NEW c \in Cards
    PROVE  /\ Merged(c) => Merged(c)'
           /\ Excused(c) => Excused(c)'
<1>1. cards[c].pr \in Prs /\ cards'[c].pr = cards[c].pr /\ cards'[c].sha = cards[c].sha
  BY AtRows, RowsStep DEF Grown
<1>2. \A p \in Prs : prs[p].state # "open" => prs'[p] = prs[p]
  BY PrsStep DEF MergeFacts
<1> QED
  BY <1>1, <1>2 DEF Merged, Excused, Closed

\* A pull request is closed by one act of a human.
LEMMA ClosedStep ==
    ASSUME Typing, MergeFacts, [Next]_vars
    PROVE  \/ \A p \in Prs' : prs'[p].state = "closed" => p \in Prs /\ prs[p].state = "closed"
           \/ /\ byHand' = byHand + 1
              /\ \E q \in Prs : \A p \in Prs' :
                   prs'[p].state = "closed" /\ p # q => p \in Prs /\ prs[p].state = "closed"
<1>1. /\ \A p \in Prs : prs[p].state # "open" => prs'[p] = prs[p]
      /\ \A p \in Prs' : p \notin Prs => prs'[p].state = "open"
  BY PrsStep DEF MergeFacts
<1>2. Rows /\ Len(prs) \in Nat /\ Prs = 1 .. Len(prs)
  BY RowFacts DEF Typing
<1>3. CASE UNCHANGED prs
  BY <1>3 DEF Prs
<1>4. ASSUME prs' = PushOf(commits + 1)
      PROVE  \A p \in Prs' : prs'[p].state = "closed" => p \in Prs /\ prs[p].state = "closed"
  BY <1>1, <1>2, <1>4, Pushed
<1>5. ASSUME NEW q \in Prs, NEW s \in {"merged", "closed"}, prs' = [prs EXCEPT ![q].state = s]
      PROVE  /\ Prs' = Prs /\ prs'[q].state = s
             /\ \A p \in Prs : p # q => prs'[p] = prs[p]
  BY <1>2, <1>5, StateSet DEF Prs
<1>6. CASE RunDelivers
  BY <1>3, <1>4, <1>6 DEF RunDelivers
<1>7. CASE RunMerges
  <2>1. run.pr \in Prs /\ prs' = [prs EXCEPT ![run.pr].state = "merged"]
    BY <1>7, AtRows DEF RunMerges
  <2> QED
    BY <1>5, <2>1
<1>8. CASE TouchesPr
  <2>1. CASE \E s \in {"merged", "closed"} : prs' = [prs EXCEPT ![Len(prs)].state = s]
    <3>1. Len(prs) \in Prs
      <4>1. Len(prs) > 0
        BY <1>2, <1>8, EmptySeq DEF TouchesPr, Rows
      <4> QED
        BY <1>2, <4>1
    <3>2. byHand' = byHand + 1
      BY <1>8 DEF TouchesPr, ByHand
    <3> QED
      BY <1>5, <2>1, <3>1, <3>2
  <2> QED
    BY <1>4, <1>8, <2>1 DEF TouchesPr
<1>9. ASSUME NEW o \in Owner, Decide(o), ~UNCHANGED prs
      PROVE  \A p \in Prs' : prs'[p].state = "closed" => p \in Prs /\ prs[p].state = "closed"
  <2> DEFINE c == req[o].card
             q == cards[c].pr
             ps == [prs EXCEPT ![q].state = "merged", ![q].for = IF @ = 0 THEN c ELSE @]
  <2>1. c \in Cards /\ q \in Prs /\ prs' = ps
    BY <1>9, AtRows DEF Decide, AtWork
  <2>2. /\ DOMAIN ps = Prs /\ ps[q].state = "merged"
        /\ \A p \in Prs : p # q => ps[p] = prs[p]
    <3> HIDE DEF c, q
    <3> QED
      BY <1>2, <2>1, MergedFor
  <2> HIDE DEF ps, c, q
  <2> QED
    BY <2>1, <2>2 DEF Prs
<1>10. CASE RunBegins \/ Reconcile \/ MovesTicket \/ Crash \/ Sweep \/ UNCHANGED vars
  BY <1>3, <1>10 DEF RunBegins, Reconcile, List, Look, Write, MovesTicket, Crash, Sweep, vars, github
<1>11. CASE \/ RunTakes \/ RunGivesUp \/ RunAbandons \/ RunSupersedes \/ RunInserts \/ RunCloses
            \/ RunSettles
  BY <1>3, <1>11 DEF RunTakes, RunGivesUp, RunAbandons, RunSupersedes, RunInserts, RunCloses,
                     RunSettles, github
<1>12. ASSUME NEW o \in Owner,
              Comment(o) \/ RecordFeedback(o) \/ Requeue(o) \/ Finalize(o) \/ Closeout(o)
       PROVE  UNCHANGED prs
  BY <1>12 DEF Comment, RecordFeedback, Requeue, Finalize, Closeout, github
<1>13. ASSUME NEW o \in Owner, NEW c \in DOMAIN cards, Approve(o, c) \/ Pushback(o, c)
       PROVE  UNCHANGED prs
  BY <1>13 DEF Approve, Pushback, Claim, github
<1> QED
  BY <1>3, <1>6, <1>7, <1>8, <1>9, <1>10, <1>11, <1>12, <1>13 DEF Next, RunStep, ReqStep

\* What the pass is about to write as approved is merged.
LEMMA LookOutcome ==
    ASSUME Typing, Look, rec'.at = "write", rec'.to = "approved"
    PROVE  rec'.card = rec.card /\ Merged(rec.card)
<1>1. CASE rec' = Idle
  BY <1>1 DEF Idle
<1>2. CASE rec' = [rec EXCEPT !.at = "write", !.to = RetiredTo(prs[cards[rec.card].pr].state)]
  <2>1. rec'.card = rec.card /\ rec'.to = RetiredTo(prs[cards[rec.card].pr].state)
    BY <1>2 DEF Typing, RecType
  <2>2. \A s : RetiredTo(s) = "approved" => s = "merged"
    BY DEF RetiredTo
  <2> QED
    BY <2>1, <2>2 DEF Merged
<1> QED
  BY <1>1, <1>2 DEF Look

LEMMA OutcomesStep ==
    ASSUME Typing, MergeFacts, Outcomes, [Next]_vars
    PROVE  Outcomes'
<1>1. byHand \in Nat /\ byHand' \in Nat /\ byHand <= byHand'
  BY WorldStep, InboxAssumption DEF Typing, World
<1>2. /\ \A p \in Prs' : prs'[p].state = "closed" => byHand' > 0
      /\ \A p, q \in Prs' :
           p # q /\ prs'[p].state = "closed" /\ prs'[q].state = "closed" => byHand' > 1
  <2>1. CASE \A p \in Prs' : prs'[p].state = "closed" => p \in Prs /\ prs[p].state = "closed"
    BY <1>1, <2>1 DEF Outcomes
  <2>2. CASE /\ byHand' = byHand + 1
             /\ \E q \in Prs : \A p \in Prs' :
                  prs'[p].state = "closed" /\ p # q => p \in Prs /\ prs[p].state = "closed"
    BY <1>1, <2>2 DEF Outcomes
  <2> QED
    BY <2>1, <2>2, ClosedStep
<1>3. \A c \in Cards : Merged(c) => prs'[cards'[c].pr].state = "merged"
  BY PrStands DEF Merged
<1>4. rec'.at = "write" /\ rec'.to = "approved" => prs'[cards'[rec'.card].pr].state = "merged"
  <2> SUFFICES ASSUME rec'.at = "write", rec'.to = "approved"
               PROVE  prs'[cards'[rec'.card].pr].state = "merged"
    OBVIOUS
  <2>1. CASE UNCHANGED rec
    BY <1>3, <2>1, AtRows DEF Outcomes
  <2>2. CASE List \/ Write \/ Crash
    BY <2>2 DEF List, Write, Crash, Idle
  <2>3. CASE Look
    <3>1. rec'.card = rec.card /\ Merged(rec.card) /\ rec.card \in Cards
      BY <2>3, LookOutcome, AtRows DEF Look
    <3> QED
      BY <1>3, <3>1
  <2>4. CASE RunStep \/ RunBegins \/ MovesTicket \/ TouchesPr \/ Sweep \/ UNCHANGED vars
    BY <2>1, <2>4 DEF RunStep, RunTakes, RunGivesUp, RunDelivers, RunAbandons, RunMerges,
                      RunSupersedes, RunInserts, RunCloses, RunSettles, RunBegins, MovesTicket,
                      TouchesPr, Sweep, vars
  <2>5. ASSUME NEW o \in Owner, ReqStep(o)
        PROVE  UNCHANGED rec
    BY <2>5 DEF ReqStep, Decide, Comment, RecordFeedback, Requeue, Finalize, Closeout
  <2>6. ASSUME NEW o \in Owner, NEW c \in DOMAIN cards, Approve(o, c) \/ Pushback(o, c)
        PROVE  UNCHANGED rec
    BY <2>6 DEF Approve, Pushback, Claim
  <2> QED
    BY <2>1, <2>2, <2>3, <2>4, <2>5, <2>6 DEF Next, Reconcile
<1>5. ASSUME NEW o \in Owner, req'[o].at \in {"finalize", "closeout"}, req'[o].to = "approved"
      PROVE  prs'[cards'[req'[o].card].pr].state = "merged"
  <2>1. CASE req'[o] = req[o]
    <3>1. req[o].card \in Cards /\ Merged(req[o].card)
      BY <1>5, <2>1, AtRows DEF Outcomes, AtWork
    <3> QED
      BY <1>3, <2>1, <3>1
  <2>2. CASE Decide(o)
    <3>1. req'[o].card = req[o].card /\ req[o].card \in Cards
      BY <2>2, DecideEffect
    <3>2. prs'[cards[req[o].card].pr].state = "merged"
      BY <1>5, <2>2, DecideOutcome
    <3>3. cards'[req[o].card].pr = cards[req[o].card].pr
      BY <3>1, RowsStep DEF Grown
    <3> QED
      BY <3>1, <3>2, <3>3 DEF Merged
  <2>3. ~(Comment(o) \/ RecordFeedback(o) \/ Requeue(o))
    BY <1>5, MiddleOutcome
  <2>4. CASE Finalize(o)
    <3>1. req'[o].card = req[o].card /\ req[o].to = "approved" /\ req[o].card \in Cards
      BY <1>5, <2>4, FinalizeEffect
    <3> QED
      BY <1>3, <2>4, <3>1 DEF Outcomes, Finalize
  <2>5. ~Closeout(o) /\ ~\E c \in Cards : Approve(o, c) \/ Pushback(o, c)
    <3>1. ~Closeout(o)
      BY <1>5, CloseoutEffect
    <3>2. ~\E c \in Cards : Approve(o, c) \/ Pushback(o, c)
      BY <1>5, ClickEffect DEF AtWork
    <3> QED
      BY <3>1, <3>2
  <2>6. ~Crash
    BY <1>5 DEF Crash, Idle
  <2> QED
    BY <2>1, <2>2, <2>3, <2>4, <2>5, <2>6, RequestStep DEF ReqStep
<1> QED
  BY <1>2, <1>4, <1>5 DEF Outcomes, Merged

\* A card that is given back was so before, or its request has just decided to.
LEMMA ReturnedStep ==
    ASSUME Typing, Claims, [Next]_vars, NEW c \in Cards', Returned(c)'
    PROVE  /\ c \in Cards
           /\ \/ Returned(c)
              \/ \E o \in Owner : /\ req'[o] # req[o] /\ \A x \in Owner : x # o => req'[x] = req[x]
                                  /\ req[o].card = c /\ (Fault \/ Excused(c))
<1>1. CASE c \in Pending' /\ c # Len(cards')
  <2>1. c \in Cards /\ (c # Len(cards) \/ c \notin Pending)
    BY <1>1, FiledStep
  <2>2. CASE c \in Pending
    BY <2>1, <2>2 DEF Returned
  <2>3. CASE c \notin Pending
    <3>1. cards[c].status # "pending" /\ cards'[c].status = "pending"
      BY <1>1, <2>1, <2>3 DEF Pending, Cards
    <3>2. PICK o \in Owner : Finalize(o) /\ req[o].card = c /\ req[o].to = "pending"
      BY <2>1, <3>1, StatusStep, AtRows DEF Write
    <3> QED
      BY <2>1, <3>2 DEF Returned, GivesBack, Finalize
  <2> QED
    BY <2>2, <2>3
<1>2. CASE \E o \in Owner : req'[o].at = "finalize" /\ req'[o].to = "pending" /\ req'[o].card = c
  <2>1. PICK o \in Owner : req'[o].at = "finalize" /\ req'[o].to = "pending" /\ req'[o].card = c
    BY <1>2
  <2>2. CASE req'[o] = req[o]
    <3>1. c \in Cards
      BY <2>1, <2>2, AtRows DEF AtWork
    <3> QED
      BY <2>1, <2>2, <3>1 DEF Returned, GivesBack
  <2>3. CASE Decide(o)
    <3>1. /\ req'[o].card = req[o].card /\ req[o].card \in Cards
          /\ \A x \in Owner : x # o => req'[x] = req[x]
      BY <2>3, DecideEffect
    <3>2. Fault \/ Excused(req[o].card)
      BY <2>1, <2>3, DecideOutcome
    <3>3. req'[o] # req[o]
      BY <2>1, <2>3 DEF Decide
    <3> QED
      BY <2>1, <3>1, <3>2, <3>3
  <2>4. CASE Comment(o) \/ RecordFeedback(o) \/ Requeue(o)
    <3>1. /\ req'[o].card = req[o].card /\ req[o].card \in Cards
          /\ \A x \in Owner : x # o => req'[x] = req[x]
      BY <2>4, MiddleEffect
    <3>2. Fault
      BY <2>1, <2>4, MiddleOutcome
    <3>3. req'[o] # req[o]
      BY <2>1, <2>4 DEF Comment, RecordFeedback, Requeue
    <3> QED
      BY <2>1, <3>1, <3>2, <3>3
  <2>5. ~Finalize(o) /\ ~Closeout(o) /\ ~\E d \in Cards : Approve(o, d) \/ Pushback(o, d)
    <3>1. ~Finalize(o) /\ ~Closeout(o)
      BY <2>1, FinalizeEffect, CloseoutEffect
    <3>2. ~\E d \in Cards : Approve(o, d) \/ Pushback(o, d)
      BY <2>1, ClickEffect DEF AtWork
    <3> QED
      BY <3>1, <3>2
  <2>6. ~Crash
    BY <2>1 DEF Crash, Idle
  <2> QED
    BY <2>2, <2>3, <2>4, <2>5, <2>6, RequestStep DEF ReqStep
<1> QED
  BY <1>1, <1>2 DEF Returned, GivesBack

\* While at most one thing has gone wrong, a fault and a human exclude each other.
LEMMA SoundStep ==
    ASSUME Typing, [Next]_vars, Sound'
    PROVE  /\ Sound /\ ~(byHand > 1)
           /\ byHand > 0 => ~(faults > 0) /\ ~Fault
           /\ Fault => ~(faults > 0)
           /\ faults > 0 \/ Fault => faults' > 0
<1> DEFINE f == faults  f2 == faults'  b == byHand  b2 == byHand'
<1>1. f \in Nat /\ b \in Nat /\ f2 \in Nat /\ b2 \in Nat /\ f <= f2 /\ b <= b2
  BY WorldStep, InboxAssumption DEF Typing, World
<1>2. f2 + b2 <= 1
  BY DEF Sound
<1>3. Fault => f2 = f + 1 /\ b2 = b
  BY DEF Fault, Loses
<1>4. Sound <=> f + b <= 1
  BY DEF Sound
<1> HIDE DEF f, f2, b, b2
<1>5. f + b <= 1 /\ ~(b > 1) /\ (b > 0 => ~(f > 0) /\ f2 # f + 1)
  BY <1>1, <1>2
<1>6. (f2 = f + 1 => ~(f > 0)) /\ (f > 0 \/ f2 = f + 1 => f2 > 0)
  BY <1>1, <1>2
<1> QED
  BY <1>3, <1>4, <1>5, <1>6 DEF f, f2, b, b2

\* One thing that went wrong gives back one card.
LEMMA ReturnsStep ==
    ASSUME Typing, Claims, MergeFacts, Shas, Outcomes, Returns, [Next]_vars
    PROVE  Returns'
<1> SUFFICES ASSUME Sound'
             PROVE  /\ \A c \in Cards' : Returned(c)' => faults' > 0 \/ Excused(c)'
                    /\ \A c, d \in Cards' : Returned(c)' /\ Returned(d)' => c = d
  BY DEF Returns
<1>1. /\ Sound /\ ~(byHand > 1)
      /\ byHand > 0 => ~(faults > 0) /\ ~Fault
      /\ Fault => ~(faults > 0)
      /\ faults > 0 \/ Fault => faults' > 0
  BY SoundStep
<1>2. /\ \A c \in Cards : Returned(c) => faults > 0 \/ Excused(c)
      /\ \A c, d \in Cards : Returned(c) /\ Returned(d) => c = d
  BY <1>1 DEF Returns
\* Two cards of pull requests that were closed on their SHAs are one.
<1>3. ASSUME NEW c \in Cards, NEW d \in Cards, Excused(c), Excused(d) PROVE c = d
  <2>1. cards[c].pr \in Prs /\ cards[d].pr \in Prs
    BY AtRows
  <2>2. cards[c].pr = cards[d].pr
    BY <1>1, <1>3, <2>1 DEF Outcomes, Excused, Closed
  <2> QED
    BY <1>3, <2>2 DEF Excused, Shas
<1>4. ASSUME NEW c \in Cards, Excused(c) PROVE byHand > 0
  BY <1>4, AtRows DEF Outcomes, Excused, Closed
<1>5. ASSUME NEW c \in Cards', Returned(c)' PROVE faults' > 0 \/ Excused(c)'
  <2>1. c \in Cards /\ (Returned(c) \/ Fault \/ Excused(c))
    BY <1>1, <1>5, ReturnedStep
  <2>2. faults > 0 \/ Fault \/ Excused(c)
    BY <1>2, <2>1
  <2> QED
    BY <1>1, <2>1, <2>2, PrStands
<1>6. ASSUME NEW c \in Cards', NEW d \in Cards', Returned(c)', Returned(d)' PROVE c = d
  <2> DEFINE New(e, o) == /\ req'[o] # req[o] /\ \A x \in Owner : x # o => req'[x] = req[x]
                          /\ req[o].card = e /\ (Fault \/ Excused(e))
  <2>1. /\ c \in Cards /\ (Returned(c) \/ \E o \in Owner : New(c, o))
        /\ d \in Cards /\ (Returned(d) \/ \E o \in Owner : New(d, o))
    BY <1>1, <1>6, ReturnedStep
  <2>2. ASSUME NEW e \in Cards, NEW f \in Cards, Returned(e), NEW o \in Owner, New(f, o)
        PROVE  e = f
    <3>1. CASE Fault
      BY <1>1, <1>2, <1>4, <2>2, <3>1
    <3>2. CASE Excused(f)
      BY <1>1, <1>2, <1>3, <1>4, <2>2, <3>2
    <3> QED
      BY <2>2, <3>1, <3>2
  <2>3. ASSUME NEW o \in Owner, NEW x \in Owner, New(c, o), New(d, x)
        PROVE  c = d
    BY <2>3
  <2> HIDE DEF New
  <2> QED
    BY <1>2, <2>1, <2>2, <2>3
<1> QED
  BY <1>5, <1>6

\* The request that lets go of an approved card has merged it, or was refused for a
\* newer one.
LEMMA ApprovedIsMergedStep ==
    ASSUME Typing, Claims, MergeFacts, Shas, Outcomes, Returns, ApprovedIsMerged, [Next]_vars
    PROVE  ApprovedIsMerged'
<1> SUFFICES ASSUME Sound', NEW c \in Cards', c \notin stranded', cards'[c].status = "approved",
                    c = Len(cards'), \A o \in Owner : AtWork(o)' => req'[o].card # c
             PROVE  Merged(c)'
  BY DEF ApprovedIsMerged, Sound, Merged
<1>1. Sound /\ c \notin stranded
  BY SoundStep, CostsStep
<1>2. c \in Cards /\ c = Len(cards)
  BY FiledStep
<1>3. Merged(c) => Merged(c)'
  BY <1>2, PrStands
<1>4. CASE cards[c].status # "approved"
  <2>1. CASE Write /\ rec.card = c /\ rec.to = "approved"
    BY <1>3, <2>1 DEF Outcomes, Write
  <2>2. CASE \E o \in Owner : Finalize(o) /\ req[o].card = c /\ req[o].to = "approved"
    BY <1>3, <2>2 DEF Outcomes, Finalize
  <2> QED
    BY <1>2, <1>4, <2>1, <2>2, ApprovedStep
<1>5. CASE cards[c].status = "approved" /\ \A o \in Owner : AtWork(o) => req[o].card # c
  BY <1>1, <1>2, <1>3, <1>5 DEF ApprovedIsMerged, Sound, Merged
<1>6. ASSUME cards[c].status = "approved", NEW o \in Owner, AtWork(o), req[o].card = c
      PROVE  Merged(c)
  <2>1. req'[o] # req[o]
    BY <1>6 DEF AtWork
  <2>2. ASSUME req[o].at = "closeout"
        PROVE  Merged(c)
    BY <1>6, <2>2 DEF Outcomes, Typing, ReqType
  <2>3. ~Decide(o) /\ ~(Comment(o) \/ RecordFeedback(o) \/ Requeue(o))
    BY <1>6, DecideEffect, MiddleEffect DEF AtWork
  <2>4. CASE Closeout(o)
    BY <2>2, <2>4 DEF Closeout
  <2>5. CASE Finalize(o)
    <3>1. req[o].to \in Status /\ req[o].at = "finalize"
      BY <1>6, <2>5, AtRows DEF Finalize
    <3>2. CASE req[o].to = "approved"
      BY <1>6, <3>1, <3>2 DEF Outcomes
    <3>3. CASE req[o].to # "approved" /\ SetStatus(c, req[o].to)
      BY <1>2, <3>1, <3>3, StatusSet DEF Typing
    <3>4. CASE Refused(o)
      <4>1. PICK d \in Pending : d # c
        BY <1>6, <3>4 DEF Refused
      <4>2. d \in Cards /\ Returned(d)
        BY <1>2, <4>1 DEF Returned, Pending, Cards
      <4>3. Returned(c)
        BY <1>6, <3>1, <3>4 DEF Returned, GivesBack, Refused
      <4> QED
        BY <1>1, <1>2, <4>1, <4>2, <4>3 DEF Returns
    <3>5. ~Loses({}, {c})
      BY DEF Loses
    <3> QED
      BY <1>6, <2>5, <3>2, <3>3, <3>4, <3>5 DEF Finalize
  <2>6. CASE Crash
    <3>1. ~Undecided(o)
      BY <1>6, <2>6 DEF Crash
    <3> QED
      BY <1>6, <2>2, <3>1 DEF Undecided, AtWork
  <2>7. CASE ~Crash
    <3>1. \A d \in Cards : ~Approve(o, d) /\ ~Pushback(o, d)
      BY <1>6, ClickEffect
    <3>2. ReqStep(o)
      BY <2>1, <2>7, <3>1, RequestStep
    <3> QED
      BY <2>3, <2>4, <2>5, <3>2 DEF ReqStep
  <2> QED
    BY <2>6, <2>7
<1> QED
  BY <1>3, <1>4, <1>5, <1>6

-----------------------------------------------------------------------------
\* The invariant holds at the start.
LEMMA InitOK == Init => IInv
<1> SUFFICES ASSUME Init PROVE IInv
  OBVIOUS
<1>1. /\ cards = <<>> /\ prs = <<>> /\ about = <<>> /\ commits = 0 /\ directive = 0 /\ spent = 0
      /\ run = NoRun /\ rec = Idle /\ req = [o \in Owner |-> Idle] /\ lane = "queue"
      /\ runs = 0 /\ faults = 0 /\ byHand = 0 /\ crashes = 0 /\ burned = {} /\ stranded = {}
  BY DEF Init
<1>2. Cards = {} /\ Prs = {} /\ Len(about) = 0 /\ about \in Seq(Cards)
  BY <1>1, EmptySeq DEF Cards, Prs
<1>3. Rows
  BY <1>1, EmptySeq DEF Rows
<1>4. Words
  BY <1>1, <1>2 DEF Words
<1>5. RunType
  BY <1>1, <1>2, InboxAssumption DEF RunType, NoRun, InboxAssumption
<1>6. ReqType /\ RecType
  BY <1>1 DEF ReqType, RecType, Idle, AtWork, Status
<1>7. World
  BY <1>1, InboxAssumption DEF World, InboxAssumption
<1>8. Claims
  BY <1>1 DEF Claims, DecidedOnce, AtWork, Idle
<1>9. Heard
  BY <1>1, <1>2 DEF Heard, LastWordKept, Latest, NoRun
<1>10. MergeFacts
  BY <1>1, <1>2 DEF MergeFacts, MergedStaysApproved, AtWork, Idle
<1>11. Shas /\ Outcomes
  BY <1>1, <1>2 DEF Shas, Outcomes, NoRun, Idle
<1>12. Returns /\ ApprovedIsMerged
  BY <1>2 DEF Returns, ApprovedIsMerged
<1>13. Costs
  BY <1>1 DEF Costs
<1> QED
  BY <1>3, <1>4, <1>5, <1>6, <1>7, <1>8, <1>9, <1>10, <1>11, <1>12, <1>13 DEF IInv, Typing

\* The inductive invariant.
THEOREM Invariance == Spec => []IInv
<1>1. IInv /\ [Next]_vars => IInv'
  BY TypingStep, ClaimsStep, HeardStep, MergeFactsStep, ShasStep, OutcomesStep, ReturnsStep,
     ApprovedIsMergedStep DEF IInv
<1> QED
  BY InitOK, <1>1, PTL DEF Spec

\* Cards, pull requests, requests, the pass and the run always refer to rows that exist,
\* in whatever order handlers, runs, humans and crashes interleave.
THEOREM InboxTypes == Spec => []TypeOK
<1>1. IInv => TypeOK
  BY DEF IInv, Typing, Rows, Words, RunType, ReqType, RecType, World, Costs, TypeOK
<1> QED
  BY <1>1, Invariance, PTL

\* However many requests are under way, each card is decided by one at a time: the
\* conditional claim of approvals.ts is enough, although the outcome is written without one.
THEOREM DecidedOnceHolds == Spec => []DecidedOnce
<1>1. IInv => DecidedOnce
  BY DEF IInv, Claims
<1> QED
  BY <1>1, Invariance, PTL

\* The owner's last word is stored, held or spent in every interleaving of takes,
\* give-backs and new words, and no older one is ever stored over it: what loses it is a
\* statement of the hand-over that fails, or a crash of the run that holds it (burned).
THEOREM LastWordHolds == Spec => []LastWordKept
<1>1. IInv => LastWordKept
  BY DEF IInv, Heard
<1> QED
  BY <1>1, Invariance, PTL

\* While no call fails, a card that was merged from the inbox reads approved for ever:
\* no newer run, other request or late write of the pass takes it back.
THEOREM MergedStays == Spec => []MergedStaysApproved
<1>1. IInv => MergedStaysApproved
  BY DEF IInv, MergeFacts
<1> QED
  BY <1>1, Invariance, PTL

\* approvals.ts finalizeApproval and reconcileTick: the newest card reads approved only
\* while somebody works on it or when its pull request is merged, as long as at most one
\* call fails or one human interferes, however often the process dies; except the cards
\* whose own claim or outcome was cut off by the store or by a crash (stranded).
THEOREM ApprovedAreMerged == Spec => []ApprovedIsMerged
<1>1. IInv => ApprovedIsMerged
  BY DEF IInv
<1> QED
  BY <1>1, Invariance, PTL
===============================================================================
