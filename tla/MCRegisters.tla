---------------------------- MODULE MCRegisters ----------------------------
(* Two editors of one agent card and one skill. *)
EXTENDS Registers

CONSTANTS e1, e2

MCEditors == {e1, e2}
Card(t, r, g) == [text |-> t, route |-> r, tools |-> g]
Pack(t, a) == [text |-> t, attach |-> a]
MCFiles == {Card("b", "plain", "narrow")}
(* nothing; an operator's register whose older card, imported once, had other routing
   and a wider grant *)
MCHistories == {
    [agent |-> << >>, skill |-> << >>],
    [agent |-> <<Card("a", "specialist", "wide"), Card("a", "plain", "wide"), Card("a", "plain", "narrow")>>,
     skill |-> <<Pack("a", "detached"), Pack("a", "implementers")>>]}
=============================================================================
