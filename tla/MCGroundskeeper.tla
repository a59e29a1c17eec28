---------------------------- MODULE MCGroundskeeper ----------------------------
EXTENDS Groundskeeper

Star == {[kind |-> "star", n |-> 0]}
At(n) == {[kind |-> "number", n |-> n]}
Every(n) == {[kind |-> "step", n |-> n]}

AFile(name, minute, active, max, weekly) ==
    [name |-> name, enabled |-> "true", schedule |-> <<minute, Star, Star, Star, Star>>, repo |-> "site",
     perRun |-> {1}, weekly |-> {weekly}, max |-> max, active |-> active, complete |-> TRUE]

(* Two live cards for one repository; a second card of a name, a bad schedule and one whose
   enabled field is neither true nor false are left out. *)
TheFiles == <<AFile("audit", At(1) \union At(2), TRUE, 1, 1), AFile("audit", Star, FALSE, 1, 9), AFile("polish", Every(3), FALSE, 2, 1),
              AFile("typo", At(60), FALSE, 1, 9), [AFile("yes", Star, FALSE, 1, 9) EXCEPT !.enabled = "yes"]>>
TheCalendar == [m \in 0..MaxMinute |-> <<m + 1, 9, 1, 6, 1>>]
=============================================================================
