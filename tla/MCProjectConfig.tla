-------------------------- MODULE MCProjectConfig --------------------------
(* Two requests over one project of two repositories and one authority key. *)
EXTENDS ProjectConfig

CONSTANTS q1, q2, a, b

MCRequests == {q1, q2}
MCRepos == {a, b}
MCCards == [repos : {{a}, {a, b}}, deployEnabled : {TRUE}]
MCValues == [k \in {"merge"} |-> {"review"}]
=============================================================================
