------------------------------ MODULE MCPlanning ------------------------------
(* A project, an idea or an epic beside a task that a human filed, on a board of at most
   four tickets, over two directories and one shared file. *)
EXTENDS Planning

Src == <<"src", "/", "*">>
Docs == <<"docs", "/", "*">>
App == <<"src", "/", "app">>
Lock == <<"bun.lock">>
MCGlobs == {Src, Docs, App, Lock}
MCGlue == {Lock}

Task(touches) == [Filed("task", {}) EXCEPT !.touches = touches, !.writes = touches]
MCStarts == {<<Filed("none", {"Bootstrap"})>>,
             <<Filed("none", {"Intake"})>>,
             <<Filed("none", {"Epic"}), Task({Src})>>}
Child(deps, touches, mentions) == [deps |-> deps, touches |-> touches, mentions |-> mentions, premises |-> {}]
MCPlans == {<<Child({}, {App}, {Lock}), Child({}, {Docs}, {Lock})>>,
            <<Child({}, {App}, {}), Child({2}, {}, {})>>}
MCFollowUps == {<< >>, <<[Child({}, {Docs}, {}) EXCEPT !.premises = {"hold", "moot", "unknown"}]>>}
=============================================================================
