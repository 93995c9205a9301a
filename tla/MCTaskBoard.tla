----------------------------- MODULE MCTaskBoard -----------------------------
(***************************************************************************)
(* Instances of TaskBoard for TLC: tasks of one board that share a         *)
(* directory, one agent.                                                   *)
(***************************************************************************)
EXTENDS TaskBoard

CONSTANTS t1, t2, t3, b1, a1, shared

MCBoardOf    == [t \in Tasks |-> b1]
MCDir        == [t \in Tasks |-> shared]
Todo         == [NewTask EXCEPT !.status = "todo", !.agent = a1]
\* A task, its child and one without an assignee; a task still to be specified,
\* scheduled for later.
MCFamily     == [t \in Tasks |-> CASE t = t1 -> Todo
                                   [] t = t2 -> [Todo EXCEPT !.parent = t1]
                                   [] t = t3 -> [Todo EXCEPT !.agent = NoAgent]]
MCDraft      == [t \in Tasks |-> IF t = t1 THEN [Todo EXCEPT !.status = "triage", !.later = TRUE]
                                           ELSE NewTask]
MCLinks      == {<<t2, t1>>}
MCReflective == {<<t1, 2>>}
MCJudged     == {<<t1, 1>>}
MCOnce       == [t \in Tasks |-> IF t = t3 THEN 0 ELSE 1]
MCTwice      == [t \in Tasks |-> IF t = t3 THEN 0 ELSE 2]
Calm         == [k \in Kinds |-> 0]

\* One task twice, and one that may be created beside it: any one request, wait or
\* pause, with one teardown or crash.
RaceBudget == [Calm EXCEPT !["make"] = 1, !["life"] = 1, !["toggle"] = 1, !["wait"] = 1,
                           !["stop"] = 1, !["total"] = 1]

EachOne    == [k \in Kinds |-> IF k = "stop" THEN 0 ELSE 1]

\* A task, its child that waits for it, and a third: one link, move or assignment.
GraphBudget == [Calm EXCEPT !["link"] = 1, !["edit"] = 1, !["total"] = 1]
================================================================================
