------------------------------ MODULE RunReports ------------------------------
(***************************************************************************)
(* What the task board promises whoever asked for a task: an attempt (run) *)
(* ends once, the end it is reported with is the end it had, and it is     *)
(* reported once or recorded as undeliverable, whoever ended it and        *)
(* however often the server was restarted in between.                      *)
(*                                                                         *)
(* outcome stands for task_runs.state; report for the durable intent with  *)
(* the source key task:<id>:run:<id>:terminal, or for the task event       *)
(* notification_unavailable.                                               *)
(***************************************************************************)
CONSTANTS Runs, Outcomes

VARIABLES outcome, report

reportVars == <<outcome, report>>

Init == /\ outcome = [r \in Runs |-> "none"]
        /\ report  = [r \in Runs |-> "none"]

Begin(r) == /\ outcome[r] = "none"
            /\ outcome' = [outcome EXCEPT ![r] = "running"]
            /\ UNCHANGED report

\* A boot ends every attempt of the previous process in one transaction.
End(R, o) == /\ R # {}
             /\ \A r \in R : outcome[r] = "running"
             /\ outcome' = [r \in Runs |-> IF r \in R THEN o ELSE outcome[r]]
             /\ UNCHANGED report

Tell(r) == /\ outcome[r] \in Outcomes
           /\ report[r] = "none"
           /\ report' = [report EXCEPT ![r] = outcome[r]]
           /\ UNCHANGED outcome

GiveUp(r) == /\ outcome[r] \in Outcomes
             /\ report[r] \in {"none", "erased"}
             /\ report' = [report EXCEPT ![r] = "unavailable"]
             /\ UNCHANGED outcome

\* The session that asked is deleted, and its intents with it.
Erase == /\ report' = [r \in Runs |-> IF report[r] \in Outcomes THEN "erased"
                                                                ELSE report[r]]
         /\ UNCHANGED outcome

Next == \/ \E r \in Runs : Begin(r) \/ Tell(r) \/ GiveUp(r)
        \/ \E R \in SUBSET Runs, o \in Outcomes : End(R, o)
        \/ Erase

Spec == Init /\ [][Next]_reportVars
================================================================================
