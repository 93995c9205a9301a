---------------------------- MODULE InjectionOutbox ----------------------------
(***************************************************************************)
(* What the durable outbox of Owlery promises its producers (background    *)
(* tasks, deep research, delegations, task delivery): every system event   *)
(* handed to it becomes AT MOST ONE user-message row of its target         *)
(* session, the row and its acknowledgement appear together, and an event  *)
(* whose fate is settled never changes it, whatever the server does in     *)
(* between (queues, retries, restarts).                                    *)
(*                                                                         *)
(* The tables are session_injections (status) and messages.injection_id    *)
(* (rows); the triggers and the unique index live in server/database.py.   *)
(***************************************************************************)
EXTENDS Naturals

CONSTANT Injections   \* source keys: bg:<id>, research:<id>, delegation:<run>:...

VARIABLES outbox,     \* session_injections.status, "none" before the INSERT
          rows        \* messages carrying this injection_id

outboxVars == <<outbox, rows>>

Init == /\ outbox = [i \in Injections |-> "none"]
        /\ rows   = [i \in Injections |-> 0]

\* A producer commits its intent (INSERT OR IGNORE on the unique source key).
Intend(i) == /\ outbox[i] = "none"
             /\ outbox' = [outbox EXCEPT ![i] = "pending"]
             /\ UNCHANGED rows

\* The transcript INSERT and the acknowledging trigger, one SQL statement.
Deliver(i) == /\ outbox[i] = "pending"
              /\ outbox' = [outbox EXCEPT ![i] = "delivered"]
              /\ rows'   = [rows EXCEPT ![i] = @ + 1]

\* Several pending intents may be failed by one archive of their target.
Fail(F) == /\ F # {}
           /\ \A i \in F : outbox[i] = "pending"
           /\ outbox' = [i \in Injections |-> IF i \in F THEN "failed" ELSE outbox[i]]
           /\ UNCHANGED rows

\* Deleting a session cascades to its intents and to its transcript.
Erase(D) == /\ D # {}
            /\ outbox' = [i \in Injections |-> IF i \in D THEN "erased" ELSE outbox[i]]
            /\ rows'   = [i \in Injections |-> IF i \in D THEN 0 ELSE rows[i]]

Next == \/ \E i \in Injections : Intend(i) \/ Deliver(i)
        \/ \E I \in SUBSET Injections : Fail(I) \/ Erase(I)

Spec == Init /\ [][Next]_outboxVars
================================================================================
