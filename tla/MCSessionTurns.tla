---------------------------- MODULE MCSessionTurns ----------------------------
(***************************************************************************)
(* Instances of SessionTurns for TLC: one session, a prompt of each kind.  *)
(* A budget says how often each disturbance may happen in one behaviour    *)
(* and, under "total", how many of them together.                          *)
(***************************************************************************)
EXTENDS SessionTurns

CONSTANTS s1, m1, m2, w1, f1, i1, i2, r1

MCTarget == [p \in Prompts |-> s1]

Calm == [k \in Kinds |-> 0]

\* Every disturbance once, at most three of them in one behaviour.
WideBudget == [[k \in Kinds |-> 1] EXCEPT !["total"] = 3]

\* No interrupt, no reset, no park: what is left never steals a lock.
QuietBudget == [Calm EXCEPT !["close"] = 1, !["fork"] = 1, !["deploy"] = 1,
                            !["timeout"] = 1, !["enqueue"] = 2, !["shutdown"] = 1,
                            !["crash"] = 1, !["total"] = 3]

\* Liveness: two producers' intents, an interrupt, a fork, a lock timeout, a crash.
LiveBudget == [Calm EXCEPT !["interrupt"] = 1, !["fork"] = 1, !["timeout"] = 1,
                           !["enqueue"] = 2, !["crash"] = 1, !["total"] = 3]

\* An intent is produced while a deploy switch holds the admission gate.
DeployBudget == [Calm EXCEPT !["deploy"] = 1, !["enqueue"] = 1, !["total"] = 2]
================================================================================
