------------------------------ MODULE SessionRows ------------------------------
(***************************************************************************)
(* What server/session_manager.py keeps of a session between its turns:    *)
(* the row of the sessions table, the entry in SessionManager.sessions and *)
(* the upstream conversation that claude_session_id names.                 *)
(*                                                                         *)
(* A conversation is abstracted to what it holds: how often the history    *)
(* the session began with, how often the request being answered, and       *)
(* whether output for that request.                                        *)
(***************************************************************************)
EXTENDS Integers, Sequences, FiniteSets

CONSTANTS
    Sessions,     \* the sessions of the user and the ids of forks
    Users,        \* the sessions of the user
    MaxRequests,  \* bound: requests that reach the server
    MaxCrashes    \* bound: deaths of the process

ASSUME RowsAssumption ==
    /\ Users \subseteq Sessions /\ MaxRequests \in Nat /\ MaxCrashes \in Nat

Forks == Sessions \ Users

VARIABLES
    phase,     \* the process: down, recover (fork recovery at boot) or up
    row,       \* sessions.fork_status and archived; "none" is no row
    mem,       \* in SessionManager.sessions
    conv,      \* what claude_session_id resumes
    replay,    \* fork_needs_replay
    forking,   \* _forking
    requests,  \* requests so far
    crashes    \* crashes so far

rowVars == <<phase, row, mem, conv, replay, forking, requests, crashes>>

Least(a, b) == IF a < b THEN a ELSE b

Nothing  == [id |-> FALSE, past |-> 0, ask |-> 0, work |-> FALSE]
Answered == [id |-> TRUE,  past |-> 1, ask |-> 0, work |-> FALSE]

\* What a conversation holds once a backend that resumed c was given the prompt p.
Heard(c, p) == [id   |-> TRUE,                   past |-> Least(2, c.past + p.past),
                ask  |-> Least(2, c.ask + p.ask), work |-> c.work]

\* The same conversation between two requests: the one that was answered is history.
Settled(c) == [id |-> c.id, past |-> c.past, ask |-> 0, work |-> FALSE]

\* A prompt: the request, the "continue" of a recovery, and what wraps it; "fresh"
\* when a user sent it, not when a wake-up repeats it.
Asked    == [ask |-> 1, past |-> 0, fresh |-> TRUE]
Continue == [ask |-> 0, past |-> 0, fresh |-> FALSE]

RowsInit ==
    /\ phase = "up" /\ requests = 0 /\ crashes = 0
    /\ row = [s \in Sessions |-> IF s \in Users THEN "ready" ELSE "none"]
    /\ mem = [s \in Sessions |-> s \in Users]
    /\ conv = [s \in Sessions |-> IF s \in Users THEN Answered ELSE Nothing]
    /\ replay = [s \in Sessions |-> FALSE] /\ forking = [s \in Sessions |-> FALSE]

Up == phase = "up"

Request == Up /\ requests < MaxRequests /\ requests' = requests + 1
===============================================================================
