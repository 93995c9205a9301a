------------------------------- MODULE Questions -------------------------------
(***************************************************************************)
(* Questions a turn asks and waits for (mcp_servers/ask.py,                *)
(* routers/questions.py, SessionManager.create_pending_question and what   *)
(* answers it: the user, the caller of a delegated session, a timer).  The *)
(* tool call lives in the backend of its turn, the question in the server. *)
(***************************************************************************)
EXTENDS TurnAttempts

CONSTANT Asking  \* the questions that are ever asked

VARIABLES
    tool,       \* the tool call: none, posts, waits, returned or killed with its backend
    asker,      \* the session it was asked in
    opening,    \* create_pending_question is under way
    pending,    \* _pending_questions, in order
    timer,      \* _question_timers: questions with a timer
    answer,     \* _pending_question_answers and whether the event is set
    recording,  \* _deliver_question_answer is writing and broadcasting this answer
    shown,      \* question_answer rows
    heard       \* what the model was told

questionVars == <<tool, asker, opening, pending, timer, answer, recording, shown, heard>>

Sources == {"user", "caller", "timer"}

QuestionsInit ==
    /\ tool = [q \in Asking |-> "none"] /\ asker = [q \in Asking |-> "none"]
    /\ opening = {} /\ timer = {} /\ recording = {} /\ shown = {}
    /\ pending = [s \in Sessions |-> <<>>]
    /\ answer = [q \in Asking |-> "none"] /\ heard = [q \in Asking |-> "none"]

IsPending(q) == \E s \in Sessions : \E i \in DOMAIN pending[s] : pending[s][i] = q

\* The tool posts the question; it can be answered before it is written and has a timer.
Asks(s, q) ==
    /\ At(s, "stream") /\ turn[s].out = "tool" /\ tool[q] = "none" /\ mem[s]
    /\ tool' = [tool EXCEPT ![q] = "posts"] /\ asker' = [asker EXCEPT ![q] = s]
    /\ opening' = opening \cup {q} /\ pending' = [pending EXCEPT ![s] = Append(@, q)]
    /\ UNCHANGED <<timer, answer, recording, shown, heard>>

\* The rest of create_pending_question, whatever has become of the question; the tool, if
\* it is still there, starts to poll.
Opens(q) ==
    /\ Up /\ q \in opening /\ opening' = opening \ {q}
    /\ timer' = timer \cup {q}
    /\ tool' = [tool EXCEPT ![q] = IF @ = "posts" THEN "waits" ELSE @]
    /\ UNCHANGED <<asker, pending, answer, recording, shown, heard>>

\* Mutant: the answer stops the timers of the whole session.
TimersStopped(q) == {p \in timer : asker[p] # asker[q]}
TimerStopped(q)   == timer \ {q}

\* _deliver_question_answer, up to its first await.
Delivers(q, by) ==
    /\ timer' = TimerStopped(q) /\ answer' = [answer EXCEPT ![q] = by]
    /\ recording' = recording \cup {<<q, by>>}
    /\ UNCHANGED <<tool, asker, opening, pending, shown, heard>>

Submits(q) ==      \* answer_question, by the form
    /\ Up /\ IsPending(q) /\ mem[asker[q]] /\ Delivers(q, "user")

Forwards(s) ==     \* answer_pending_question: the caller names the session, not the question
    /\ Up /\ mem[s] /\ pending[s] # <<>> /\ Delivers(Head(pending[s]), "caller")

Expires(q) ==      \* _auto_answer_after
    /\ Up /\ q \in timer
    /\ IF IsPending(q) THEN Delivers(q, "timer")
       ELSE timer' = TimerStopped(q)
            /\ UNCHANGED <<tool, asker, opening, pending, answer, recording, shown, heard>>

\* dict.pop of a question that may be gone.
Without(p, q) ==
    LET at == {i \in DOMAIN p : p[i] = q}
        n  == CHOOSE i \in at : TRUE
    IN  IF at = {} THEN p ELSE SubSeq(p, 1, n - 1) \o SubSeq(p, n + 1, Len(p))

\* The row, the broadcast, and only then the question is no longer pending.
Records(q, by) ==
    /\ Up /\ <<q, by>> \in recording /\ recording' = recording \ {<<q, by>>}
    /\ shown' = shown \cup {<<q, by>>}
    /\ pending' = [pending EXCEPT ![asker[q]] = Without(@, q)]
    /\ UNCHANGED <<tool, asker, opening, timer, answer, heard>>

\* A poll that finds the event set, or comes after it; the others come back empty-handed.
Hears(q) ==
    /\ Up /\ tool[q] = "waits" /\ answer[q] # "none"
    /\ heard' = [heard EXCEPT ![q] = answer[q]] /\ tool' = [tool EXCEPT ![q] = "returned"]
    /\ UNCHANGED <<asker, opening, pending, timer, answer, recording, shown>>

\* A tool call ends with the backend that made it, the question does not.
ToolsEnd ==
    /\ tool' = [q \in Asking |-> IF tool[q] \in {"posts", "waits"} /\ turn'[asker[q]].stage # "stream"
                                 THEN "killed" ELSE tool[q]]
    /\ UNCHANGED <<asker, opening, answer, recording, shown, heard>>

\* Interrupting a turn withdraws what its session has asked.
Withdrawn(s) ==
    /\ pending' = [pending EXCEPT ![s] = <<>>] /\ timer' = {q \in timer : asker[q] # s}

\* So does archiving the session.
Evicted ==
    /\ pending' = [s \in Sessions |-> IF mem'[s] THEN pending[s] ELSE <<>>]
    /\ timer' = {q \in timer : mem'[asker[q]]} /\ ToolsEnd

QuestionsCrash ==
    /\ tool' = [q \in Asking |-> IF tool[q] = "none" THEN "none" ELSE "killed"]
    /\ opening' = {} /\ timer' = {} /\ recording' = {}
    /\ pending' = [s \in Sessions |-> <<>>]
    /\ answer' = [q \in Asking |-> "none"] /\ heard' = [q \in Asking |-> "none"]
    /\ UNCHANGED <<asker, shown>>

QuestionStep ==
    \/ \E q \in Asking : \/ Opens(q) \/ Submits(q) \/ Expires(q) \/ Hears(q)
                         \/ \E by \in Sources : Records(q, by)
    \/ \E s \in Sessions : Forwards(s) \/ \E q \in Asking : Asks(s, q)
===============================================================================
