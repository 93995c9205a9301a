----------------------------- MODULE WorkSessions -----------------------------
(***************************************************************************)
(* What delegations, background commands and deep research share: the      *)
(* sessions they work in and report to, the driver that takes a session's  *)
(* prompts one at a time, the durable outbox of injected prompts and the   *)
(* phases of a boot (server/session_manager.py, server/main.py).           *)
(*                                                                         *)
(* SessionTurns models the locks, claims and retries below a turn; here a  *)
(* prompt that the driver takes is in the transcript at once, and with it  *)
(* the outbox row of an injected prompt is delivered.                      *)
(***************************************************************************)
EXTENDS Integers, Sequences, FiniteSets

CONSTANTS
    Root,        \* a session a user opened
    Kids,        \* sessions that delegations create
    MaxRound,    \* model bound: rounds of one delegation
    Commands,    \* background commands
    Jobs,        \* deep research jobs
    Budget,      \* model bound: requests, outside events and ends of the process
    RequestCost, WorkCost, FaultCost   \* what a delegation's, a command's or job's
                 \* request takes from it, and an end of the process

ASSUME RootAssumption   == Root \notin Kids
ASSUME BoundsAssumption == MaxRound \in Nat \ {0} /\ Budget \in Nat
                           /\ {RequestCost, WorkCost, FaultCost} \subseteq Nat \ {0}

Sessions == {Root} \cup Kids
Rounds   == Kids \X (1 .. MaxRound)

\* Source keys of the outbox, which are also the prompts they inject; the other
\* prompts are the requests of callers.
Told(r)     == <<"terminal", r[1], r[2]>>
Question(r) == <<"question", r[1], r[2]>>
Result(b)   == <<"bg", b>>
Report(j)   == <<"research", j>>
Keys   == {Told(r) : r \in Rounds} \cup {Question(r) : r \in Rounds}
            \cup {Result(b) : b \in Commands} \cup {Report(j) : j \in Jobs}
Ask(r) == <<"ask", r[1], r[2]>>
Prompts == Keys \cup {Ask(r) : r \in Rounds}

BootPhases == {"bg", "research", "rounds", "tell", "materialize", "archive"}

VARIABLES
    phase,    \* "up", "stopping", "down" or the stage of the boot
    sess,     \* "none" (not created), "live" (in memory), "archived"
    parent,   \* parent_session_id of a delegation's session
    drv,      \* its driver: none, turn, over (turn ended), idle (in the idle hook)
    queue,    \* _pending_queue
    hide,     \* _auto_archive_requested
    parked,   \* a row of parked_turns
    asked,    \* _pending_questions is not empty
    outbox,   \* session_injections: status and what the prompt says
    claimed,  \* _dispatched_injection_ids
    spent     \* how much of the budget is used

worldVars == <<phase, sess, parent, drv, queue, hide, parked, asked, outbox, claimed, spent>>

NoRow == [status |-> "none", to |-> Root, says |-> "none"]

WorldOK ==
    /\ phase \in BootPhases \cup {"up", "stopping", "down"}
    /\ sess \in [Sessions -> {"none", "live", "archived"}]
    /\ parent \in [Sessions -> Sessions]
    /\ drv \in [Sessions -> {"none", "turn", "over", "idle"}]
    /\ queue \in [Sessions -> Seq(Prompts)]
    /\ hide \in [Sessions -> BOOLEAN] /\ parked \in [Sessions -> BOOLEAN]
    /\ asked \in [Sessions -> BOOLEAN]
    /\ outbox \in [Keys -> [status : {"none", "pending", "delivered", "failed"},
                            to : Sessions, says : {"none", "reply", "error", "other"}]]
    /\ claimed \subseteq Keys
    /\ spent \in 0 .. Budget

WorldInit ==
    /\ phase = "up"
    /\ sess = [s \in Sessions |-> IF s = Root THEN "live" ELSE "none"]
    /\ parent = [s \in Sessions |-> Root]
    /\ drv = [s \in Sessions |-> "none"]
    /\ queue = [s \in Sessions |-> <<>>] /\ hide = [s \in Sessions |-> FALSE]
    /\ parked = [s \in Sessions |-> FALSE] /\ asked = [s \in Sessions |-> FALSE]
    /\ outbox = [k \in Keys |-> NoRow] /\ claimed = {} /\ spent = 0

\* Handlers go on while the process stops; requests, faults and new turns do not.
Up    == phase \in {"up", "stopping"}
Pay(cost) == spent + cost <= Budget /\ spent' = spent + cost
Spend     == phase = "up" /\ Pay(RequestCost)
SpendWork == phase = "up" /\ Pay(WorkCost)

-------------------------------------------------------------------------------
(* The outbox *)

\* enqueue_session_injection: the row is inserted once per source key; the same
\* key with another prompt is an error its callers log.
Enqueued(box, k, s, says) ==
    IF box[k].status = "none" THEN [box EXCEPT ![k] = [status |-> "pending", to |-> s, says |-> says]]
    ELSE box

Enqueue(k, s, says) == outbox' = Enqueued(outbox, k, s, says)

Waiting(k) == outbox[k].status = "pending"

\* A prompt that the driver takes is committed with the ack of its outbox row.
Taken(box, p) ==
    IF p \in DOMAIN box THEN [box EXCEPT ![p].status = "delivered"] ELSE box

FailedRows(box, ks) == [k \in Keys |-> IF k \in ks THEN [box[k] EXCEPT !.status = "failed"] ELSE box[k]]

Busy(s) == drv[s] # "none" \/ parked[s]

\* start_message: to the queue of a busy session, else to a new driver.
Submit(s, p, box) ==
    IF Busy(s)
    THEN /\ queue' = [queue EXCEPT ![s] = Append(@, p)] /\ outbox' = box
         /\ UNCHANGED drv
    ELSE /\ drv' = [drv EXCEPT ![s] = "turn"] /\ outbox' = Taken(box, p) /\ UNCHANGED queue

\* _dispatch_session_injection, by the producer, a retry or the drain of a boot.
Dispatch(k) ==
    /\ phase = "up" /\ Waiting(k) /\ k \notin claimed
    /\ LET s == outbox[k].to IN
       IF sess[s] # "live"
       THEN outbox' = FailedRows(outbox, {k}) /\ UNCHANGED <<queue, drv, claimed>>
       ELSE /\ Submit(s, k, outbox)
            /\ claimed' = IF Busy(s) THEN claimed \cup {k} ELSE claimed
    /\ UNCHANGED <<phase, sess, parent, hide, parked, asked, spent>>

-------------------------------------------------------------------------------
(* The driver of a session *)

\* A driver takes the head of the queue.
TakeNext(s) ==
    /\ drv' = [drv EXCEPT ![s] = "turn"]
    /\ queue' = [queue EXCEPT ![s] = Tail(@)]
    /\ outbox' = Taken(outbox, Head(queue[s])) /\ claimed' = claimed \ {Head(queue[s])}

\* The driver picks up the next prompt, or calls the idle notifier.
NextPrompt(s) ==
    /\ Up /\ drv[s] = "over"
    /\ IF queue[s] # <<>> THEN TakeNext(s)
       ELSE drv' = [drv EXCEPT ![s] = "idle"] /\ UNCHANGED <<queue, outbox, claimed>>
    /\ UNCHANGED <<phase, sess, parent, hide, parked, asked, spent>>

\* After the idle hook the driver ends and archives a session that asked for it; a
\* prompt queued during the hook stays behind.
DriverEnds(s) ==
    /\ Up /\ drv[s] = "idle"
    /\ drv' = [drv EXCEPT ![s] = "none"]
    /\ sess' = IF hide[s] THEN [sess EXCEPT ![s] = "archived"] ELSE sess
    /\ UNCHANGED <<phase, parent, queue, hide, parked, asked, outbox, claimed, spent>>

\* auto_archive_scheduled_session, called by anyone but the driver itself.
AutoArchive(s) ==
    IF sess[s] = "live" /\ drv[s] # "none"
    THEN hide' = [hide EXCEPT ![s] = TRUE] /\ UNCHANGED sess
    ELSE sess' = [sess EXCEPT ![s] = IF @ = "live" THEN "archived" ELSE @] /\ UNCHANGED hide

\* _wake: the usage limit was reset.
Wakes(s) ==
    /\ phase = "up" /\ parked[s] /\ parked' = [parked EXCEPT ![s] = FALSE]
    /\ IF sess[s] = "live" /\ drv[s] = "none"
       THEN drv' = [drv EXCEPT ![s] = "turn"]
       ELSE UNCHANGED drv
    /\ UNCHANGED <<phase, sess, parent, queue, hide, asked, outbox, claimed, spent>>

\* The turn of the user's own session ends.  What its driver does without a further
\* prompt leaves no trace here, so it is gone at once.
RootTurnEnds ==
    /\ Up /\ drv[Root] = "turn"
    /\ drv' = [drv EXCEPT ![Root] = IF queue[Root] = <<>> THEN "none" ELSE "over"]
    /\ UNCHANGED <<phase, sess, parent, queue, hide, parked, asked, outbox, claimed, spent>>

\* unarchive_session: a new session object, so an empty queue and no flags; refused
\* for a session that is not archived.
Unarchived(s) ==
    /\ sess' = [sess EXCEPT ![s] = "live"]
    /\ queue' = [queue EXCEPT ![s] = <<>>] /\ hide' = [hide EXCEPT ![s] = FALSE]
    /\ asked' = [asked EXCEPT ![s] = FALSE]

\* The prompts of a driver's queue that came from the outbox.
QueuedKeys(s) == {queue[s][i] : i \in DOMAIN queue[s]} \cap Keys
===============================================================================
