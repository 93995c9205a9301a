----------------------------- MODULE SessionTurns -----------------------------
(***************************************************************************)
(* The turn machinery of server/session_manager.py: how a prompt becomes a *)
(* turn (start_message, _drive_messages, _consume_message, send_message),  *)
(* what interrupts it (interrupt, reset_session, archive, delete, fork),   *)
(* the usage-limit park, the durable injection outbox with its dispatch    *)
(* and retry, the deploy admission gate, and a crash followed by a boot.   *)
(*                                                                         *)
(* Everything runs on one asyncio loop: an action is the code between two  *)
(* awaits that matter, so the interleavings are those of the awaits.  Both *)
(* asyncio locks are modelled without their waiter queue: any waiter may   *)
(* win, which only adds orders.  A read from SQLite and the code its       *)
(* answer resumes are one action: one connection answers in order.         *)
(*                                                                         *)
(* An operator defined just before another and used nowhere is a plausible *)
(* mistake in it: PROJECT.json lists them as mutants, with the property    *)
(* that each one breaks.                                                   *)
(***************************************************************************)
EXTENDS Integers, Sequences

CONSTANTS
    Sessions,
    Messages,      \* prompts of users: WebSocket, bridge, schedule
    Workers,       \* first prompts of task workers: admission_claimed = TRUE
    FollowUps,     \* follow_up_delegation: start_message under a held gate
    Injections,    \* source keys of the durable outbox
    Resumes,       \* payloads of parked turns
    Target,        \* the session a prompt is addressed to
    Scheduled,     \* sessions of origin "schedule"
    Transient,     \* sessions of origin schedule, delegation or task
    NotifierWired, \* a NotifierManager is installed
    Budget         \* how often each disturbance may happen (a model bound)

Prompts == Messages \cup Workers \cup FollowUps \cup Injections \cup Resumes

Kinds == {"interrupt", "reset", "close", "fork", "park", "deploy",
          "timeout", "enqueue", "shutdown", "crash", "total"}

ASSUME PromptKindsAreDisjoint ==
    /\ Messages \cap (Workers \cup FollowUps \cup Injections \cup Resumes) = {}
    /\ Workers \cap (FollowUps \cup Injections \cup Resumes) = {}
    /\ FollowUps \cap (Injections \cup Resumes) = {}
    /\ Injections \cap Resumes = {}
ASSUME PromptsAreNotMarks == Prompts \cap {"free", "deploy", "turn", "none"} = {}
ASSUME TargetAssumption  == Target \in [Prompts -> Sessions]
ASSUME OriginAssumption  == Scheduled \subseteq Transient /\ Transient \subseteq Sessions
ASSUME BudgetAssumption  == Budget \in [Kinds -> Nat]
ASSUME NotifierAssumption == NotifierWired \in BOOLEAN

VARIABLES
    pc, via,          \* start_message, one call per prompt; who dispatched it
    gate, closed,     \* DeployAdmissionGate._lock and _closed
    lock,             \* Session._lock
    queue,            \* Session._pending_queue
    driver, cur,      \* _active_task with its _inner_task; the prompt it runs
    cancelling,       \* a task.cancel() not yet delivered
    sess,             \* the session row and its entry in SessionManager.sessions
    archReq,          \* Session._auto_archive_requested
    forking,          \* Session._forking
    resetting,        \* a reset_session awaiting backend.stop()
    parked,           \* a parked_turns row
    releasing,        \* a release_parked_queue under way
    outbox, rows,     \* session_injections.status, messages per injection_id
    claimed, retry,   \* _dispatched_injection_ids, _injection_retry_tasks
    enabled,          \* _injection_dispatch_enabled
    recovering,       \* rows recover_pending_session_injections has yet to visit
    phase, deploy,    \* lifespan of the process; a deploy switch
    left              \* what remains of Budget

vars == <<pc, via, gate, closed, lock, queue, driver, cur, cancelling, sess,
          archReq, forking, resetting, parked, releasing, outbox, rows, claimed,
          retry, enabled, recovering, phase, deploy, left>>

callVars    == <<pc, via>>
gateVars    == <<gate, closed>>
turnVars    == <<driver, cur, cancelling>>
sessVars    == <<sess, archReq, forking, resetting, parked, releasing>>
storeVars   == <<outbox, rows>>
claimVars   == <<claimed, retry>>
processVars == <<enabled, recovering, phase, deploy>>

\* _active_task: created; the four places of its inner task; broadcasting
\* "dequeued"; in the idle notification after the queue drained.
InnerStates == {"created", "lockwait", "anchor", "running"}
DriverStates == {"none", "start", "deq", "hook"} \cup InnerStates

Live(s)     == driver[s] # "none"
InMemory(s) == sess[s] \in {"open", "archiving", "dropping"}
Busy(s)     == parked[s] \/ Live(s)
Queued(s)   == {queue[s][k] : k \in DOMAIN queue[s]}
Pending     == {i \in Injections : outbox[i] = "pending"}
TargetOf(s) == {i \in Injections : Target[i] = s}

Spend(k) == /\ left[k] > 0 /\ left["total"] > 0
            /\ left' = [left EXCEPT ![k] = @ - 1, !["total"] = @ - 1]

Init ==
    /\ pc = [p \in Prompts |-> "idle"] /\ via = [i \in Injections |-> "none"]
    /\ gate = "free" /\ closed = FALSE
    /\ lock = [s \in Sessions |-> "free"]
    /\ queue = [s \in Sessions |-> <<>>]
    /\ driver = [s \in Sessions |-> "none"] /\ cur = [s \in Sessions |-> "none"]
    /\ cancelling = [s \in Sessions |-> FALSE]
    /\ sess = [s \in Sessions |-> "open"]
    /\ archReq = [s \in Sessions |-> FALSE]
    /\ forking = [s \in Sessions |-> FALSE]
    /\ resetting = [s \in Sessions |-> FALSE]
    /\ parked = [s \in Sessions |-> FALSE]
    /\ releasing = [s \in Sessions |-> FALSE]
    /\ outbox = [i \in Injections |-> "none"] /\ rows = [i \in Injections |-> 0]
    /\ claimed = {} /\ retry = [i \in Injections |-> FALSE]
    /\ enabled = TRUE /\ recovering = {} /\ phase = "up" /\ deploy = "idle"
    /\ left = Budget

--------------------------------------------------------------------------------
(* asyncio.Lock.release does not check who holds the lock: it frees it, or  *)
(* raises RuntimeError when a forced release already did.                   *)
Unlocked(s)  == [lock EXCEPT ![s] = "free"]
GateLeftOwnerless(p) == IF gate = p THEN "none" ELSE gate
GateLeft(p)  == IF gate = p THEN "free" ELSE gate

\* fail_session_injection: UPDATE ... WHERE status = 'pending'.
FailRowBlindly(i) == [outbox EXCEPT ![i] = "failed"]
FailRow(i)        == [outbox EXCEPT ![i] = IF @ = "pending" THEN "failed" ELSE @]

\* The dispatcher's `except` clauses: "forking" and unexpected errors retry.
RetriesUnexpected(result) == result \notin {"ok", "refused", "forking"}
Retries(result)           == result \notin {"ok", "refused"}

(* How start_message ends for its caller.  A user sees the exception; an    *)
(* injection's dispatcher retries or, on any other ValueError ("refused"),  *)
(* fails the row for good.                                                  *)
EndCall(p, result) ==
    /\ pc' = [pc EXCEPT ![p] = IF p \in Injections \cup Resumes THEN "idle" ELSE "done"]
    /\ IF p \notin Injections
       THEN UNCHANGED <<via, claimed, retry, outbox>>
       ELSE /\ via' = [via EXCEPT ![p] = "none"]
            /\ claimed' = IF result = "ok" THEN claimed ELSE claimed \ {p}
            /\ retry' = [retry EXCEPT ![p] =
                 IF result = "ok" THEN @ /\ via[p] # "retry" ELSE @ \/ Retries(result)]
            /\ outbox' = IF result = "ok" \/ Retries(result) THEN outbox ELSE FailRow(p)
    /\ UNCHANGED rows

\* Leaving `async with session._lock` after a forced release replaces the result.
AfterUnlock(p, result) == IF lock[Target[p]] = "free" THEN "runtime" ELSE result

--------------------------------------------------------------------------------
(* start_message                                                           *)

\* A worker's run was claimed under the gate (TaskBoardManager._dispatch_task).
Submit(p) ==
    /\ p \in Messages \cup Workers \cup FollowUps
    /\ pc[p] = "idle" /\ phase = "up"
    /\ p \in Workers => gate = "free" /\ ~closed
    /\ pc' = [pc EXCEPT ![p] = IF ~InMemory(Target[p]) THEN "done"
                               ELSE IF p \in Workers THEN "check1" ELSE "admit1"]
    /\ UNCHANGED <<via, gateVars, lock, queue, turnVars, sessVars, storeVars,
                   claimVars, processVars, left>>

\* admit() of the busy check, or the outer admit() of follow_up_delegation.
Admit1(p) ==
    /\ pc[p] = "admit1" /\ gate = "free"
    /\ IF closed
       THEN EndCall(p, "refused") /\ UNCHANGED gate
       ELSE /\ gate' = p /\ pc' = [pc EXCEPT ![p] = "check1"]
            /\ UNCHANGED <<via, claimVars, storeVars>>
    /\ UNCHANGED <<closed, lock, queue, turnVars, sessVars, processVars, left>>

\* Only follow_up_delegation still holds the gate when the session lock is taken.
GateKept(p)           == gate
GateAfterBusyCheck(p) == IF p \in FollowUps THEN gate ELSE GateLeft(p)

\* enqueue_if_busy, then the session lock (not awaited when it is free).
EnqueueIfBusy(p) ==
    LET s == Target[p] IN
    /\ pc[p] = "check1"
    /\ IF Busy(s)
       THEN /\ queue' = [queue EXCEPT ![s] = Append(@, p)]
            /\ gate' = GateLeft(p)
            /\ EndCall(p, "ok")
            /\ UNCHANGED lock
       ELSE /\ gate' = GateAfterBusyCheck(p)
            /\ IF lock[s] = "free"
               THEN lock' = [lock EXCEPT ![s] = p] /\ pc' = [pc EXCEPT ![p] = "admit2"]
               ELSE UNCHANGED lock /\ pc' = [pc EXCEPT ![p] = "lock"]
            /\ UNCHANGED <<queue, via, claimVars, storeVars>>
    /\ UNCHANGED <<closed, turnVars, sessVars, processVars, left>>

AcquireSessionLock(p) ==
    LET s == Target[p] IN
    /\ pc[p] = "lock" /\ lock[s] = "free"
    /\ lock' = [lock EXCEPT ![s] = p]
    /\ pc' = [pc EXCEPT ![p] = "admit2"]
    /\ UNCHANGED <<via, gateVars, queue, turnVars, sessVars, storeVars, claimVars,
                   processVars, left>>

\* Task Board's own claim, or admit() re-entered by the call that holds it.
AdmittedBefore(p) == TRUE
Admitted(p)       == p \in Workers \/ gate = p

\* The serialized second admit(), then claim_idle_turn up to its first await.
Admit2(p) ==
    LET s == Target[p]
        Refuse(why) == /\ EndCall(p, AfterUnlock(p, why))
                       /\ lock' = Unlocked(s) /\ gate' = GateLeft(p) IN
    /\ pc[p] = "admit2" /\ (Admitted(p) \/ gate = "free")
    /\ CASE ~Admitted(p) /\ closed -> Refuse("refused")
         [] (Admitted(p) \/ ~closed) /\ forking[s] -> Refuse("forking")
         [] OTHER -> /\ gate' = IF p \in Workers THEN gate ELSE p
                     /\ pc' = [pc EXCEPT ![p] = "claim"]
                     /\ UNCHANGED <<via, claimVars, storeVars, lock>>
    /\ UNCHANGED <<closed, queue, turnVars, sessVars, processVars, left>>

\* claim_idle_turn after _is_parked answered; both locks are released on exit.
ClaimIdleTurn(p) ==
    LET s == Target[p] IN
    /\ pc[p] = "claim"
    /\ IF Busy(s)
       THEN queue' = [queue EXCEPT ![s] = Append(@, p)] /\ UNCHANGED <<driver, cur>>
       ELSE /\ driver' = [driver EXCEPT ![s] = "start"]
            /\ cur' = [cur EXCEPT ![s] = p]
            /\ UNCHANGED queue
    /\ EndCall(p, AfterUnlock(p, "ok"))
    /\ lock' = Unlocked(s) /\ gate' = GateLeft(p)
    /\ UNCHANGED <<closed, cancelling, sessVars, processVars, left>>

--------------------------------------------------------------------------------
(* _drive_messages                                                         *)

\* Both `except` clauses give a failed injection back and schedule its retry.
GivesUpOnCancel(s, end) == cur[s] \in Injections /\ end = "error"
GivesUpOnError(s, end)  == cur[s] \in Injections /\ end = "cancelled"
Redo(s, end)            == cur[s] \in Injections /\ end \in {"cancelled", "error"}

\* UsageLimitParked alone stops the drain.
DrainsUnlessError(s, end) == queue[s] # <<>> /\ end \notin {"parked", "error"}
Drains(s, end)            == queue[s] # <<>> /\ end # "parked"

\* `await inner` returned: retry a failed injection, then stop (the turn was
\* parked), take the next prompt, or fall into the idle notification.  No await
\* separates the end of the inner task from this.
DriverNext(s, end) ==
    LET c == cur[s]
        lingers == NotifierWired \/ s \in Scheduled \/ archReq[s] IN
    /\ claimed' = IF Redo(s, end) \/ end = "givenBack" THEN claimed \ {c} ELSE claimed
    /\ retry' = IF Redo(s, end) THEN [retry EXCEPT ![c] = TRUE] ELSE retry
    /\ IF Drains(s, end)
       THEN /\ cur' = [cur EXCEPT ![s] = Head(queue[s])]
            /\ queue' = [queue EXCEPT ![s] = Tail(@)]
            /\ driver' = [driver EXCEPT ![s] = "deq"]
       ELSE /\ cur' = [cur EXCEPT ![s] = "none"]
            /\ driver' = [driver EXCEPT ![s] =
                 IF end # "parked" /\ lingers THEN "hook" ELSE "none"]
            /\ UNCHANGED queue

\* First step of the driver task: a session gone meanwhile ends it.
DriverStart(s) ==
    /\ driver[s] = "start" /\ ~cancelling[s]
    /\ IF InMemory(s)
       THEN driver' = [driver EXCEPT ![s] = "created"] /\ UNCHANGED cur
       ELSE /\ driver' = [driver EXCEPT ![s] = "none"]
            /\ cur' = [cur EXCEPT ![s] = "none"]
    /\ UNCHANGED <<callVars, gateVars, lock, queue, cancelling, sessVars, storeVars,
                   claimVars, processVars, left>>

\* The "dequeued" broadcast returned.
DriverLoop(s) ==
    /\ driver[s] = "deq" /\ ~cancelling[s]
    /\ driver' = [driver EXCEPT ![s] = "created"]
    /\ UNCHANGED <<callVars, gateVars, lock, queue, cur, cancelling, sessVars,
                   storeVars, claimVars, processVars, left>>

\* The idle notification returned; transient sessions hide themselves.
DriverEnd(s) ==
    /\ driver[s] = "hook" /\ ~cancelling[s]
    /\ driver' = [driver EXCEPT ![s] = "none"]
    /\ sess' = [sess EXCEPT ![s] =
         IF InMemory(s) /\ (s \in Scheduled \/ archReq[s]) THEN "archived" ELSE @]
    /\ UNCHANGED <<callVars, gateVars, lock, queue, cur, cancelling, archReq, forking,
                   resetting, parked, releasing, storeVars, claimVars, processVars,
                   left>>

\* CancelledError outside `await inner`: nothing in the driver catches it.
DriverCancelled(s) ==
    /\ driver[s] \in {"start", "deq", "hook"} /\ cancelling[s]
    /\ driver' = [driver EXCEPT ![s] = "none"]
    /\ cur' = [cur EXCEPT ![s] = "none"]
    /\ cancelling' = [cancelling EXCEPT ![s] = FALSE]
    /\ UNCHANGED <<callVars, gateVars, lock, queue, sessVars, storeVars, claimVars,
                   processVars, left>>

--------------------------------------------------------------------------------
(* _consume_message and send_message, the inner task                       *)

\* An injection is given back while dispatch is paused.
ConsumeMessage(s) ==
    /\ driver[s] = "created" /\ ~cancelling[s]
    /\ IF cur[s] \in Injections /\ ~enabled THEN DriverNext(s, "givenBack")
       ELSE IF ~InMemory(s) THEN DriverNext(s, "error")
       ELSE /\ driver' = [driver EXCEPT ![s] = "lockwait"]
            /\ UNCHANGED <<queue, cur, claimVars>>
    /\ UNCHANGED <<callVars, gateVars, lock, cancelling, sessVars, storeVars,
                   processVars, left>>

TurnLock(s) ==
    /\ driver[s] = "lockwait" /\ ~cancelling[s] /\ lock[s] = "free"
    /\ lock' = [lock EXCEPT ![s] = "turn"]
    /\ driver' = [driver EXCEPT ![s] = "anchor"]
    /\ UNCHANGED <<callVars, gateVars, queue, cur, cancelling, sessVars, storeVars,
                   claimVars, processVars, left>>

TurnLockTimeoutProceeds(s) ==
    /\ driver[s] = "lockwait" /\ ~cancelling[s] /\ lock[s] # "free"
    /\ Spend("timeout")
    /\ driver' = [driver EXCEPT ![s] = "anchor"]
    /\ UNCHANGED <<callVars, gateVars, lock, queue, cur, cancelling, sessVars, storeVars,
                   claimVars, processVars>>

\* wait_for(session._lock.acquire(), timeout=5.0): "Session ... is busy".
TurnLockTimeout(s) ==
    /\ driver[s] = "lockwait" /\ ~cancelling[s] /\ lock[s] # "free"
    /\ Spend("timeout")
    /\ DriverNext(s, "error")
    /\ UNCHANGED <<callVars, gateVars, lock, cancelling, sessVars, storeVars, processVars>>

MayPersistUntriggered(s) == sess[s] # "deleted"

\* append_message: the BEFORE trigger accepts only a pending row of this session.
MayPersist(s) == /\ sess[s] # "deleted"
                 /\ cur[s] \in Injections => outbox[cur[s]] = "pending"

InsertUserRowUnacked(c) ==
    IF c \in Injections
    THEN rows' = [rows EXCEPT ![c] = @ + 1] /\ UNCHANGED outbox
    ELSE UNCHANGED storeVars

\* The INSERT and the AFTER trigger's acknowledgement, one statement.
InsertUserRow(c) ==
    IF c \in Injections
    THEN /\ outbox' = [outbox EXCEPT ![c] = "delivered"]
         /\ rows' = [rows EXCEPT ![c] = @ + 1]
    ELSE UNCHANGED storeVars

\* A retry task still inside start_message is cancelled and drops what it holds.
ForgetDispatch(c) ==
    IF c \notin Injections
    THEN UNCHANGED <<callVars, gate, lock, claimVars>>
    ELSE LET kill == via[c] = "retry" IN
         /\ claimed' = claimed \ {c}
         /\ retry' = [retry EXCEPT ![c] = FALSE]
         /\ pc' = IF kill THEN [pc EXCEPT ![c] = "idle"] ELSE pc
         /\ via' = IF kill THEN [via EXCEPT ![c] = "none"] ELSE via
         /\ gate' = IF kill THEN GateLeft(c) ELSE gate
         /\ lock' = IF kill /\ pc[c] \in {"admit2", "claim"} THEN Unlocked(Target[c]) ELSE lock

\* capture_git_anchor and _persist_message of the user row.
PersistUserMessage(s) ==
    /\ driver[s] = "anchor" /\ ~cancelling[s]
    /\ IF MayPersist(s)
       THEN /\ InsertUserRow(cur[s])
            /\ ForgetDispatch(cur[s])
            /\ driver' = [driver EXCEPT ![s] = "running"]
            /\ UNCHANGED <<queue, cur>>
       ELSE /\ DriverNext(s, "error")
            /\ lock' = Unlocked(s)
            /\ UNCHANGED <<callVars, gate, storeVars>>
    /\ UNCHANGED <<closed, cancelling, sessVars, processVars, left>>

\* _run_backend is over, whatever its result; a stolen lock raises on release.
TurnEnd(s) ==
    /\ driver[s] = "running" /\ ~cancelling[s]
    /\ DriverNext(s, IF lock[s] = "free" THEN "error" ELSE "ok")
    /\ lock' = Unlocked(s)
    /\ UNCHANGED <<callVars, gateVars, cancelling, sessVars, storeVars, processVars, left>>

\* _park_limited_turn stored the park, and UsageLimitParked leaves send_message.
TurnParked(s) ==
    /\ driver[s] = "running" /\ ~cancelling[s] /\ sess[s] # "deleted"
    /\ Spend("park")
    /\ parked' = [parked EXCEPT ![s] = TRUE]
    /\ DriverNext(s, IF lock[s] = "free" THEN "error" ELSE "parked")
    /\ lock' = Unlocked(s)
    /\ UNCHANGED <<callVars, gateVars, cancelling, sess, archReq, forking, resetting,
                   releasing, storeVars, processVars>>

\* CancelledError unwinds the inner task.  While the row is being written the
\* statement may commit although its awaiter is gone.
TurnCancelled(s) ==
    /\ driver[s] \in InnerStates /\ cancelling[s]
    /\ cancelling' = [cancelling EXCEPT ![s] = FALSE]
    /\ DriverNext(s, "cancelled")
    /\ lock' = IF driver[s] \in {"anchor", "running"} THEN Unlocked(s) ELSE lock
    /\ \/ UNCHANGED storeVars
       \/ driver[s] = "anchor" /\ MayPersist(s) /\ InsertUserRow(cur[s])
    /\ UNCHANGED <<callVars, gateVars, sessVars, processVars, left>>

--------------------------------------------------------------------------------
(* interrupt, reset_session, archive, delete, fork                         *)

\* task.cancel() of the driver: it reaches the inner task while one is awaited.
CancelDriver(s) == cancelling' = [cancelling EXCEPT ![s] = Live(s)] /\ UNCHANGED driver

\* A live inner task is cancelled; otherwise a held lock is taken for wedged.
Interrupt(s) ==
    /\ InMemory(s) /\ Spend("interrupt")
    /\ IF driver[s] \in InnerStates
       THEN cancelling' = [cancelling EXCEPT ![s] = TRUE] /\ UNCHANGED lock
       ELSE lock[s] # "free" /\ lock' = Unlocked(s) /\ UNCHANGED cancelling
    /\ UNCHANGED <<callVars, gateVars, queue, driver, cur, sessVars, storeVars,
                   claimVars, processVars>>

\* _retry_dropped_injections: queued intents are released and retried.  A live
\* backend is awaited before the lock is forced.
ResetSession(s) ==
    LET dropped == Queued(s) \cap Injections IN
    /\ InMemory(s) /\ ~resetting[s] /\ Spend("reset")
    /\ queue' = [queue EXCEPT ![s] = <<>>]
    /\ claimed' = claimed \ dropped
    /\ retry' = [i \in Injections |-> retry[i] \/ i \in dropped]
    /\ CancelDriver(s)
    /\ \/ /\ driver[s] = "running"
          /\ resetting' = [resetting EXCEPT ![s] = TRUE] /\ UNCHANGED lock
       \/ lock' = Unlocked(s) /\ UNCHANGED resetting
    /\ UNCHANGED <<callVars, gateVars, cur, sess, archReq, forking, parked, releasing,
                   storeVars, processVars>>

\* backend.stop() returned: _backend = None and the lock is forced.
ResetFinish(s) ==
    /\ resetting[s]
    /\ resetting' = [resetting EXCEPT ![s] = FALSE]
    /\ lock' = Unlocked(s)
    /\ UNCHANGED <<callVars, gateVars, queue, turnVars, sess, archReq, forking, parked,
                   releasing, storeVars, claimVars, processVars, left>>

\* archive_session: cancel the work and stop the backend ...
ArchiveBegin(s) ==
    /\ sess[s] = "open" /\ Spend("close")
    /\ sess' = [sess EXCEPT ![s] = "archiving"]
    /\ CancelDriver(s)
    /\ UNCHANGED <<callVars, gateVars, lock, queue, cur, archReq, forking, resetting,
                   parked, releasing, storeVars, claimVars, processVars>>

\* ... fail what is queued (_fail_dropped_injections) ...
ArchiveDrop(s) ==
    LET dropped == Queued(s) \cap Injections IN
    /\ sess[s] = "archiving"
    /\ sess' = [sess EXCEPT ![s] = "dropping"]
    /\ queue' = [queue EXCEPT ![s] = <<>>]
    /\ claimed' = claimed \ dropped
    /\ retry' = [i \in Injections |-> retry[i] /\ i \notin dropped]
    /\ outbox' = [i \in Injections |->
                    IF i \in dropped \cap Pending THEN "failed" ELSE outbox[i]]
    /\ UNCHANGED <<callVars, gateVars, lock, turnVars, archReq, forking, resetting,
                   parked, releasing, rows, processVars, left>>

\* ... then flag the row and forget the session.
ArchiveEnd(s) ==
    /\ sess[s] = "dropping"
    /\ sess' = [sess EXCEPT ![s] = "archived"]
    /\ UNCHANGED <<callVars, gateVars, lock, queue, turnVars, archReq, forking, resetting,
                   parked, releasing, storeVars, claimVars, processVars, left>>

\* auto_archive_scheduled_session called by a manager: deferred while a turn runs.
AutoArchive(s) ==
    /\ s \in Transient /\ sess[s] = "open" /\ Spend("close")
    /\ IF Live(s)
       THEN archReq' = [archReq EXCEPT ![s] = TRUE] /\ UNCHANGED sess
       ELSE sess' = [sess EXCEPT ![s] = "archived"] /\ UNCHANGED archReq
    /\ UNCHANGED <<callVars, gateVars, lock, queue, turnVars, forking, resetting, parked,
                   releasing, storeVars, claimVars, processVars>>

\* delete_session forgets the session first, the rows go after the last await.
DeleteBegin(s) ==
    LET dropped == Queued(s) \cap Injections IN
    /\ sess[s] = "open" /\ Spend("close")
    /\ sess' = [sess EXCEPT ![s] = "deleting"]
    /\ queue' = [queue EXCEPT ![s] = <<>>]
    /\ claimed' = claimed \ dropped
    /\ retry' = [i \in Injections |-> retry[i] /\ i \notin dropped]
    /\ CancelDriver(s)
    /\ UNCHANGED <<callVars, gateVars, lock, cur, archReq, forking, resetting, parked,
                   releasing, storeVars, processVars>>

DeleteEnd(s) ==
    /\ sess[s] = "deleting"
    /\ sess' = [sess EXCEPT ![s] = "deleted"]
    /\ parked' = [parked EXCEPT ![s] = FALSE]
    /\ outbox' = [i \in Injections |-> IF i \in TargetOf(s) THEN "erased" ELSE outbox[i]]
    /\ rows' = [i \in Injections |-> IF i \in TargetOf(s) THEN 0 ELSE rows[i]]
    /\ UNCHANGED <<callVars, gateVars, lock, queue, turnVars, archReq, forking, resetting,
                   releasing, claimVars, processVars, left>>

ForkAllowedUnlocked(s) == ~forking[s] /\ ~Live(s) /\ queue[s] = <<>>
ForkAllowed(s) == lock[s] = "free" /\ ~forking[s] /\ ~Live(s) /\ queue[s] = <<>>

\* fork_session: the checks and _forking, under the session lock, no await.
ForkClaim(s) ==
    /\ InMemory(s) /\ ForkAllowed(s) /\ Spend("fork")
    /\ forking' = [forking EXCEPT ![s] = TRUE]
    /\ UNCHANGED <<callVars, gateVars, lock, queue, turnVars, sess, archReq, resetting,
                   parked, releasing, storeVars, claimVars, processVars>>

\* The saga failed and compensated.
ForkFail(s) ==
    /\ forking[s]
    /\ forking' = [forking EXCEPT ![s] = FALSE]
    /\ UNCHANGED <<callVars, gateVars, lock, queue, turnVars, sess, archReq, resetting,
                   parked, releasing, storeVars, claimVars, processVars, left>>

\* _archive_forked_parent, then the finally that clears _forking.
ForkDone(s) ==
    /\ forking[s]
    /\ forking' = [forking EXCEPT ![s] = FALSE]
    /\ queue' = [queue EXCEPT ![s] = <<>>]
    /\ sess' = [sess EXCEPT ![s] = IF InMemory(s) THEN "archived" ELSE @]
    /\ CancelDriver(s)
    /\ UNCHANGED <<callVars, gateVars, lock, cur, archReq, resetting, parked, releasing,
                   storeVars, claimVars, processVars, left>>

--------------------------------------------------------------------------------
(* Usage-limit parks                                                       *)

\* _wake consumes the record before the turn is resumed.
Wake(r) ==
    LET s == Target[r] IN
    /\ r \in Resumes /\ pc[r] = "idle" /\ parked[s]
    /\ phase = "up" /\ enabled
    /\ parked' = [parked EXCEPT ![s] = FALSE]
    /\ pc' = [pc EXCEPT ![r] = "resume"]
    /\ UNCHANGED <<via, gateVars, lock, queue, turnVars, sess, archReq, forking, resetting,
                   releasing, storeVars, claimVars, processVars, left>>

\* resume_parked_turn: dropped when the session is gone or busy.
ResumeParkedTurn(r) ==
    /\ pc[r] = "resume"
    /\ pc' = [pc EXCEPT ![r] = IF InMemory(Target[r]) /\ ~Live(Target[r])
                               THEN "admit1" ELSE "idle"]
    /\ UNCHANGED <<via, gateVars, lock, queue, turnVars, sessVars, storeVars, claimVars,
                   processVars, left>>

\* DELETE .../parked-turn, first the record, then release_parked_queue.
CancelPark(s) ==
    /\ parked[s] /\ phase = "up"
    /\ parked' = [parked EXCEPT ![s] = FALSE]
    /\ releasing' = [releasing EXCEPT ![s] = TRUE]
    /\ UNCHANGED <<callVars, gateVars, lock, queue, turnVars, sess, archReq, forking,
                   resetting, storeVars, claimVars, processVars, left>>

\* It drives the queue itself, under the session lock and under no gate.
ReleaseParkedQueue(s) ==
    /\ releasing[s]
    /\ releasing' = [releasing EXCEPT ![s] = FALSE]
    /\ IF ~InMemory(s) \/ queue[s] = <<>> \/ Live(s)
       THEN UNCHANGED <<queue, driver, cur>>
       ELSE /\ lock[s] = "free"
            /\ driver' = [driver EXCEPT ![s] = "start"]
            /\ cur' = [cur EXCEPT ![s] = Head(queue[s])]
            /\ queue' = [queue EXCEPT ![s] = Tail(@)]
    /\ UNCHANGED <<callVars, gateVars, lock, cancelling, sess, archReq, forking, resetting,
                   parked, storeVars, claimVars, processVars, left>>

--------------------------------------------------------------------------------
(* The outbox: enqueue, dispatch, retry, recover                           *)

\* Dispatch is paused, or this process already holds the row.
DispatchPaused(i) == ~enabled
NotDispatched(i)  == ~enabled \/ i \in claimed

\* _dispatch_session_injection up to its start_message.  It does not look at
\* the row's status again: the caller's snapshot may be stale.
Dispatch(i, who) ==
    LET return == IF who = "producer" THEN [pc EXCEPT ![i] = "idle"] ELSE pc IN
    IF NotDispatched(i)
    THEN pc' = return /\ UNCHANGED <<via, claimed, outbox>>
    ELSE IF ~InMemory(Target[i])
    THEN /\ outbox' = FailRow(i)
         /\ pc' = return /\ UNCHANGED <<via, claimed>>
    ELSE /\ claimed' = claimed \cup {i}
         /\ via' = [via EXCEPT ![i] = who]
         /\ pc' = [pc EXCEPT ![i] = "admit1"]
         /\ UNCHANGED outbox

\* enqueue_session_injection: the unique source key makes a repeat harmless.
EnqueueInjection(i) ==
    /\ pc[i] = "idle" /\ outbox[i] # "erased" /\ sess[Target[i]] # "deleted"
    /\ Spend("enqueue")
    /\ outbox' = [outbox EXCEPT ![i] = IF @ = "none" THEN "pending" ELSE @]
    /\ pc' = [pc EXCEPT ![i] = "enq"]
    /\ UNCHANGED <<via, gateVars, lock, queue, turnVars, sessVars, rows, claimVars,
                   processVars>>

\* The row is committed and was read back: only a pending one is dispatched.
EnqueueDispatch(i) ==
    /\ pc[i] = "enq"
    /\ IF outbox[i] = "pending"
       THEN Dispatch(i, "producer")
       ELSE /\ pc' = [pc EXCEPT ![i] = "idle"]
            /\ UNCHANGED <<via, claimed, outbox>>
    /\ UNCHANGED <<gateVars, lock, queue, turnVars, sessVars, rows, retry, processVars,
                   left>>

\* One round of the retry loop, after its sleep.
RetryInjection(i) ==
    LET stop == \/ ~enabled \/ outbox[i] # "pending"
                \/ ~InMemory(Target[i]) \/ i \in claimed IN
    /\ retry[i] /\ pc[i] \in {"idle", "enq"}
    /\ IF stop THEN retry' = [retry EXCEPT ![i] = FALSE] ELSE UNCHANGED retry
    /\ IF outbox[i] = "pending"
       THEN Dispatch(i, "retry")
       ELSE UNCHANGED <<callVars, claimed, outbox>>
    /\ UNCHANGED <<gateVars, lock, queue, turnVars, sessVars, rows, recovering, enabled,
                   phase, deploy, left>>

\* resume_session_injection_dispatch: enable, then list the pending rows.
ResumeDispatch == enabled' = TRUE /\ recovering' = Pending

\* One row of recover_pending_session_injections; rows are visited one by one.
RecoverInjection(i) ==
    /\ i \in recovering /\ pc[i] \in {"idle", "enq"}
    /\ \A j \in Injections : via[j] # "recover"
    /\ recovering' = recovering \ {i}
    /\ Dispatch(i, "recover")
    /\ UNCHANGED <<gateVars, lock, queue, turnVars, sessVars, rows, retry, enabled, phase,
                   deploy, left>>

\* materialize_pending_injections_for_sessions: transcript only, dispatch paused.
MaterializeInjection(i) ==
    /\ phase = "booting" /\ outbox[i] = "pending"
    /\ Target[i] \in Transient
    /\ IF InMemory(Target[i])
       THEN InsertUserRow(i)
       ELSE outbox' = FailRow(i) /\ UNCHANGED rows
    /\ UNCHANGED <<callVars, gateVars, lock, queue, turnVars, sessVars, claimVars,
                   processVars, left>>

--------------------------------------------------------------------------------
(* A deploy switch: drain, close admission, census, hand over or reopen    *)

\* DeployQuiesce.census
CensusBusy ==
    \/ \E s \in Sessions : (InMemory(s) /\ Live(s)) \/ parked[s]
    \/ Pending # {}
    \/ \E p \in Workers : pc[p] \notin {"idle", "done"}
    \/ \E p \in FollowUps : pc[p] \notin {"idle", "done", "admit1"}

Deploy(from, to) == deploy = from /\ deploy' = to

DeployBegin ==
    /\ phase = "up" /\ Spend("deploy")
    /\ \/ ~CensusBusy /\ Deploy("idle", "closing") /\ UNCHANGED enabled
       \/ CensusBusy /\ Deploy("idle", "draining") /\ enabled' = FALSE
    /\ UNCHANGED <<callVars, gateVars, lock, queue, turnVars, sessVars, storeVars, claimVars,
                   recovering, phase>>

\* _drain_wait polls the census, then gives up.
DeployDrained ==
    /\ \/ ~CensusBusy /\ Deploy("draining", "closing")
       \/ Deploy("draining", "resuming")
    /\ UNCHANGED <<callVars, gateVars, lock, queue, turnVars, sessVars, storeVars, claimVars,
                   enabled, recovering, phase, left>>

DeployClose ==
    /\ gate = "free" /\ Deploy("closing", "census")
    /\ closed' = TRUE
    /\ UNCHANGED <<callVars, gate, lock, queue, turnVars, sessVars, storeVars, claimVars,
                   enabled, recovering, phase, left>>

\* Past the census the switch may still abort, or it spawns the switcher.
DeployCensus ==
    /\ Deploy("census", "opening") \/ (~CensusBusy /\ Deploy("census", "committed"))
    /\ UNCHANGED <<callVars, gateVars, lock, queue, turnVars, sessVars, storeVars, claimVars,
                   enabled, recovering, phase, left>>

DeployOpen ==
    /\ gate = "free"
    /\ Deploy("opening", IF enabled THEN "idle" ELSE "resuming")
    /\ closed' = FALSE
    /\ UNCHANGED <<callVars, gate, lock, queue, turnVars, sessVars, storeVars, claimVars,
                   enabled, recovering, phase, left>>

\* resume_from_drain
DeployResume ==
    /\ Deploy("resuming", "idle") /\ phase = "up"
    /\ ResumeDispatch
    /\ UNCHANGED <<callVars, gateVars, lock, queue, turnVars, sessVars, storeVars, claimVars,
                   phase, left>>

--------------------------------------------------------------------------------
(* The process: graceful teardown, crash, boot                             *)

\* The lifespan's finally: pause before any producer is stopped.
Shutdown ==
    /\ phase = "up" /\ (Spend("shutdown") \/ (deploy = "committed" /\ UNCHANGED left))
    /\ phase' = "stopping" /\ enabled' = FALSE
    /\ UNCHANGED <<callVars, gateVars, lock, queue, turnVars, sessVars, storeVars, claimVars,
                   recovering, deploy>>

\* shutdown_session_injections: retry tasks cancelled, claims forgotten.
ShutdownInjections ==
    LET killed == {i \in Injections : via[i] = "retry"} IN
    /\ phase = "stopping" /\ (claimed # {} \/ \E i \in Injections : retry[i])
    /\ claimed' = {} /\ retry' = [i \in Injections |-> FALSE]
    /\ pc' = [p \in Prompts |-> IF p \in killed THEN "idle" ELSE pc[p]]
    /\ via' = [i \in Injections |-> IF i \in killed THEN "none" ELSE via[i]]
    /\ gate' = IF gate \in killed THEN "free" ELSE gate
    /\ lock' = [s \in Sessions |-> IF \E i \in killed : pc[i] \in {"admit2", "claim"}
                                         /\ Target[i] = s THEN "free" ELSE lock[s]]
    /\ UNCHANGED <<closed, queue, turnVars, sessVars, storeVars, processVars, left>>

\* The process dies, after a teardown or at any moment; SQLite survives.  The
\* boot loads the sessions and leaves dispatch paused.
Restart ==
    /\ \/ phase = "stopping" /\ UNCHANGED left
       \/ Spend("crash")
    /\ pc' = [p \in Prompts |-> IF p \in Injections \cup Resumes \/ pc[p] = "idle"
                                THEN "idle" ELSE "done"]
    /\ via' = [i \in Injections |-> "none"]
    /\ gate' = "free" /\ closed' = FALSE
    /\ lock' = [s \in Sessions |-> "free"] /\ queue' = [s \in Sessions |-> <<>>]
    /\ driver' = [s \in Sessions |-> "none"] /\ cur' = [s \in Sessions |-> "none"]
    /\ cancelling' = [s \in Sessions |-> FALSE]
    /\ sess' = [s \in Sessions |->
                  IF sess[s] \in {"archived", "deleted"} THEN sess[s] ELSE "open"]
    /\ archReq' = [s \in Sessions |-> FALSE] /\ forking' = [s \in Sessions |-> FALSE]
    /\ resetting' = [s \in Sessions |-> FALSE] /\ releasing' = [s \in Sessions |-> FALSE]
    /\ claimed' = {} /\ retry' = [i \in Injections |-> FALSE]
    /\ enabled' = FALSE /\ recovering' = {} /\ phase' = "booting" /\ deploy' = "idle"
    /\ UNCHANGED <<parked, storeVars>>

\* _release_producers, once every domain manager has recovered.
ReleaseProducers ==
    /\ phase = "booting" /\ phase' = "up"
    /\ ResumeDispatch
    /\ UNCHANGED <<callVars, gateVars, lock, queue, turnVars, sessVars, storeVars, claimVars,
                   deploy, left>>

--------------------------------------------------------------------------------
(* start_message and the dispatch that awaits it *)
CallNext(p) == \/ Submit(p) \/ Admit1(p) \/ EnqueueIfBusy(p) \/ AcquireSessionLock(p)
               \/ Admit2(p) \/ ClaimIdleTurn(p)

(* the driver task and its inner task *)
TurnNext(s) == \/ DriverStart(s) \/ DriverLoop(s) \/ DriverEnd(s)
               \/ DriverCancelled(s) \/ ConsumeMessage(s) \/ TurnLock(s)
               \/ TurnLockTimeout(s) \/ PersistUserMessage(s) \/ TurnEnd(s)
               \/ TurnParked(s) \/ TurnCancelled(s)

(* what users, managers and timers do to a session *)
SessionNext(s) == \/ Interrupt(s) \/ ResetSession(s) \/ ResetFinish(s) \/ ArchiveBegin(s)
                  \/ ArchiveDrop(s) \/ ArchiveEnd(s) \/ AutoArchive(s) \/ DeleteBegin(s)
                  \/ DeleteEnd(s) \/ ForkClaim(s) \/ ForkFail(s) \/ ForkDone(s)
                  \/ CancelPark(s) \/ ReleaseParkedQueue(s)

InjectionNext(i) == \/ EnqueueInjection(i) \/ EnqueueDispatch(i) \/ RetryInjection(i)
                    \/ RecoverInjection(i) \/ MaterializeInjection(i)

ProcessNext == \/ DeployBegin \/ DeployDrained \/ DeployClose \/ DeployCensus
               \/ DeployOpen \/ DeployResume \/ Shutdown \/ ShutdownInjections
               \/ Restart \/ ReleaseProducers

Next == \/ \E p \in Prompts : CallNext(p)
        \/ \E s \in Sessions : TurnNext(s) \/ SessionNext(s)
        \/ \E i \in Injections : InjectionNext(i)
        \/ \E r \in Resumes : Wake(r) \/ ResumeParkedTurn(r)
        \/ ProcessNext

Spec == Init /\ [][Next]_vars

--------------------------------------------------------------------------------
(* Properties *)

CallsOK ==
    /\ pc \in [Prompts -> {"idle", "admit1", "check1", "lock", "admit2", "claim",
                           "done", "enq", "resume"}]
    /\ via \in [Injections -> {"none", "producer", "retry", "recover"}]

LocksOK ==
    /\ gate \in Prompts \cup {"free"} /\ closed \in BOOLEAN
    /\ lock \in [Sessions -> Prompts \cup {"free", "turn"}]

TurnsOK ==
    /\ queue \in [Sessions -> Seq(Prompts)]
    /\ driver \in [Sessions -> DriverStates]
    /\ cur \in [Sessions -> Prompts \cup {"none"}]
    /\ cancelling \in [Sessions -> BOOLEAN]

SessionsOK ==
    /\ sess \in [Sessions -> {"open", "archiving", "dropping", "archived",
                              "deleting", "deleted"}]
    /\ archReq \in [Sessions -> BOOLEAN] /\ forking \in [Sessions -> BOOLEAN]
    /\ resetting \in [Sessions -> BOOLEAN] /\ parked \in [Sessions -> BOOLEAN]
    /\ releasing \in [Sessions -> BOOLEAN]

StoreOK ==
    /\ outbox \in [Injections -> {"none", "pending", "delivered", "failed", "erased"}]
    /\ rows \in [Injections -> Nat]

ClaimsOK == claimed \subseteq Injections /\ retry \in [Injections -> BOOLEAN]

ProcessOK ==
    /\ enabled \in BOOLEAN /\ recovering \subseteq Injections
    /\ phase \in {"up", "stopping", "booting"}
    /\ deploy \in {"idle", "draining", "closing", "census", "opening", "resuming",
                   "committed"}
    /\ left \in [Kinds -> Nat]

\* Every variable keeps the shape the code gives it.
TypeOK == /\ CallsOK /\ LocksOK /\ TurnsOK /\ SessionsOK
          /\ StoreOK /\ ClaimsOK /\ ProcessOK

\* Invariants 5 and 6 of durable-session-injections.md: one transcript row per
\* source event, there exactly when the outbox says delivered, although a row
\* may be queued twice, dispatched from a stale snapshot or cut in mid-write.
DeliveredOnce ==
    \A i \in Injections : rows[i] = IF outbox[i] = "delivered" THEN 1 ELSE 0

\* A settled event keeps its fate: nothing un-fails or replays it.
TerminalStays ==
    [][\A i \in Injections : outbox[i] \in {"delivered", "failed"}
                                => outbox'[i] \in {outbox[i], "erased"}]_vars

\* The whole machinery implements the promise made to producers.
Outbox == INSTANCE InjectionOutbox
ImplementsOutbox == Outbox!Spec

\* While dispatch is on, a pending event of a live session is in somebody's
\* hands: queued, running, being dispatched, awaiting a retry or a recovery
\* visit.  A claim that outlives its holder would strand it until the next boot.
PendingIsHeld ==
    \A i \in Pending : enabled /\ sess[Target[i]] = "open" =>
        \/ i \in Queued(Target[i]) \/ cur[Target[i]] = i
        \/ pc[i] # "idle" \/ retry[i] \/ i \in recovering

\* "This set prevents the same pending outbox row from being queued twice": it
\* waits in one place at most, never behind an attempt of its own still to run.
QueuedOnce ==
    \A s \in Sessions : \A j, k \in DOMAIN queue[s] : queue[s][j] \in Pending =>
        /\ j # k => queue[s][j] # queue[s][k]
        /\ driver[s] \in InnerStates \cup {"start", "deq"} => cur[s] # queue[s][j]

\* Prompts accepted behind a turn have a driver that will come to them.
QueueIsDriven ==
    \A s \in Sessions : queue[s] # <<>> /\ sess[s] = "open" =>
        \/ driver[s] \notin {"none", "hook"}
        \/ parked[s] \/ releasing[s] \/ \E r \in Resumes : Target[r] = s /\ pc[r] # "idle"

\* No turn starts or runs while a fork rewrites the session (session-rewind.md 5.4).
NoTurnWhileForking == \A s \in Sessions : forking[s] => ~Live(s)

\* The transcript is written and the backend runs under the session lock.
TurnHoldsLock ==
    \A s \in Sessions : driver[s] \in {"anchor", "running"} => lock[s] = "turn"

\* Once the census under a closed gate found the instance idle, nothing starts.
CommittedIsQuiet ==
    deploy = "committed" /\ phase = "up" => \A s \in Sessions : ~(InMemory(s) /\ Live(s))

\* The admission gate is never held by a call that waits for a session lock
\* whose holder waits for the gate.
NoGateCycle ==
    ~ \E p, q \in Prompts : /\ gate = p /\ pc[p] = "lock"
                            /\ pc[q] = "admit2" /\ lock[Target[p]] = q

\* An event is given up only when its session is closing or closed.
FailedMeansClosed ==
    \A i \in Injections : outbox[i] = "failed" => sess[Target[i]] # "open"

--------------------------------------------------------------------------------
(* Liveness.  Each task the loop has runs on; the watchdog bounds a turn, a  *)
(* saga and a drain end; a disturbance is never owed.                        *)
Fairness ==
    /\ \A p \in Prompts : WF_vars(Admit1(p) \/ EnqueueIfBusy(p) \/ AcquireSessionLock(p)
                                  \/ Admit2(p) \/ ClaimIdleTurn(p))
    /\ \A s \in Sessions :
         /\ WF_vars(DriverStart(s) \/ DriverLoop(s) \/ DriverEnd(s)
                    \/ DriverCancelled(s) \/ ConsumeMessage(s) \/ TurnLock(s)
                    \/ PersistUserMessage(s) \/ TurnEnd(s) \/ TurnCancelled(s))
         /\ WF_vars(ResetFinish(s)) /\ WF_vars(ForkFail(s) \/ ForkDone(s))
         /\ WF_vars(ArchiveDrop(s) \/ ArchiveEnd(s)) /\ WF_vars(DeleteEnd(s))
         /\ WF_vars(ReleaseParkedQueue(s))
    /\ \A i \in Injections : /\ WF_vars(EnqueueDispatch(i)) /\ WF_vars(RetryInjection(i))
                             /\ WF_vars(RecoverInjection(i))
    /\ \A r \in Resumes : WF_vars(Wake(r)) /\ WF_vars(ResumeParkedTurn(r))
    /\ WF_vars(DeployDrained \/ DeployClose \/ DeployCensus \/ DeployOpen \/ DeployResume)
    /\ WF_vars(phase = "stopping" /\ Restart) /\ WF_vars(ReleaseProducers)

FairSpec == Spec /\ Fairness

\* A durable intent of an open session does not stay pending for ever: it
\* reaches the transcript, unless the session is closed under it.
EveryIntentSettles ==
    \A i \in Injections :
        outbox[i] = "pending" /\ sess[Target[i]] = "open"
            ~> outbox[i] # "pending" \/ sess[Target[i]] # "open"
================================================================================
