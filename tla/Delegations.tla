------------------------------ MODULE Delegations ------------------------------
(***************************************************************************)
(* Agents that ask agents (server/delegations.py): a caller's session asks *)
(* for work in a child session, each request is a round in a durable       *)
(* ledger, and the end of a round is told to the caller as an injected     *)
(* prompt, after which the child is archived.                              *)
(*                                                                         *)
(* The manager hears of a child's turn from broadcasts, keyed by session.  *)
(* Whatever ends a round first flips the state of the round's record in    *)
(* memory and then awaits the ledger, the outbox and the archive: what is  *)
(* still to do is fin[r].  The calls that start a round are call[r].       *)
(***************************************************************************)
EXTENDS WorkSessions

CONSTANTS AgentOf, DepthCap   \* whose session it is; delegations in one chain

ASSUME DelegationAssumption == DOMAIN AgentOf = Sessions /\ DepthCap \in Nat

VARIABLES
    ledger,   \* delegation_runs: the state of a round
    rec,      \* the state of a round's record in memory
    latest,   \* _records: the round whose record it holds, 0 for none
    call,     \* a start or a follow-up that has still something to do
    fin,      \* what ended a round, as what, and what of it is still to do
    stop,     \* an interrupt that has cancelled the turn but not broadcast it yet
    fate      \* history: what kept a round from a turn of its own

delVars == <<ledger, rec, latest, call, fin, stop, fate>>

Terminal == {"completed", "failed", "cancelled", "interrupted"}
States   == Terminal \cup {"running"}
Calls    == {"round", "start", "refuse", "refuseTell", "refuseHide"}
Steps    == {"ledger", "interrupt", "error", "cascade", "tell", "hide"}
NoCall == "none"
NoFin  == [by |-> "none", as |-> "none", step |-> "none", down |-> {}]
Ending(by, st) == [by |-> by, as |-> st, step |-> "ledger", down |-> {}]

\* start_message raised; it took the request while the driver of the session was in
\* its idle hook; a person cancelled the park of its turn.
Fates == {"none", "refused", "stranded", "dropped"}

DelegationsOK ==
    /\ ledger \in [Rounds -> {"none"} \cup States] /\ rec \in [Rounds -> {"none"} \cup States]
    /\ latest \in [Kids -> 0 .. MaxRound]
    /\ call \in [Rounds -> {NoCall} \cup Calls]
    /\ fin \in [Rounds -> [by : {"none", "turn", "error", "cancel"}, as : {"none"} \cup Terminal,
                           step : Steps \cup {"none", "cut"}, down : SUBSET Rounds]]
    /\ stop \in [Kids -> BOOLEAN] /\ fate \in [Rounds -> Fates]

DelegationsInit ==
    /\ ledger = [r \in Rounds |-> "none"] /\ rec = [r \in Rounds |-> "none"]
    /\ latest = [s \in Kids |-> 0] /\ call = [r \in Rounds |-> NoCall]
    /\ fin = [r \in Rounds |-> NoFin] /\ stop = [s \in Kids |-> FALSE]
    /\ fate = [r \in Rounds |-> "none"]

HasRuns(s)  == \E n \in 1 .. MaxRound : ledger[<<s, n>>] # "none"
LastRow(s)  == CHOOSE n \in 0 .. MaxRound :
                 /\ n > 0 => ledger[<<s, n>>] # "none"
                 /\ \A m \in 1 .. MaxRound : ledger[<<s, m>>] # "none" => m <= n

\* _load_latest_record: the record in memory, else the last row of the ledger.
Latest(s) == IF latest[s] > 0 THEN latest[s] ELSE LastRow(s)
Current(s) == <<s, Latest(s)>>
StateOf(s) == IF latest[s] > 0 THEN rec[<<s, latest[s]>>] ELSE ledger[<<s, LastRow(s)>>]

\* The record a broadcast about the session finds running.
Heard(s) == latest[s] > 0 /\ rec[<<s, latest[s]>>] = "running"

\* finish_delegation_run: only a running round changes.
Finish(r, st) == ledger' = [ledger EXCEPT ![r] = IF @ = "running" THEN st ELSE @]

\* The prompt _inject_terminal composes from the state of the record.
Says(st) == IF st = "completed" THEN "reply" ELSE "error"
IsTold(r) == outbox[Told(r)].status # "none"

\* has_active_delegation_for_parent
HasActive(p) == \E s \in Kids : sess[s] # "none" /\ parent[s] = p /\ Heard(s)

-------------------------------------------------------------------------------
(* Starting a round *)

\* _check_chain: the sessions from the caller up to the first that was not delegated.
Chain(p) ==
    LET up[d \in 0 .. Cardinality(Kids)] ==
            IF d = 0 THEN {p} ELSE up[d - 1] \cup {parent[s] : s \in up[d - 1] \cap Kids}
    IN  up[Cardinality(Kids)]

ChainAllows(p, s) ==
    /\ AgentOf[s] \notin {AgentOf[a] : a \in Chain(p)}
    /\ Cardinality(Chain(p) \cap Kids) + 1 <= DepthCap

\* start_delegation: the guards, then the child session.
StartDelegation(p, s) ==
    /\ Up /\ Spend /\ sess[p] = "live" /\ sess[s] = "none" /\ ChainAllows(p, s)
    /\ sess' = [sess EXCEPT ![s] = "live"] /\ parent' = [parent EXCEPT ![s] = p]
    /\ call' = [call EXCEPT ![<<s, 1>>] = "round"]
    /\ UNCHANGED <<phase, drv, queue, hide, parked, asked, outbox, claimed,
                   ledger, rec, latest, fin, stop, fate>>

\* follow_up_delegation: the last round must have ended in memory; an archived child
\* is unarchived.  A second follow-up of the same round fails on the ledger's key.
FollowUp(p, s) ==
    LET n == Latest(s) + 1 IN
    /\ Up /\ Spend /\ sess[p] = "live" /\ sess[s] # "none" /\ parent[s] = p
    /\ HasRuns(s) /\ StateOf(s) \in Terminal
    /\ n <= MaxRound /\ call[<<s, n>>] = NoCall
    /\ IF sess[s] = "archived" THEN Unarchived(s) ELSE UNCHANGED <<sess, queue, hide, asked>>
    /\ call' = [call EXCEPT ![<<s, n>>] = "round"]
    /\ UNCHANGED <<phase, parent, drv, parked, outbox, claimed, ledger, rec, latest, fin, stop, fate>>

\* create_delegation_run and the record, which replaces the last round's.
OpenRound(r) ==
    /\ Up /\ call[r] = "round"
    /\ ledger' = [ledger EXCEPT ![r] = "running"] /\ rec' = [rec EXCEPT ![r] = "running"]
    /\ latest' = [latest EXCEPT ![r[1]] = r[2]]
    /\ call' = [call EXCEPT ![r] = "start"]
    /\ UNCHANGED <<worldVars, fin, stop, fate>>

\* start_message accepts the request of a live session and raises for any other.
StartTurn(r) ==
    /\ Up /\ call[r] = "start"
    /\ IF sess[r[1]] = "live"
       THEN /\ Submit(r[1], Ask(r), outbox)
            /\ call' = [call EXCEPT ![r] = NoCall] /\ UNCHANGED rec
            /\ fate' = IF drv[r[1]] = "idle" THEN [fate EXCEPT ![r] = "stranded"] ELSE fate
       ELSE /\ rec' = [rec EXCEPT ![r] = "failed"]
            /\ call' = [call EXCEPT ![r] = "refuse"] /\ UNCHANGED <<queue, drv, outbox>>
            /\ fate' = [fate EXCEPT ![r] = "refused"]
    /\ UNCHANGED <<phase, sess, parent, hide, parked, asked, claimed, spent, ledger, latest, fin, stop>>

\* A round that could not start is failed, told and archived, whatever else has
\* ended it meanwhile.
Refuse(r) ==
    /\ Up /\ call[r] = "refuse" /\ Finish(r, "failed")
    /\ call' = [call EXCEPT ![r] = "refuseTell"]
    /\ UNCHANGED <<worldVars, rec, latest, fin, stop, fate>>

\* _inject_terminal.  Who finds that the prompt was told goes no further, unless both
\* have looked at _terminal_injected before either has told it.
RefuseTell(r) ==
    /\ Up /\ call[r] = "refuseTell"
    /\ Enqueue(Told(r), parent[r[1]], Says(rec[r]))
    /\ \/ call' = [call EXCEPT ![r] = "refuseHide"]
       \/ IsTold(r) /\ call' = [call EXCEPT ![r] = NoCall]
    /\ UNCHANGED <<phase, sess, parent, drv, queue, hide, parked, asked, claimed, spent,
                   ledger, rec, latest, fin, stop, fate>>

RefuseHide(r) ==
    /\ Up /\ call[r] = "refuseHide" /\ AutoArchive(r[1])
    /\ call' = [call EXCEPT ![r] = NoCall]
    /\ UNCHANGED <<phase, parent, drv, queue, parked, asked, outbox, claimed, spent,
                   ledger, rec, latest, fin, stop, fate>>

-------------------------------------------------------------------------------
(* The turn of a child and what the manager hears of it *)

\* Mutant: the caller is told before the ledger has decided.
SettleUnrecorded(r, st, by) ==
    /\ rec' = [rec EXCEPT ![r] = st]
    /\ fin' = [fin EXCEPT ![r] = [Ending(by, st) EXCEPT !.step = "tell"]]

\* The record's state changes at once; the rest follows in steps.
Settle(r, st, by) ==
    /\ rec' = [rec EXCEPT ![r] = st]
    /\ fin' = [fin EXCEPT ![r] = Ending(by, st)]

\* Mutant: the error event of a failed turn is not listened to.
TurnEndsUnheard(s, st) ==
    /\ Up /\ drv[s] = "turn" /\ ~asked[s]
    /\ drv' = [drv EXCEPT ![s] = "over"]
    /\ IF Heard(s) /\ st = "completed" THEN Settle(Current(s), st, "turn") ELSE UNCHANGED <<rec, fin>>
    /\ UNCHANGED <<phase, sess, parent, queue, hide, parked, asked, outbox, claimed, spent,
                   ledger, latest, call, stop, fate>>

\* A result, or an error event that is not the pause of a usage limit, ends the
\* running round of the session, whatever prompt the turn was about: also that of a
\* follow-up whose own start_message is still under way.
TurnEnds(s, st) ==
    /\ Up /\ drv[s] = "turn" /\ ~asked[s]
    /\ drv' = [drv EXCEPT ![s] = "over"]
    /\ IF Heard(s) THEN Settle(Current(s), st, "turn") ELSE UNCHANGED <<rec, fin>>
    /\ UNCHANGED <<phase, sess, parent, queue, hide, parked, asked, outbox, claimed, spent,
                   ledger, latest, call, stop, fate>>

\* limit_paused: the round stays running; the driver stops without draining.
TurnParks(s) ==
    /\ Up /\ Spend /\ drv[s] = "turn" /\ ~asked[s]
    /\ drv' = [drv EXCEPT ![s] = "none"] /\ parked' = [parked EXCEPT ![s] = TRUE]
    /\ UNCHANGED <<phase, sess, parent, queue, hide, asked, outbox, claimed, delVars>>

\* The DELETE of a park by a person: the parked turn is given up, and a driver takes
\* what was queued behind it (release_parked_queue).
CancelPark(s) ==
    /\ phase = "up" /\ parked[s] /\ parked' = [parked EXCEPT ![s] = FALSE]
    /\ IF sess[s] = "live" /\ queue[s] # <<>>
       THEN TakeNext(s) /\ UNCHANGED fate
       ELSE /\ fate' = IF Heard(s) THEN [fate EXCEPT ![Current(s)] = "dropped"] ELSE fate
            /\ UNCHANGED <<drv, queue, outbox, claimed>>
    /\ UNCHANGED <<phase, sess, parent, hide, asked, spent, ledger, rec, latest, call, fin, stop>>

\* question_request, and _inject_question for a running round.
TurnAsks(s) ==
    /\ Up /\ Spend /\ drv[s] = "turn" /\ ~asked[s]
    /\ asked' = [asked EXCEPT ![s] = TRUE]
    /\ IF Heard(s) THEN Enqueue(Question(Current(s)), parent[s], "other") ELSE UNCHANGED outbox
    /\ UNCHANGED <<phase, sess, parent, drv, queue, hide, parked, claimed, delVars>>

\* answer_pending_question for the caller; a person or the timeout answers as well.
Answered(s) ==
    /\ Up /\ asked[s] /\ sess[s] = "live"
    /\ asked' = [asked EXCEPT ![s] = FALSE]
    /\ UNCHANGED <<phase, sess, parent, drv, queue, hide, parked, outbox, claimed, spent, delVars>>

\* The driver cannot go on while the turn's own broadcast is still being handled.
Handling(s) == \E r \in Rounds : r[1] = s /\ fin[r].by = "turn" /\ fin[r].step \in Steps

-------------------------------------------------------------------------------
(* Interrupts *)

\* What cancelling the turn of a session cuts off: a handler that runs inside it.
CutOff(f, s) ==
    [r \in Rounds |-> IF r[1] = s /\ f[r].by = "turn" /\ f[r].step \in Steps
                      THEN [f[r] EXCEPT !.step = "cut"] ELSE f[r]]

Interruptible(s) == sess[s] = "live" /\ (drv[s] = "turn" \/ Handling(s))

\* interrupt, up to the broadcast: the turn is cancelled, its questions are dropped.
CutTurn(s) ==
    /\ drv' = [drv EXCEPT ![s] = "over"] /\ asked' = [asked EXCEPT ![s] = FALSE]

\* A person interrupts the child.
Interrupt(s) ==
    /\ Up /\ Spend /\ Interruptible(s) /\ ~stop[s] /\ CutTurn(s)
    /\ fin' = CutOff(fin, s) /\ stop' = [stop EXCEPT ![s] = TRUE]
    /\ UNCHANGED <<phase, sess, parent, queue, hide, parked, outbox, claimed,
                   ledger, rec, latest, call, fate>>

\* The "(interrupted by user)" error event, once its message is in the transcript.
InterruptIsHeard(s) ==
    /\ Up /\ stop[s] /\ stop' = [stop EXCEPT ![s] = FALSE]
    /\ IF Heard(s) THEN Settle(Current(s), "failed", "error") ELSE UNCHANGED <<rec, fin>>
    /\ UNCHANGED <<worldVars, ledger, latest, call, fate>>

\* archive_session by a person: the turn and the driver are cancelled, queued
\* injections fail, and nothing is broadcast that a delegation listens to.
ArchiveByUser(s) ==
    /\ Up /\ Spend /\ sess[s] = "live"
    /\ sess' = [sess EXCEPT ![s] = "archived"]
    /\ drv' = [drv EXCEPT ![s] = "none"]
    /\ queue' = [queue EXCEPT ![s] = <<>>] /\ asked' = [asked EXCEPT ![s] = FALSE]
    /\ outbox' = FailedRows(outbox, QueuedKeys(s)) /\ claimed' = claimed \ QueuedKeys(s)
    /\ fin' = CutOff(fin, s)
    /\ UNCHANGED <<phase, parent, hide, parked, ledger, rec, latest, call, stop, fate>>

-------------------------------------------------------------------------------
(* Cancelling *)

\* cancel_delegation flips the record first, so that the interrupt it is about to
\* send is not heard as a failure of the child.
CancelFlip(r) == Settle(r, "cancelled", "cancel")

Cancel(s) ==
    /\ Up /\ Spend /\ sess[s] # "none" /\ Heard(s) /\ CancelFlip(Current(s))
    /\ UNCHANGED <<phase, sess, parent, drv, queue, hide, parked, asked, outbox, claimed,
                   ledger, latest, call, stop, fate>>

At(r, step) == Up /\ fin[r].step = step
Go(r, step) == fin' = [fin EXCEPT ![r].step = step]
Over(r)     == fin' = [fin EXCEPT ![r] = NoFin]

\* interrupt the child, whatever round its turn belongs to by now.
CancelInterrupts(r) ==
    /\ At(r, "interrupt")
    /\ IF Interruptible(r[1])
       THEN CutTurn(r[1]) /\ fin' = [CutOff(fin, r[1]) EXCEPT ![r].step = "error"]
       ELSE Go(r, "cascade") /\ UNCHANGED <<drv, asked>>
    /\ UNCHANGED <<phase, sess, parent, queue, hide, parked, outbox, claimed, spent,
                   ledger, rec, latest, call, stop, fate>>

CancelIsHeard(r) ==
    /\ At(r, "error")
    /\ LET h == Current(r[1]) IN
       IF Heard(r[1])
       THEN /\ rec' = [rec EXCEPT ![h] = "failed"]
            /\ fin' = [fin EXCEPT ![r].step = "cascade",
                                  ![h] = Ending("error", "failed")]
       ELSE Go(r, "cascade") /\ UNCHANGED rec
    /\ UNCHANGED <<worldVars, ledger, latest, call, stop, fate>>

\* _cascade_cancel_descendants: the running delegations of this session are
\* cancelled the same way, and awaited; theirs follow from their own cascade.
Below(s) == {Current(c) : c \in {c \in Kids : sess[c] # "none" /\ parent[c] = s /\ Heard(c)}}

Cascade(r) ==
    /\ At(r, "cascade")
    /\ LET kids == Below(r[1]) IN
       /\ rec' = [x \in Rounds |-> IF x \in kids THEN "cancelled" ELSE rec[x]]
       /\ fin' = [x \in Rounds |->
                    IF x = r THEN [fin[r] EXCEPT !.step = "tell", !.down = kids]
                    ELSE IF x \in kids THEN Ending("cancel", "cancelled")
                    ELSE fin[x]]
    /\ UNCHANGED <<worldVars, ledger, latest, call, stop, fate>>

-------------------------------------------------------------------------------
(* What every end of a round goes through *)

\* Mutant: an error ends the round but is not passed on to the caller.
FinLedgerSilent(r) ==
    /\ At(r, "ledger") /\ Finish(r, fin[r].as)
    /\ IF ledger[r] # "running" \/ fin[r].by = "error" THEN Over(r)
       ELSE Go(r, IF fin[r].by = "cancel" THEN "interrupt" ELSE "tell")
    /\ UNCHANGED <<worldVars, rec, latest, call, stop, fate>>

\* The compare-and-set of the ledger, with the state the end was heard as: whoever
\* loses it stops there.
FinLedger(r) ==
    /\ At(r, "ledger") /\ Finish(r, fin[r].as)
    /\ IF ledger[r] # "running" THEN Over(r)
       ELSE Go(r, IF fin[r].by = "cancel" THEN "interrupt" ELSE "tell")
    /\ UNCHANGED <<worldVars, rec, latest, call, stop, fate>>

\* _inject_terminal: the caller's prompt, and then the archive of the child.
FinTell(r) ==
    /\ At(r, "tell") /\ \A c \in fin[r].down : fin[c].step \notin Steps
    /\ Enqueue(Told(r), parent[r[1]], Says(rec[r]))
    /\ \/ fin' = [fin EXCEPT ![r].step = "hide", ![r].down = {}]
       \/ IsTold(r) /\ Over(r)
    /\ UNCHANGED <<phase, sess, parent, drv, queue, hide, parked, asked, claimed, spent,
                   ledger, rec, latest, call, stop, fate>>

FinHide(r) ==
    /\ At(r, "hide") /\ AutoArchive(r[1]) /\ Over(r)
    /\ UNCHANGED <<phase, parent, drv, queue, parked, asked, outbox, claimed, spent,
                   ledger, rec, latest, call, stop, fate>>

-------------------------------------------------------------------------------
(* recover_interrupted, with dispatch paused: one phase after the other *)

\* A round that was running is interrupted, and its park is dropped; a child whose
\* creation crashed before its round has one written for it.
RecoverRound(s) ==
    /\ phase = "rounds" /\ sess[s] # "none"
    /\ \E n \in 1 .. MaxRound :
         /\ \/ ledger[<<s, n>>] = "running"
            \/ n = 1 /\ sess[s] = "live" /\ ~HasRuns(s)
         /\ ledger' = [ledger EXCEPT ![<<s, n>>] = "interrupted"]
    /\ parked' = [parked EXCEPT ![s] = FALSE]
    /\ UNCHANGED <<phase, sess, parent, drv, queue, hide, asked, outbox, claimed, spent,
                   rec, latest, call, fin, stop, fate>>

RoundsToRecover ==
    \E s \in Kids : \/ \E n \in 1 .. MaxRound : ledger[<<s, n>>] = "running"
                    \/ sess[s] = "live" /\ ~HasRuns(s)

\* Mutant: the rounds this very boot has interrupted are forgotten.
UntoldBefore == {r \in Rounds : /\ ledger[r] \in Terminal \ {"interrupted"}
                                /\ outbox[Told(r)].status = "none"}

\* list_terminal_delegation_runs_missing_delivery
Untold == {r \in Rounds : ledger[r] \in Terminal /\ outbox[Told(r)].status = "none"}

\* Depth inside the live delegation tree.
Depth(s) == Cardinality({a \in Chain(s) \cap Kids : sess[a] = "live"})

\* The deepest first, so that a child's outcome precedes its ancestors'.
RecoverTell(r) ==
    /\ phase = "tell" /\ r \in Untold
    /\ \A u \in Untold : Depth(u[1]) <= Depth(r[1])
    /\ Enqueue(Told(r), parent[r[1]], Says(ledger[r]))
    /\ UNCHANGED <<phase, sess, parent, drv, queue, hide, parked, asked, claimed, spent, delVars>>

\* What is pending for an interrupted delegation goes to its transcript without a turn.
ToMaterialize == {k \in Keys : Waiting(k) /\ outbox[k].to \in Kids /\ sess[outbox[k].to] = "live"}

Materialize(k) ==
    /\ phase = "materialize" /\ k \in ToMaterialize
    /\ outbox' = Taken(outbox, k)
    /\ UNCHANGED <<phase, sess, parent, drv, queue, hide, parked, asked, claimed, spent, delVars>>

\* Only then are the sessions archived, the deepest first.
RecoverArchive(s) ==
    /\ phase = "archive" /\ sess[s] = "live"
    /\ \A c \in Kids : sess[c] = "live" => Depth(c) <= Depth(s)
    /\ sess' = [sess EXCEPT ![s] = "archived"]
    /\ UNCHANGED <<phase, parent, drv, queue, hide, parked, asked, outbox, claimed, spent, delVars>>

-------------------------------------------------------------------------------
DelegationsNext ==
    \/ \E p \in Sessions, s \in Kids : StartDelegation(p, s) \/ FollowUp(p, s)
    \/ \E r \in Rounds :
         \/ OpenRound(r) \/ StartTurn(r) \/ Refuse(r) \/ RefuseTell(r) \/ RefuseHide(r)
         \/ CancelInterrupts(r) \/ CancelIsHeard(r) \/ Cascade(r)
         \/ FinLedger(r) \/ FinTell(r) \/ FinHide(r)
         \/ RecoverTell(r)
    \/ \E s \in Kids :
         \/ \E st \in {"completed", "failed"} : TurnEnds(s, st)
         \/ TurnParks(s) \/ CancelPark(s) \/ TurnAsks(s) \/ Answered(s)
         \/ Interrupt(s) \/ InterruptIsHeard(s) \/ Cancel(s)
         \/ RecoverRound(s) \/ RecoverArchive(s)
    \/ \E s \in Sessions : ArchiveByUser(s)
    \/ \E k \in Keys : Materialize(k)
===============================================================================
