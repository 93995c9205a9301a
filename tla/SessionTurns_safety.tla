-------------------------- MODULE SessionTurns_safety --------------------------
(***************************************************************************)
(* Which disturbance breaks which promise of the session core.  The runs   *)
(* check each promise on small budgets; here each is proved for every      *)
(* budget and every set of sessions and prompts, as long as the            *)
(* disturbances that defeat it have not happened: a forced release of the  *)
(* session lock (interrupt, reset), a park, a deploy, a close.  A budget   *)
(* still whole says that its disturbance has not happened yet.             *)
(***************************************************************************)
EXTENDS SessionTurns_proofs

Fresh(k)  == left[k] = Budget[k]
Unforced  == Fresh("interrupt") /\ Fresh("reset")
Unstopped == Fresh("crash") /\ Fresh("shutdown")

\* Inside start_message, past the dispatch and before its end.
Stages    == {"admit1", "check1", "lock", "admit2", "claim"}
Here(i)   == i \in Queued(Target[i]) \/ cur[Target[i]] = i
InPipe(i) == Here(i) \/ pc[i] \in Stages

--------------------------------------------------------------------------------
(* The inductive invariant, one part per promise *)

\* A budget is only ever spent.
Spent == \A k \in Kinds : left[k] <= Budget[k]

\* Nobody takes the session lock from its holder.
Locking == Unforced =>
    /\ \A p \in Prompts : pc[p] \in {"admit2", "claim"} => lock[Target[p]] = p
    /\ TurnHoldsLock
    /\ \A s \in Sessions : ~resetting[s]

\* The gate is closed only while free, and stays so through a census; a claim
\* that Task Board did not admit is made under it.
Gating ==
    /\ closed => gate = "free"
    /\ deploy \in {"census", "committed", "opening"} => closed
    /\ \A p \in Prompts \ Workers : pc[p] = "claim" => gate = p
    /\ \A p \in Prompts \ FollowUps : pc[p] = "lock" => gate # p

\* Without a park there is nothing to release.
Unparked == Fresh("park") => \A s \in Sessions : ~parked[s] /\ ~releasing[s]

\* A fork found the session idle and nobody is past its check.
Forks == Unforced /\ Fresh("park") =>
    /\ \A s \in Sessions : forking[s] => ~Live(s) /\ queue[s] = <<>>
    /\ \A p \in Prompts : pc[p] = "claim" => ~forking[Target[p]]

\* The census found no turn and no worker between its claim and its turn.
Committed == deploy = "committed" /\ Fresh("park") =>
    /\ \A s \in Sessions : ~(InMemory(s) /\ Live(s))
    /\ \A w \in Workers : pc[w] \in {"idle", "done"}

\* A driver without a turn runs no prompt; a turn that runs has written its
\* row; dispatch is on only in a process that is up; an open session's driver
\* is cancelled only inside a turn.
Driving ==
    /\ \A s \in Sessions : driver[s] \in {"none", "hook"} => cur[s] = "none"
    /\ \A s \in Sessions : driver[s] = "running" /\ cur[s] \in Injections =>
         outbox[cur[s]] \notin {"none", "pending"}
    /\ phase # "up" => ~enabled
    /\ Fresh("reset") =>
         \A s \in Sessions : cancelling[s] /\ sess[s] = "open" => driver[s] \in InnerStates

\* A prompt waits and runs where it is addressed.
Addressed ==
    /\ \A s \in Sessions : \A k \in DOMAIN queue[s] : Target[queue[s][k]] = s
    /\ \A s \in Sessions : cur[s] \in Prompts => Target[cur[s]] = s

\* Only a written row is ever dispatched.
Written ==
    \A i \in Injections : InPipe(i) \/ i \in recovering \cup claimed => outbox[i] # "none"

\* A claim on a pending row of an open session has its holder.
Holding == Fresh("reset") =>
    \A i \in claimed \cap Pending : sess[Target[i]] = "open" => InPipe(i)

\* What is under way is claimed, and is in one place.
Piped == Unforced =>
    /\ \A i \in Pending : /\ phase # "stopping" /\ InPipe(i) => i \in claimed
                          /\ pc[i] \in Stages => ~Here(i)
    /\ QueuedOnce

\* Where no idle hook can run, a queue has a driver that will come to it.
Driven == ~NotifierWired /\ Transient = {} /\ Fresh("reset") /\ Fresh("park") =>
    /\ \A s \in Sessions : driver[s] # "hook" /\ ~archReq[s]
    /\ \A s \in Sessions : queue[s] # <<>> /\ sess[s] = "open" => driver[s] # "none"

\* Without a deploy nobody is refused, and a session closes for good unless
\* the process stops while it is being closed.
Fates == Fresh("deploy") =>
    /\ deploy = "idle" /\ ~closed
    /\ Unstopped => phase = "up"
    /\ Fresh("close") => \A s \in Sessions : sess[s] \in {"open", "archived"}
    /\ Fresh("close") \/ Unstopped => FailedMeansClosed

Held == Fresh("reset") => PendingIsHeld

Invariant ==
    /\ Spent /\ Locking /\ Gating /\ Unparked /\ Forks /\ Committed /\ Driving
    /\ Addressed /\ Written /\ Holding /\ Piped /\ Driven /\ Fates /\ Held

--------------------------------------------------------------------------------
(* Budgets *)

\* What a disturbance costs: its budget is whole no more, no other grows.
LEMMA Spending ==
    ASSUME TypeOK, Spent, NEW k \in Kinds, Spend(k)
    PROVE  /\ Spent' /\ ~Fresh(k)'
           /\ \A j \in Kinds : Fresh(j)' => Fresh(j)
<1>1. /\ left \in [Kinds -> Nat] /\ Budget \in [Kinds -> Nat]
      /\ \A j \in Kinds : left[j] <= Budget[j]
      /\ "total" \in Kinds
  BY BudgetAssumption DEF TypeOK, ProcessOK, Spent, Kinds
<1>2. /\ \A j \in Kinds : left'[j] <= left[j]
      /\ left'[k] < left[k]
  BY <1>1 DEF Spend
<1>3. left' \in [Kinds -> Nat]
  BY SpendType
<1> QED BY <1>1, <1>2, <1>3 DEF Spent, Fresh

\* A step costs nothing or the budget of one disturbance.
LEMMA Costs ==
    ASSUME [Next]_vars PROVE UNCHANGED left \/ \E k \in Kinds : Spend(k)
<1>1. ASSUME NEW p \in Prompts, CallNext(p) PROVE UNCHANGED left
  BY <1>1 DEF CallNext, Submit, Admit1, EnqueueIfBusy, AcquireSessionLock, Admit2, ClaimIdleTurn
<1>2. ASSUME NEW s \in Sessions, TurnNext(s)
      PROVE  UNCHANGED left \/ Spend("timeout") \/ Spend("park")
  BY <1>2 DEF TurnNext, DriverStart, DriverLoop, DriverEnd, DriverCancelled, ConsumeMessage,
              TurnLock, TurnLockTimeout, PersistUserMessage, TurnEnd, TurnParked, TurnCancelled
<1>3. ASSUME NEW s \in Sessions, SessionNext(s)
      PROVE  \/ UNCHANGED left \/ Spend("interrupt") \/ Spend("reset")
             \/ Spend("close") \/ Spend("fork")
  BY <1>3 DEF SessionNext, Interrupt, ResetSession, ResetFinish, ArchiveBegin, ArchiveDrop,
              ArchiveEnd, AutoArchive, DeleteBegin, DeleteEnd, ForkClaim, ForkFail, ForkDone,
              CancelPark, ReleaseParkedQueue
<1>4. ASSUME NEW i \in Injections, InjectionNext(i) PROVE UNCHANGED left \/ Spend("enqueue")
  BY <1>4 DEF InjectionNext, EnqueueInjection, EnqueueDispatch, RetryInjection,
              RecoverInjection, MaterializeInjection
<1>5. ASSUME NEW r \in Resumes, Wake(r) \/ ResumeParkedTurn(r) PROVE UNCHANGED left
  BY <1>5 DEF Wake, ResumeParkedTurn
<1>6. ASSUME ProcessNext
      PROVE  UNCHANGED left \/ Spend("deploy") \/ Spend("shutdown") \/ Spend("crash")
  BY <1>6 DEF ProcessNext, DeployBegin, DeployDrained, DeployClose, DeployCensus, DeployOpen,
              DeployResume, Shutdown, ShutdownInjections, Restart, ReleaseProducers
<1>7. UNCHANGED vars => UNCHANGED left
  BY DEF vars
<1>8. {"interrupt", "reset", "close", "fork", "park", "deploy", "timeout", "enqueue",
       "shutdown", "crash"} \subseteq Kinds
  BY DEF Kinds
<1> QED BY <1>1, <1>2, <1>3, <1>4, <1>5, <1>6, <1>7, <1>8 DEF Next

\* Budgets shrink, and one that is still whole after a step was not drawn on.
LEMMA Budgets ==
    ASSUME TypeOK, Spent, [Next]_vars
    PROVE  /\ Spent'
           /\ \A k \in Kinds : Fresh(k)' => Fresh(k) /\ ~Spend(k)
<1>1. CASE UNCHANGED left
  <2>1. ASSUME NEW k \in Kinds PROVE ~Spend(k)
    <3> SUFFICES ASSUME Spend(k) PROVE FALSE
      OBVIOUS
    <3>1. left[k] \in Nat /\ left["total"] \in Nat /\ left \in [Kinds -> Nat] /\ "total" \in Kinds
      BY DEF TypeOK, ProcessOK, Kinds
    <3>2. left'[k] < left[k]
      BY <3>1 DEF Spend
    <3> QED BY <1>1, <3>1, <3>2
  <2> QED BY <1>1, <2>1 DEF Spent, Fresh
<1>2. ASSUME NEW k \in Kinds, Spend(k)
      PROVE  /\ Spent'
             /\ \A j \in Kinds : Fresh(j)' => Fresh(j) /\ ~Spend(j)
  <2>1. Spent' /\ \A j \in Kinds : Fresh(j)' => Fresh(j)
    BY <1>2, Spending
  <2>2. \A j \in Kinds : Spend(j) => ~Fresh(j)'
    BY Spending
  <2> QED BY <2>1, <2>2
<1> QED BY <1>1, <1>2, Costs

\* The same for the disturbances that the promises name.
LEMMA Calm ==
    ASSUME TypeOK, Spent, [Next]_vars
    PROVE  /\ Fresh("reset")' => Fresh("reset") /\ \A s \in Sessions : ~ResetSession(s)
           /\ Fresh("park")' => Fresh("park") /\ \A s \in Sessions : ~TurnParked(s)
           /\ Fresh("deploy")' => Fresh("deploy") /\ ~DeployBegin
           /\ Unforced' => Unforced /\ \A s \in Sessions : ~ResetSession(s) /\ ~Interrupt(s)
           /\ Fresh("close")' => /\ Fresh("close")
                                 /\ \A s \in Sessions : /\ ~ArchiveBegin(s) /\ ~DeleteBegin(s)
                                                        /\ ~AutoArchive(s)
           /\ Unstopped' => Unstopped /\ ~Spend("crash") /\ ~Spend("shutdown")
<1>1. {"interrupt", "reset", "close", "fork", "park", "deploy", "timeout", "enqueue",
       "shutdown", "crash"} \subseteq Kinds
  BY DEF Kinds
<1>2. \A k \in Kinds : Fresh(k)' => Fresh(k) /\ ~Spend(k)
  BY Budgets
<1>3. Fresh("reset")' => Fresh("reset") /\ \A s \in Sessions : ~ResetSession(s)
  BY <1>1, <1>2 DEF ResetSession
<1>4. Fresh("park")' => Fresh("park") /\ \A s \in Sessions : ~TurnParked(s)
  BY <1>1, <1>2 DEF TurnParked
<1>5. Fresh("deploy")' => Fresh("deploy") /\ ~DeployBegin
  BY <1>1, <1>2 DEF DeployBegin
<1>6. Unforced' => Unforced /\ \A s \in Sessions : ~ResetSession(s) /\ ~Interrupt(s)
  BY <1>1, <1>2, <1>3 DEF Interrupt, Unforced
<1>7. Fresh("close")' => /\ Fresh("close")
                         /\ \A s \in Sessions : /\ ~ArchiveBegin(s) /\ ~DeleteBegin(s)
                                                /\ ~AutoArchive(s)
  BY <1>1, <1>2 DEF ArchiveBegin, DeleteBegin, AutoArchive
<1>8. Unstopped' => Unstopped /\ ~Spend("crash") /\ ~Spend("shutdown")
  BY <1>1, <1>2 DEF Unstopped
<1> QED BY <1>3, <1>4, <1>5, <1>6, <1>7, <1>8

--------------------------------------------------------------------------------
(* What each group of actions leaves alone *)

\* start_message touches neither the sessions' rows nor the process.
LEMMA CallFrame ==
    ASSUME NEW p \in Prompts, CallNext(p)
    PROVE  UNCHANGED <<closed, cancelling, sessVars, processVars, left>>
BY DEF CallNext, Submit, Admit1, EnqueueIfBusy, AcquireSessionLock, Admit2, ClaimIdleTurn, turnVars,
       gateVars

\* A turn touches no flag that a manager sets.
LEMMA TurnFrame ==
    ASSUME NEW s \in Sessions, TurnNext(s)
    PROVE  UNCHANGED <<closed, archReq, forking, resetting, releasing, processVars>>
BY DEF TurnNext, DriverStart, DriverLoop, DriverEnd, DriverCancelled, ConsumeMessage,
       TurnLock, TurnLockTimeout, PersistUserMessage, TurnEnd, TurnParked, TurnCancelled,
       gateVars, sessVars

\* Only writing its row lets a turn touch calls and the gate.
LEMMA TurnCalls ==
    ASSUME NEW s \in Sessions, TurnNext(s), ~PersistUserMessage(s)
    PROVE  UNCHANGED <<callVars, gateVars>>
BY DEF TurnNext, DriverStart, DriverLoop, DriverEnd, DriverCancelled, ConsumeMessage,
       TurnLock, TurnLockTimeout, TurnEnd, TurnParked, TurnCancelled

\* What is done to a session touches no call, no gate and not the process.
LEMMA SessionFrame ==
    ASSUME NEW s \in Sessions, SessionNext(s)
    PROVE  UNCHANGED <<callVars, gateVars, processVars>>
BY DEF SessionNext, Interrupt, ResetSession, ResetFinish, ArchiveBegin, ArchiveDrop,
       ArchiveEnd, AutoArchive, DeleteBegin, DeleteEnd, ForkClaim, ForkFail, ForkDone,
       CancelPark, ReleaseParkedQueue

\* The outbox touches no session.
LEMMA InjectionFrame ==
    ASSUME NEW i \in Injections, InjectionNext(i)
    PROVE  UNCHANGED <<gateVars, lock, queue, turnVars, sessVars, enabled, phase, deploy>>
BY DEF InjectionNext, EnqueueInjection, EnqueueDispatch, RetryInjection, RecoverInjection,
       MaterializeInjection, processVars

\* A wake consumes the park and starts a call.
LEMMA ResumeFrame ==
    ASSUME NEW r \in Resumes, Wake(r) \/ ResumeParkedTurn(r)
    PROVE  UNCHANGED <<via, gateVars, lock, queue, turnVars, sess, archReq, forking,
                       resetting, releasing, storeVars, claimVars, processVars>>
BY DEF Wake, ResumeParkedTurn, sessVars

\* Short of an end, a process changes its own variables only.
LEMMA ProcessFrame ==
    ASSUME ProcessNext, ~ShutdownInjections, ~Restart
    PROVE  UNCHANGED <<callVars, gate, lock, queue, turnVars, sessVars, storeVars, claimVars>>
BY DEF ProcessNext, DeployBegin, DeployDrained, DeployClose, DeployCensus, DeployOpen,
       DeployResume, Shutdown, ReleaseProducers, gateVars

--------------------------------------------------------------------------------
(* The helpers' moves *)

\* start_message ends: its prompt is nowhere in it any more.
LEMMA EndCallMoves ==
    ASSUME TypeOK, NEW p \in Prompts, NEW result, EndCall(p, result)
    PROVE  /\ \E to \in {"idle", "done"} : pc' = [pc EXCEPT ![p] = to]
           /\ claimed' \subseteq claimed /\ claimed \ {p} \subseteq claimed'
           /\ result = "ok" => claimed' = claimed
BY DEF EndCall

\* A forgotten dispatch was inside start_message for an injection.
LEMMA ForgetDispatchMoves ==
    ASSUME TypeOK, NEW c, ForgetDispatch(c)
    PROVE  \/ UNCHANGED <<pc, gate, lock>>
           \/ /\ c \in Injections /\ pc' = [pc EXCEPT ![c] = "idle"]
              /\ gate' = GateLeft(c)
              /\ lock' = IF pc[c] \in {"admit2", "claim"} THEN Unlocked(Target[c]) ELSE lock
BY DEF ForgetDispatch, callVars, gateVars

\* After a turn its driver is broadcasting, lingering or gone.
LEMMA DriverNextMoves ==
    ASSUME TypeOK, NEW s \in Sessions, NEW end, DriverNext(s, end)
    PROVE  \E d \in {"deq", "hook", "none"} : driver' = [driver EXCEPT ![s] = d]
BY DEF DriverNext, TypeOK, TurnsOK

--------------------------------------------------------------------------------
(* The session lock *)

\* Every release is the holder's own, as long as none is forced.
LEMMA LockingStep ==
    ASSUME TypeOK, Spent, Locking, [Next]_vars PROVE Locking'
<1>1. Unforced' => Unforced /\ \A s \in Sessions : ~ResetSession(s) /\ ~Interrupt(s)
  BY Calm
<1> SUFFICES ASSUME Unforced'
             PROVE  /\ \A q \in Prompts : pc'[q] \in {"admit2", "claim"} => lock'[Target[q]] = q
                    /\ \A t \in Sessions : driver'[t] \in {"anchor", "running"} => lock'[t] = "turn"
                    /\ \A t \in Sessions : ~resetting'[t]
  BY DEF Locking, TurnHoldsLock
<1> DEFINE Holds == \A q \in Prompts : pc'[q] \in {"admit2", "claim"} => lock'[Target[q]] = q
           Turns == \A t \in Sessions : driver'[t] \in {"anchor", "running"} => lock'[t] = "turn"
           Calms == \A t \in Sessions : ~resetting'[t]
<1>2. /\ \A q \in Prompts : pc[q] \in {"admit2", "claim"} => lock[Target[q]] = q
      /\ \A t \in Sessions : driver[t] \in {"anchor", "running"} => lock[t] = "turn"
      /\ \A t \in Sessions : ~resetting[t]
  BY <1>1 DEF Locking, TurnHoldsLock
<1>3. /\ \A q \in Prompts : Target[q] \in Sessions /\ q # "turn" /\ q # "free"
      /\ Injections \subseteq Prompts
      /\ DOMAIN pc = Prompts /\ DOMAIN lock = Sessions /\ DOMAIN driver = Sessions
  BY TargetAssumption, PromptsAreNotMarks DEF Prompts, TypeOK, CallsOK, LocksOK, TurnsOK
<1>4. ASSUME UNCHANGED <<pc, lock, driver, resetting>> PROVE Holds /\ Turns /\ Calms
  BY <1>2, <1>4
<1>5. ASSUME NEW p \in Prompts, CallNext(p) PROVE Holds /\ Turns /\ Calms
  <2>1. Calms
    BY <1>2, <1>5, CallFrame DEF sessVars
  <2>2. CASE Submit(p)
    BY <1>2, <1>3, <2>1, <2>2 DEF Submit, turnVars
  <2>3. CASE Admit1(p)
    <3>1. \E to \in {"idle", "done", "check1"} : pc' = [pc EXCEPT ![p] = to]
      BY <2>3, EndCallMoves DEF Admit1
    <3> QED BY <1>2, <1>3, <2>1, <2>3, <3>1 DEF Admit1, turnVars
  <2>4. CASE EnqueueIfBusy(p)
    <3>1. CASE lock' = lock /\ \E to \in {"idle", "done", "lock"} : pc' = [pc EXCEPT ![p] = to]
      BY <1>2, <1>3, <2>1, <2>4, <3>1 DEF EnqueueIfBusy, turnVars
    <3>2. CASE /\ lock[Target[p]] = "free" /\ lock' = [lock EXCEPT ![Target[p]] = p]
               /\ pc' = [pc EXCEPT ![p] = "admit2"]
      BY <1>2, <1>3, <2>1, <2>4, <3>2 DEF EnqueueIfBusy, turnVars
    <3> QED BY <2>4, <3>1, <3>2, EndCallMoves DEF EnqueueIfBusy
  <2>5. CASE AcquireSessionLock(p)
    BY <1>2, <1>3, <2>1, <2>5 DEF AcquireSessionLock, turnVars
  <2>6. CASE Admit2(p)
    <3>1. CASE pc' = [pc EXCEPT ![p] = "claim"] /\ lock' = lock
      BY <1>2, <1>3, <2>1, <2>6, <3>1 DEF Admit2, turnVars
    <3>2. CASE /\ \E to \in {"idle", "done"} : pc' = [pc EXCEPT ![p] = to]
               /\ lock' = Unlocked(Target[p])
      <4>1. lock[Target[p]] = p
        BY <1>2, <2>6 DEF Admit2
      <4> QED BY <1>2, <1>3, <2>1, <2>6, <3>2, <4>1 DEF Admit2, turnVars, Unlocked
    <3> QED BY <2>6, <3>1, <3>2, EndCallMoves DEF Admit2
  <2>7. CASE ClaimIdleTurn(p)
    <3>1. lock[Target[p]] = p /\ lock' = Unlocked(Target[p])
      BY <1>2, <2>7 DEF ClaimIdleTurn
    <3>2. \E to \in {"idle", "done"} : pc' = [pc EXCEPT ![p] = to]
      BY <2>7, EndCallMoves DEF ClaimIdleTurn
    <3>3. driver' = driver \/ driver' = [driver EXCEPT ![Target[p]] = "start"]
      BY <2>7 DEF ClaimIdleTurn
    <3>4. Holds
      BY <1>2, <1>3, <3>1, <3>2 DEF Unlocked
    <3>5. Turns
      BY <1>2, <1>3, <3>1, <3>3 DEF Unlocked
    <3> QED BY <2>1, <3>4, <3>5
  <2> QED BY <1>5, <2>2, <2>3, <2>4, <2>5, <2>6, <2>7 DEF CallNext
<1>6. ASSUME NEW s \in Sessions, TurnNext(s) PROVE Holds /\ Turns /\ Calms
  <2>1. Calms
    BY <1>2, <1>6, TurnFrame
  <2>2. ASSUME UNCHANGED <<pc, lock>>,
               \E d \in DriverStates \ {"anchor", "running"} : driver' = [driver EXCEPT ![s] = d]
        PROVE  Holds /\ Turns /\ Calms
    BY <1>2, <1>3, <2>1, <2>2
  <2>3. ASSUME UNCHANGED pc, lock' = Unlocked(s), driver[s] \in {"anchor", "running"},
               \E d \in DriverStates \ {"anchor", "running"} : driver' = [driver EXCEPT ![s] = d]
        PROVE  Holds /\ Turns /\ Calms
    BY <1>2, <1>3, <2>1, <2>3 DEF Unlocked
  <2>4. {"deq", "hook", "none", "created", "lockwait"} \subseteq DriverStates \ {"anchor", "running"}
    BY DEF DriverStates, InnerStates
  <2>5. CASE DriverStart(s) \/ DriverLoop(s) \/ DriverEnd(s) \/ DriverCancelled(s)
    BY <2>2, <2>4, <2>5 DEF DriverStart, DriverLoop, DriverEnd, DriverCancelled, callVars
  <2>6. CASE ConsumeMessage(s) \/ TurnLockTimeout(s)
    BY <2>2, <2>4, <2>6, DriverNextMoves DEF ConsumeMessage, TurnLockTimeout, callVars
  <2>7. CASE TurnLock(s)
    <3>1. /\ pc' = pc /\ lock[s] = "free" /\ lock' = [lock EXCEPT ![s] = "turn"]
          /\ driver' = [driver EXCEPT ![s] = "anchor"]
      BY <2>7 DEF TurnLock, callVars
    <3> QED BY <1>2, <1>3, <2>1, <3>1
  <2>8. CASE TurnEnd(s) \/ TurnParked(s)
    BY <2>3, <2>4, <2>8, DriverNextMoves DEF TurnEnd, TurnParked, callVars
  <2>9. CASE TurnCancelled(s)
    <3>1. pc' = pc /\ \E d \in DriverStates \ {"anchor", "running"} : driver' = [driver EXCEPT ![s] = d]
      BY <2>4, <2>9, DriverNextMoves DEF TurnCancelled, callVars
    <3> QED BY <2>2, <2>3, <2>9, <3>1 DEF TurnCancelled
  <2>10. CASE PersistUserMessage(s)
    <3>1. CASE ~MayPersist(s)
      BY <2>3, <2>4, <2>10, <3>1, DriverNextMoves DEF PersistUserMessage, callVars
    <3>2. CASE MayPersist(s)
      <4>1. /\ driver[s] = "anchor" /\ driver' = [driver EXCEPT ![s] = "running"]
            /\ ForgetDispatch(cur[s])
        BY <2>10, <3>2 DEF PersistUserMessage
      <4>2. CASE UNCHANGED <<pc, lock>>
        BY <1>2, <1>3, <2>1, <4>1, <4>2
      <4>3. CASE /\ cur[s] \in Injections /\ pc' = [pc EXCEPT ![cur[s]] = "idle"]
                 /\ lock' = IF pc[cur[s]] \in {"admit2", "claim"} THEN Unlocked(Target[cur[s]]) ELSE lock
        <5> DEFINE c == cur[s]
        <5>1. CASE pc[c] \in {"admit2", "claim"}
          <6>1. c \in Prompts /\ lock[Target[c]] = c /\ lock' = Unlocked(Target[c])
            BY <1>2, <1>3, <4>3, <5>1
          <6>2. Holds
            BY <1>2, <1>3, <4>3, <6>1 DEF Unlocked
          <6>3. Turns
            BY <1>2, <1>3, <4>1, <6>1 DEF Unlocked
          <6> QED BY <2>1, <6>2, <6>3
        <5>2. CASE pc[c] \notin {"admit2", "claim"}
          BY <1>2, <1>3, <2>1, <4>1, <4>3, <5>2
        <5> QED BY <5>1, <5>2
      <4> QED BY <4>1, <4>2, <4>3, ForgetDispatchMoves
    <3> QED BY <3>1, <3>2
  <2> QED BY <1>6, <2>1, <2>5, <2>6, <2>7, <2>8, <2>9, <2>10 DEF TurnNext
<1>7. ASSUME NEW s \in Sessions, SessionNext(s) PROVE Holds /\ Turns /\ Calms
  <2>1. ~Interrupt(s) /\ ~ResetSession(s) /\ ~ResetFinish(s) /\ pc' = pc
    BY <1>1, <1>2, <1>7, SessionFrame DEF ResetFinish, callVars
  <2>2. CASE ReleaseParkedQueue(s)
    BY <1>2, <1>3, <2>1, <2>2 DEF ReleaseParkedQueue
  <2>3. CASE ArchiveBegin(s) \/ ArchiveDrop(s) \/ ArchiveEnd(s) \/ AutoArchive(s) \/ DeleteBegin(s)
    BY <1>4, <2>1, <2>3 DEF ArchiveBegin, ArchiveDrop, ArchiveEnd, AutoArchive, DeleteBegin,
                            CancelDriver, turnVars
  <2>4. CASE DeleteEnd(s) \/ ForkClaim(s) \/ ForkFail(s) \/ ForkDone(s) \/ CancelPark(s)
    BY <1>4, <2>1, <2>4 DEF DeleteEnd, ForkClaim, ForkFail, ForkDone, CancelPark,
                            CancelDriver, turnVars
  <2> QED BY <1>7, <2>1, <2>2, <2>3, <2>4 DEF SessionNext
<1>8. ASSUME NEW i \in Injections, InjectionNext(i) PROVE Holds /\ Turns /\ Calms
  <2>1. UNCHANGED <<lock, driver, resetting>>
    BY <1>8, InjectionFrame DEF turnVars, sessVars
  <2>2. pc' = pc \/ \E to \in {"idle", "enq", "admit1"} : pc' = [pc EXCEPT ![i] = to]
    BY <1>8 DEF InjectionNext, EnqueueInjection, EnqueueDispatch, RetryInjection,
                RecoverInjection, MaterializeInjection, Dispatch, callVars
  <2> QED BY <1>2, <1>3, <2>1, <2>2
<1>9. ASSUME NEW r \in Resumes, Wake(r) \/ ResumeParkedTurn(r) PROVE Holds /\ Turns /\ Calms
  <2>1. UNCHANGED <<lock, driver, resetting>>
    BY <1>9, ResumeFrame DEF turnVars
  <2>2. \E to \in {"idle", "resume", "admit1"} : pc' = [pc EXCEPT ![r] = to]
    BY <1>9 DEF Wake, ResumeParkedTurn
  <2> QED BY <1>2, <1>3, <2>1, <2>2
<1>10. ASSUME ProcessNext PROVE Holds /\ Turns /\ Calms
  <2>1. CASE ~ShutdownInjections /\ ~Restart
    BY <1>4, <1>10, <2>1, ProcessFrame DEF callVars, turnVars, sessVars
  <2>2. CASE Restart
    BY <1>3, <2>2 DEF Restart
  <2>3. CASE ShutdownInjections
    <3>1. PICK killed \in SUBSET Injections :
            /\ pc' = [p \in Prompts |-> IF p \in killed THEN "idle" ELSE pc[p]]
            /\ lock' = [s \in Sessions |-> IF \E i \in killed : pc[i] \in {"admit2", "claim"}
                                                 /\ Target[i] = s THEN "free" ELSE lock[s]]
      BY <2>3 DEF ShutdownInjections
    <3>2. UNCHANGED <<driver, resetting>>
      BY <2>3 DEF ShutdownInjections, turnVars, sessVars
    <3>3. \A q \in Prompts \ killed : pc[q] \in {"admit2", "claim"} => lock'[Target[q]] = lock[Target[q]]
      BY <1>2, <1>3, <3>1
    <3>4. Holds
      BY <1>2, <1>3, <3>1, <3>3
    <3>5. Turns
      BY <1>2, <1>3, <3>1, <3>2
    <3> QED BY <1>2, <3>2, <3>4, <3>5
  <2> QED BY <2>1, <2>2, <2>3
<1>11. UNCHANGED vars => Holds /\ Turns /\ Calms
  BY <1>4 DEF vars
<1>12. Holds /\ Turns /\ Calms
  BY <1>5, <1>6, <1>7, <1>8, <1>9, <1>10, <1>11 DEF Next
<1> QED BY <1>12

--------------------------------------------------------------------------------
(* The admission gate *)

\* A closed gate is nobody's, and what holds it is past admission.
LEMMA GatingStep ==
    ASSUME TypeOK, Gating, [Next]_vars PROVE Gating'
<1> DEFINE G1 == closed' => gate' = "free"
           G2 == deploy' \in {"census", "committed", "opening"} => closed'
           G3 == \A q \in Prompts \ Workers : pc'[q] = "claim" => gate' = q
           G4 == \A q \in Prompts \ FollowUps : pc'[q] = "lock" => gate' # q
<1> SUFFICES G1 /\ G2 /\ G3 /\ G4
  BY DEF Gating
<1>1. /\ closed => gate = "free"
      /\ deploy \in {"census", "committed", "opening"} => closed
      /\ \A q \in Prompts \ Workers : pc[q] = "claim" => gate = q
      /\ \A q \in Prompts \ FollowUps : pc[q] = "lock" => gate # q
  BY DEF Gating
<1>2. /\ \A q \in Prompts : q # "free"
      /\ Injections \subseteq Prompts /\ Resumes \subseteq Prompts
      /\ DOMAIN pc = Prompts
  BY PromptsAreNotMarks DEF Prompts, TypeOK, CallsOK
<1>3. ASSUME UNCHANGED <<pc, gate, closed, deploy>> PROVE G1 /\ G2 /\ G3 /\ G4
  BY <1>1, <1>3
<1>4. ASSUME UNCHANGED <<gate, closed, deploy>>, NEW p \in Prompts,
             \E to \in {"idle", "done", "enq", "resume", "admit1", "check1", "admit2"} :
                pc' = [pc EXCEPT ![p] = to]
      PROVE  G1 /\ G2 /\ G3 /\ G4
  BY <1>1, <1>2, <1>4
<1>5. ASSUME UNCHANGED <<closed, deploy>>, NEW p \in Prompts, gate' = GateLeft(p),
             \E to \in {"idle", "done"} : pc' = [pc EXCEPT ![p] = to]
      PROVE  G1 /\ G2 /\ G3 /\ G4
  BY <1>1, <1>2, <1>5 DEF GateLeft
<1>6. ASSUME NEW p \in Prompts, CallNext(p) PROVE G1 /\ G2 /\ G3 /\ G4
  <2>1. UNCHANGED <<closed, deploy>>
    BY <1>6, CallFrame DEF processVars
  <2>2. CASE Submit(p)
    BY <1>4, <2>1, <2>2 DEF Submit, gateVars
  <2>3. CASE Admit1(p)
    <3>1. CASE closed
      BY <1>4, <2>1, <2>3, <3>1, EndCallMoves DEF Admit1
    <3>2. CASE ~closed
      BY <1>1, <1>2, <2>1, <2>3, <3>2 DEF Admit1
    <3> QED BY <3>1, <3>2
  <2>4. CASE EnqueueIfBusy(p)
    <3>1. CASE Busy(Target[p])
      BY <1>5, <2>1, <2>4, <3>1, EndCallMoves DEF EnqueueIfBusy
    <3>2. CASE ~Busy(Target[p])
      <4>1. \E to \in {"lock", "admit2"} : pc' = [pc EXCEPT ![p] = to]
        BY <2>4, <3>2 DEF EnqueueIfBusy
      <4>2. pc[p] = "check1" /\ gate' = GateAfterBusyCheck(p)
        BY <2>4, <3>2 DEF EnqueueIfBusy
      <4> QED BY <1>1, <1>2, <2>1, <4>1, <4>2 DEF GateAfterBusyCheck, GateLeft
    <3> QED BY <3>1, <3>2
  <2>5. CASE AcquireSessionLock(p)
    BY <1>4, <2>1, <2>5 DEF AcquireSessionLock, gateVars
  <2>6. CASE Admit2(p)
    <3>1. CASE \E why : EndCall(p, why) /\ gate' = GateLeft(p)
      BY <1>5, <2>1, <3>1, EndCallMoves
    <3>2. CASE /\ gate' = IF p \in Workers THEN gate ELSE p
               /\ pc' = [pc EXCEPT ![p] = "claim"]
               /\ Admitted(p) \/ ~closed
      <4>1. gate = "free" \/ gate = p \/ p \in Workers
        BY <2>6 DEF Admit2, Admitted
      <4> QED BY <1>1, <1>2, <2>1, <3>2, <4>1 DEF Admitted
    <3> QED BY <2>6, <3>1, <3>2 DEF Admit2
  <2>7. CASE ClaimIdleTurn(p)
    BY <1>5, <2>1, <2>7, EndCallMoves DEF ClaimIdleTurn
  <2> QED BY <1>6, <2>2, <2>3, <2>4, <2>5, <2>6, <2>7 DEF CallNext
<1>7. ASSUME NEW s \in Sessions, TurnNext(s) PROVE G1 /\ G2 /\ G3 /\ G4
  <2>1. UNCHANGED <<closed, deploy>>
    BY <1>7, TurnFrame DEF processVars
  <2>2. CASE UNCHANGED <<pc, gate>>
    BY <1>3, <2>1, <2>2
  <2>3. CASE ForgetDispatch(cur[s])
    <3>1. CASE /\ cur[s] \in Injections /\ pc' = [pc EXCEPT ![cur[s]] = "idle"]
               /\ gate' = GateLeft(cur[s])
      BY <1>2, <1>5, <2>1, <3>1
    <3> QED BY <2>2, <2>3, <3>1, ForgetDispatchMoves
  <2>4. PersistUserMessage(s) => ForgetDispatch(cur[s]) \/ UNCHANGED <<pc, gate>>
    BY DEF PersistUserMessage, callVars
  <2>5. ~PersistUserMessage(s) => UNCHANGED <<pc, gate>>
    BY <1>7, TurnCalls DEF callVars, gateVars
  <2> QED BY <2>2, <2>3, <2>4, <2>5
<1>8. ASSUME NEW s \in Sessions, SessionNext(s) PROVE G1 /\ G2 /\ G3 /\ G4
  BY <1>3, <1>8, SessionFrame DEF callVars, gateVars, processVars
<1>9. ASSUME NEW i \in Injections, InjectionNext(i) PROVE G1 /\ G2 /\ G3 /\ G4
  <2>1. UNCHANGED <<gate, closed, deploy>>
    BY <1>9, InjectionFrame DEF gateVars
  <2>2. pc' = pc \/ \E to \in {"idle", "enq", "admit1"} : pc' = [pc EXCEPT ![i] = to]
    BY <1>9 DEF InjectionNext, EnqueueInjection, EnqueueDispatch, RetryInjection,
                RecoverInjection, MaterializeInjection, Dispatch, callVars
  <2> QED BY <1>2, <1>3, <1>4, <2>1, <2>2
<1>10. ASSUME NEW r \in Resumes, Wake(r) \/ ResumeParkedTurn(r) PROVE G1 /\ G2 /\ G3 /\ G4
  <2>1. UNCHANGED <<gate, closed, deploy>>
    BY <1>10, ResumeFrame DEF gateVars, processVars
  <2>2. \E to \in {"idle", "resume", "admit1"} : pc' = [pc EXCEPT ![r] = to]
    BY <1>10 DEF Wake, ResumeParkedTurn
  <2> QED BY <1>2, <1>4, <2>1, <2>2
<1>11. ASSUME ProcessNext PROVE G1 /\ G2 /\ G3 /\ G4
  <2>1. CASE DeployBegin \/ DeployDrained \/ DeployClose \/ DeployCensus
    BY <1>1, <2>1 DEF DeployBegin, DeployDrained, DeployClose, DeployCensus, Deploy, callVars,
                      gateVars
  <2>2. CASE DeployOpen \/ DeployResume \/ Shutdown \/ ReleaseProducers
    BY <1>1, <2>2 DEF DeployOpen, DeployResume, Shutdown, ReleaseProducers, Deploy, callVars,
                      gateVars
  <2>3. CASE Restart
    BY <1>2, <2>3 DEF Restart
  <2>4. CASE ShutdownInjections
    <3>1. PICK killed \in SUBSET Injections :
            /\ pc' = [p \in Prompts |-> IF p \in killed THEN "idle" ELSE pc[p]]
            /\ gate' = IF gate \in killed THEN "free" ELSE gate
      BY <2>4 DEF ShutdownInjections
    <3>2. UNCHANGED <<closed, deploy>>
      BY <2>4 DEF ShutdownInjections, processVars
    <3> QED BY <1>1, <1>2, <3>1, <3>2
  <2> QED BY <1>11, <2>1, <2>2, <2>3, <2>4 DEF ProcessNext
<1>12. UNCHANGED vars => G1 /\ G2 /\ G3 /\ G4
  BY <1>3 DEF vars
<1> HIDE DEF G1, G2, G3, G4
<1> QED BY <1>6, <1>7, <1>8, <1>9, <1>10, <1>11, <1>12 DEF Next

--------------------------------------------------------------------------------
(* Parks and forks *)

\* Only a park writes a park, only its cancellation releases a queue.
LEMMA UnparkedStep ==
    ASSUME TypeOK, Spent, Unparked, [Next]_vars PROVE Unparked'
<1> SUFFICES ASSUME Fresh("park")'
             PROVE  \A t \in Sessions : ~parked'[t] /\ ~releasing'[t]
  BY DEF Unparked
<1>1. /\ \A s \in Sessions : ~TurnParked(s) /\ ~parked[s] /\ ~releasing[s]
      /\ DOMAIN parked = Sessions /\ DOMAIN releasing = Sessions
  BY Calm DEF Unparked, TypeOK, SessionsOK
<1> DEFINE Goal == \A t \in Sessions : ~parked'[t] /\ ~releasing'[t]
<1>2. ASSUME UNCHANGED <<parked, releasing>> PROVE Goal
  BY <1>1, <1>2
<1>3. ASSUME NEW p \in Prompts, CallNext(p) PROVE Goal
  BY <1>2, <1>3, CallFrame DEF sessVars
<1>4. ASSUME NEW s \in Sessions, TurnNext(s) PROVE Goal
  BY <1>1, <1>2, <1>4 DEF TurnNext, DriverStart, DriverLoop, DriverEnd, DriverCancelled,
       ConsumeMessage, TurnLock, TurnLockTimeout, PersistUserMessage, TurnEnd, TurnCancelled,
       sessVars
<1>5. ASSUME NEW s \in Sessions, SessionNext(s) PROVE Goal
  BY <1>1, <1>2, <1>5 DEF SessionNext, Interrupt, ResetSession, ResetFinish, ArchiveBegin,
       ArchiveDrop, ArchiveEnd, AutoArchive, DeleteBegin, DeleteEnd, ForkClaim, ForkFail,
       ForkDone, CancelPark, ReleaseParkedQueue, sessVars
<1>6. ASSUME NEW i \in Injections, InjectionNext(i) PROVE Goal
  BY <1>2, <1>6, InjectionFrame DEF sessVars
<1>7. ASSUME NEW r \in Resumes, Wake(r) \/ ResumeParkedTurn(r) PROVE Goal
  BY <1>1, <1>2, <1>7, TargetAssumption DEF Wake, ResumeParkedTurn, sessVars, Prompts
<1>8. ASSUME ProcessNext PROVE Goal
  BY <1>1, <1>2, <1>8, ProcessFrame DEF ShutdownInjections, Restart, sessVars
<1>9. UNCHANGED vars => Goal
  BY <1>2 DEF vars
<1> HIDE DEF Goal
<1>10. Goal
  BY <1>3, <1>4, <1>5, <1>6, <1>7, <1>8, <1>9 DEF Next
<1> QED BY <1>10 DEF Goal

\* A fork keeps turns out: it took the session idle under its lock, and every
\* call looks at it before the claim.
LEMMA ForksStep ==
    ASSUME TypeOK, Spent, Locking, Unparked, Forks, [Next]_vars PROVE Forks'
<1>1. /\ Unforced' => Unforced /\ \A s \in Sessions : ~ResetSession(s) /\ ~Interrupt(s)
      /\ Fresh("park")' => Fresh("park") /\ \A s \in Sessions : ~TurnParked(s)
  BY Calm
<1> DEFINE Idle   == \A t \in Sessions : forking'[t] => driver'[t] = "none" /\ queue'[t] = <<>>
           Nobody == \A q \in Prompts : pc'[q] = "claim" => ~forking'[Target[q]]
<1> SUFFICES ASSUME Unforced', Fresh("park")' PROVE Idle /\ Nobody
  BY DEF Forks, Live
<1>2. /\ \A t \in Sessions : forking[t] => driver[t] = "none" /\ queue[t] = <<>>
      /\ \A q \in Prompts : pc[q] = "claim" => ~forking[Target[q]]
      /\ \A q \in Prompts : pc[q] = "claim" => lock[Target[q]] = q
      /\ \A t \in Sessions : ~parked[t] /\ ~releasing[t]
  BY <1>1 DEF Forks, Live, Locking, Unparked
<1>3. /\ \A q \in Prompts : Target[q] \in Sessions /\ q # "free"
      /\ Injections \subseteq Prompts /\ Resumes \subseteq Prompts
      /\ DOMAIN pc = Prompts /\ DOMAIN driver = Sessions /\ DOMAIN queue = Sessions
      /\ DOMAIN forking = Sessions
  BY TargetAssumption, PromptsAreNotMarks DEF Prompts, TypeOK, CallsOK, TurnsOK, SessionsOK
<1>4. ASSUME UNCHANGED <<driver, queue, forking>>, NEW p \in Prompts,
             pc' = pc \/ \E to \in {"idle", "done", "enq", "resume", "admit1", "check1", "lock", "admit2"} :
                           pc' = [pc EXCEPT ![p] = to]
      PROVE  Idle /\ Nobody
  BY <1>2, <1>3, <1>4
<1>5. ASSUME NEW s \in Sessions, UNCHANGED <<pc, forking>>, ~forking[s],
             \A t \in Sessions \ {s} : driver'[t] = driver[t] /\ queue'[t] = queue[t]
      PROVE  Idle /\ Nobody
  BY <1>2, <1>3, <1>5
<1>6. ASSUME NEW p \in Prompts, CallNext(p) PROVE Idle /\ Nobody
  <2>1. UNCHANGED forking
    BY <1>6, CallFrame DEF sessVars
  <2>2. CASE Submit(p) \/ Admit1(p) \/ AcquireSessionLock(p)
    BY <1>4, <2>1, <2>2, EndCallMoves DEF Submit, Admit1, AcquireSessionLock, turnVars
  <2>3. CASE EnqueueIfBusy(p)
    <3>1. CASE Busy(Target[p])
      <4>1. ~forking[Target[p]]
        BY <1>2, <1>3, <3>1 DEF Busy, Live
      <4>2. driver' = driver /\ queue' = [queue EXCEPT ![Target[p]] = Append(@, p)]
        BY <2>3, <3>1 DEF EnqueueIfBusy, turnVars
      <4>3. \E to \in {"idle", "done"} : pc' = [pc EXCEPT ![p] = to]
        BY <2>3, <3>1, EndCallMoves DEF EnqueueIfBusy
      <4> QED BY <1>2, <1>3, <2>1, <4>1, <4>2, <4>3
    <3>2. CASE ~Busy(Target[p])
      <4>1. \E to \in {"lock", "admit2"} : pc' = [pc EXCEPT ![p] = to]
        BY <2>3, <3>2 DEF EnqueueIfBusy
      <4> QED BY <1>4, <2>1, <2>3, <3>2, <4>1 DEF EnqueueIfBusy, turnVars
    <3> QED BY <3>1, <3>2
  <2>4. CASE Admit2(p)
    <3>1. CASE \E why : EndCall(p, why)
      BY <1>4, <2>1, <2>4, <3>1, EndCallMoves DEF Admit2, turnVars
    <3>2. CASE pc' = [pc EXCEPT ![p] = "claim"] /\ ~forking[Target[p]]
      BY <1>2, <1>3, <2>1, <2>4, <3>2 DEF Admit2, turnVars
    <3> QED BY <2>4, <3>1, <3>2 DEF Admit2
  <2>5. CASE ClaimIdleTurn(p)
    <3>1. pc[p] = "claim" /\ ~forking[Target[p]]
      BY <1>2, <2>5 DEF ClaimIdleTurn
    <3>2. \A t \in Sessions \ {Target[p]} : driver'[t] = driver[t] /\ queue'[t] = queue[t]
      BY <1>3, <2>5 DEF ClaimIdleTurn
    <3>3. \E to \in {"idle", "done"} : pc' = [pc EXCEPT ![p] = to]
      BY <2>5, EndCallMoves DEF ClaimIdleTurn
    <3> QED BY <1>2, <1>3, <2>1, <3>1, <3>2, <3>3
  <2> QED BY <1>6, <2>2, <2>3, <2>4, <2>5 DEF CallNext
<1>7. ASSUME NEW s \in Sessions, TurnNext(s) PROVE Idle /\ Nobody
  <2>1. UNCHANGED forking /\ ~forking[s]
    <3>1. driver[s] # "none"
      BY <1>7 DEF TurnNext, DriverStart, DriverLoop, DriverEnd, DriverCancelled, ConsumeMessage,
         TurnLock, TurnLockTimeout, PersistUserMessage, TurnEnd, TurnParked, TurnCancelled,
         InnerStates
    <3> QED BY <1>2, <1>7, <3>1, TurnFrame
  <2>2. \A t \in Sessions \ {s} : driver'[t] = driver[t] /\ queue'[t] = queue[t]
    BY <1>3, <1>7 DEF TurnNext, DriverStart, DriverLoop, DriverEnd, DriverCancelled, ConsumeMessage,
       TurnLock, TurnLockTimeout, PersistUserMessage, TurnEnd, TurnParked, TurnCancelled, DriverNext
  <2>3. UNCHANGED pc \/ \E c \in Injections : pc' = [pc EXCEPT ![c] = "idle"]
    <3>1. CASE PersistUserMessage(s)
      BY <3>1, ForgetDispatchMoves DEF PersistUserMessage, callVars
    <3> QED BY <1>7, <3>1, TurnCalls DEF callVars
  <2> QED BY <1>2, <1>3, <2>1, <2>2, <2>3
<1>8. ASSUME NEW s \in Sessions, SessionNext(s) PROVE Idle /\ Nobody
  <2>1. UNCHANGED pc /\ ~Interrupt(s) /\ ~ResetSession(s) /\ ~ReleaseParkedQueue(s)
    BY <1>1, <1>2, <1>8, SessionFrame DEF callVars, ReleaseParkedQueue
  <2>2. CASE ForkClaim(s)
    <3>1. /\ lock[s] = "free" /\ driver[s] = "none" /\ queue[s] = <<>>
          /\ forking' = [forking EXCEPT ![s] = TRUE]
          /\ UNCHANGED <<driver, queue>>
      BY <2>2 DEF ForkClaim, ForkAllowed, Live, turnVars
    <3> QED BY <1>2, <1>3, <2>1, <3>1
  <2>3. CASE ForkFail(s) \/ ForkDone(s)
    BY <1>2, <1>3, <2>1, <2>3 DEF ForkFail, ForkDone, CancelDriver, turnVars
  <2>4. CASE ResetFinish(s) \/ ArchiveBegin(s) \/ ArchiveEnd(s) \/ AutoArchive(s) \/ DeleteEnd(s)
             \/ CancelPark(s)
    BY <1>2, <1>3, <2>1, <2>4 DEF ResetFinish, ArchiveBegin, ArchiveEnd, AutoArchive, DeleteEnd,
       CancelPark, CancelDriver, turnVars
  <2>5. CASE ArchiveDrop(s) \/ DeleteBegin(s)
    BY <1>2, <1>3, <2>1, <2>5 DEF ArchiveDrop, DeleteBegin, CancelDriver, turnVars
  <2> QED BY <1>8, <2>1, <2>2, <2>3, <2>4, <2>5 DEF SessionNext
<1>9. ASSUME NEW i \in Injections, InjectionNext(i) PROVE Idle /\ Nobody
  <2>1. UNCHANGED <<driver, queue, forking>>
    BY <1>9, InjectionFrame DEF turnVars, sessVars
  <2>2. pc' = pc \/ \E to \in {"idle", "enq", "admit1"} : pc' = [pc EXCEPT ![i] = to]
    BY <1>9 DEF InjectionNext, EnqueueInjection, EnqueueDispatch, RetryInjection,
                RecoverInjection, MaterializeInjection, Dispatch, callVars
  <2> QED BY <1>3, <1>4, <2>1, <2>2
<1>10. ASSUME NEW r \in Resumes, Wake(r) \/ ResumeParkedTurn(r) PROVE Idle /\ Nobody
  <2>1. UNCHANGED <<driver, queue, forking>>
    BY <1>10, ResumeFrame DEF turnVars
  <2>2. \E to \in {"idle", "resume", "admit1"} : pc' = [pc EXCEPT ![r] = to]
    BY <1>10 DEF Wake, ResumeParkedTurn
  <2> QED BY <1>3, <1>4, <2>1, <2>2
<1>11. ASSUME ProcessNext PROVE Idle /\ Nobody
  <2>1. CASE ~ShutdownInjections /\ ~Restart
    BY <1>2, <1>11, <2>1, ProcessFrame DEF callVars, turnVars, sessVars
  <2>2. CASE Restart
    BY <1>3, <2>2 DEF Restart
  <2>3. CASE ShutdownInjections
    <3>1. UNCHANGED <<driver, queue, forking>>
      BY <2>3 DEF ShutdownInjections, turnVars, sessVars
    <3>2. \A q \in Prompts : pc'[q] \in {"idle", pc[q]}
      BY <2>3 DEF ShutdownInjections
    <3> QED BY <1>2, <3>1, <3>2
  <2> QED BY <2>1, <2>2, <2>3
<1>12. UNCHANGED vars => Idle /\ Nobody
  BY <1>2 DEF vars
<1> HIDE DEF Idle, Nobody
<1> QED BY <1>6, <1>7, <1>8, <1>9, <1>10, <1>11, <1>12 DEF Next

--------------------------------------------------------------------------------
(* A committed deploy *)

\* Past the census the closed gate keeps every start out.
LEMMA CommittedStep ==
    ASSUME TypeOK, Spent, Gating, Unparked, Committed, [Next]_vars PROVE Committed'
<1>1. Fresh("park")' => Fresh("park") /\ \A s \in Sessions : ~TurnParked(s)
  BY Calm
<1> DEFINE Quiet == \A t \in Sessions : InMemory(t)' => driver'[t] = "none"
           Away  == \A w \in Workers : pc'[w] \in {"idle", "done"}
<1> SUFFICES ASSUME Fresh("park")', deploy' = "committed" PROVE Quiet /\ Away
  BY DEF Committed, Live
<1>2. \A t \in Sessions : ~parked[t] /\ ~releasing[t]
  BY <1>1 DEF Unparked
<1>3. /\ \A q \in Prompts : Target[q] \in Sessions /\ q # "free"
      /\ Injections \subseteq Prompts /\ Resumes \subseteq Prompts /\ Workers \subseteq Prompts
      /\ Injections \cap Workers = {} /\ Resumes \cap Workers = {}
      /\ DOMAIN pc = Prompts /\ DOMAIN driver = Sessions /\ DOMAIN sess = Sessions
  BY TargetAssumption, PromptsAreNotMarks, PromptKindsAreDisjoint
     DEF Prompts, TypeOK, CallsOK, TurnsOK, SessionsOK
<1>4. CASE deploy # "committed"
  <2>1. ProcessNext
    BY <1>4, CallFrame, TurnFrame, SessionFrame, InjectionFrame, ResumeFrame DEF Next, processVars, vars
  <2>2. DeployCensus /\ ~CensusBusy
    BY <1>4, <2>1 DEF ProcessNext, DeployBegin, DeployDrained, DeployClose, DeployCensus, DeployOpen,
       DeployResume, Shutdown, ShutdownInjections, Restart, ReleaseProducers, Deploy, processVars
  <2>3. UNCHANGED <<pc, driver, sess>>
    BY <2>2 DEF DeployCensus, callVars, turnVars, sessVars
  <2> QED BY <2>2, <2>3 DEF CensusBusy, InMemory, Live
<1>5. CASE deploy = "committed"
  <2>1. /\ \A t \in Sessions : InMemory(t) => driver[t] = "none"
        /\ \A w \in Workers : pc[w] \in {"idle", "done"}
        /\ closed /\ gate = "free"
        /\ \A q \in Prompts \ Workers : pc[q] # "claim"
    BY <1>1, <1>3, <1>5 DEF Committed, Live, Gating
  <2>2. ASSUME UNCHANGED <<driver, sess>>,
               pc' = pc \/ \E p \in Prompts \ Workers : \E to : pc' = [pc EXCEPT ![p] = to]
        PROVE  Quiet /\ Away
    BY <1>3, <2>1, <2>2 DEF InMemory
  <2>3. ASSUME NEW p \in Prompts, CallNext(p) PROVE Quiet /\ Away
    <3>1. UNCHANGED sess
      BY <2>3, CallFrame DEF sessVars
    <3>2. CASE Submit(p)
      <4>1. p \notin Workers
        BY <2>1, <3>2 DEF Submit
      <4> QED BY <2>2, <3>1, <3>2, <4>1 DEF Submit, turnVars
    <3>3. p \notin Workers \/ Submit(p)
      BY <2>1, <2>3 DEF CallNext, Admit1, EnqueueIfBusy, AcquireSessionLock, Admit2, ClaimIdleTurn
    <3>4. CASE Admit1(p) \/ AcquireSessionLock(p) \/ Admit2(p)
      BY <2>2, <3>1, <3>2, <3>3, <3>4, EndCallMoves DEF Admit1, AcquireSessionLock, Admit2, turnVars
    <3>5. CASE EnqueueIfBusy(p)
      BY <2>2, <3>1, <3>2, <3>3, <3>5, EndCallMoves DEF EnqueueIfBusy, turnVars
    <3>6. ~ClaimIdleTurn(p)
      BY <2>1 DEF ClaimIdleTurn
    <3> QED BY <2>3, <3>2, <3>4, <3>5, <3>6 DEF CallNext
  <2>4. ASSUME NEW s \in Sessions, TurnNext(s) PROVE Quiet /\ Away
    <3>1. ~InMemory(s)
      BY <2>1, <2>4 DEF TurnNext, DriverStart, DriverLoop, DriverEnd, DriverCancelled,
         ConsumeMessage, TurnLock, TurnLockTimeout, PersistUserMessage, TurnEnd, TurnParked,
         TurnCancelled, InnerStates
    <3>2. \A t \in Sessions \ {s} : driver'[t] = driver[t]
      BY <1>3, <2>4 DEF TurnNext, DriverStart, DriverLoop, DriverEnd, DriverCancelled, ConsumeMessage,
         TurnLock, TurnLockTimeout, PersistUserMessage, TurnEnd, TurnParked, TurnCancelled, DriverNext
    <3>3. UNCHANGED sess
      BY <2>4, <3>1 DEF TurnNext, DriverStart, DriverLoop, DriverEnd, DriverCancelled, ConsumeMessage,
         TurnLock, TurnLockTimeout, PersistUserMessage, TurnEnd, TurnParked, TurnCancelled, sessVars,
         TypeOK, SessionsOK
    <3>4. UNCHANGED pc \/ \E c \in Injections : pc' = [pc EXCEPT ![c] = "idle"]
      <4>1. CASE PersistUserMessage(s)
        BY <4>1, ForgetDispatchMoves DEF PersistUserMessage, callVars
      <4> QED BY <2>4, <4>1, TurnCalls DEF callVars
    <3>5. Quiet
      BY <2>1, <3>1, <3>2, <3>3 DEF InMemory
    <3>6. Away
      BY <1>3, <2>1, <3>4
    <3> QED BY <3>5, <3>6
  <2>5. ASSUME NEW s \in Sessions, SessionNext(s) PROVE Quiet /\ Away
    <3>1. UNCHANGED pc
      BY <2>5, SessionFrame DEF callVars
    <3>2. UNCHANGED driver
      BY <1>2, <2>5 DEF SessionNext, Interrupt, ResetSession, ResetFinish, ArchiveBegin, ArchiveDrop,
         ArchiveEnd, AutoArchive, DeleteBegin, DeleteEnd, ForkClaim, ForkFail, ForkDone, CancelPark,
         ReleaseParkedQueue, CancelDriver, turnVars
    <3>3. \A t \in Sessions : InMemory(t)' => InMemory(t)
      BY <1>3, <2>5 DEF SessionNext, Interrupt, ResetSession, ResetFinish, ArchiveBegin, ArchiveDrop,
         ArchiveEnd, AutoArchive, DeleteBegin, DeleteEnd, ForkClaim, ForkFail, ForkDone, CancelPark,
         ReleaseParkedQueue, sessVars, InMemory
    <3> QED BY <2>1, <3>1, <3>2, <3>3
  <2>6. ASSUME NEW i \in Injections, InjectionNext(i) PROVE Quiet /\ Away
    <3>1. pc' = pc \/ \E to : pc' = [pc EXCEPT ![i] = to]
      BY <2>6 DEF InjectionNext, EnqueueInjection, EnqueueDispatch, RetryInjection,
                  RecoverInjection, MaterializeInjection, Dispatch, callVars
    <3>2. i \in Prompts \ Workers
      BY <1>3
    <3> QED BY <2>2, <2>6, <3>1, <3>2, InjectionFrame DEF turnVars, sessVars
  <2>7. ASSUME NEW r \in Resumes, Wake(r) \/ ResumeParkedTurn(r) PROVE Quiet /\ Away
    <3>1. \E to : pc' = [pc EXCEPT ![r] = to]
      BY <2>7 DEF Wake, ResumeParkedTurn
    <3>2. r \in Prompts \ Workers
      BY <1>3
    <3> QED BY <2>2, <2>7, <3>1, <3>2, ResumeFrame DEF turnVars
  <2>8. ASSUME ProcessNext PROVE Quiet /\ Away
    <3>1. ~Restart
      BY DEF Restart
    <3>2. UNCHANGED <<driver, sess>>
      BY <2>8, <3>1, ProcessFrame DEF ShutdownInjections, turnVars, sessVars
    <3>3. \A w \in Workers : pc'[w] \in {"idle", pc[w]}
      BY <1>3, <2>8, <3>1, ProcessFrame DEF ShutdownInjections, callVars
    <3> QED BY <2>1, <3>2, <3>3 DEF InMemory
  <2>9. UNCHANGED vars => Quiet /\ Away
    BY <2>2 DEF vars
  <2> HIDE DEF Quiet, Away
  <2> QED BY <2>3, <2>4, <2>5, <2>6, <2>7, <2>8, <2>9 DEF Next
<1> QED BY <1>4, <1>5

--------------------------------------------------------------------------------
(* Drivers, addresses and rows *)

\* A driver takes the head of its queue, or is left without a prompt.
LEMMA DriverNextTakes ==
    ASSUME TypeOK, NEW s \in Sessions, NEW end, DriverNext(s, end)
    PROVE  \/ /\ queue[s] # <<>> /\ queue' = [queue EXCEPT ![s] = Tail(queue[s])]
              /\ cur' = [cur EXCEPT ![s] = Head(queue[s])]
              /\ driver' = [driver EXCEPT ![s] = "deq"]
           \/ /\ queue' = queue /\ cur' = [cur EXCEPT ![s] = "none"]
              /\ \/ driver' = [driver EXCEPT ![s] = "none"]
                 \/ driver' = [driver EXCEPT ![s] = "hook"]
<1>1. CASE Drains(s, end)
  BY <1>1 DEF DriverNext, Drains
<1>2. CASE ~Drains(s, end)
  <2>1. queue' = queue /\ cur' = [cur EXCEPT ![s] = "none"]
    BY <1>2 DEF DriverNext
  <2>2. driver' = [driver EXCEPT ![s] = "none"] \/ driver' = [driver EXCEPT ![s] = "hook"]
    BY <1>2 DEF DriverNext
  <2> QED BY <2>1, <2>2
<1> QED BY <1>1, <1>2

\* An injection that is given back or failed is released; a failed one retried.
LEMMA DriverNextClaims ==
    ASSUME TypeOK, NEW s \in Sessions, NEW end, DriverNext(s, end)
    PROVE  /\ claimed' \in {claimed, claimed \ {cur[s]}}
           /\ end \in {"cancelled", "error"} /\ cur[s] \in Injections
                => claimed' = claimed \ {cur[s]} /\ retry' = [retry EXCEPT ![cur[s]] = TRUE]
           /\ end = "givenBack" => claimed' = claimed \ {cur[s]}
           /\ retry' = retry \/ (cur[s] \in Injections /\ retry' = [retry EXCEPT ![cur[s]] = TRUE])
<1>1. CASE Redo(s, end)
  BY <1>1 DEF DriverNext, Redo
<1>2. CASE ~Redo(s, end)
  <2>1. ~(end \in {"cancelled", "error"} /\ cur[s] \in Injections)
    BY <1>2 DEF Redo
  <2>2. retry' = retry /\ claimed' = IF end = "givenBack" THEN claimed \ {cur[s]} ELSE claimed
    BY <1>2 DEF DriverNext
  <2> QED BY <2>1, <2>2
<1> QED BY <1>1, <1>2

\* A written row is never unwritten, a settled one never pending again.
LEMMA Settles ==
    ASSUME TypeOK, [Next]_vars, NEW i \in Injections
    PROVE  /\ outbox[i] # "none" => outbox'[i] # "none"
           /\ outbox[i] \notin {"none", "pending"} => outbox'[i] \notin {"none", "pending"}
<1>1. OutboxStep
  BY NextOutbox
<1>2. CASE \E j \in Injections : Outbox!Intend(j) \/ Outbox!Deliver(j)
  BY <1>2 DEF Outbox!Intend, Outbox!Deliver, TypeOK, StoreOK
<1>3. CASE \E I \in SUBSET Injections : Outbox!Fail(I) \/ Outbox!Erase(I)
  BY <1>3 DEF Outbox!Fail, Outbox!Erase, TypeOK, StoreOK
<1> QED BY <1>1, <1>2, <1>3 DEF OutboxStep, Outbox!Next

\* A turn may archive its session, never open one.
LEMMA TurnCloses ==
    ASSUME TypeOK, NEW t \in Sessions, TurnNext(t), NEW s \in Sessions, sess'[s] = "open"
    PROVE  sess[s] = "open"
BY DEF TurnNext, DriverStart, DriverLoop, DriverEnd, DriverCancelled, ConsumeMessage, TurnLock,
       TurnLockTimeout, PersistUserMessage, TurnEnd, TurnParked, TurnCancelled, sessVars, TypeOK,
       SessionsOK

\* Nor does anything done to a session.
LEMMA SessionCloses ==
    ASSUME TypeOK, NEW t \in Sessions, SessionNext(t), NEW s \in Sessions, sess'[s] = "open"
    PROVE  sess[s] = "open"
BY DEF SessionNext, Interrupt, ResetSession, ResetFinish, ArchiveBegin, ArchiveDrop, ArchiveEnd,
       AutoArchive, DeleteBegin, DeleteEnd, ForkClaim, ForkFail, ForkDone, CancelPark,
       ReleaseParkedQueue, sessVars, TypeOK, SessionsOK

\* No session reopens but at a boot, which leaves nothing under way.
LEMMA OpenStays ==
    ASSUME TypeOK, [Next]_vars, ~Restart, NEW s \in Sessions, sess'[s] = "open"
    PROVE  sess[s] = "open"
<1>1. ProcessNext => sess' = sess
  BY ProcessFrame DEF ShutdownInjections, sessVars
<1>2. \A p \in Prompts : CallNext(p) => sess' = sess
  BY CallFrame DEF sessVars
<1>3. \A i \in Injections : InjectionNext(i) => sess' = sess
  BY InjectionFrame DEF sessVars
<1>4. \A r \in Resumes : Wake(r) \/ ResumeParkedTurn(r) => sess' = sess
  BY ResumeFrame
<1> QED BY <1>1, <1>2, <1>3, <1>4, TurnCloses, SessionCloses DEF Next, vars

\* A prompt runs only under a driver, and past its row once it runs.
LEMMA DrivingStep ==
    ASSUME TypeOK, Spent, Driving, [Next]_vars PROVE Driving'
<1> DEFINE D1 == \A t \in Sessions : driver'[t] \in {"none", "hook"} => cur'[t] = "none"
           D2 == \A t \in Sessions : driver'[t] = "running" /\ cur'[t] \in Injections =>
                   outbox'[cur'[t]] \notin {"none", "pending"}
           D3 == phase' # "up" => ~enabled'
           D4 == Fresh("reset")' => \A t \in Sessions :
                   cancelling'[t] /\ sess'[t] = "open" => driver'[t] \in InnerStates
<1> SUFFICES D1 /\ D2 /\ D3 /\ D4
  BY DEF Driving
<1>1. Fresh("reset")' => Fresh("reset") /\ \A s \in Sessions : ~ResetSession(s)
  BY Calm
<1>2. /\ \A t \in Sessions : driver[t] \in {"none", "hook"} => cur[t] = "none"
      /\ \A t \in Sessions : driver[t] = "running" /\ cur[t] \in Injections =>
           outbox[cur[t]] \notin {"none", "pending"}
      /\ phase # "up" => ~enabled
      /\ Fresh("reset") =>
           \A t \in Sessions : cancelling[t] /\ sess[t] = "open" => driver[t] \in InnerStates
  BY DEF Driving
<1>3. /\ \A q \in Prompts : Target[q] \in Sessions /\ q # "none"
      /\ DOMAIN cur = Sessions /\ DOMAIN driver = Sessions /\ DOMAIN cancelling = Sessions
      /\ DOMAIN sess = Sessions
  BY TargetAssumption, PromptsAreNotMarks DEF TypeOK, TurnsOK, SessionsOK
<1>4. \A i \in Injections : outbox[i] \notin {"none", "pending"} => outbox'[i] \notin {"none", "pending"}
  BY Settles
<1>7. ASSUME NEW s \in Sessions,
             \A t \in Sessions \ {s} : driver'[t] = driver[t] /\ cur'[t] = cur[t],
             driver'[s] \notin {"none", "hook", "running"}
      PROVE  D1 /\ D2
  BY <1>2, <1>4, <1>7
<1>8. ASSUME NEW s \in Sessions,
             \A t \in Sessions \ {s} : driver'[t] = driver[t] /\ cur'[t] = cur[t],
             driver'[s] # "running", cur'[s] = "none"
      PROVE  D1 /\ D2
  BY <1>2, <1>4, <1>8
<1>9. {"deq", "hook", "none", "start"} \cap InnerStates = {} /\ "running" \in InnerStates
  BY DEF InnerStates
<1>10. ASSUME NEW p \in Prompts, CallNext(p) PROVE D1 /\ D2 /\ D3 /\ D4
  <2>1. UNCHANGED <<cancelling, sess, phase, enabled, left>>
    BY <1>10, CallFrame DEF sessVars, processVars
  <2>2. CASE UNCHANGED <<driver, cur>>
    <3>2. D1 /\ D2
      BY <1>2, <1>4, <2>2
    <3> QED BY <1>2, <2>1, <2>2, <3>2 DEF Fresh
  <2>3. CASE ~UNCHANGED <<driver, cur>>
    <3> DEFINE s == Target[p]
    <3>1. ClaimIdleTurn(p)
      BY <1>10, <2>3 DEF CallNext, Submit, Admit1, EnqueueIfBusy, AcquireSessionLock, Admit2, turnVars
    <3>2. /\ driver[s] = "none" /\ driver' = [driver EXCEPT ![s] = "start"]
          /\ cur' = [cur EXCEPT ![s] = p]
      BY <2>3, <3>1 DEF ClaimIdleTurn, Busy, Live
    <3>3. D1 /\ D2
      BY <1>3, <1>7, <3>2
    <3>4. D4
      BY <1>2, <1>3, <1>9, <2>1, <3>2 DEF Fresh
    <3> QED BY <1>2, <2>1, <3>3, <3>4
  <2> QED BY <2>2, <2>3
<1>11. ASSUME NEW s \in Sessions, TurnNext(s) PROVE D1 /\ D2 /\ D3 /\ D4
  <2>1. UNCHANGED <<phase, enabled>>
    BY <1>11, TurnFrame DEF processVars
  <2>2. \A t \in Sessions \ {s} : driver'[t] = driver[t] /\ cur'[t] = cur[t] /\ cancelling'[t] = cancelling[t]
    BY <1>3, <1>11 DEF TurnNext, DriverStart, DriverLoop, DriverEnd, DriverCancelled, ConsumeMessage,
       TurnLock, TurnLockTimeout, PersistUserMessage, TurnEnd, TurnParked, TurnCancelled, DriverNext
  <2>3. ~cancelling'[s]
    BY <1>3, <1>11 DEF TurnNext, DriverStart, DriverLoop, DriverEnd, DriverCancelled, ConsumeMessage,
       TurnLock, TurnLockTimeout, PersistUserMessage, TurnEnd, TurnParked, TurnCancelled
  <2>4. \A t \in Sessions : sess'[t] = "open" => sess[t] = "open"
    BY <1>11, TurnCloses
  <2>5. D4
    BY <1>1, <1>2, <1>3, <2>2, <2>3, <2>4
  <2>6. ASSUME \E end : DriverNext(s, end) PROVE D1 /\ D2
    BY <1>3, <1>7, <1>8, <2>2, <2>6, DriverNextTakes
  <2>7. ASSUME DriverStart(s) \/ DriverLoop(s) \/ TurnLock(s) PROVE D1 /\ D2
    BY <1>3, <1>7, <1>8, <2>2, <2>7 DEF DriverStart, DriverLoop, TurnLock
  <2>8. ASSUME DriverCancelled(s) PROVE D1 /\ D2
    BY <1>3, <1>8, <2>2, <2>8 DEF DriverCancelled
  <2>9. ASSUME DriverEnd(s) PROVE D1 /\ D2
    <3>1. cur'[s] = "none" /\ driver'[s] = "none"
      BY <1>2, <1>3, <2>9 DEF DriverEnd
    <3> QED BY <1>8, <2>2, <3>1
  <2>10. ASSUME ConsumeMessage(s) /\ driver' = [driver EXCEPT ![s] = "lockwait"] PROVE D1 /\ D2
    BY <1>3, <1>7, <2>2, <2>10
  <2>11. ASSUME PersistUserMessage(s) /\ MayPersist(s) PROVE D1 /\ D2
    <3>1. driver'[s] = "running" /\ cur'[s] = cur[s] /\ InsertUserRow(cur[s])
      BY <1>3, <2>11 DEF PersistUserMessage
    <3>2. cur[s] \in Injections => outbox'[cur[s]] = "delivered"
      BY <3>1 DEF InsertUserRow, TypeOK, StoreOK
    <3> QED BY <1>2, <1>4, <2>2, <3>1, <3>2
  <2>12. \/ \E end : DriverNext(s, end)
         \/ DriverStart(s) \/ DriverLoop(s) \/ TurnLock(s) \/ DriverCancelled(s) \/ DriverEnd(s)
         \/ ConsumeMessage(s) /\ driver' = [driver EXCEPT ![s] = "lockwait"]
         \/ PersistUserMessage(s) /\ MayPersist(s)
    BY <1>11 DEF TurnNext, ConsumeMessage, TurnLockTimeout, PersistUserMessage, TurnEnd, TurnParked, TurnCancelled
  <2>13. D1 /\ D2
    BY <2>6, <2>7, <2>8, <2>9, <2>10, <2>11, <2>12
  <2> QED BY <1>2, <2>1, <2>5, <2>13
<1>12. ASSUME NEW s \in Sessions, SessionNext(s) PROVE D1 /\ D2 /\ D3 /\ D4
  <2>1. UNCHANGED <<phase, enabled>>
    BY <1>12, SessionFrame DEF processVars
  <2>2. \A t \in Sessions : sess'[t] = "open" => sess[t] = "open"
    BY <1>12, SessionCloses
  <2>3. CASE ReleaseParkedQueue(s) /\ ~UNCHANGED <<driver, cur>>
    <3>1. /\ driver[s] = "none" /\ driver' = [driver EXCEPT ![s] = "start"]
          /\ cur' = [cur EXCEPT ![s] = Head(queue[s])]
          /\ UNCHANGED <<cancelling, sess, left>>
      BY <2>3 DEF ReleaseParkedQueue, Live
    <3>2. D1 /\ D2
      BY <1>3, <1>7, <3>1
    <3>3. D4
      BY <1>2, <1>3, <1>9, <3>1 DEF Fresh
    <3> QED BY <1>2, <2>1, <3>2, <3>3
  <2>4. CASE ~(ReleaseParkedQueue(s) /\ ~UNCHANGED <<driver, cur>>)
    <3>1. UNCHANGED <<driver, cur>>
      BY <1>12, <2>4 DEF SessionNext, Interrupt, ResetSession, ResetFinish, ArchiveBegin, ArchiveDrop,
         ArchiveEnd, AutoArchive, DeleteBegin, DeleteEnd, ForkClaim, ForkFail, ForkDone, CancelPark,
         CancelDriver, turnVars
    <3>2. D1 /\ D2
      BY <1>2, <1>4, <3>1
    <3>3. ASSUME Fresh("reset")', NEW t \in Sessions, cancelling'[t], sess'[t] = "open"
          PROVE  driver'[t] \in InnerStates
      <4>1. driver[t] \in InnerStates \/ cancelling[t]
        BY <1>1, <1>3, <1>12, <3>3 DEF SessionNext, Interrupt, ResetFinish, ArchiveBegin, ArchiveDrop,
           ArchiveEnd, AutoArchive, DeleteBegin, DeleteEnd, ForkClaim, ForkFail, ForkDone, CancelPark,
           ReleaseParkedQueue, CancelDriver, turnVars, InMemory
      <4> QED BY <1>1, <1>2, <2>2, <3>1, <3>3, <4>1
    <3> QED BY <1>2, <2>1, <3>2, <3>3
  <2> QED BY <2>3, <2>4
<1>13. ASSUME UNCHANGED <<turnVars, sess, enabled, phase>> PROVE D1 /\ D2 /\ D3 /\ D4
  BY <1>1, <1>2, <1>4, <1>13 DEF turnVars
<1>14. ASSUME NEW i \in Injections, InjectionNext(i) PROVE D1 /\ D2 /\ D3 /\ D4
  BY <1>13, <1>14, InjectionFrame DEF sessVars
<1>15. ASSUME NEW r \in Resumes, Wake(r) \/ ResumeParkedTurn(r) PROVE D1 /\ D2 /\ D3 /\ D4
  BY <1>13, <1>15, ResumeFrame DEF processVars
<1>16. ASSUME ProcessNext PROVE D1 /\ D2 /\ D3 /\ D4
  <2>1. CASE Restart
    BY <2>1, <1>9 DEF Restart
  <2>2. CASE ~Restart
    <3>1. UNCHANGED <<turnVars, sess>>
      BY <1>16, <2>2, ProcessFrame DEF ShutdownInjections, sessVars
    <3>2. D3
      BY <1>2, <1>16, <2>2 DEF ProcessNext, DeployBegin, DeployDrained, DeployClose, DeployCensus, DeployOpen,
         DeployResume, Shutdown, ShutdownInjections, ReleaseProducers, ResumeDispatch, processVars
    <3> QED BY <1>1, <1>2, <1>4, <3>1, <3>2 DEF turnVars
  <2> QED BY <2>1, <2>2
<1>17. UNCHANGED vars => D1 /\ D2 /\ D3 /\ D4
  BY <1>13 DEF vars, turnVars
<1> HIDE DEF D1, D2, D3, D4
<1> QED BY <1>10, <1>11, <1>12, <1>14, <1>15, <1>16, <1>17 DEF Next

--------------------------------------------------------------------------------
(* The prompt queues *)

\* What a queue with one more prompt at its end holds.
LEMMA AppendShape ==
    ASSUME NEW q \in Seq(Prompts), NEW p \in Prompts
    PROVE  /\ DOMAIN Append(q, p) = 1..(Len(q) + 1)
           /\ DOMAIN q = 1..Len(q)
           /\ \A k \in 1..Len(q) : Append(q, p)[k] = q[k]
           /\ Append(q, p)[Len(q) + 1] = p
OBVIOUS

\* What is left of a queue whose head is taken.
LEMMA TailShape ==
    ASSUME NEW q \in Seq(Prompts), q # <<>>
    PROVE  /\ Len(q) > 0 /\ Head(q) = q[1]
           /\ DOMAIN Tail(q) = 1..(Len(q) - 1)
           /\ \A k \in 1..(Len(q) - 1) : Tail(q)[k] = q[k + 1]
OBVIOUS

\* A prompt that queues is in the queue, with those already there.
LEMMA QueuedAppend ==
    ASSUME TypeOK, NEW s \in Sessions, NEW p \in Prompts, queue'[s] = Append(queue[s], p)
    PROVE  Queued(s)' = Queued(s) \cup {p}
<1>1. queue[s] \in Seq(Prompts) /\ Len(queue[s]) \in Nat
  BY DEF TypeOK, TurnsOK
<1>2. DOMAIN queue'[s] = DOMAIN queue[s] \cup {Len(queue[s]) + 1}
  BY <1>1, AppendShape
<1>3. \A k \in DOMAIN queue[s] : queue'[s][k] = queue[s][k]
  BY <1>1, AppendShape
<1>4. queue'[s][Len(queue[s]) + 1] = p
  BY <1>1, AppendShape
<1> QED BY <1>2, <1>3, <1>4 DEF Queued

\* The head leaves, the rest stays.
LEMMA QueuedTail ==
    ASSUME TypeOK, NEW s \in Sessions, queue[s] # <<>>, queue'[s] = Tail(queue[s])
    PROVE  Queued(s) = Queued(s)' \cup {Head(queue[s])} /\ Head(queue[s]) \in Prompts
<1>1. queue[s] \in Seq(Prompts) /\ Len(queue[s]) \in Nat /\ Len(queue[s]) > 0
  BY DEF TypeOK, TurnsOK
<1>2. Head(queue[s]) \in Prompts /\ Head(queue[s]) = queue[s][1] /\ DOMAIN queue[s] = 1..Len(queue[s])
  BY <1>1
<1>3. DOMAIN queue'[s] = 1..(Len(queue[s]) - 1)
  BY <1>1, <1>2, TailShape
<1>4. \A k \in 1..(Len(queue[s]) - 1) : queue'[s][k] = queue[s][k + 1]
  BY <1>1, <1>2, TailShape
<1>5. Queued(s)' \cup {Head(queue[s])} \subseteq Queued(s)
  BY <1>1, <1>2, <1>3, <1>4 DEF Queued
<1>6. ASSUME NEW k \in DOMAIN queue[s] PROVE queue[s][k] \in Queued(s)' \cup {Head(queue[s])}
  <2>1. CASE k = 1
    BY <1>2, <2>1
  <2>2. CASE k # 1
    <3>1. k - 1 \in DOMAIN queue'[s] /\ queue'[s][k - 1] = queue[s][k]
      BY <1>1, <1>2, <1>3, <1>4, <2>2
    <3> QED BY <3>1 DEF Queued
  <2> QED BY <2>1, <2>2
<1> QED BY <1>2, <1>5, <1>6 DEF Queued

\* A queue and its driver's prompt move together: a prompt waits behind the
\* others, starts at once, or is taken from the front; or the queue is dropped.
Waits(t)  == \E p \in Prompts : /\ Target[p] = t /\ pc[p] \in Stages
                                /\ queue'[t] = Append(queue[t], p) /\ cur'[t] = cur[t]
Starts(t) == \E p \in Prompts : /\ Target[p] = t /\ pc[p] \in Stages
                                /\ queue'[t] = queue[t] /\ cur'[t] = p
Takes(t)  == /\ queue[t] # <<>> /\ queue'[t] = Tail(queue[t]) /\ cur'[t] = Head(queue[t])
Drops(t)  == queue'[t] \in {queue[t], <<>>} /\ cur'[t] \in {cur[t], "none"}

\* Every step moves them in one of these ways.
LEMMA QueueMoves ==
    ASSUME TypeOK, [Next]_vars, NEW t \in Sessions
    PROVE  Waits(t) \/ Starts(t) \/ Takes(t) \/ Drops(t)
<1>1. /\ \A q \in Prompts : Target[q] \in Sessions
      /\ DOMAIN queue = Sessions /\ DOMAIN cur = Sessions
  BY TargetAssumption DEF TypeOK, TurnsOK
<1>2. queue'[t] = queue[t] /\ cur'[t] = cur[t] => Drops(t)
  BY DEF Drops
<1>3. ASSUME NEW p \in Prompts, CallNext(p) PROVE Waits(t) \/ Starts(t) \/ Drops(t)
  <2>1. CASE Submit(p) \/ Admit1(p) \/ AcquireSessionLock(p) \/ Admit2(p)
    BY <1>2, <2>1 DEF Submit, Admit1, AcquireSessionLock, Admit2, turnVars
  <2>2. CASE EnqueueIfBusy(p)
    BY <1>1, <1>2, <2>2 DEF EnqueueIfBusy, Stages, Waits, turnVars
  <2>3. CASE ClaimIdleTurn(p)
    BY <1>1, <1>2, <2>3 DEF ClaimIdleTurn, Stages, Waits, Starts
  <2> QED BY <1>3, <2>1, <2>2, <2>3 DEF CallNext
<1>4. ASSUME NEW s \in Sessions, TurnNext(s) PROVE Takes(t) \/ Drops(t)
  <2>1. CASE \E end : DriverNext(s, end)
    BY <1>1, <1>2, <2>1, DriverNextTakes DEF Takes, Drops
  <2>2. CASE UNCHANGED queue /\ (UNCHANGED cur \/ cur' = [cur EXCEPT ![s] = "none"])
    BY <1>1, <2>2 DEF Drops
  <2> QED BY <1>4, <2>1, <2>2 DEF TurnNext, DriverStart, DriverLoop, DriverEnd, DriverCancelled,
         ConsumeMessage, TurnLock, TurnLockTimeout, PersistUserMessage, TurnEnd, TurnParked, TurnCancelled
<1>5. ASSUME NEW s \in Sessions, SessionNext(s) PROVE Takes(t) \/ Drops(t)
  <2>1. CASE UNCHANGED cur /\ (UNCHANGED queue \/ queue' = [queue EXCEPT ![s] = <<>>])
    BY <1>1, <2>1 DEF Drops
  <2>2. CASE /\ queue[s] # <<>> /\ queue' = [queue EXCEPT ![s] = Tail(@)]
             /\ cur' = [cur EXCEPT ![s] = Head(queue[s])]
    BY <1>1, <1>2, <2>2 DEF Takes
  <2> QED BY <1>5, <2>1, <2>2 DEF SessionNext, Interrupt, ResetSession, ResetFinish, ArchiveBegin,
         ArchiveDrop, ArchiveEnd, AutoArchive, DeleteBegin, DeleteEnd, ForkClaim, ForkFail, ForkDone,
         CancelPark, ReleaseParkedQueue, turnVars
<1>6. ASSUME NEW i \in Injections, InjectionNext(i) PROVE Drops(t)
  BY <1>2, <1>6, InjectionFrame DEF turnVars
<1>7. ASSUME NEW r \in Resumes, Wake(r) \/ ResumeParkedTurn(r) PROVE Drops(t)
  BY <1>2, <1>7, ResumeFrame DEF turnVars
<1>8. ASSUME ProcessNext PROVE Drops(t)
  <2>1. CASE Restart
    <3>1. queue'[t] = <<>> /\ cur'[t] = "none"
      BY <2>1 DEF Restart
    <3> QED BY <3>1 DEF Drops
  <2>2. CASE ~Restart
    BY <1>2, <1>8, <2>2, ProcessFrame DEF ShutdownInjections, turnVars
  <2> QED BY <2>1, <2>2
<1>9. UNCHANGED vars => Drops(t)
  BY <1>2 DEF vars
<1> QED BY <1>3, <1>4, <1>5, <1>6, <1>7, <1>8, <1>9 DEF Next

\* Prompts never change sessions.
LEMMA AddressedStep ==
    ASSUME TypeOK, Addressed, [Next]_vars PROVE Addressed'
<1> SUFFICES ASSUME NEW t \in Sessions
             PROVE  /\ \A k \in DOMAIN queue'[t] : Target[queue'[t][k]] = t
                    /\ cur'[t] \in Prompts => Target[cur'[t]] = t
  BY DEF Addressed
<1>1. /\ \A k \in DOMAIN queue[t] : Target[queue[t][k]] = t
      /\ cur[t] \in Prompts => Target[cur[t]] = t
      /\ queue[t] \in Seq(Prompts) /\ "none" \notin Prompts
  BY PromptsAreNotMarks DEF Addressed, TypeOK, TurnsOK
<1>2. \A q \in Queued(t) : Target[q] = t
  BY <1>1 DEF Queued
<1>3. CASE Waits(t)
  <2>1. PICK p \in Prompts : Target[p] = t /\ queue'[t] = Append(queue[t], p) /\ cur'[t] = cur[t]
    BY <1>3 DEF Waits
  <2>2. \A q \in Queued(t)' : Target[q] = t
    BY <1>2, <2>1, QueuedAppend
  <2> QED BY <1>1, <2>1, <2>2 DEF Queued
<1>4. CASE Starts(t)
  BY <1>1, <1>4 DEF Starts
<1>5. CASE Takes(t)
  <2>1. \A q \in Queued(t)' \cup {Head(queue[t])} : Target[q] = t
    BY <1>2, <1>5, QueuedTail DEF Takes
  <2> QED BY <1>5, <2>1 DEF Takes, Queued
<1>6. CASE Drops(t)
  BY <1>1, <1>6 DEF Drops
<1> QED BY <1>3, <1>4, <1>5, <1>6, QueueMoves

\* Queued or run, a prompt was there before or comes from start_message.
LEMMA HereMoves ==
    ASSUME TypeOK, [Next]_vars, NEW i \in Injections, Here(i)'
    PROVE  InPipe(i)
<1> DEFINE t == Target[i]
<1>1. t \in Sessions /\ i \in Prompts /\ i # "none"
  BY TargetAssumption, PromptsAreNotMarks DEF Prompts
<1>2. i \in Queued(t)' \/ cur'[t] = i
  BY DEF Here
<1>3. CASE Waits(t)
  <2>1. PICK p \in Prompts : /\ Target[p] = t /\ pc[p] \in Stages
                             /\ queue'[t] = Append(queue[t], p) /\ cur'[t] = cur[t]
    BY <1>3 DEF Waits
  <2>2. Queued(t)' = Queued(t) \cup {p}
    BY <1>1, <2>1, QueuedAppend
  <2> QED BY <1>2, <2>1, <2>2 DEF InPipe, Here
<1>4. CASE Starts(t)
  <2>1. Queued(t)' = Queued(t)
    BY <1>4 DEF Starts, Queued
  <2> QED BY <1>2, <1>4, <2>1 DEF Starts, InPipe, Here
<1>5. CASE Takes(t)
  <2>1. Queued(t) = Queued(t)' \cup {Head(queue[t])}
    BY <1>1, <1>5, QueuedTail DEF Takes
  <2> QED BY <1>2, <1>5, <2>1 DEF Takes, InPipe, Here
<1>6. CASE Drops(t)
  <2>1. Queued(t)' \subseteq Queued(t)
    BY <1>6 DEF Drops, Queued
  <2> QED BY <1>1, <1>2, <1>6, <2>1 DEF Drops, InPipe, Here
<1> QED BY <1>1, <1>3, <1>4, <1>5, <1>6, QueueMoves

\* A call for an event starts where its row is pending or was listed as such.
LEMMA StageMoves ==
    ASSUME TypeOK, [Next]_vars, NEW i \in Injections,
           pc'[i] \in Stages \/ i \in claimed'
    PROVE  \/ pc[i] \in Stages \/ i \in claimed \/ i \in recovering \/ outbox[i] = "pending"
<1>1. /\ Injections \subseteq Prompts /\ Resumes \subseteq Prompts /\ Injections \cap Resumes = {}
      /\ Injections \cap (Messages \cup Workers \cup FollowUps) = {}
      /\ DOMAIN pc = Prompts /\ "idle" \notin Stages /\ "done" \notin Stages /\ "enq" \notin Stages
  BY PromptKindsAreDisjoint DEF Prompts, TypeOK, CallsOK, Stages
<1> DEFINE From == pc[i] \in Stages \/ i \in claimed
<1>2. ASSUME NEW p \in Prompts, CallNext(p) PROVE From
  <2>1. CASE Submit(p)
    BY <1>1, <2>1 DEF Submit, claimVars
  <2>2. CASE ~Submit(p)
    <3>1. pc[p] \in Stages /\ (pc'[i] = pc[i] \/ i = p)
      BY <1>1, <1>2, <2>2 DEF CallNext, Admit1, EnqueueIfBusy, AcquireSessionLock, Admit2,
         ClaimIdleTurn, EndCall, Stages
    <3>2. i \in claimed' => i \in claimed
      BY <1>2, <2>2, EndCallMoves DEF CallNext, Admit1, EnqueueIfBusy, AcquireSessionLock, Admit2,
         ClaimIdleTurn, claimVars
    <3> QED BY <3>1, <3>2
  <2> QED BY <2>1, <2>2
<1>3. ASSUME NEW s \in Sessions, TurnNext(s) PROVE From
  <2>1. UNCHANGED pc \/ \E c \in Injections : pc' = [pc EXCEPT ![c] = "idle"]
    <3>1. CASE PersistUserMessage(s)
      BY <3>1, ForgetDispatchMoves DEF PersistUserMessage, callVars
    <3> QED BY <1>3, <3>1, TurnCalls DEF callVars
  <2>2. claimed' \subseteq claimed
    BY <1>3, DriverNextClaims DEF TurnNext, DriverStart, DriverLoop, DriverEnd, DriverCancelled, ConsumeMessage,
       TurnLock, TurnLockTimeout, PersistUserMessage, ForgetDispatch, TurnEnd, TurnParked, TurnCancelled, claimVars
  <2> QED BY <1>1, <2>1, <2>2
<1>4. ASSUME NEW s \in Sessions, SessionNext(s) PROVE From
  <2>1. claimed' \subseteq claimed
    BY <1>4 DEF SessionNext, Interrupt, ResetSession, ResetFinish, ArchiveBegin, ArchiveDrop,
       ArchiveEnd, AutoArchive, DeleteBegin, DeleteEnd, ForkClaim, ForkFail, ForkDone, CancelPark,
       ReleaseParkedQueue, claimVars
  <2> QED BY <1>4, <2>1, SessionFrame DEF callVars
<1>5. ASSUME NEW j \in Injections, InjectionNext(j)
      PROVE  From \/ i \in recovering \/ outbox[i] = "pending"
  <2>1. CASE \E who : Dispatch(j, who)
    <3>1. EnqueueDispatch(j) \/ RetryInjection(j) => outbox[j] = "pending" \/ UNCHANGED claimed
      BY DEF EnqueueDispatch, RetryInjection
    <3>2. RecoverInjection(j) => j \in recovering
      BY DEF RecoverInjection
    <3>3. i # j => pc'[i] = pc[i] /\ (i \in claimed' => i \in claimed)
      BY <1>1, <2>1 DEF Dispatch
    <3>4. EnqueueDispatch(j) \/ RetryInjection(j) \/ RecoverInjection(j)
            => outbox[j] = "pending" \/ j \in recovering \/ (pc'[j] \in Stages => pc[j] \in Stages)
      BY <1>1, <3>2 DEF EnqueueDispatch, RetryInjection, callVars
    <3>5. EnqueueInjection(j) \/ MaterializeInjection(j) => From
      BY <1>1 DEF EnqueueInjection, MaterializeInjection, callVars, claimVars
    <3> QED BY <1>5, <3>1, <3>2, <3>3, <3>4, <3>5 DEF InjectionNext
  <2>2. CASE ~ \E who : Dispatch(j, who)
    <3>1. From
      BY <1>1, <1>5, <2>2 DEF InjectionNext, EnqueueInjection, EnqueueDispatch, RetryInjection,
         RecoverInjection, MaterializeInjection, callVars, claimVars
    <3> QED BY <3>1
  <2> QED BY <2>1, <2>2
<1>6. ASSUME NEW r \in Resumes, Wake(r) \/ ResumeParkedTurn(r) PROVE From
  BY <1>1, <1>6, ResumeFrame DEF Wake, ResumeParkedTurn, claimVars
<1>7. ASSUME ProcessNext PROVE From
  <2>1. CASE Restart
    BY <1>1, <2>1 DEF Restart
  <2>2. CASE ShutdownInjections
    BY <1>1, <2>2 DEF ShutdownInjections
  <2>3. CASE ~Restart /\ ~ShutdownInjections
    BY <1>7, <2>3, ProcessFrame DEF callVars, claimVars
  <2> QED BY <2>1, <2>2, <2>3
<1>8. UNCHANGED vars => From
  BY DEF vars
<1> QED BY <1>2, <1>3, <1>4, <1>5, <1>6, <1>7, <1>8 DEF Next

\* A boot or a resumed dispatch lists pending rows, nothing else is added.
LEMMA RecoveringMoves ==
    ASSUME [Next]_vars PROVE recovering' \subseteq recovering \cup Pending
<1>1. \A i \in Injections : InjectionNext(i) => recovering' \subseteq recovering
  BY DEF InjectionNext, EnqueueInjection, EnqueueDispatch, RetryInjection, RecoverInjection,
         MaterializeInjection, processVars
<1>2. ProcessNext => recovering' \subseteq recovering \cup Pending
  BY DEF ProcessNext, DeployBegin, DeployDrained, DeployClose, DeployCensus, DeployOpen, DeployResume,
         Shutdown, ShutdownInjections, Restart, ReleaseProducers, ResumeDispatch, processVars
<1> QED BY <1>1, <1>2, CallFrame, TurnFrame, SessionFrame, ResumeFrame DEF Next, processVars, vars

\* No event is in the pipe before its row is written.
LEMMA WrittenStep ==
    ASSUME TypeOK, Written, [Next]_vars PROVE Written'
<1> SUFFICES ASSUME NEW i \in Injections, InPipe(i)' \/ i \in recovering' \/ i \in claimed'
             PROVE  outbox'[i] # "none"
  BY DEF Written
<1>1. InPipe(i) \/ i \in recovering \cup claimed \/ outbox[i] = "pending"
  BY HereMoves, StageMoves, RecoveringMoves DEF InPipe, Pending
<1>2. outbox[i] # "none"
  BY <1>1 DEF Written
<1> QED BY <1>2, Settles

--------------------------------------------------------------------------------
(* What a step does to one event: the twelve ways are the whole life of a   *)
(* claim, and the promises about claims follow from them.                   *)

Stays(i) == /\ Here(i)' = Here(i)
            /\ outbox'[i] = outbox[i]
            /\ i \in claimed' <=> i \in claimed

\* The step is about something else.
Rests(i) == /\ Stays(i) /\ pc'[i] = pc[i] /\ retry'[i] = retry[i]
            /\ i \in recovering /\ i \in Pending /\ enabled' => i \in recovering'
\* Its row is not, or no longer, pending.
Settled(i) == outbox'[i] # "pending"
\* Its session is closed under it.
Closes(i) == /\ sess'[Target[i]] # "open" /\ pc'[i] = pc[i] /\ outbox'[i] = outbox[i]
             /\ Here(i)' => Here(i)
             /\ i \in claimed' => i \in claimed
             /\ i \in claimed \ claimed' => /\ i \in Queued(Target[i])
                                            /\ Here(i)' => cur[Target[i]] = i
\* Its turn failed, was cancelled or found dispatch paused.
GivenBack(i) == /\ cur[Target[i]] = i /\ pc'[i] = pc[i] /\ outbox'[i] = outbox[i]
                /\ i \notin claimed' /\ (retry'[i] \/ ~enabled')
                /\ Here(i)' => i \in Queued(Target[i])
\* A dispatch claims it and calls start_message, which goes on, ...
Dispatched(i) == /\ i \notin claimed /\ enabled /\ i \in claimed'
                 /\ Here(i)' = Here(i) /\ outbox'[i] = outbox[i] /\ pc'[i] \in Stages
Advances(i) == Stays(i) /\ pc[i] \in Stages /\ pc'[i] \in Stages
\* ... fails and leaves a retry behind, ...
Ends(i) == /\ pc[i] \in Stages /\ pc'[i] = "idle" /\ Here(i)' = Here(i)
           /\ i \notin claimed' /\ retry'[i]
\* ... or hands it to its session.
Queues(i) == /\ pc[i] \in Stages /\ pc'[i] = "idle" /\ Here(i)' /\ outbox'[i] = outbox[i]
             /\ \/ i \in claimed' <=> i \in claimed
                \/ pc[i] = "claim" /\ lock[Target[i]] = "free" /\ i \notin claimed'
\* Its producer writes it, or repeats itself.
Enqueues(i) == /\ pc[i] = "idle" /\ pc'[i] = "enq" /\ outbox[i] \in {"none", "pending"}
               /\ Here(i)' = Here(i) /\ (i \in claimed' <=> i \in claimed)
\* A dispatch that finds it claimed, or itself paused, does nothing.
Idles(i) == /\ Stays(i) /\ pc[i] \in {"idle", "enq"} /\ pc'[i] \in {"idle", "enq"}
            /\ i \in claimed \/ ~enabled'
\* The process stops or boots.
Stops(i) == /\ phase' = "stopping" /\ i \notin claimed' /\ pc'[i] \in {"idle", pc[i]}
            /\ Here(i)' = Here(i) /\ outbox'[i] = outbox[i]
Boots(i) == /\ i \notin claimed' /\ ~InPipe(i)' /\ ~enabled'

Effect(i) == \/ Rests(i) \/ Settled(i) \/ Closes(i) \/ GivenBack(i) \/ Dispatched(i)
             \/ Advances(i) \/ Ends(i) \/ Queues(i) \/ Enqueues(i) \/ Idles(i) \/ Stops(i) \/ Boots(i)

\* The end of start_message is the end of one call; it never fails twice.
LEMMA EndCallOf ==
    ASSUME TypeOK, NEW p \in Prompts, NEW result, EndCall(p, result), NEW i \in Injections
    PROVE  /\ i # p => /\ pc'[i] = pc[i] /\ retry'[i] = retry[i] /\ outbox'[i] = outbox[i]
                       /\ i \in claimed' <=> i \in claimed
           /\ i = p => pc'[i] = "idle"
           /\ i = p /\ result = "ok" => outbox'[i] = outbox[i] /\ (i \in claimed' <=> i \in claimed)
           /\ i = p /\ result # "ok" => i \notin claimed' /\ (retry'[i] \/ outbox'[i] # "pending")
           /\ i = p /\ result \notin {"ok", "refused"} => outbox'[i] = outbox[i]
<1>1. i \in Prompts /\ DOMAIN pc = Prompts /\ DOMAIN retry = Injections /\ DOMAIN outbox = Injections
  BY DEF Prompts, TypeOK, CallsOK, ClaimsOK, StoreOK
<1>2. CASE i # p
  BY <1>1, <1>2 DEF EndCall, FailRow
<1>3. CASE i = p
  <2>1. pc'[i] = "idle"
    BY <1>1, <1>3 DEF EndCall
  <2>2. result = "ok" => outbox'[i] = outbox[i] /\ claimed' = claimed
    BY <1>1, <1>3 DEF EndCall
  <2>3. result # "ok" => i \notin claimed'
    BY <1>3 DEF EndCall
  <2>4. result # "ok" /\ Retries(result) => retry'[i] /\ outbox'[i] = outbox[i]
    BY <1>1, <1>3 DEF EndCall
  <2>5. result # "ok" /\ ~Retries(result) => outbox'[i] # "pending"
    BY <1>1, <1>3 DEF EndCall, FailRow
  <2> QED BY <1>3, <2>1, <2>2, <2>3, <2>4, <2>5 DEF Retries
<1> QED BY <1>2, <1>3

\* Where its session's queue and turn are untouched, so is the event's place.
LEMMA HereStays ==
    ASSUME NEW i \in Injections, queue'[Target[i]] = queue[Target[i]], cur'[Target[i]] = cur[Target[i]]
    PROVE  Here(i)' = Here(i)
BY DEF Here, Queued

\* start_message, for the event it was called with and for every other.
LEMMA CallEffects ==
    ASSUME TypeOK, Driving, NEW p \in Prompts, CallNext(p), NEW i \in Injections
    PROVE  Effect(i)
<1> DEFINE t == Target[i]
<1>1. /\ t \in Sessions /\ Target[p] \in Sessions /\ i \in Prompts /\ i # "none" /\ p # "none"
      /\ i \notin Messages \cup Workers \cup FollowUps
      /\ DOMAIN pc = Prompts /\ DOMAIN queue = Sessions /\ DOMAIN cur = Sessions
  BY TargetAssumption, PromptsAreNotMarks, PromptKindsAreDisjoint DEF Prompts, TypeOK, CallsOK, TurnsOK
<1>2. recovering' = recovering
  BY CallFrame DEF processVars
<1>3. CASE UNCHANGED <<queue, cur>>
  <2>1. Here(i)' = Here(i)
    BY <1>3, HereStays
  <2>2. CASE i # p
    <3>1. pc'[i] = pc[i] /\ retry'[i] = retry[i] /\ outbox'[i] = outbox[i]
      BY <1>1, <2>2, EndCallOf DEF CallNext, Submit, Admit1, EnqueueIfBusy, AcquireSessionLock, Admit2,
         ClaimIdleTurn, claimVars, storeVars
    <3>2. i \in claimed' <=> i \in claimed
      BY <1>1, <2>2, EndCallOf DEF CallNext, Submit, Admit1, EnqueueIfBusy, AcquireSessionLock, Admit2,
         ClaimIdleTurn, claimVars, storeVars
    <3> QED BY <1>2, <2>1, <3>1, <3>2 DEF Effect, Rests, Stays
  <2>3. CASE i = p
    <3>1. ASSUME \E to \in Stages : pc' = [pc EXCEPT ![p] = to], pc[p] \in Stages,
                 UNCHANGED <<claimVars, storeVars>>
          PROVE  Effect(i)
      BY <1>1, <2>1, <2>3, <3>1 DEF Effect, Advances, Stays, claimVars, storeVars
    <3>2. ASSUME NEW why, why # "ok", EndCall(p, why), pc[p] \in Stages PROVE Effect(i)
      <4>1. pc'[i] = "idle" /\ i \notin claimed' /\ (retry'[i] \/ outbox'[i] # "pending")
        BY <2>3, <3>2, EndCallOf
      <4> QED BY <2>1, <2>3, <3>2, <4>1 DEF Effect, Ends, Settled
    <3>3. ~Submit(p)
      BY <1>1, <2>3 DEF Submit
    <3>4. CASE Admit1(p)
      BY <3>1, <3>2, <3>4 DEF Admit1, Stages, claimVars, storeVars
    <3>5. CASE EnqueueIfBusy(p)
      <4>1. ~Busy(Target[p])
        <5> SUFFICES ASSUME Busy(Target[p]) PROVE FALSE
          OBVIOUS
        <5>1. queue'[Target[p]] = Append(queue[Target[p]], p) /\ queue[Target[p]] \in Seq(Prompts)
          BY <1>1, <3>5 DEF EnqueueIfBusy, TypeOK, TurnsOK
        <5>2. Len(queue'[Target[p]]) = Len(queue[Target[p]]) + 1 /\ Len(queue[Target[p]]) \in Nat
          BY <5>1
        <5> QED BY <1>3, <5>2
      <4>2. /\ pc[p] \in Stages /\ \E to \in Stages : pc' = [pc EXCEPT ![p] = to]
            /\ UNCHANGED <<claimVars, storeVars>>
        BY <3>5, <4>1 DEF EnqueueIfBusy, Stages
      <4> QED BY <3>1, <4>2
    <3>6. CASE AcquireSessionLock(p)
      BY <3>1, <3>6 DEF AcquireSessionLock, Stages
    <3>7. CASE Admit2(p)
      BY <3>1, <3>2, <3>7 DEF Admit2, Stages, AfterUnlock
    <3>8. ~ClaimIdleTurn(p)
      <4> SUFFICES ASSUME ClaimIdleTurn(p) PROVE FALSE
        OBVIOUS
      <4>1. CASE Busy(Target[p])
        <5>1. queue'[Target[p]] = Append(queue[Target[p]], p) /\ queue[Target[p]] \in Seq(Prompts)
          BY <1>1, <4>1 DEF ClaimIdleTurn, TypeOK, TurnsOK
        <5>2. Len(queue'[Target[p]]) = Len(queue[Target[p]]) + 1 /\ Len(queue[Target[p]]) \in Nat
          BY <5>1
        <5> QED BY <1>3, <5>2
      <4>2. CASE ~Busy(Target[p])
        <5>1. cur'[Target[p]] = p /\ cur[Target[p]] = "none"
          BY <1>1, <4>2 DEF ClaimIdleTurn, Busy, Live, Driving
        <5> QED BY <1>1, <1>3, <5>1
      <4> QED BY <4>1, <4>2
    <3> QED BY <3>3, <3>4, <3>5, <3>6, <3>7, <3>8 DEF CallNext
  <2> QED BY <2>2, <2>3
<1>4. CASE ~UNCHANGED <<queue, cur>>
  <2> DEFINE s == Target[p]
  <2>1. PICK result : /\ EndCall(p, result) /\ pc[p] \in {"check1", "claim"}
                      /\ result = "ok" \/ (result = "runtime" /\ pc[p] = "claim" /\ lock[s] = "free")
    BY <1>4 DEF CallNext, Submit, Admit1, EnqueueIfBusy, AcquireSessionLock, Admit2, ClaimIdleTurn,
       AfterUnlock, turnVars
  <2>2. \/ queue' = [queue EXCEPT ![s] = Append(@, p)] /\ cur' = cur
        \/ queue' = queue /\ cur' = [cur EXCEPT ![s] = p] /\ cur[s] = "none"
    BY <1>1, <1>4 DEF CallNext, Submit, Admit1, EnqueueIfBusy, AcquireSessionLock, Admit2, ClaimIdleTurn,
       Busy, Live, Driving, turnVars
  <2>3. queue'[s] = Append(queue[s], p) => Queued(s)' = Queued(s) \cup {p}
    BY <1>1, QueuedAppend
  <2>4. queue'[s] = queue[s] => Queued(s)' = Queued(s)
    BY DEF Queued
  <2>5. CASE i = p
    <3>1. Here(i)'
      BY <1>1, <2>2, <2>3, <2>5 DEF Here
    <3>2. pc'[i] = "idle" /\ pc[i] \in Stages /\ outbox'[i] = outbox[i]
      BY <2>1, <2>5, EndCallOf DEF Stages
    <3>3. \/ i \in claimed' <=> i \in claimed
          \/ pc[i] = "claim" /\ lock[t] = "free" /\ i \notin claimed'
      BY <2>1, <2>5, EndCallOf
    <3> QED BY <3>1, <3>2, <3>3 DEF Effect, Queues
  <2>6. CASE i # p
    <3>1. /\ pc'[i] = pc[i] /\ retry'[i] = retry[i] /\ outbox'[i] = outbox[i]
          /\ i \in claimed' <=> i \in claimed
      BY <2>1, <2>6, EndCallOf
    <3>2. CASE t # s
      <4>1. queue'[t] = queue[t] /\ cur'[t] = cur[t]
        BY <1>1, <2>2, <3>2
      <4> QED BY <1>2, <3>1, <4>1, HereStays DEF Effect, Rests, Stays
    <3>3. CASE t = s
      <4>1. i \in Queued(s)' <=> i \in Queued(s)
        BY <1>1, <2>2, <2>3, <2>4, <2>6
      <4>2. cur'[s] = i <=> cur[s] = i
        BY <1>1, <2>2, <2>6
      <4>3. Here(i)' = Here(i)
        BY <3>3, <4>1, <4>2 DEF Here
      <4> QED BY <1>2, <3>1, <4>3 DEF Effect, Rests, Stays
    <3> QED BY <3>2, <3>3
  <2> QED BY <2>5, <2>6
<1> QED BY <1>3, <1>4

\* A driver that takes its next prompt moves it from the queue to the turn.
LEMMA TakeStays ==
    ASSUME TypeOK, NEW i \in Injections, NEW s \in Sessions, Target[i] = s, cur[s] # i,
           \/ Takes(s)
           \/ queue'[s] = queue[s] /\ cur'[s] \in {cur[s], "none"}
    PROVE  Here(i)' = Here(i)
<1>1. i # "none"
  BY PromptsAreNotMarks DEF Prompts
<1>2. CASE Takes(s)
  <2>1. Queued(s) = Queued(s)' \cup {Head(queue[s])} /\ cur'[s] = Head(queue[s])
    BY <1>2, QueuedTail DEF Takes
  <2> QED BY <2>1 DEF Here
<1>3. CASE queue'[s] = queue[s] /\ cur'[s] \in {cur[s], "none"}
  BY <1>1, <1>3 DEF Here, Queued
<1> QED BY <1>2, <1>3

\* A turn, for the event it is about and for every other.
LEMMA TurnEffects ==
    ASSUME TypeOK, Driving, Addressed, Fresh("reset"), NEW s \in Sessions, TurnNext(s),
           NEW i \in Injections
    PROVE  Effect(i)
<1> DEFINE t == Target[i]
           c == cur[s]
<1>1. /\ t \in Sessions /\ i \in Prompts /\ i # "none"
      /\ DOMAIN pc = Prompts /\ DOMAIN queue = Sessions /\ DOMAIN cur = Sessions
      /\ DOMAIN retry = Injections /\ DOMAIN outbox = Injections
  BY TargetAssumption, PromptsAreNotMarks
     DEF Prompts, TypeOK, CallsOK, TurnsOK, ClaimsOK, StoreOK
<1>2. recovering' = recovering /\ enabled' = enabled
  BY TurnFrame DEF processVars
<1>3. c = i => s = t
  BY <1>1 DEF Addressed
<1>4. ASSUME c # i
      PROVE  /\ pc'[i] = pc[i] /\ retry'[i] = retry[i] /\ outbox'[i] = outbox[i]
             /\ i \in claimed' <=> i \in claimed
  <2>1. CASE PersistUserMessage(s)
    <3>1. CASE MayPersist(s)
      <4>1. ForgetDispatch(c) /\ InsertUserRow(c)
        BY <2>1, <3>1 DEF PersistUserMessage
      <4>2. pc'[i] = pc[i] /\ retry'[i] = retry[i] /\ (i \in claimed' <=> i \in claimed)
        BY <1>1, <1>4, <4>1 DEF ForgetDispatch, callVars, claimVars
      <4>3. outbox'[i] = outbox[i]
        BY <1>1, <1>4, <4>1 DEF InsertUserRow, storeVars
      <4> QED BY <4>2, <4>3
    <3>2. CASE ~MayPersist(s)
      <4>1. DriverNext(s, "error") /\ UNCHANGED <<pc, outbox>>
        BY <2>1, <3>2 DEF PersistUserMessage, callVars, storeVars
      <4> QED BY <1>1, <1>4, <4>1, DriverNextClaims
    <3> QED BY <3>1, <3>2
  <2>2. CASE ~PersistUserMessage(s)
    <3>1. pc' = pc
      BY <2>2, TurnCalls DEF callVars
    <3>2. UNCHANGED claimVars \/ \E end : DriverNext(s, end)
      BY <2>2 DEF TurnNext, DriverStart, DriverLoop, DriverEnd, DriverCancelled, ConsumeMessage,
         TurnLock, TurnLockTimeout, TurnEnd, TurnParked, TurnCancelled, claimVars
    <3>3. retry'[i] = retry[i] /\ (i \in claimed' <=> i \in claimed)
      BY <1>1, <1>4, <3>2, DriverNextClaims DEF claimVars
    <3>4. UNCHANGED outbox \/ InsertUserRow(c)
      BY <2>2 DEF TurnNext, DriverStart, DriverLoop, DriverEnd, DriverCancelled, ConsumeMessage,
         TurnLock, TurnLockTimeout, TurnEnd, TurnParked, TurnCancelled, storeVars
    <3>5. outbox'[i] = outbox[i]
      BY <1>1, <1>4, <3>4 DEF InsertUserRow, storeVars
    <3> QED BY <3>1, <3>3, <3>5
  <2> QED BY <2>1, <2>2
<1>5. \/ Takes(s) /\ \A u \in Sessions \ {s} : queue'[u] = queue[u] /\ cur'[u] = cur[u]
      \/ queue' = queue /\ (cur' = cur \/ cur' = [cur EXCEPT ![s] = "none"])
  <2>1. CASE \E end : DriverNext(s, end)
    BY <1>1, <2>1, DriverNextTakes DEF Takes
  <2> QED BY <2>1 DEF TurnNext, DriverStart, DriverLoop, DriverEnd, DriverCancelled, ConsumeMessage,
         TurnLock, TurnLockTimeout, PersistUserMessage, TurnEnd, TurnParked, TurnCancelled
<1>6. CASE c # i
  <2>1. Here(i)' = Here(i)
    <3>1. CASE s = t
      BY <1>1, <1>5, <1>6, <3>1, TakeStays
    <3>2. CASE s # t
      BY <1>1, <1>5, <3>2, HereStays
    <3> QED BY <3>1, <3>2
  <2> QED BY <1>2, <1>4, <1>6, <2>1 DEF Effect, Rests, Stays
<1>7. CASE c = i
  <2>1. s = t
    BY <1>3, <1>7
  <2>2. ASSUME UNCHANGED <<pc, outbox, queue, cur, claimVars>> PROVE Effect(i)
    BY <1>2, <2>2, HereStays DEF Effect, Rests, Stays, claimVars
  <2>3. ASSUME UNCHANGED <<pc, queue, claimVars, outbox>>, sess'[s] # "open",
               cur' = [cur EXCEPT ![s] = "none"]
        PROVE  Effect(i)
    <3>1. Here(i)' => Here(i)
      BY <1>1, <2>1, <2>3 DEF Here, Queued
    <3> QED BY <2>1, <2>3, <3>1 DEF Effect, Closes, claimVars
  <2>4. ASSUME NEW end, DriverNext(s, end), pc' = pc, outbox'[i] = outbox[i],
               end \in {"cancelled", "error"} \/ (end = "givenBack" /\ ~enabled)
        PROVE  Effect(i)
    <3>1. i \notin claimed' /\ (retry'[i] \/ ~enabled')
      BY <1>1, <1>2, <1>7, <2>4, DriverNextClaims
    <3>2. Here(i)' => i \in Queued(t)
      <4>1. CASE Takes(s)
        <5>1. Queued(s) = Queued(s)' \cup {Head(queue[s])} /\ cur'[s] = Head(queue[s])
          BY <4>1, QueuedTail DEF Takes
        <5> QED BY <2>1, <5>1 DEF Here
      <4>2. CASE ~Takes(s)
        <5>1. queue' = queue /\ cur'[s] = "none"
          BY <1>1, <2>4, <4>2, DriverNextTakes DEF Takes
        <5> QED BY <1>1, <2>1, <5>1 DEF Here, Queued
      <4> QED BY <4>1, <4>2
    <3> QED BY <1>7, <2>1, <2>4, <3>1, <3>2 DEF Effect, GivenBack
  <2>5. Settled(i) => Effect(i)
    BY DEF Effect
  <2>6. InsertUserRow(c) => Settled(i)
    BY <1>1, <1>7 DEF InsertUserRow, Settled
  <2>7. driver[s] \notin {"none", "hook"} /\ (driver[s] = "running" => outbox[i] # "pending")
    BY <1>1, <1>7 DEF Driving
  <2>8. CASE DriverStart(s)
    <3>1. InMemory(s) => UNCHANGED <<pc, outbox, queue, cur, claimVars>>
      BY <2>8 DEF DriverStart, callVars, storeVars
    <3>2. ~InMemory(s) => /\ UNCHANGED <<pc, queue, claimVars, outbox>> /\ sess'[s] # "open"
                          /\ cur' = [cur EXCEPT ![s] = "none"]
      BY <2>8 DEF DriverStart, InMemory, callVars, storeVars, sessVars
    <3> QED BY <2>2, <2>3, <3>1, <3>2
  <2>9. CASE DriverLoop(s) \/ TurnLock(s)
    BY <2>2, <2>9 DEF DriverLoop, TurnLock, callVars, storeVars
  <2>10. ~DriverEnd(s)
    BY <2>7 DEF DriverEnd
  <2>11. CASE DriverCancelled(s)
    <3>1. sess[s] # "open"
      BY <2>11 DEF DriverCancelled, Driving, InnerStates
    <3> QED BY <2>3, <2>11, <3>1 DEF DriverCancelled, callVars, storeVars, sessVars
  <2>12. CASE ConsumeMessage(s)
    BY <2>2, <2>4, <2>12 DEF ConsumeMessage, callVars, storeVars
  <2>13. CASE TurnLockTimeout(s)
    BY <2>4, <2>13 DEF TurnLockTimeout, callVars, storeVars
  <2>14. CASE PersistUserMessage(s)
    BY <2>4, <2>5, <2>6, <2>14 DEF PersistUserMessage, callVars, storeVars
  <2>15. CASE TurnEnd(s) \/ TurnParked(s)
    BY <2>5, <2>7, <2>15 DEF TurnEnd, TurnParked, storeVars, Settled
  <2>16. CASE TurnCancelled(s)
    BY <2>4, <2>5, <2>6, <2>16 DEF TurnCancelled, callVars, storeVars
  <2> QED BY <2>8, <2>9, <2>10, <2>11, <2>12, <2>13, <2>14, <2>15, <2>16 DEF TurnNext
<1> QED BY <1>6, <1>7

\* What is done to a session, for the events in its hands and for every other.
LEMMA SessionEffects ==
    ASSUME TypeOK, Driving, Addressed, NEW s \in Sessions, SessionNext(s), ~ResetSession(s),
           NEW i \in Injections
    PROVE  Effect(i)
<1> DEFINE t == Target[i]
<1>1. /\ t \in Sessions /\ i \in Prompts /\ i # "none"
      /\ DOMAIN queue = Sessions /\ DOMAIN cur = Sessions /\ retry[i] \in BOOLEAN
      /\ DOMAIN sess = Sessions
  BY TargetAssumption, PromptsAreNotMarks DEF Prompts, TypeOK, TurnsOK, ClaimsOK, SessionsOK
<1>2. recovering' = recovering /\ pc' = pc
  BY SessionFrame DEF processVars, callVars
<1>3. i \in Queued(s) => t = s
  BY DEF Addressed, Queued
<1>4. ASSUME Here(i)' = Here(i), outbox'[i] = outbox[i], retry'[i] = retry[i],
             i \in claimed' <=> i \in claimed
      PROVE  Effect(i)
  BY <1>2, <1>4 DEF Effect, Rests, Stays
<1>5. CASE Interrupt(s) \/ ResetFinish(s) \/ ArchiveBegin(s) \/ ArchiveEnd(s) \/ AutoArchive(s)
           \/ ForkClaim(s) \/ ForkFail(s) \/ CancelPark(s)
  <2>1. UNCHANGED <<queue, cur, outbox, claimVars>>
    BY <1>5 DEF Interrupt, ResetFinish, ArchiveBegin, ArchiveEnd, AutoArchive, ForkClaim,
       ForkFail, CancelPark, turnVars, storeVars
  <2> QED BY <1>4, <2>1, HereStays DEF claimVars
<1>6. CASE ArchiveDrop(s)
  <2>1. CASE i \in Queued(s)
    BY <1>6, <2>1 DEF ArchiveDrop, Effect, Settled, Pending
  <2>2. CASE i \notin Queued(s)
    <3>1. outbox'[i] = outbox[i] /\ retry'[i] = retry[i] /\ (i \in claimed' <=> i \in claimed)
      BY <1>1, <1>6, <2>2 DEF ArchiveDrop
    <3>2. Here(i)' = Here(i)
      BY <1>1, <1>6, <2>2 DEF ArchiveDrop, Here, Queued, turnVars
    <3> QED BY <1>4, <3>1, <3>2
  <2> QED BY <2>1, <2>2
<1>7. CASE DeleteBegin(s)
  <2>1. CASE i \in Queued(s)
    <3>1. t = s /\ sess'[t] # "open" /\ outbox'[i] = outbox[i] /\ i \notin claimed'
      BY <1>1, <1>3, <1>7, <2>1 DEF DeleteBegin, storeVars
    <3>2. Here(i)' => cur[t] = i
      BY <1>1, <1>7, <3>1 DEF DeleteBegin, Here, Queued
    <3> QED BY <1>2, <2>1, <3>1, <3>2 DEF Effect, Closes, Here
  <2>2. CASE i \notin Queued(s)
    <3>1. outbox'[i] = outbox[i] /\ retry'[i] = retry[i] /\ (i \in claimed' <=> i \in claimed)
      BY <1>1, <1>7, <2>2 DEF DeleteBegin, storeVars
    <3>2. Here(i)' = Here(i)
      BY <1>1, <1>7, <2>2 DEF DeleteBegin, Here, Queued
    <3> QED BY <1>4, <3>1, <3>2
  <2> QED BY <2>1, <2>2
<1>8. CASE DeleteEnd(s)
  <2>1. CASE t = s
    BY <1>8, <2>1 DEF DeleteEnd, TargetOf, Effect, Settled
  <2>2. CASE t # s
    <3>1. outbox'[i] = outbox[i] /\ UNCHANGED <<queue, cur, claimVars>>
      BY <1>8, <2>2 DEF DeleteEnd, TargetOf, turnVars
    <3> QED BY <1>4, <3>1, HereStays DEF claimVars
  <2> QED BY <2>1, <2>2
<1>9. CASE ForkDone(s)
  <2>1. UNCHANGED <<cur, outbox, claimVars>> /\ queue' = [queue EXCEPT ![s] = <<>>]
    BY <1>9 DEF ForkDone, storeVars
  <2>2. CASE t = s
    <3>1. sess'[t] # "open"
      BY <1>1, <1>9, <2>2 DEF ForkDone, InMemory
    <3>2. Here(i)' => Here(i)
      BY <1>1, <2>1, <2>2 DEF Here, Queued
    <3> QED BY <1>2, <2>1, <3>1, <3>2 DEF Effect, Closes, claimVars
  <2>3. CASE t # s
    <3>1. queue'[t] = queue[t] /\ cur'[t] = cur[t]
      BY <1>1, <2>1, <2>3
    <3> QED BY <1>4, <2>1, <3>1, HereStays DEF claimVars
  <2> QED BY <2>2, <2>3
<1>10. CASE ReleaseParkedQueue(s)
  <2>1. UNCHANGED <<outbox, claimVars>>
    BY <1>10 DEF ReleaseParkedQueue, storeVars
  <2>2. CASE UNCHANGED <<queue, cur>>
    BY <1>4, <2>1, <2>2, HereStays DEF claimVars
  <2>3. CASE /\ queue[s] # <<>> /\ queue' = [queue EXCEPT ![s] = Tail(@)]
             /\ cur' = [cur EXCEPT ![s] = Head(queue[s])] /\ ~Live(s)
    <3>1. cur[s] = "none"
      BY <2>3 DEF Live, Driving
    <3>2. CASE t = s
      BY <1>1, <1>4, <2>1, <2>3, <3>1, <3>2, TakeStays DEF Takes, claimVars
    <3>3. CASE t # s
      <4>1. queue'[t] = queue[t] /\ cur'[t] = cur[t]
        BY <1>1, <2>3, <3>3
      <4> QED BY <1>4, <2>1, <4>1, HereStays DEF claimVars
    <3> QED BY <3>2, <3>3
  <2> QED BY <1>10, <2>2, <2>3 DEF ReleaseParkedQueue
<1> QED BY <1>5, <1>6, <1>7, <1>8, <1>9, <1>10 DEF SessionNext

\* The outbox's own operations.
LEMMA InjectionEffects ==
    ASSUME TypeOK, NEW j \in Injections, InjectionNext(j), NEW i \in Injections
    PROVE  Effect(i)
<1>1. /\ i \in Prompts /\ j \in Prompts /\ DOMAIN pc = Prompts /\ DOMAIN retry = Injections
      /\ DOMAIN outbox = Injections
  BY DEF Prompts, TypeOK, CallsOK, ClaimsOK, StoreOK
<1>2. Here(i)' = Here(i) /\ enabled' = enabled
  BY InjectionFrame, HereStays DEF turnVars
<1>3. ASSUME outbox'[i] = outbox[i], retry'[i] = retry[i], pc'[i] = pc[i],
             i \in claimed' <=> i \in claimed, i \in recovering => i \in recovering'
      PROVE  Effect(i)
  BY <1>2, <1>3 DEF Effect, Rests, Stays
<1>4. ASSUME NEW who \in {"producer", "retry", "recover"}, Dispatch(i, who), pc[i] \in {"idle", "enq"}
      PROVE  Effect(i)
  <2>1. CASE NotDispatched(i)
    <3>1. /\ UNCHANGED <<claimed, outbox>> /\ pc'[i] \in {"idle", "enq"}
          /\ i \in claimed \/ ~enabled'
      BY <1>1, <1>2, <1>4, <2>1 DEF Dispatch, NotDispatched
    <3> QED BY <1>2, <1>4, <3>1 DEF Effect, Idles, Stays
  <2>2. CASE ~NotDispatched(i) /\ ~InMemory(Target[i])
    <3>1. outbox'[i] # "pending"
      BY <1>1, <1>4, <2>2 DEF Dispatch, FailRow
    <3> QED BY <3>1 DEF Effect, Settled
  <2>3. CASE ~NotDispatched(i) /\ InMemory(Target[i])
    <3>1. /\ i \notin claimed /\ enabled /\ i \in claimed' /\ outbox' = outbox /\ pc'[i] = "admit1"
      BY <1>1, <1>4, <2>3 DEF Dispatch, NotDispatched
    <3> QED BY <1>2, <3>1 DEF Effect, Dispatched, Stages
  <2> QED BY <2>1, <2>2, <2>3
<1>5. ASSUME NEW who, Dispatch(j, who), i # j
      PROVE  outbox'[i] = outbox[i] /\ pc'[i] = pc[i] /\ (i \in claimed' <=> i \in claimed)
  BY <1>1, <1>5 DEF Dispatch, FailRow
<1>6. CASE EnqueueInjection(j)
  <2>1. UNCHANGED <<claimVars, recovering>>
    BY <1>6 DEF EnqueueInjection, processVars
  <2>2. CASE i # j
    BY <1>1, <1>3, <1>6, <2>1, <2>2 DEF EnqueueInjection, claimVars
  <2>3. CASE i = j /\ outbox[i] \in {"none", "pending"}
    BY <1>1, <1>2, <1>6, <2>1, <2>3 DEF EnqueueInjection, claimVars, Effect, Enqueues
  <2>4. CASE i = j /\ outbox[i] \notin {"none", "pending"}
    BY <1>1, <1>6, <2>4 DEF EnqueueInjection, Effect, Settled
  <2> QED BY <2>2, <2>3, <2>4
<1>7. CASE EnqueueDispatch(j)
  <2>1. UNCHANGED <<retry, recovering>>
    BY <1>7 DEF EnqueueDispatch, processVars
  <2>2. CASE outbox[j] = "pending"
    <3>1. Dispatch(j, "producer") /\ pc[j] = "enq"
      BY <1>7, <2>2 DEF EnqueueDispatch
    <3> QED BY <1>3, <1>4, <1>5, <2>1, <3>1
  <2>3. CASE outbox[j] # "pending"
    <3>1. pc' = [pc EXCEPT ![j] = "idle"] /\ UNCHANGED <<claimed, outbox>>
      BY <1>7, <2>3 DEF EnqueueDispatch
    <3>2. i = j => Effect(i)
      BY <2>3, <3>1 DEF Effect, Settled
    <3> QED BY <1>1, <1>3, <2>1, <3>1, <3>2
  <2> QED BY <2>2, <2>3
<1>8. CASE RetryInjection(j)
  <2>1. recovering' = recovering /\ (i # j => retry'[i] = retry[i]) /\ pc[j] \in {"idle", "enq"}
    BY <1>1, <1>8 DEF RetryInjection
  <2>2. CASE outbox[j] = "pending"
    <3>1. Dispatch(j, "retry")
      BY <1>8, <2>2 DEF RetryInjection
    <3> QED BY <1>3, <1>4, <1>5, <2>1, <3>1
  <2>3. CASE outbox[j] # "pending"
    <3>1. UNCHANGED <<pc, claimed, outbox>>
      BY <1>8, <2>3 DEF RetryInjection, callVars
    <3>2. i = j => Effect(i)
      BY <2>3, <3>1 DEF Effect, Settled
    <3> QED BY <1>3, <2>1, <3>1, <3>2
  <2> QED BY <2>2, <2>3
<1>9. CASE RecoverInjection(j)
  <2>1. /\ retry' = retry /\ recovering' = recovering \ {j} /\ pc[j] \in {"idle", "enq"}
        /\ Dispatch(j, "recover")
    BY <1>9 DEF RecoverInjection
  <2> QED BY <1>3, <1>4, <1>5, <2>1
<1>10. CASE MaterializeInjection(j)
  <2>1. UNCHANGED <<pc, claimVars, recovering>>
    BY <1>10 DEF MaterializeInjection, callVars, processVars
  <2>2. CASE i # j
    BY <1>1, <1>3, <1>10, <2>1, <2>2 DEF MaterializeInjection, InsertUserRow, FailRow, claimVars, storeVars
  <2>3. CASE i = j
    BY <1>1, <1>10, <2>3 DEF MaterializeInjection, InsertUserRow, FailRow, Effect, Settled
  <2> QED BY <2>2, <2>3
<1> QED BY <1>6, <1>7, <1>8, <1>9, <1>10 DEF InjectionNext

\* Deploys leave events alone; a stop and a boot let go of all of them.
LEMMA ProcessEffects ==
    ASSUME TypeOK, ProcessNext, NEW i \in Injections
    PROVE  Effect(i)
<1>1. Target[i] \in Sessions /\ i \in Prompts /\ i # "none"
  BY TargetAssumption, PromptsAreNotMarks DEF Prompts
<1>2. CASE ~ShutdownInjections /\ ~Restart
  <2>1. UNCHANGED <<pc, queue, cur, outbox, claimVars>>
    BY <1>2, ProcessFrame DEF callVars, turnVars, storeVars
  <2>2. i \in recovering /\ i \in Pending => i \in recovering'
    BY <1>2 DEF ProcessNext, DeployBegin, DeployDrained, DeployClose, DeployCensus, DeployOpen,
       DeployResume, Shutdown, ReleaseProducers, ResumeDispatch, processVars
  <2> QED BY <2>1, <2>2, HereStays DEF Effect, Rests, Stays, claimVars
<1>3. CASE ShutdownInjections
  <2>1. /\ phase' = "stopping" /\ claimed' = {} /\ pc'[i] \in {"idle", pc[i]}
        /\ UNCHANGED <<queue, cur, outbox>>
    BY <1>1, <1>3 DEF ShutdownInjections, processVars, turnVars, storeVars
  <2> QED BY <2>1, HereStays DEF Effect, Stops
<1>4. CASE Restart
  <2>1. /\ claimed' = {} /\ ~enabled' /\ pc'[i] \notin Stages
        /\ queue'[Target[i]] = <<>> /\ cur'[Target[i]] = "none"
    BY <1>1, <1>4 DEF Restart, Stages
  <2>2. ~InPipe(i)'
    BY <1>1, <2>1 DEF InPipe, Here, Queued
  <2> QED BY <2>1, <2>2 DEF Effect, Boots
<1> QED BY <1>2, <1>3, <1>4

\* Every step has one of these effects on every event.
LEMMA Effects ==
    ASSUME TypeOK, Spent, Driving, Addressed, [Next]_vars, Fresh("reset")', NEW i \in Injections
    PROVE  Effect(i)
<1>1. Fresh("reset") /\ \A s \in Sessions : ~ResetSession(s)
  BY Calm
<1>2. ASSUME NEW r \in Resumes, Wake(r) \/ ResumeParkedTurn(r) PROVE Effect(i)
  <2>1. i \in Prompts /\ i # r /\ DOMAIN pc = Prompts
    BY PromptKindsAreDisjoint DEF Prompts, TypeOK, CallsOK
  <2>2. pc'[i] = pc[i] /\ UNCHANGED <<queue, cur, outbox, claimVars, recovering>>
    BY <1>2, <2>1, ResumeFrame DEF Wake, ResumeParkedTurn, turnVars, storeVars, processVars
  <2> QED BY <2>2, HereStays DEF Effect, Rests, Stays, claimVars
<1>3. ASSUME UNCHANGED vars PROVE Effect(i)
  BY <1>3, HereStays DEF vars, Effect, Rests, Stays
<1> QED BY <1>1, <1>2, <1>3, CallEffects, TurnEffects, SessionEffects, InjectionEffects, ProcessEffects
        DEF Next

--------------------------------------------------------------------------------
(* Claims have holders *)

\* A claim ends with the last place its event is in.
LEMMA HoldingStep ==
    ASSUME TypeOK, Spent, Driving, Addressed, Written, Holding, [Next]_vars PROVE Holding'
<1> SUFFICES ASSUME Fresh("reset")', NEW i \in Injections, i \in claimed', outbox'[i] = "pending",
                    sess'[Target[i]] = "open"
             PROVE  InPipe(i)'
  BY DEF Holding, Pending
<1>1. Effect(i)
  BY Effects
<1>2. CASE Boots(i) \/ Stops(i) \/ Ends(i) \/ GivenBack(i) \/ Settled(i) \/ Closes(i)
  BY <1>2 DEF Boots, Stops, Ends, GivenBack, Settled, Closes
<1>3. CASE Dispatched(i) \/ Advances(i) \/ Queues(i)
  BY <1>3 DEF Dispatched, Advances, Queues, InPipe
<1>4. CASE Rests(i) \/ Enqueues(i) \/ Idles(i)
  <2>1. i \in claimed /\ Here(i)' = Here(i)
    BY <1>4 DEF Rests, Enqueues, Idles, Stays
  <2>2. outbox[i] = "pending"
    <3>1. outbox[i] # "none"
      BY <2>1 DEF Written
    <3> QED BY <1>4, <3>1 DEF Rests, Enqueues, Idles, Stays
  <2>3. CASE Restart
    BY <2>3 DEF Restart
  <2>4. CASE ~Restart
    <3>1. Fresh("reset") /\ sess[Target[i]] = "open"
      BY <2>4, Calm, OpenStays, TargetAssumption DEF Prompts
    <3>2. InPipe(i)
      BY <2>1, <2>2, <3>1 DEF Holding, Pending
    <3>3. pc[i] \in Stages => pc'[i] \in Stages
      BY <1>4 DEF Rests, Enqueues, Idles, Stages
    <3> QED BY <2>1, <3>2, <3>3 DEF InPipe
  <2> QED BY <2>3, <2>4
<1> QED BY <1>1, <1>2, <1>3, <1>4 DEF Effect

\* Dispatch is switched on with a list of all that is pending.
LEMMA SwitchedOn ==
    ASSUME [Next]_vars, ~enabled, enabled' PROVE recovering' = Pending /\ outbox' = outbox
BY CallFrame, TurnFrame, SessionFrame, InjectionFrame, ResumeFrame
   DEF Next, vars, processVars, ProcessNext, DeployBegin, DeployDrained, DeployClose, DeployCensus,
       DeployOpen, DeployResume, Shutdown, ShutdownInjections, Restart, ReleaseProducers,
       ResumeDispatch, storeVars

\* No pending event of an open session is ever in nobody's hands.
LEMMA HeldStep ==
    ASSUME TypeOK, Spent, Driving, Addressed, Written, Holding, Held, [Next]_vars PROVE Held'
<1>1. Holding' /\ Driving'
  BY HoldingStep, DrivingStep
<1> SUFFICES ASSUME Fresh("reset")', NEW i \in Injections, outbox'[i] = "pending", enabled',
                    sess'[Target[i]] = "open"
             PROVE  Here(i)' \/ pc'[i] # "idle" \/ retry'[i] \/ i \in recovering'
  BY DEF Held, PendingIsHeld, Pending, Here
<1>2. Effect(i)
  BY Effects
<1>3. CASE ~enabled
  BY <1>3, SwitchedOn DEF Pending
<1>4. CASE Boots(i) \/ Stops(i) \/ Settled(i) \/ Closes(i)
  BY <1>1, <1>4 DEF Boots, Stops, Settled, Closes, Driving
<1>5. CASE GivenBack(i) \/ Dispatched(i) \/ Advances(i) \/ Ends(i) \/ Queues(i) \/ Enqueues(i)
  BY <1>5 DEF GivenBack, Dispatched, Advances, Ends, Queues, Enqueues, Stages
<1>6. CASE Idles(i)
  <2>1. i \in claimed'
    BY <1>6 DEF Idles, Stays
  <2>2. InPipe(i)'
    BY <1>1, <2>1 DEF Holding, Pending
  <2> QED BY <2>2 DEF InPipe, Stages
<1>7. CASE Rests(i) /\ enabled
  <2>1. outbox[i] = "pending"
    BY <1>7 DEF Rests, Stays
  <2>2. ~Restart
    BY DEF Restart
  <2>3. Fresh("reset") /\ sess[Target[i]] = "open"
    BY <2>2, Calm, OpenStays, TargetAssumption DEF Prompts
  <2>4. Here(i) \/ pc[i] # "idle" \/ retry[i] \/ i \in recovering
    BY <1>7, <2>1, <2>3 DEF Held, PendingIsHeld, Pending, Here
  <2> QED BY <1>7, <2>1, <2>4 DEF Rests, Stays, Pending
<1> QED BY <1>2, <1>3, <1>4, <1>5, <1>6, <1>7 DEF Effect

--------------------------------------------------------------------------------
(* An event is in one place *)

\* What waits is pending only if it was: its row was written before it queued.
LEMMA QueuedPending ==
    ASSUME TypeOK, Written, [Next]_vars, NEW i \in Injections, InPipe(i), outbox'[i] = "pending"
    PROVE  outbox[i] = "pending"
<1>1. outbox[i] # "none"
  BY DEF Written
<1> QED BY <1>1, Settles

\* A queue takes a pending event only from the call that has it nowhere else.
LEMMA QueuedOnceStep ==
    ASSUME TypeOK, Driving, Addressed, Written, [Next]_vars, QueuedOnce,
           \A i \in Pending : pc[i] \in Stages => ~Here(i)
    PROVE  QueuedOnce'
<1> SUFFICES ASSUME NEW t \in Sessions, NEW j \in DOMAIN queue'[t], queue'[t][j] \in Pending'
             PROVE  /\ \A k \in DOMAIN queue'[t] : j # k => queue'[t][j] # queue'[t][k]
                    /\ cur'[t] # queue'[t][j]
  BY DEF QueuedOnce
<1> DEFINE i == queue'[t][j]
<1>1. /\ i \in Injections /\ outbox'[i] = "pending"
      /\ queue[t] \in Seq(Prompts) /\ Len(queue[t]) \in Nat /\ DOMAIN queue[t] = 1..Len(queue[t])
      /\ i # "none" /\ "none" \notin Prompts
  BY PromptsAreNotMarks DEF Pending, TypeOK, TurnsOK, Prompts
<1>2. Target[i] = t
  BY AddressedStep DEF Addressed
<1>3. InPipe(i)
  <2>1. i \in Queued(t)'
    BY DEF Queued
  <2> QED BY <1>1, <1>2, <2>1, HereMoves DEF Here
<1>4. i \in Pending
  BY <1>1, <1>3, QueuedPending DEF Pending
<1>5. ASSUME NEW m \in DOMAIN queue[t], queue[t][m] = i
      PROVE  (\A k \in DOMAIN queue[t] : m # k => queue[t][k] # i) /\ cur[t] # i
  <2>1. driver[t] \in InnerStates \cup {"start", "deq"} \/ driver[t] \in {"none", "hook"}
    BY DEF TypeOK, TurnsOK, DriverStates
  <2> QED BY <1>1, <1>4, <1>5, <2>1 DEF QueuedOnce, Driving
<1>6. CASE Waits(t)
  <2>1. PICK p \in Prompts : /\ Target[p] = t /\ pc[p] \in Stages
                             /\ queue'[t] = Append(queue[t], p) /\ cur'[t] = cur[t]
    BY <1>6 DEF Waits
  <2>2. /\ DOMAIN queue'[t] = 1..(Len(queue[t]) + 1)
        /\ \A k \in 1..Len(queue[t]) : queue'[t][k] = queue[t][k]
        /\ queue'[t][Len(queue[t]) + 1] = p
    BY <1>1, <2>1, AppendShape
  <2>3. i = p => /\ \A k \in DOMAIN queue[t] : queue[t][k] # i
                 /\ cur[t] # i
    BY <1>2, <1>4, <2>1 DEF Here, Queued
  <2>4. CASE j = Len(queue[t]) + 1
    BY <1>1, <2>1, <2>2, <2>3, <2>4
  <2>5. CASE j # Len(queue[t]) + 1
    <3>1. j \in DOMAIN queue[t] /\ queue[t][j] = i
      BY <1>1, <2>2, <2>5
    <3>2. i # p
      BY <2>3, <3>1
    <3>3. \A k \in DOMAIN queue'[t] : k \in DOMAIN queue[t] \/ queue'[t][k] = p
      BY <1>1, <2>2
    <3> QED BY <1>1, <1>5, <2>1, <2>2, <3>1, <3>2, <3>3
  <2> QED BY <2>4, <2>5
<1>7. CASE Starts(t)
  <2>1. PICK p \in Prompts : Target[p] = t /\ pc[p] \in Stages /\ queue'[t] = queue[t] /\ cur'[t] = p
    BY <1>7 DEF Starts
  <2>2. i # p
    BY <1>2, <1>4, <2>1 DEF Here, Queued
  <2> QED BY <1>5, <2>1, <2>2
<1>8. CASE Takes(t)
  <2>1. /\ Len(queue[t]) > 0 /\ cur'[t] = queue[t][1]
        /\ DOMAIN queue'[t] = 1..(Len(queue[t]) - 1)
        /\ \A k \in 1..(Len(queue[t]) - 1) : queue'[t][k] = queue[t][k + 1]
    <3>1. queue[t] # <<>> /\ queue'[t] = Tail(queue[t]) /\ cur'[t] = Head(queue[t])
      BY <1>8 DEF Takes
    <3>2. queue[t] \in Seq(Prompts)
      BY <1>1
    <3> QED BY <3>1, <3>2, TailShape
  <2>2. j + 1 \in DOMAIN queue[t] /\ queue[t][j + 1] = i
    BY <1>1, <2>1
  <2>3. \A k \in DOMAIN queue[t] : j + 1 # k => queue[t][k] # i
    BY <1>5, <2>2
  <2>4. 1 \in DOMAIN queue[t] /\ j \in Nat /\ j + 1 # 1
    BY <1>1, <2>1
  <2>5. cur'[t] # i
    BY <2>1, <2>3, <2>4
  <2>6. ASSUME NEW k \in DOMAIN queue'[t], j # k PROVE i # queue'[t][k]
    <3>1. k + 1 \in DOMAIN queue[t] /\ queue'[t][k] = queue[t][k + 1] /\ j + 1 # k + 1
      BY <1>1, <2>1, <2>4, <2>6
    <3> QED BY <2>3, <3>1
  <2> QED BY <2>5, <2>6
<1>9. CASE Drops(t)
  <2>1. queue'[t] = queue[t]
    BY <1>9 DEF Drops
  <2> QED BY <1>1, <1>5, <1>9, <2>1 DEF Drops
<1> QED BY <1>6, <1>7, <1>8, <1>9, QueueMoves

\* What is under way is claimed and in one place.
LEMMA PipedStep ==
    ASSUME TypeOK, Spent, Locking, Driving, Addressed, Written, Piped, [Next]_vars PROVE Piped'
<1>1. Unforced' => Unforced
  BY Calm
<1> SUFFICES ASSUME Unforced'
             PROVE  /\ \A i \in Pending' : /\ phase' # "stopping" /\ InPipe(i)' => i \in claimed'
                                           /\ pc'[i] \in Stages => ~Here(i)'
                    /\ QueuedOnce'
  BY DEF Piped
<1>2. /\ \A i \in Pending : /\ phase # "stopping" /\ InPipe(i) => i \in claimed
                            /\ pc[i] \in Stages => ~Here(i)
      /\ QueuedOnce
  BY <1>1 DEF Piped
<1>3. QueuedOnce'
  BY <1>2, QueuedOnceStep
<1>4. ASSUME NEW i \in Injections, outbox'[i] = "pending"
      PROVE  /\ phase' # "stopping" /\ InPipe(i)' => i \in claimed'
             /\ pc'[i] \in Stages => ~Here(i)'
  <2> DEFINE t == Target[i]
             Claimed == phase' # "stopping" /\ InPipe(i)' => i \in claimed'
             Apart   == pc'[i] \in Stages => ~Here(i)'
  <2>1. Effect(i)
    BY Effects DEF Unforced
  <2>2. t \in Sessions /\ i \in Prompts /\ i # "none" /\ "idle" \notin Stages /\ "enq" \notin Stages
    BY TargetAssumption, PromptsAreNotMarks DEF Prompts, Stages
  <2>3. outbox[i] = "pending" => /\ phase # "stopping" /\ InPipe(i) => i \in claimed
                                 /\ pc[i] \in Stages => ~Here(i)
    BY <1>2 DEF Pending
  <2>4. InPipe(i) => outbox[i] = "pending"
    BY <1>4, QueuedPending
  <2>5. outbox[i] = "pending" /\ i \in Queued(t) => cur[t] # i
    <3>1. driver[t] \in InnerStates \cup {"start", "deq"} \/ driver[t] \in {"none", "hook"}
      BY <2>2 DEF TypeOK, TurnsOK, DriverStates
    <3> QED BY <1>2, <2>2, <3>1 DEF QueuedOnce, Driving, Queued, Pending
  <2>6. CASE Restart
    <3>1. queue'[t] = <<>> /\ cur'[t] = "none" /\ pc'[i] \notin Stages
      BY <2>2, <2>6 DEF Restart, Stages
    <3>2. ~InPipe(i)'
      BY <2>2, <3>1 DEF InPipe, Here, Queued
    <3> QED BY <3>1, <3>2
  <2>7. ~Restart /\ phase' # "stopping" => phase # "stopping"
    BY CallFrame, TurnFrame, SessionFrame, InjectionFrame, ResumeFrame
       DEF Next, vars, processVars, ProcessNext, DeployBegin, DeployDrained, DeployClose,
           DeployCensus, DeployOpen, DeployResume, Shutdown, ShutdownInjections, ReleaseProducers
  <2>8. CASE ~Restart /\ (Settled(i) \/ Boots(i) \/ Stops(i))
    <3>1. Claimed
      BY <1>4, <2>8 DEF Settled, Boots, Stops
    <3>2. Apart
      BY <1>4, <2>2, <2>3, <2>8 DEF Settled, Boots, Stops, InPipe
    <3> QED BY <3>1, <3>2
  <2>9. CASE ~Restart /\ (Rests(i) \/ Advances(i) \/ Idles(i))
    <3>1. /\ Here(i)' = Here(i) /\ outbox[i] = "pending" /\ (i \in claimed' <=> i \in claimed)
          /\ pc'[i] \in Stages => pc[i] \in Stages
      BY <1>4, <2>9 DEF Rests, Advances, Idles, Stays, Stages
    <3> QED BY <2>3, <2>7, <2>9, <3>1 DEF InPipe
  <2>10. CASE ~Restart /\ Closes(i)
    <3>1. /\ pc'[i] = pc[i] /\ outbox[i] = "pending" /\ (Here(i)' => Here(i))
          /\ i \in claimed \ claimed' => i \in Queued(t) /\ (Here(i)' => cur[t] = i)
      BY <1>4, <2>10 DEF Closes
    <3>2. Apart
      BY <2>3, <3>1
    <3>3. i \in Queued(t) => Here(i)
      BY DEF Here
    <3>4. Claimed
      BY <2>3, <2>5, <2>7, <2>10, <3>1, <3>3 DEF InPipe
    <3> QED BY <3>2, <3>4
  <2>11. CASE ~Restart /\ GivenBack(i)
    <3>1. /\ cur[t] = i /\ pc'[i] = pc[i] /\ outbox[i] = "pending" /\ (Here(i)' => i \in Queued(t))
      BY <1>4, <2>11 DEF GivenBack
    <3>2. ~InPipe(i)'
      BY <2>3, <2>5, <3>1 DEF InPipe, Here
    <3> QED BY <3>2 DEF InPipe
  <2>12. CASE ~Restart /\ Dispatched(i)
    <3>1. phase = "up" /\ i \notin claimed /\ i \in claimed' /\ outbox[i] = "pending" /\ Here(i)' = Here(i)
      BY <1>4, <2>12 DEF Dispatched, Driving
    <3> QED BY <2>3, <3>1 DEF InPipe
  <2>13. CASE ~Restart /\ Ends(i)
    <3>1. pc[i] \in Stages /\ pc'[i] = "idle" /\ Here(i)' = Here(i)
      BY <2>13 DEF Ends
    <3> QED BY <2>2, <2>3, <2>4, <3>1 DEF InPipe
  <2>14. CASE ~Restart /\ Queues(i)
    <3>1. pc[i] = "claim" => lock[t] = i
      BY <1>1, <2>2 DEF Locking
    <3>2. i # "free"
      BY <2>2, PromptsAreNotMarks
    <3>3. /\ pc[i] \in Stages /\ pc'[i] = "idle" /\ outbox[i] = "pending"
          /\ i \in claimed' <=> i \in claimed
      BY <1>4, <2>14, <3>1, <3>2 DEF Queues
    <3> QED BY <2>2, <2>3, <2>7, <2>14, <3>3 DEF InPipe
  <2>15. CASE ~Restart /\ Enqueues(i)
    <3>1. /\ pc[i] = "idle" /\ pc'[i] = "enq" /\ Here(i)' = Here(i) /\ (i \in claimed' <=> i \in claimed)
      BY <2>15 DEF Enqueues
    <3> QED BY <2>2, <2>3, <2>4, <2>7, <2>15, <3>1 DEF InPipe
  <2> QED BY <2>1, <2>6, <2>8, <2>9, <2>10, <2>11, <2>12, <2>13, <2>14, <2>15 DEF Effect
<1> QED BY <1>3, <1>4 DEF Pending

--------------------------------------------------------------------------------
(* Queues and fates *)

\* Without an idle hook, a reset or a park, a driver ends with its queue.
LEMMA DrivenStep ==
    ASSUME TypeOK, Spent, Unparked, Driving, Driven, [Next]_vars PROVE Driven'
<1>1. /\ Fresh("reset")' => Fresh("reset") /\ \A s \in Sessions : ~ResetSession(s)
      /\ Fresh("park")' => Fresh("park") /\ \A s \in Sessions : ~TurnParked(s)
  BY Calm
<1> DEFINE Q == \A t \in Sessions : driver'[t] # "hook" /\ ~archReq'[t]
           R == \A t \in Sessions : queue'[t] # <<>> /\ sess'[t] = "open" => driver'[t] # "none"
<1> SUFFICES ASSUME ~NotifierWired, Transient = {}, Fresh("reset")', Fresh("park")' PROVE Q /\ R
  BY DEF Driven
<1>2. /\ \A t \in Sessions : driver[t] # "hook" /\ ~archReq[t] /\ ~parked[t] /\ ~releasing[t]
      /\ \A t \in Sessions : queue[t] # <<>> /\ sess[t] = "open" => driver[t] # "none"
      /\ Scheduled = {}
  BY <1>1, OriginAssumption DEF Driven, Unparked
<1>3. /\ DOMAIN driver = Sessions /\ DOMAIN archReq = Sessions /\ DOMAIN queue = Sessions
      /\ DOMAIN sess = Sessions /\ \A q \in Prompts : Target[q] \in Sessions
  BY TargetAssumption DEF TypeOK, TurnsOK, SessionsOK
<1>4. ASSUME UNCHANGED <<driver, queue, archReq>>, \A t \in Sessions : sess'[t] = "open" => sess[t] = "open"
      PROVE  Q /\ R
  BY <1>2, <1>4
<1>5. ASSUME NEW p \in Prompts, CallNext(p) PROVE Q /\ R
  <2>1. UNCHANGED <<archReq, sess>>
    BY <1>5, CallFrame DEF sessVars
  <2>2. CASE Submit(p) \/ Admit1(p) \/ AcquireSessionLock(p) \/ Admit2(p)
    BY <1>4, <2>1, <2>2 DEF Submit, Admit1, AcquireSessionLock, Admit2, turnVars
  <2>3. CASE EnqueueIfBusy(p)
    BY <1>2, <1>3, <2>1, <2>3 DEF EnqueueIfBusy, Busy, Live, turnVars
  <2>4. CASE ClaimIdleTurn(p)
    BY <1>2, <1>3, <2>1, <2>4 DEF ClaimIdleTurn, Busy, Live
  <2> QED BY <1>5, <2>2, <2>3, <2>4 DEF CallNext
<1>6. ASSUME NEW s \in Sessions, TurnNext(s) PROVE Q /\ R
  <2>1. archReq' = archReq /\ \A t \in Sessions : sess'[t] = "open" => sess[t] = "open"
    BY <1>6, TurnFrame, TurnCloses
  <2>2. ASSUME NEW end, end # "parked", DriverNext(s, end) PROVE Q /\ R
    <3>1. \/ driver' = [driver EXCEPT ![s] = "deq"] /\ queue' = [queue EXCEPT ![s] = Tail(@)]
          \/ driver' = [driver EXCEPT ![s] = "none"] /\ queue' = queue /\ queue[s] = <<>>
      BY <1>2, <2>2 DEF DriverNext, Drains
    <3> QED BY <1>2, <1>3, <2>1, <3>1
  <2>3. ASSUME UNCHANGED queue, \E d : d \notin {"none", "hook"} /\ driver' = [driver EXCEPT ![s] = d]
        PROVE  Q /\ R
    BY <1>2, <1>3, <2>1, <2>3
  <2>4. ASSUME UNCHANGED queue, driver' = [driver EXCEPT ![s] = "none"], sess'[s] # "open"
        PROVE  Q /\ R
    BY <1>2, <1>3, <2>1, <2>4
  <2>5. CASE DriverStart(s)
    BY <2>3, <2>4, <2>5 DEF DriverStart, InMemory, sessVars
  <2>6. CASE DriverLoop(s) \/ TurnLock(s)
    BY <2>3, <2>6 DEF DriverLoop, TurnLock
  <2>7. ~DriverEnd(s) /\ ~TurnParked(s)
    BY <1>1, <1>2 DEF DriverEnd
  <2>8. CASE DriverCancelled(s)
    <3>1. sess[s] # "open"
      BY <1>1, <2>8 DEF DriverCancelled, Driving, InnerStates
    <3> QED BY <2>4, <2>8, <3>1 DEF DriverCancelled, sessVars
  <2>9. CASE ConsumeMessage(s) \/ TurnLockTimeout(s) \/ PersistUserMessage(s)
    BY <2>2, <2>3, <2>9 DEF ConsumeMessage, TurnLockTimeout, PersistUserMessage
  <2>10. CASE TurnEnd(s) \/ TurnCancelled(s)
    BY <2>2, <2>10 DEF TurnEnd, TurnCancelled
  <2> QED BY <1>6, <2>5, <2>6, <2>7, <2>8, <2>9, <2>10 DEF TurnNext
<1>7. ASSUME NEW s \in Sessions, SessionNext(s) PROVE Q /\ R
  <2>1. \A t \in Sessions : sess'[t] = "open" => sess[t] = "open"
    BY <1>7, SessionCloses
  <2>2. ~ResetSession(s) /\ ~ReleaseParkedQueue(s) /\ ~AutoArchive(s)
    BY <1>1, <1>2 DEF ReleaseParkedQueue, AutoArchive
  <2>3. UNCHANGED <<driver, archReq>>
    BY <1>7, <2>2 DEF SessionNext, Interrupt, ResetFinish, ArchiveBegin, ArchiveDrop, ArchiveEnd,
       DeleteBegin, DeleteEnd, ForkClaim, ForkFail, ForkDone, CancelPark, CancelDriver, turnVars, sessVars
  <2>4. UNCHANGED queue \/ queue' = [queue EXCEPT ![s] = <<>>]
    BY <1>7, <2>2 DEF SessionNext, Interrupt, ResetFinish, ArchiveBegin, ArchiveDrop, ArchiveEnd,
       DeleteBegin, DeleteEnd, ForkClaim, ForkFail, ForkDone, CancelPark
  <2> QED BY <1>2, <1>3, <2>1, <2>3, <2>4
<1>8. ASSUME NEW i \in Injections, InjectionNext(i) PROVE Q /\ R
  BY <1>4, <1>8, InjectionFrame DEF turnVars, sessVars
<1>9. ASSUME NEW r \in Resumes, Wake(r) \/ ResumeParkedTurn(r) PROVE Q /\ R
  BY <1>4, <1>9, ResumeFrame DEF turnVars
<1>10. ASSUME ProcessNext PROVE Q /\ R
  <2>1. CASE Restart
    BY <2>1 DEF Restart
  <2>2. CASE ~Restart
    BY <1>4, <1>10, <2>2, ProcessFrame DEF ShutdownInjections, turnVars, sessVars
  <2> QED BY <2>1, <2>2
<1>11. UNCHANGED vars => Q /\ R
  BY <1>4 DEF vars
<1> HIDE DEF Q, R
<1> QED BY <1>5, <1>6, <1>7, <1>8, <1>9, <1>10, <1>11 DEF Next

\* An event fails because the gate refused it or its session is closing.
LEMMA FailsFor ==
    ASSUME TypeOK, Addressed, [Next]_vars, NEW i \in Injections, outbox[i] # "failed",
           outbox'[i] = "failed"
    PROVE  closed \/ sess'[Target[i]] # "open"
<1>1. DOMAIN outbox = Injections /\ DOMAIN sess = Sessions /\ Target[i] \in Sessions
  BY TargetAssumption DEF TypeOK, StoreOK, SessionsOK, Prompts
<1>2. ASSUME NEW p \in Prompts, CallNext(p) PROVE closed
  <2>1. CASE UNCHANGED storeVars \/ \E why : why # "refused" /\ EndCall(p, why)
    <3>1. outbox'[i] = outbox[i]
      BY <1>1, <2>1 DEF EndCall, Retries, storeVars
    <3> QED BY <3>1
  <2>2. CASE Submit(p) \/ AcquireSessionLock(p) \/ EnqueueIfBusy(p)
    BY <2>1, <2>2 DEF Submit, AcquireSessionLock, EnqueueIfBusy
  <2>3. CASE Admit1(p) \/ Admit2(p)
    BY <2>1, <2>3 DEF Admit1, Admit2, AfterUnlock
  <2>4. CASE ClaimIdleTurn(p)
    BY <2>1, <2>4 DEF ClaimIdleTurn, AfterUnlock
  <2> QED BY <1>2, <2>2, <2>3, <2>4 DEF CallNext
<1>3. ASSUME NEW s \in Sessions, TurnNext(s) PROVE FALSE
  <2>1. UNCHANGED outbox \/ InsertUserRow(cur[s])
    BY <1>3 DEF TurnNext, DriverStart, DriverLoop, DriverEnd, DriverCancelled, ConsumeMessage,
       TurnLock, TurnLockTimeout, PersistUserMessage, TurnEnd, TurnParked, TurnCancelled, storeVars
  <2> QED BY <1>1, <2>1 DEF InsertUserRow, storeVars
<1>4. ASSUME NEW s \in Sessions, SessionNext(s) PROVE sess'[Target[i]] # "open"
  <2>1. CASE ArchiveDrop(s)
    <3>1. i \in Queued(s)
      BY <1>1, <2>1 DEF ArchiveDrop
    <3>2. Target[i] = s
      BY <3>1 DEF Addressed, Queued
    <3> QED BY <1>1, <2>1, <3>2 DEF ArchiveDrop
  <2>2. CASE ~ArchiveDrop(s)
    BY <1>1, <1>4, <2>2 DEF SessionNext, Interrupt, ResetSession, ResetFinish, ArchiveBegin, ArchiveEnd,
       AutoArchive, DeleteBegin, DeleteEnd, ForkClaim, ForkFail, ForkDone, CancelPark,
       ReleaseParkedQueue, storeVars
  <2> QED BY <2>1, <2>2
<1>5. ASSUME NEW j \in Injections, InjectionNext(j) PROVE sess'[Target[i]] # "open"
  <2>1. sess' = sess
    BY <1>5, InjectionFrame DEF sessVars
  <2>2. CASE outbox' = FailRow(j) /\ ~InMemory(Target[j])
    <3>1. i = j
      BY <1>1, <2>2 DEF FailRow
    <3> QED BY <2>1, <2>2, <3>1 DEF InMemory
  <2>3. CASE EnqueueInjection(j)
    BY <1>1, <2>3 DEF EnqueueInjection
  <2>4. CASE EnqueueDispatch(j) \/ RetryInjection(j) \/ RecoverInjection(j)
    BY <2>2, <2>4 DEF EnqueueDispatch, RetryInjection, RecoverInjection, Dispatch
  <2>5. CASE MaterializeInjection(j)
    BY <1>1, <2>2, <2>5 DEF MaterializeInjection, InsertUserRow, storeVars
  <2> QED BY <1>5, <2>3, <2>4, <2>5 DEF InjectionNext
<1>6. ASSUME UNCHANGED storeVars PROVE FALSE
  BY <1>6 DEF storeVars
<1>7. ProcessNext => UNCHANGED storeVars
  BY ProcessFrame DEF ShutdownInjections, Restart
<1>8. \A r \in Resumes : ~(Wake(r) \/ ResumeParkedTurn(r))
  BY <1>6, ResumeFrame
<1>9. ~UNCHANGED vars
  BY <1>6 DEF vars, storeVars
<1> QED BY <1>2, <1>3, <1>4, <1>5, <1>6, <1>7, <1>8, <1>9 DEF Next

\* Without a deploy, a failed event's session has closed; a session that a
\* stop found half closed is the one that can reopen.
LEMMA FatesStep ==
    ASSUME TypeOK, Spent, Addressed, Fates, [Next]_vars PROVE Fates'
<1>1. /\ Fresh("deploy")' => Fresh("deploy") /\ ~DeployBegin
      /\ Fresh("close")' => /\ Fresh("close")
                            /\ \A s \in Sessions : ~ArchiveBegin(s) /\ ~DeleteBegin(s) /\ ~AutoArchive(s)
      /\ Unstopped' => Unstopped /\ ~Spend("crash") /\ ~Spend("shutdown")
  BY Calm
<1> SUFFICES ASSUME Fresh("deploy")'
             PROVE  /\ deploy' = "idle" /\ ~closed'
                    /\ Unstopped' => phase' = "up"
                    /\ Fresh("close")' => \A s \in Sessions : sess'[s] \in {"open", "archived"}
                    /\ Fresh("close")' \/ Unstopped' => FailedMeansClosed'
  BY DEF Fates
<1>2. /\ deploy = "idle" /\ ~closed
      /\ Unstopped => phase = "up"
      /\ Fresh("close") => \A s \in Sessions : sess[s] \in {"open", "archived"}
      /\ Fresh("close") \/ Unstopped => FailedMeansClosed
  BY <1>1 DEF Fates
<1>3. deploy' = "idle" /\ ~closed'
  <2>1. ProcessNext => deploy' = "idle" /\ ~closed'
    BY <1>1, <1>2 DEF ProcessNext, DeployDrained, DeployClose, DeployCensus, DeployOpen, DeployResume,
       Shutdown, ShutdownInjections, Restart, ReleaseProducers, Deploy, processVars, gateVars
  <2> QED BY <1>2, <2>1, CallFrame, TurnFrame, SessionFrame, InjectionFrame, ResumeFrame
          DEF Next, vars, processVars, gateVars
<1>4. Unstopped' => phase' = "up" /\ ~Restart
  <2> SUFFICES ASSUME Unstopped' PROVE phase' = "up" /\ ~Restart
    OBVIOUS
  <2>1. phase = "up" /\ ~Restart /\ ~Shutdown
    BY <1>1, <1>2 DEF Restart, Shutdown
  <2>2. ProcessNext => phase' = "up"
    BY <2>1 DEF ProcessNext, DeployBegin, DeployDrained, DeployClose, DeployCensus, DeployOpen,
       DeployResume, ShutdownInjections, ReleaseProducers, processVars
  <2> QED BY <2>1, <2>2, CallFrame, TurnFrame, SessionFrame, InjectionFrame, ResumeFrame
          DEF Next, vars, processVars
<1>5. ASSUME Fresh("close")' PROVE \A s \in Sessions : sess'[s] \in {"open", "archived"}
  <2>1. \A s \in Sessions : sess[s] \in {"open", "archived"}
    BY <1>1, <1>2, <1>5
  <2>2. DOMAIN sess = Sessions
    BY DEF TypeOK, SessionsOK
  <2> DEFINE Goal == \A s \in Sessions : sess'[s] \in {"open", "archived"}
  <2>3. ASSUME NEW s \in Sessions, TurnNext(s) PROVE Goal
    BY <2>1, <2>2, <2>3 DEF TurnNext, DriverStart, DriverLoop, DriverEnd, DriverCancelled,
       ConsumeMessage, TurnLock, TurnLockTimeout, PersistUserMessage, TurnEnd, TurnParked,
       TurnCancelled, sessVars
  <2>4. ASSUME NEW s \in Sessions, SessionNext(s) PROVE Goal
    BY <1>1, <1>5, <2>1, <2>2, <2>4 DEF SessionNext, Interrupt, ResetSession, ResetFinish,
       ArchiveDrop, ArchiveEnd, DeleteEnd, ForkClaim, ForkFail, ForkDone, CancelPark,
       ReleaseParkedQueue, sessVars
  <2>5. ProcessNext => Goal
    BY <2>1, ProcessFrame DEF ShutdownInjections, Restart, sessVars
  <2> QED BY <2>1, <2>3, <2>4, <2>5, CallFrame, InjectionFrame, ResumeFrame DEF Next, vars, sessVars
<1>6. ASSUME Fresh("close")' \/ Unstopped', NEW i \in Injections, outbox'[i] = "failed",
             sess'[Target[i]] = "open"
      PROVE  FALSE
  <2>1. Target[i] \in Sessions
    BY TargetAssumption DEF Prompts
  <2>2. outbox[i] = "failed"
    BY <1>2, <1>6, FailsFor
  <2>3. sess[Target[i]] # "open"
    BY <1>1, <1>2, <1>6, <2>2 DEF FailedMeansClosed
  <2>4. Restart
    BY <1>6, <2>1, <2>3, OpenStays
  <2>5. sess[Target[i]] = "archived"
    BY <1>1, <1>2, <1>4, <1>6, <2>1, <2>3, <2>4
  <2> QED BY <1>6, <2>1, <2>4, <2>5 DEF Restart
<1>7. Fresh("close")' \/ Unstopped' => FailedMeansClosed'
  BY <1>6 DEF FailedMeansClosed
<1> QED BY <1>3, <1>4, <1>5, <1>7

--------------------------------------------------------------------------------
(* The promises *)

\* Nothing is broken before anything has happened.
LEMMA InvariantInit == Init => Invariant
<1> SUFFICES ASSUME Init PROVE Invariant
  OBVIOUS
<1>1. \A p \in Prompts : pc[p] = "idle"
  BY DEF Init
<1>2. /\ \A s \in Sessions : /\ driver[s] = "none" /\ cur[s] = "none" /\ queue[s] = <<>>
                             /\ sess[s] = "open" /\ ~resetting[s] /\ ~parked[s] /\ ~releasing[s]
                             /\ ~forking[s] /\ ~cancelling[s] /\ ~archReq[s]
      /\ \A i \in Injections : outbox[i] = "none"
      /\ gate = "free" /\ closed = FALSE /\ deploy = "idle" /\ phase = "up" /\ enabled
      /\ claimed = {} /\ recovering = {} /\ left = Budget
  BY DEF Init
<1>3. /\ \A i \in Injections : i \in Prompts /\ Target[i] \in Sessions /\ i # "none"
      /\ \A p \in Prompts : p # "free" /\ p # "none"
      /\ Workers \subseteq Prompts /\ Pending = {} /\ "idle" \notin Stages
  BY <1>2, TargetAssumption, PromptsAreNotMarks DEF Prompts, Pending, Stages
<1>4. Spent /\ Locking /\ Gating /\ Unparked
  <2>1. Spent
    BY <1>2, BudgetAssumption DEF Spent
  <2> QED BY <1>1, <1>2, <1>3, <2>1 DEF Locking, TurnHoldsLock, Gating, Unparked
<1>5. Forks /\ Committed /\ Driving
  BY <1>1, <1>2, <1>3 DEF Forks, Committed, Driving, Live
<1>6. \A i \in Injections : ~InPipe(i)
  BY <1>1, <1>2, <1>3 DEF InPipe, Here, Queued
<1>7. Addressed /\ Written /\ Holding
  BY <1>2, <1>3, <1>6 DEF Addressed, Written, Holding, Queued
<1>8. Piped /\ Held
  BY <1>2, <1>3 DEF Piped, QueuedOnce, Held, PendingIsHeld
<1>9. Driven /\ Fates
  BY <1>2, <1>3 DEF Driven, Fates, FailedMeansClosed
<1> QED BY <1>4, <1>5, <1>7, <1>8, <1>9 DEF Invariant

\* No step breaks it.
LEMMA InvariantNext == TypeOK /\ Invariant /\ [Next]_vars => Invariant'
<1> SUFFICES ASSUME TypeOK, Invariant, [Next]_vars PROVE Invariant'
  OBVIOUS
<1> USE DEF Invariant
<1>1. Spent' /\ Locking' /\ Gating' /\ Unparked'
  BY Budgets, LockingStep, GatingStep, UnparkedStep
<1>2. Forks' /\ Committed' /\ Driving'
  BY ForksStep, CommittedStep, DrivingStep
<1>3. Addressed' /\ Written' /\ Holding' /\ Held'
  BY AddressedStep, WrittenStep, HoldingStep, HeldStep
<1>4. Piped' /\ Driven' /\ Fates'
  BY PipedStep, DrivenStep, FatesStep
<1> QED BY <1>1, <1>2, <1>3, <1>4

\* It holds of every reachable state.
LEMMA InvariantAlways == Spec => []Invariant
BY InvariantInit, InvariantNext, TypeCorrect, PTL DEF Spec

\* The transcript is written and the backend runs under the session lock, in
\* every history without a forced release (interrupt of a wedged session, reset).
THEOREM LockIsKept == Spec => [](Unforced => TurnHoldsLock)
<1>1. Invariant => (Unforced => TurnHoldsLock)
  BY DEF Invariant, Locking
<1> QED BY <1>1, InvariantAlways, PTL

\* With the lock kept, _dispatched_injection_ids does prevent an event from
\* being queued twice or queued behind its own running attempt.
THEOREM ClaimedOnce == Spec => [](Unforced => QueuedOnce)
<1>1. Invariant => (Unforced => QueuedOnce)
  BY DEF Invariant, Piped
<1> QED BY <1>1, InvariantAlways, PTL

\* Short of a reset, interrupts, failed and cancelled turns, closes, drains,
\* parks, shutdowns and crashes never leave a pending event of an open session in
\* nobody's hands: whoever lets go of the claim leaves a retry or a listing.
THEOREM NobodyStrands == Spec => [](Fresh("reset") => PendingIsHeld)
<1>1. Invariant => (Fresh("reset") => PendingIsHeld)
  BY DEF Invariant, Held
<1> QED BY <1>1, InvariantAlways, PTL

\* A fork keeps every turn out: its check under the lock and the check of
\* claim_idle_turn exclude each other as long as the lock is kept and
\* release_parked_queue, which makes neither, has no park to cancel.
THEOREM ForkKeepsTurnsOut == Spec => [](Unforced /\ Fresh("park") => NoTurnWhileForking)
<1>1. Invariant => (Unforced /\ Fresh("park") => NoTurnWhileForking)
  BY DEF Invariant, Forks, NoTurnWhileForking
<1> QED BY <1>1, InvariantAlways, PTL

\* Nothing starts between the census and the hand-over, resets and interrupts
\* included; only the cancellation of a park goes round the gate.
THEOREM CensusHolds == Spec => [](Fresh("park") => CommittedIsQuiet)
<1>1. Invariant => (Fresh("park") => CommittedIsQuiet)
  BY DEF Invariant, Committed, CommittedIsQuiet
<1> QED BY <1>1, InvariantAlways, PTL

\* Only follow_up_delegation waits for a session lock with the gate in hand:
\* without it gate and session locks cannot block each other.
THEOREM GateWaitsForNobody == Spec => [](FollowUps = {} => NoGateCycle)
<1>1. Invariant => (FollowUps = {} => NoGateCycle)
  BY DEF Invariant, Gating, NoGateCycle
<1> QED BY <1>1, InvariantAlways, PTL

\* A prompt accepted behind a turn is driven, unless the idle hook (a notifier
\* or a transient session's end), a reset or a park comes between.
THEOREM QueueHasDriver ==
    Spec => [](~NotifierWired /\ Transient = {} /\ Fresh("reset") /\ Fresh("park") => QueueIsDriven)
<1>1. Invariant => (~NotifierWired /\ Transient = {} /\ Fresh("reset") /\ Fresh("park") => QueueIsDriven)
  BY DEF Invariant, Driven, QueueIsDriven
<1> QED BY <1>1, InvariantAlways, PTL

\* An event is failed only for a session that is closing or closed: refusals
\* need a deploy, and only a stop in the middle of a close reopens a session.
THEOREM FailureIsClosure ==
    Spec => [](Fresh("deploy") /\ (Fresh("close") \/ Unstopped) => FailedMeansClosed)
<1>1. Invariant => (Fresh("deploy") /\ (Fresh("close") \/ Unstopped) => FailedMeansClosed)
  BY DEF Invariant, Fates
<1> QED BY <1>1, InvariantAlways, PTL
================================================================================
