-------------------------- MODULE SessionTurns_proofs --------------------------
(***************************************************************************)
(* What holds of SessionTurns for every set of sessions, prompts and       *)
(* intents and every budget: its types, and that the turn machinery        *)
(* implements the outbox it promises its producers.  One lemma says what   *)
(* each helper does, then each action is taken in turn.                    *)
(***************************************************************************)
EXTENDS SessionTurns, TLAPS

--------------------------------------------------------------------------------
(* The helpers *)

\* A disturbance leaves every budget a natural number.
LEMMA SpendType ==
    ASSUME TypeOK, NEW k \in Kinds, Spend(k)
    PROVE  left' \in [Kinds -> Nat]
BY DEF TypeOK, ProcessOK, Spend, Kinds

\* A release leaves a lock free, a departure leaves the gate to its holder.
LEMMA UnlockedType ==
    ASSUME TypeOK, NEW s \in Sessions, NEW p \in Prompts
    PROVE  /\ Unlocked(s) \in [Sessions -> Prompts \cup {"free", "turn"}]
           /\ GateLeft(p) \in Prompts \cup {"free"}
           /\ GateAfterBusyCheck(p) \in Prompts \cup {"free"}
BY DEF TypeOK, LocksOK, Unlocked, GateLeft, GateAfterBusyCheck

\* Failing a row keeps the outbox typed.
LEMMA FailRowType ==
    ASSUME TypeOK, NEW i \in Injections
    PROVE  FailRow(i) \in [Injections -> {"none", "pending", "delivered", "failed", "erased"}]
BY DEF TypeOK, StoreOK, FailRow

\* The end of start_message touches the call, its claim and its row.
LEMMA EndCallType ==
    ASSUME TypeOK, NEW p \in Prompts, NEW result, EndCall(p, result)
    PROVE  CallsOK' /\ StoreOK' /\ ClaimsOK'
<1>1. CallsOK'
  BY DEF TypeOK, CallsOK, EndCall, Prompts
<1>2. StoreOK'
  BY FailRowType DEF TypeOK, StoreOK, EndCall
<1>3. ClaimsOK'
  BY DEF TypeOK, ClaimsOK, EndCall
<1> QED BY <1>1, <1>2, <1>3

\* The driver's next move keeps the queue a queue of prompts.
LEMMA DriverNextType ==
    ASSUME TypeOK, NEW s \in Sessions, NEW end, DriverNext(s, end)
    PROVE  /\ queue' \in [Sessions -> Seq(Prompts)]
           /\ driver' \in [Sessions -> DriverStates]
           /\ cur' \in [Sessions -> Prompts \cup {"none"}]
           /\ ClaimsOK'
<1>1. ClaimsOK'
  BY DEF TypeOK, ClaimsOK, DriverNext, Redo
<1>2. CASE Drains(s, end)
  <2>1. queue[s] \in Seq(Prompts) /\ queue[s] # <<>>
    BY <1>2 DEF TypeOK, TurnsOK, Drains
  <2>2. Head(queue[s]) \in Prompts /\ Tail(queue[s]) \in Seq(Prompts)
    BY <2>1
  <2> QED BY <1>1, <1>2, <2>2 DEF TypeOK, TurnsOK, DriverNext, DriverStates
<1>3. CASE ~Drains(s, end)
  BY <1>1, <1>3 DEF TypeOK, TurnsOK, DriverNext, DriverStates
<1> QED BY <1>2, <1>3

\* A transcript row is counted, its intent acknowledged.
LEMMA InsertUserRowType ==
    ASSUME TypeOK, NEW c, InsertUserRow(c)
    PROVE  StoreOK'
BY DEF TypeOK, StoreOK, InsertUserRow, storeVars

\* Forgetting a dispatch drops what a retry task holds.
LEMMA ForgetDispatchType ==
    ASSUME TypeOK, NEW c \in Prompts \cup {"none"}, ForgetDispatch(c)
    PROVE  /\ CallsOK' /\ ClaimsOK' /\ gate' \in Prompts \cup {"free"}
           /\ lock' \in [Sessions -> Prompts \cup {"free", "turn"}]
<1>1. CASE c \notin Injections
  BY <1>1 DEF TypeOK, CallsOK, ClaimsOK, LocksOK, ForgetDispatch, callVars, claimVars
<1>2. CASE c \in Injections
  <2>1. c \in Prompts /\ Target[c] \in Sessions
    BY <1>2, TargetAssumption DEF Prompts
  <2>2. CallsOK' /\ ClaimsOK'
    BY <1>2, <2>1 DEF TypeOK, CallsOK, ClaimsOK, ForgetDispatch
  <2>3. /\ gate' \in Prompts \cup {"free"}
        /\ lock' \in [Sessions -> Prompts \cup {"free", "turn"}]
    BY <1>2, <2>1, UnlockedType DEF TypeOK, LocksOK, ForgetDispatch
  <2> QED BY <2>2, <2>3
<1> QED BY <1>1, <1>2

\* A dispatch starts a call, fails the row of a closed session, or does nothing.
LEMMA DispatchType ==
    ASSUME TypeOK, NEW i \in Injections, NEW who \in {"producer", "retry", "recover"},
           Dispatch(i, who)
    PROVE  /\ CallsOK' /\ claimed' \subseteq Injections
           /\ outbox' \in [Injections -> {"none", "pending", "delivered", "failed", "erased"}]
<1>1. i \in Prompts
  BY DEF Prompts
<1>2. CallsOK'
  BY <1>1 DEF TypeOK, CallsOK, Dispatch
<1>3. claimed' \subseteq Injections
  BY DEF TypeOK, ClaimsOK, Dispatch
<1>4. outbox' \in [Injections -> {"none", "pending", "delivered", "failed", "erased"}]
  BY FailRowType DEF TypeOK, StoreOK, Dispatch
<1> QED BY <1>2, <1>3, <1>4

--------------------------------------------------------------------------------
(* Types, action by action *)

\* start_message keeps the types.
LEMMA CallTypes ==
    ASSUME TypeOK, NEW p \in Prompts, CallNext(p)
    PROVE  TypeOK'
<1> USE TargetAssumption DEF TypeOK, CallsOK, LocksOK, TurnsOK, SessionsOK, StoreOK, ClaimsOK, ProcessOK,
                              callVars, gateVars, turnVars, sessVars, storeVars, claimVars, processVars
<1>1. CASE Submit(p)
  BY <1>1 DEF Submit
<1>2. CASE Admit1(p)
  BY ZenonT(60), <1>2, EndCallType DEF Admit1
<1>3. CASE EnqueueIfBusy(p)
  <2> DEFINE s == Target[p]
  <2>1. CASE Busy(s)
    <3>1. Append(queue[s], p) \in Seq(Prompts)
      OBVIOUS
    <3>2. CallsOK' /\ StoreOK' /\ ClaimsOK'
      BY <1>3, <2>1, EndCallType DEF EnqueueIfBusy
    <3>3. queue' \in [Sessions -> Seq(Prompts)]
      BY <1>3, <2>1, <3>1 DEF EnqueueIfBusy
    <3>4. LocksOK'
      BY <1>3, <2>1, UnlockedType DEF EnqueueIfBusy
    <3> QED BY <1>3, <3>2, <3>3, <3>4 DEF EnqueueIfBusy
  <2>2. CASE ~Busy(s)
    <3>1. CallsOK'
      BY ZenonT(60), <1>3, <2>2 DEF EnqueueIfBusy
    <3>2. LocksOK'
      <4>1. gate' \in Prompts \cup {"free"}
        BY <1>3, <2>2, UnlockedType DEF EnqueueIfBusy
      <4>2. lock' \in [Sessions -> Prompts \cup {"free", "turn"}]
        <5>1. lock' \in {lock, [lock EXCEPT ![s] = p]}
          BY <1>3, <2>2 DEF EnqueueIfBusy
        <5> QED BY <5>1
      <4> QED BY <1>3, <4>1, <4>2 DEF EnqueueIfBusy
    <3> QED BY <1>3, <2>2, <3>1, <3>2 DEF EnqueueIfBusy
  <2> QED BY <2>1, <2>2
<1>4. CASE AcquireSessionLock(p)
  BY <1>4 DEF AcquireSessionLock
<1>5. CASE Admit2(p)
  <2> DEFINE s == Target[p]
  <2>1. CASE pc' = [pc EXCEPT ![p] = "claim"]
    BY <1>5, <2>1, EndCallType, UnlockedType DEF Admit2
  <2>2. ASSUME NEW why, EndCall(p, why), lock' = Unlocked(s), gate' = GateLeft(p)
        PROVE  TypeOK'
    <3>1. CallsOK' /\ StoreOK' /\ ClaimsOK'
      BY <2>2, EndCallType
    <3> QED BY <1>5, <2>2, <3>1, UnlockedType DEF Admit2
  <2> QED BY <1>5, <2>1, <2>2 DEF Admit2
<1>6. CASE ClaimIdleTurn(p)
  <2> DEFINE s == Target[p]
  <2>1. CallsOK' /\ StoreOK' /\ ClaimsOK'
    BY <1>6, EndCallType DEF ClaimIdleTurn
  <2>2. Append(queue[s], p) \in Seq(Prompts)
    OBVIOUS
  <2>3. queue' \in [Sessions -> Seq(Prompts)]
    BY <1>6, <2>2 DEF ClaimIdleTurn
  <2>4. cur' \in [Sessions -> Prompts \cup {"none"}]
    BY ZenonT(60), <1>6 DEF ClaimIdleTurn
  <2>5. driver' \in [Sessions -> DriverStates]
    BY <1>6 DEF ClaimIdleTurn, DriverStates
  <2> QED BY <1>6, <2>1, <2>3, <2>4, <2>5, UnlockedType DEF ClaimIdleTurn
<1> QED BY <1>1, <1>2, <1>3, <1>4, <1>5, <1>6 DEF CallNext

\* The driver and its inner task keep the types.
LEMMA TurnTypes ==
    ASSUME TypeOK, NEW s \in Sessions, TurnNext(s)
    PROVE  TypeOK'
<1> USE TargetAssumption DEF TypeOK, CallsOK, LocksOK, TurnsOK, SessionsOK, StoreOK, ClaimsOK, ProcessOK,
                              callVars, gateVars, turnVars, sessVars, storeVars, claimVars, processVars
<1>1. CASE DriverStart(s)
  <2>1. driver' \in [Sessions -> DriverStates]
    <3>1. \E d \in {"created", "none"} : driver' = [driver EXCEPT ![s] = d]
      BY <1>1 DEF DriverStart
    <3> QED BY <3>1 DEF DriverStates, InnerStates
  <2>2. cur' \in [Sessions -> Prompts \cup {"none"}]
    BY <1>1 DEF DriverStart
  <2> QED BY <1>1, <2>1, <2>2 DEF DriverStart
<1>2. CASE DriverLoop(s)
  BY <1>2 DEF DriverLoop, DriverStates, InnerStates
<1>3. CASE DriverEnd(s)
  BY <1>3 DEF DriverEnd, DriverStates
<1>4. CASE DriverCancelled(s)
  BY <1>4 DEF DriverCancelled, DriverStates
<1>5. CASE ConsumeMessage(s)
  BY ZenonT(60), <1>5, DriverNextType DEF ConsumeMessage, DriverStates, InnerStates
<1>6. CASE TurnLock(s)
  BY <1>6 DEF TurnLock, DriverStates, InnerStates
<1>7. CASE TurnLockTimeout(s)
  BY <1>7, DriverNextType, SpendType DEF TurnLockTimeout, Kinds
<1>8. CASE PersistUserMessage(s)
  <2>1. CASE MayPersist(s)
    <3>1. CallsOK' /\ LocksOK' /\ StoreOK' /\ ClaimsOK'
      BY <1>8, <2>1, InsertUserRowType, ForgetDispatchType DEF PersistUserMessage
    <3>2. TurnsOK'
      BY ZenonT(60), <1>8, <2>1 DEF PersistUserMessage, DriverStates, InnerStates
    <3> QED BY <1>8, <3>1, <3>2 DEF PersistUserMessage
  <2>2. CASE ~MayPersist(s)
    BY ZenonT(60), <1>8, <2>2, DriverNextType DEF PersistUserMessage, Unlocked
  <2> QED BY <2>1, <2>2
<1>9. CASE TurnEnd(s)
  BY <1>9, DriverNextType DEF TurnEnd, Unlocked
<1>10. CASE TurnParked(s)
  BY ZenonT(60), <1>10, DriverNextType, SpendType DEF TurnParked, Unlocked, Kinds
<1>11. CASE TurnCancelled(s)
  BY SMTT(30), <1>11, DriverNextType, InsertUserRowType DEF TurnCancelled, Unlocked
<1> QED BY <1>1, <1>2, <1>3, <1>4, <1>5, <1>6, <1>7, <1>8, <1>9, <1>10, <1>11 DEF TurnNext

\* What is done to a session keeps the types.
LEMMA SessionTypes ==
    ASSUME TypeOK, NEW s \in Sessions, SessionNext(s)
    PROVE  TypeOK'
<1> USE TargetAssumption DEF TypeOK, CallsOK, LocksOK, TurnsOK, SessionsOK, StoreOK, ClaimsOK, ProcessOK,
                              callVars, gateVars, turnVars, sessVars, storeVars, claimVars, processVars
<1>1. CASE Interrupt(s)
  <2>1. left' \in [Kinds -> Nat]
    BY <1>1, SpendType DEF Interrupt, Kinds
  <2>2. LocksOK'
    <3>1. lock' = lock \/ lock' = Unlocked(s)
      BY <1>1 DEF Interrupt
    <3>2. lock' \in [Sessions -> Prompts \cup {"free", "turn"}]
      BY <3>1 DEF Unlocked
    <3> QED BY <1>1, <3>2 DEF Interrupt
  <2>3. TurnsOK'
    BY <1>1 DEF Interrupt
  <2> QED BY <1>1, <2>1, <2>2, <2>3 DEF Interrupt
<1>2. CASE ResetSession(s)
  <2>1. left' \in [Kinds -> Nat]
    BY <1>2, SpendType DEF ResetSession, Kinds
  <2>2. TurnsOK'
    BY <1>2 DEF ResetSession, CancelDriver, Live
  <2>3. ClaimsOK'
    BY <1>2 DEF ResetSession
  <2>4. LocksOK' /\ SessionsOK'
    BY <1>2 DEF ResetSession, Unlocked
  <2> QED BY <1>2, <2>1, <2>2, <2>3, <2>4 DEF ResetSession
<1>3. CASE ResetFinish(s)
  BY <1>3 DEF ResetFinish, Unlocked
<1>4. CASE ArchiveBegin(s)
  BY <1>4, SpendType DEF ArchiveBegin, Kinds, CancelDriver, Live
<1>5. CASE ArchiveDrop(s)
  BY <1>5 DEF ArchiveDrop
<1>6. CASE ArchiveEnd(s)
  BY <1>6 DEF ArchiveEnd
<1>7. CASE AutoArchive(s)
  <2>1. left' \in [Kinds -> Nat]
    BY <1>7, SpendType DEF AutoArchive, Kinds
  <2>2. SessionsOK'
    BY ZenonT(60), <1>7 DEF AutoArchive
  <2> QED BY <1>7, <2>1, <2>2 DEF AutoArchive
<1>8. CASE DeleteBegin(s)
  <2>1. left' \in [Kinds -> Nat]
    BY <1>8, SpendType DEF DeleteBegin, Kinds
  <2>2. TurnsOK'
    BY <1>8 DEF DeleteBegin, CancelDriver, Live
  <2>3. ClaimsOK'
    BY <1>8 DEF DeleteBegin
  <2> QED BY <1>8, <2>1, <2>2, <2>3 DEF DeleteBegin
<1>9. CASE DeleteEnd(s)
  BY <1>9 DEF DeleteEnd
<1>10. CASE ForkClaim(s)
  BY <1>10, SpendType DEF ForkClaim, Kinds
<1>11. CASE ForkFail(s)
  BY <1>11 DEF ForkFail
<1>12. CASE ForkDone(s)
  BY <1>12 DEF ForkDone, CancelDriver, Live
<1>13. CASE CancelPark(s)
  BY <1>13 DEF CancelPark
<1>14. CASE ReleaseParkedQueue(s)
  <2>1. CASE queue[s] = <<>> \/ UNCHANGED <<queue, driver, cur>>
    BY <1>14, <2>1 DEF ReleaseParkedQueue
  <2>2. CASE queue[s] # <<>>
    <3>1. Head(queue[s]) \in Prompts /\ Tail(queue[s]) \in Seq(Prompts)
      BY <2>2
    <3>2. queue' \in [Sessions -> Seq(Prompts)]
      BY <1>14, <3>1 DEF ReleaseParkedQueue
    <3>3. cur' \in [Sessions -> Prompts \cup {"none"}]
      BY ZenonT(60), <1>14, <3>1 DEF ReleaseParkedQueue
    <3>4. driver' \in [Sessions -> DriverStates]
      BY <1>14 DEF ReleaseParkedQueue, DriverStates
    <3> QED BY <1>14, <3>2, <3>3, <3>4 DEF ReleaseParkedQueue
  <2> QED BY <2>1, <2>2
<1> QED BY <1>1, <1>2, <1>3, <1>4, <1>5, <1>6, <1>7, <1>8, <1>9, <1>10, <1>11, <1>12, <1>13, <1>14 DEF SessionNext

\* The outbox's operations keep the types.
LEMMA InjectionTypes ==
    ASSUME TypeOK, NEW i \in Injections, InjectionNext(i)
    PROVE  TypeOK'
<1> USE TargetAssumption DEF TypeOK, CallsOK, LocksOK, TurnsOK, SessionsOK, StoreOK, ClaimsOK, ProcessOK,
                              callVars, gateVars, turnVars, sessVars, storeVars, claimVars, processVars
<1>1. CASE EnqueueInjection(i)
  BY ZenonT(60), <1>1, SpendType DEF EnqueueInjection, Kinds, Prompts
<1>2. CASE EnqueueDispatch(i)
  BY ZenonT(60), <1>2, DispatchType DEF EnqueueDispatch, Prompts
<1>3. CASE RetryInjection(i)
  <2>1. CallsOK' /\ StoreOK' /\ claimed' \subseteq Injections
    <3>1. CASE Dispatch(i, "retry")
      BY <1>3, <3>1, DispatchType DEF RetryInjection
    <3>2. CASE UNCHANGED <<callVars, claimed, outbox>>
      BY <1>3, <3>2 DEF RetryInjection
    <3> QED BY <1>3, <3>1, <3>2 DEF RetryInjection
  <2>2. retry' \in [Injections -> BOOLEAN]
    BY <1>3 DEF RetryInjection
  <2> QED BY <1>3, <2>1, <2>2 DEF RetryInjection
<1>4. CASE RecoverInjection(i)
  BY <1>4, DispatchType DEF RecoverInjection
<1>5. CASE MaterializeInjection(i)
  BY SMTT(30), <1>5, InsertUserRowType, FailRowType DEF MaterializeInjection
<1> QED BY <1>1, <1>2, <1>3, <1>4, <1>5 DEF InjectionNext

\* A wake and the resume it calls keep the types.
LEMMA ResumeTypes ==
    ASSUME TypeOK, NEW r \in Resumes, Wake(r) \/ ResumeParkedTurn(r)
    PROVE  TypeOK'
<1> USE TargetAssumption DEF TypeOK, CallsOK, LocksOK, TurnsOK, SessionsOK, StoreOK, ClaimsOK, ProcessOK,
                              callVars, gateVars, turnVars, sessVars, storeVars, claimVars, processVars
<1>1. CASE Wake(r)
  BY <1>1 DEF Wake, Prompts
<1>2. CASE ResumeParkedTurn(r)
  BY <1>2 DEF ResumeParkedTurn, Prompts
<1> QED BY <1>1, <1>2 DEF Prompts

\* Deploys, shutdown, crash and boot keep the types.
LEMMA ProcessTypes ==
    ASSUME TypeOK, ProcessNext
    PROVE  TypeOK'
<1> USE TargetAssumption DEF TypeOK, CallsOK, LocksOK, TurnsOK, SessionsOK, StoreOK, ClaimsOK, ProcessOK,
                              callVars, gateVars, turnVars, sessVars, storeVars, claimVars, processVars
<1>1. CASE DeployBegin
  BY <1>1, SpendType DEF DeployBegin, Deploy, Kinds
<1>2. CASE DeployDrained
  BY <1>2 DEF DeployDrained, Deploy
<1>3. CASE DeployClose
  BY <1>3 DEF DeployClose, Deploy
<1>4. CASE DeployCensus
  BY <1>4 DEF DeployCensus, Deploy
<1>5. CASE DeployOpen
  BY <1>5 DEF DeployOpen, Deploy
<1>6. CASE DeployResume
  BY <1>6 DEF DeployResume, Deploy, ResumeDispatch, Pending
<1>7. CASE Shutdown
  BY <1>7, SpendType DEF Shutdown, Kinds
<1>8. CASE ShutdownInjections
  BY <1>8 DEF ShutdownInjections
<1>9. CASE Restart
  <2>1. left' \in [Kinds -> Nat]
    BY <1>9, SpendType DEF Restart, Kinds
  <2>2. CallsOK'
    BY <1>9 DEF Restart
  <2>3. TurnsOK'
    BY <1>9 DEF Restart, DriverStates
  <2>4. LocksOK' /\ SessionsOK' /\ ClaimsOK'
    BY <1>9 DEF Restart
  <2> QED BY <1>9, <2>1, <2>2, <2>3, <2>4 DEF Restart
<1>10. CASE ReleaseProducers
  BY <1>10 DEF ReleaseProducers, ResumeDispatch, Pending
<1> QED BY <1>1, <1>2, <1>3, <1>4, <1>5, <1>6, <1>7, <1>8, <1>9, <1>10 DEF ProcessNext

\* A reachable state is typed: the constants' assumptions are all it needs.
THEOREM TypeCorrect == Spec => []TypeOK
<1>1. Init => TypeOK
  <2> SUFFICES ASSUME Init PROVE TypeOK
    OBVIOUS
  <2> USE DEF Init
  <2>1. CallsOK /\ LocksOK /\ StoreOK /\ ClaimsOK
    BY DEF CallsOK, LocksOK, StoreOK, ClaimsOK
  <2>2. TurnsOK
    BY DEF TurnsOK, DriverStates
  <2>3. SessionsOK
    BY DEF SessionsOK
  <2>4. ProcessOK
    BY BudgetAssumption DEF ProcessOK
  <2> QED BY <2>1, <2>2, <2>3, <2>4 DEF TypeOK
<1>2. TypeOK /\ [Next]_vars => TypeOK'
  <2> SUFFICES ASSUME TypeOK, [Next]_vars PROVE TypeOK'
    OBVIOUS
  <2>1. CASE \E p \in Prompts : CallNext(p)
    BY <2>1, CallTypes
  <2>2. CASE \E s \in Sessions : TurnNext(s) \/ SessionNext(s)
    BY <2>2, TurnTypes, SessionTypes
  <2>3. CASE \E i \in Injections : InjectionNext(i)
    BY <2>3, InjectionTypes
  <2>4. CASE \E r \in Resumes : Wake(r) \/ ResumeParkedTurn(r)
    BY <2>4, ResumeTypes
  <2>5. CASE ProcessNext
    BY <2>5, ProcessTypes
  <2>6. CASE UNCHANGED vars
    BY <2>6 DEF vars, TypeOK, CallsOK, LocksOK, TurnsOK, SessionsOK, StoreOK, ClaimsOK,
                ProcessOK
  <2> QED BY <2>1, <2>2, <2>3, <2>4, <2>5, <2>6 DEF Next
<1> QED BY <1>1, <1>2, PTL DEF Spec

--------------------------------------------------------------------------------
(* The outbox, action by action: what the machinery does to the two tables *)
(* is a step of InjectionOutbox or nothing.                                *)

OutboxStep == [Outbox!Next]_<<outbox, rows>>

\* Leaving both tables alone is no step.
LEMMA StutterStep == ASSUME UNCHANGED storeVars PROVE OutboxStep
BY DEF OutboxStep, storeVars

\* fail_session_injection fails a pending row and touches no other.
LEMMA FailRowStep ==
    ASSUME TypeOK, NEW i \in Injections, outbox' = FailRow(i), UNCHANGED rows
    PROVE  OutboxStep
<1>1. CASE outbox[i] = "pending"
  <2>1. Outbox!Fail({i})
    BY <1>1 DEF Outbox!Fail, FailRow, TypeOK, StoreOK
  <2> QED BY <2>1 DEF OutboxStep, Outbox!Next
<1>2. CASE outbox[i] # "pending"
  BY <1>2 DEF OutboxStep, FailRow, TypeOK, StoreOK
<1> QED BY <1>1, <1>2

\* Whatever start_message answers, its row is failed or left alone.
LEMMA EndCallStep ==
    ASSUME TypeOK, NEW p \in Prompts, NEW result, EndCall(p, result)
    PROVE  OutboxStep
<1>1. CASE p \in Injections /\ ~(result = "ok" \/ Retries(result))
  BY <1>1, FailRowStep DEF EndCall
<1>2. CASE ~(p \in Injections /\ ~(result = "ok" \/ Retries(result)))
  BY <1>2, StutterStep DEF EndCall, storeVars
<1> QED BY <1>1, <1>2

\* A dispatch fails the row of a closed session or leaves the tables alone.
LEMMA DispatchStep ==
    ASSUME TypeOK, NEW i \in Injections, NEW who, Dispatch(i, who), UNCHANGED rows
    PROVE  OutboxStep
<1>1. CASE outbox' = FailRow(i)
  BY <1>1, FailRowStep
<1>2. CASE UNCHANGED outbox
  BY <1>2, StutterStep DEF storeVars
<1> QED BY <1>1, <1>2 DEF Dispatch

\* The row of a pending intent is its delivery; a user's row is nobody's.
LEMMA InsertUserRowStep ==
    ASSUME NEW c, InsertUserRow(c), c \in Injections => outbox[c] = "pending"
    PROVE  OutboxStep
<1>1. CASE c \in Injections
  BY <1>1 DEF InsertUserRow, OutboxStep, Outbox!Next, Outbox!Deliver
<1>2. CASE c \notin Injections
  BY <1>2, StutterStep DEF InsertUserRow
<1> QED BY <1>1, <1>2

\* Calls touch the tables only where they end.
LEMMA CallOutbox ==
    ASSUME TypeOK, NEW p \in Prompts, CallNext(p) PROVE OutboxStep
<1>1. CASE UNCHANGED storeVars
  BY <1>1, StutterStep
<1>2. CASE \E result : EndCall(p, result)
  BY <1>2, EndCallStep
<1>3. Submit(p) \/ AcquireSessionLock(p) => UNCHANGED storeVars
  BY DEF Submit, AcquireSessionLock
<1>4. Admit1(p) \/ EnqueueIfBusy(p) => UNCHANGED storeVars \/ \E result : EndCall(p, result)
  BY DEF Admit1, EnqueueIfBusy
<1>5. Admit2(p) => UNCHANGED storeVars \/ \E result : EndCall(p, result)
  BY DEF Admit2
<1>6. ClaimIdleTurn(p) => \E result : EndCall(p, result)
  BY DEF ClaimIdleTurn
<1> QED BY <1>1, <1>2, <1>3, <1>4, <1>5, <1>6 DEF CallNext

\* A turn touches them in one statement, when its user row is written.
LEMMA TurnOutbox ==
    ASSUME TypeOK, NEW s \in Sessions, TurnNext(s) PROVE OutboxStep
<1>1. CASE PersistUserMessage(s)
  <2>1. CASE MayPersist(s)
    BY <1>1, <2>1, InsertUserRowStep DEF PersistUserMessage, MayPersist
  <2>2. CASE ~MayPersist(s)
    BY <1>1, <2>2, StutterStep DEF PersistUserMessage
  <2> QED BY <2>1, <2>2
<1>2. CASE TurnCancelled(s)
  <2>1. CASE MayPersist(s) /\ InsertUserRow(cur[s])
    BY <2>1, InsertUserRowStep DEF MayPersist
  <2> QED BY <1>2, <2>1, StutterStep DEF TurnCancelled
<1>3. CASE DriverStart(s) \/ DriverLoop(s) \/ DriverEnd(s) \/ DriverCancelled(s)
  BY <1>3, StutterStep DEF DriverStart, DriverLoop, DriverEnd, DriverCancelled
<1>4. CASE ConsumeMessage(s) \/ TurnLock(s) \/ TurnLockTimeout(s)
  BY <1>4, StutterStep DEF ConsumeMessage, TurnLock, TurnLockTimeout
<1>5. CASE TurnEnd(s) \/ TurnParked(s)
  BY <1>5, StutterStep DEF TurnEnd, TurnParked
<1> QED BY <1>1, <1>2, <1>3, <1>4, <1>5 DEF TurnNext

\* An archive fails what was queued, a delete erases what was addressed to it.
LEMMA SessionOutbox ==
    ASSUME TypeOK, NEW s \in Sessions, SessionNext(s) PROVE OutboxStep
<1>1. CASE ArchiveDrop(s)
  <2> DEFINE F == Queued(s) \cap Injections \cap Pending
  <2>1. CASE F = {}
    <3>1. outbox' = outbox
      BY <1>1, <2>1 DEF ArchiveDrop, TypeOK, StoreOK
    <3> QED BY <1>1, <3>1, StutterStep DEF ArchiveDrop, storeVars
  <2>2. CASE F # {}
    <3>1. F \in SUBSET Injections /\ Outbox!Fail(F)
      BY <1>1, <2>2 DEF ArchiveDrop, Outbox!Fail, Pending
    <3> QED BY <3>1 DEF OutboxStep, Outbox!Next
  <2> QED BY <2>1, <2>2
<1>2. CASE DeleteEnd(s)
  <2>1. CASE TargetOf(s) = {}
    <3>1. outbox' = outbox /\ rows' = rows
      BY <1>2, <2>1 DEF DeleteEnd, TypeOK, StoreOK
    <3> QED BY <3>1, StutterStep DEF storeVars
  <2>2. CASE TargetOf(s) # {}
    <3>1. TargetOf(s) \in SUBSET Injections /\ Outbox!Erase(TargetOf(s))
      BY <1>2, <2>2 DEF DeleteEnd, Outbox!Erase, TargetOf
    <3> QED BY <3>1 DEF OutboxStep, Outbox!Next
  <2> QED BY <2>1, <2>2
<1>3. CASE Interrupt(s) \/ ResetSession(s) \/ ResetFinish(s) \/ ArchiveBegin(s)
  BY <1>3, StutterStep DEF Interrupt, ResetSession, ResetFinish, ArchiveBegin
<1>4. CASE ArchiveEnd(s) \/ AutoArchive(s) \/ DeleteBegin(s)
  BY <1>4, StutterStep DEF ArchiveEnd, AutoArchive, DeleteBegin
<1>5. CASE ForkClaim(s) \/ ForkFail(s) \/ ForkDone(s)
  BY <1>5, StutterStep DEF ForkClaim, ForkFail, ForkDone
<1>6. CASE CancelPark(s) \/ ReleaseParkedQueue(s)
  BY <1>6, StutterStep DEF CancelPark, ReleaseParkedQueue
<1> QED BY <1>1, <1>2, <1>3, <1>4, <1>5, <1>6 DEF SessionNext

\* The outbox's own operations.
LEMMA InjectionSteps ==
    ASSUME TypeOK, NEW i \in Injections, InjectionNext(i) PROVE OutboxStep
<1>1. CASE EnqueueInjection(i)
  <2>1. CASE outbox[i] = "none"
    BY <1>1, <2>1 DEF EnqueueInjection, OutboxStep, Outbox!Next, Outbox!Intend
  <2>2. CASE outbox[i] # "none"
    BY <1>1, <2>2 DEF EnqueueInjection, OutboxStep, TypeOK, StoreOK
  <2> QED BY <2>1, <2>2
<1>2. CASE EnqueueDispatch(i)
  BY <1>2, DispatchStep, StutterStep DEF EnqueueDispatch, storeVars
<1>3. CASE RetryInjection(i)
  BY <1>3, DispatchStep, StutterStep DEF RetryInjection, storeVars
<1>4. CASE RecoverInjection(i)
  BY <1>4, DispatchStep DEF RecoverInjection
<1>5. CASE MaterializeInjection(i)
  BY <1>5, InsertUserRowStep, FailRowStep DEF MaterializeInjection
<1> QED BY <1>1, <1>2, <1>3, <1>4, <1>5 DEF InjectionNext

\* A process comes and goes; the tables stay.
LEMMA ProcessOutbox == ASSUME ProcessNext PROVE OutboxStep
<1>1. CASE DeployBegin \/ DeployDrained \/ DeployClose \/ DeployCensus
  BY <1>1, StutterStep DEF DeployBegin, DeployDrained, DeployClose, DeployCensus
<1>2. CASE DeployOpen \/ DeployResume \/ Shutdown \/ ShutdownInjections
  BY <1>2, StutterStep DEF DeployOpen, DeployResume, Shutdown, ShutdownInjections
<1>3. CASE Restart \/ ReleaseProducers
  BY <1>3, StutterStep DEF Restart, ReleaseProducers
<1> QED BY <1>1, <1>2, <1>3 DEF ProcessNext

\* Every step of the machinery is a step of the outbox or leaves it alone.
LEMMA NextOutbox == ASSUME TypeOK, [Next]_vars PROVE OutboxStep
<1>1. CASE \E r \in Resumes : Wake(r) \/ ResumeParkedTurn(r)
  BY <1>1, StutterStep DEF Wake, ResumeParkedTurn
<1>2. CASE UNCHANGED vars
  BY <1>2, StutterStep DEF vars, storeVars
<1> QED BY <1>1, <1>2, CallOutbox, TurnOutbox, SessionOutbox, InjectionSteps, ProcessOutbox
        DEF Next

\* The turn machinery implements the outbox its producers rely on: whatever
\* queues, retries, archives and restarts do, an event is delivered at most once.
THEOREM Refinement == Spec => ImplementsOutbox
<1>1. Init => Outbox!Init
  BY DEF Init, Outbox!Init
<1>2. TypeOK /\ [Next]_vars => [Outbox!Next]_Outbox!outboxVars
  BY NextOutbox DEF OutboxStep, Outbox!outboxVars
<1> QED BY <1>1, <1>2, TypeCorrect, PTL DEF Spec, ImplementsOutbox, Outbox!Spec

\* One transcript row per delivered event and none for any other.
THEOREM Once == Spec => []DeliveredOnce
<1>1. Init => DeliveredOnce
  BY DEF Init, DeliveredOnce
<1>2. TypeOK /\ DeliveredOnce /\ [Next]_vars => DeliveredOnce'
  <2> SUFFICES ASSUME TypeOK, DeliveredOnce, OutboxStep PROVE DeliveredOnce'
    BY NextOutbox
  <2>1. CASE \E i \in Injections : Outbox!Intend(i)
    BY <2>1 DEF Outbox!Intend, DeliveredOnce, TypeOK, StoreOK
  <2>2. CASE \E i \in Injections : Outbox!Deliver(i)
    BY <2>2 DEF Outbox!Deliver, DeliveredOnce, TypeOK, StoreOK
  <2>3. CASE \E F \in SUBSET Injections : Outbox!Fail(F)
    BY <2>3 DEF Outbox!Fail, DeliveredOnce
  <2>4. CASE \E D \in SUBSET Injections : Outbox!Erase(D)
    BY <2>4 DEF Outbox!Erase, DeliveredOnce
  <2>5. CASE UNCHANGED <<outbox, rows>>
    BY <2>5 DEF DeliveredOnce
  <2> QED BY <2>1, <2>2, <2>3, <2>4, <2>5 DEF OutboxStep, Outbox!Next
<1> QED BY <1>1, <1>2, TypeCorrect, PTL DEF Spec

\* A delivered or failed event is never pending again and never changes sides.
THEOREM FateIsFinal == Spec => TerminalStays
<1> DEFINE Keeps(i) == outbox[i] \in {"delivered", "failed"}
                         => outbox'[i] \in {outbox[i], "erased"}
<1>1. ASSUME TypeOK, [Next]_vars PROVE \A i \in Injections : Keeps(i)
  <2>1. OutboxStep
    BY <1>1, NextOutbox
  <2>2. CASE \E i \in Injections : Outbox!Intend(i) \/ Outbox!Deliver(i)
    BY <1>1, <2>2 DEF Outbox!Intend, Outbox!Deliver, TypeOK, StoreOK
  <2>3. CASE \E I \in SUBSET Injections : Outbox!Fail(I) \/ Outbox!Erase(I)
    BY <2>3 DEF Outbox!Fail, Outbox!Erase
  <2> QED BY <2>1, <2>2, <2>3 DEF OutboxStep, Outbox!Next
<1> QED BY <1>1, TypeCorrect, PTL DEF Spec, TerminalStays
================================================================================
