--------------------------- MODULE Background_proofs ---------------------------
(***************************************************************************)
(* Proofs about Background, for any children, rounds, commands, jobs and   *)
(* budgets: a caller is told of every round, and of every command, what    *)
(* their row says; a round that the manager believes running is in         *)
(* somebody's hands; a boot leaves nothing open.                           *)
(***************************************************************************)
EXTENDS Background, TLAPS

\* Outside the serving phases nothing is left of the last process.
Forgotten == ~Up =>
    /\ latest = [s \in Kids |-> 0]
    /\ rec = [r \in Rounds |-> "none"]
    /\ call = [r \in Rounds |-> NoCall] /\ fin = [r \in Rounds |-> NoFin]
    /\ drv = [s \in Sessions |-> "none"]
    /\ task = [b \in Commands |-> "none"]

\* The rows of a child are its first rounds, up to the one in memory; the next
\* request opens the round after them, and a child that is not created has none.
UpTo(rows, s, k) == \A m \in 1 .. MaxRound : rows[<<s, m>>] # "none" <=> m <= k

RowsInOrder ==
    /\ \A s \in Kids : \E k \in 0 .. MaxRound : UpTo(ledger, s, k)
    /\ \A s \in Kids : latest[s] > 0 => UpTo(ledger, s, latest[s])
    /\ \A r \in Rounds : call[r] = "round" => UpTo(ledger, r[1], r[2] - 1)
    /\ \A s \in Kids : sess[s] = "none" => UpTo(ledger, s, 0) /\ \A n \in 1 .. MaxRound : call[<<s, n>>] = NoCall

\* A record is of a row that exists, runs while the row runs and agrees with it on
\* what the caller is told, unless a call that is refused has failed a record whose
\* row was completed before; the ledger is written with what the end was heard as.
RecordAgrees(r) ==
    /\ rec[r] # "none" => ledger[r] # "none"
    /\ rec[r] = "running" => ledger[r] = "running"
    /\ rec[r] = "completed" /\ ledger[r] \in Terminal => ledger[r] = "completed"
    /\ rec[r] # "none" /\ ledger[r] = "completed" => rec[r] = "completed" \/ fate[r] = "refused"
    /\ fate[r] = "refused" => ledger[r] # "none" /\ rec[r] \in {"none", "failed"} /\ call[r] # "start"
    /\ call[r] \in {"refuse", "refuseTell", "refuseHide"} => rec[r] = "failed" /\ fate[r] = "refused"
    /\ call[r] = "start" => rec[r] # "none"
    /\ fin[r].step # "none" => rec[r] \in Terminal
    /\ fin[r].step = "ledger" => fin[r].as \in Terminal /\ (rec[r] = fin[r].as \/ fate[r] = "refused")
    /\ fin[r].step \in {"interrupt", "error"} => fin[r].by = "cancel"
RecordsAgree == \A r \in Rounds : RecordAgrees(r)

\* Whoever is past the ledger has ended the round or found it ended, and it is told
\* before its child is hidden.
Carried(r) ==
    /\ fin[r].step \in Steps \ {"ledger"} => ledger[r] \in Terminal
    /\ call[r] \in {"refuseTell", "refuseHide"} => ledger[r] \in Terminal
    /\ fin[r].step = "hide" \/ call[r] = "refuseHide" => IsTold(r)
    /\ Up /\ ledger[r] \in Terminal =>
         IsTold(r) \/ fin[r].step \notin {"none", "ledger"} \/ call[r] = "refuseTell"
EndsAreCarried == \A r \in Rounds : Carried(r)

\* A driver runs and a prompt is stored for a session that was created.
Addressed ==
    /\ \A s \in Sessions : drv[s] # "none" => sess[s] # "none"
    /\ sess[Root] # "none"
    /\ \A s \in Kids : sess[parent[s]] # "none"
    /\ \A w \in Commands \cup Jobs : sess[home[w]] # "none"
    /\ \A k \in Keys : outbox[k].status # "none" => sess[outbox[k].to] # "none"

\* A key waits in a queue only after its row was stored.
Stored(k) == outbox[k].status # "none"
RowsBehindQueues ==
    \A s \in Sessions : \A i \in DOMAIN queue[s] : queue[s][i] \in Keys => Stored(queue[s][i])

\* A parked session has no driver; the driver waits for the handler of its turn.
Waits ==
    /\ \A s \in Sessions : parked[s] => drv[s] = "none"
    /\ \A s \in Kids : Handling(s) => drv[s] = "over"

\* What the stages of a boot have done stays done.
Booted ==
    /\ phase \in BootPhases => \A b \in Commands : bg[b] # "running"
    /\ phase \in BootPhases \ {"bg"} => UntoldCommands = {} /\ \A j \in Jobs : job[j] # "running"
    /\ phase \in BootPhases \ {"bg", "research"} => UntoldJobs = {}
    /\ phase \in {"tell", "materialize", "archive"} => \A r \in Rounds : ledger[r] # "running"
    /\ phase \in {"materialize", "archive"} => Untold = {}

\* A command that is spawned has no row yet.
Spawned == \A b \in Commands : task[b] = "spawned" => bg[b] = "none"

Invariant == Forgotten /\ RowsInOrder /\ RecordsAgree /\ EndsAreCarried /\ Addressed
             /\ RowsBehindQueues /\ Waits
             /\ Booted /\ Spawned /\ ReplyIsTrue /\ RunningIsHeld /\ CommandIsTold

--------------------------------------------------------------------------------
(* Rounds and source keys *)

\* A round is a child and a number.
LEMMA RoundParts ==
    ASSUME NEW r \in Rounds
    PROVE  r[1] \in Kids /\ r[1] \in Sessions /\ r[2] \in 1 .. MaxRound /\ r = <<r[1], r[2]>>
BY DEF Rounds, Sessions

\* A key says whose it is.
LEMMA KeysDiffer ==
    /\ \A r, x \in Rounds : /\ Told(r) = Told(x) => r = x
                            /\ Told(r) # Question(x)
    /\ \A r \in Rounds, b \in Commands : Told(r) # Result(b) /\ Question(r) # Result(b)
    /\ \A r \in Rounds, j \in Jobs : Told(r) # Report(j) /\ Question(r) # Report(j)
    /\ \A b \in Commands, j \in Jobs : Result(b) # Report(j)
    /\ \A b, c \in Commands : Result(b) = Result(c) => b = c
    /\ \A i, j \in Jobs : Report(i) = Report(j) => i = j
<1>1. \A r, x \in Rounds : (Told(r) = Told(x) => r = x) /\ Told(r) # Question(x)
  BY RoundParts DEF Told, Question
<1>2. /\ \A r \in Rounds : Told(r)[1] = "terminal" /\ Question(r)[1] = "question"
      /\ \A b \in Commands : Result(b)[1] = "bg" /\ Result(b)[2] = b
      /\ \A j \in Jobs : Report(j)[1] = "research" /\ Report(j)[2] = j
  BY DEF Told, Question, Result, Report
<1> QED BY <1>1, <1>2

\* The keys of the outbox.
LEMMA KeysAre ==
    /\ \A r \in Rounds : Told(r) \in Keys /\ Question(r) \in Keys
    /\ \A b \in Commands : Result(b) \in Keys
    /\ \A j \in Jobs : Report(j) \in Keys
    /\ Keys \subseteq Prompts
    /\ \A r \in Rounds : Ask(r) \in Prompts
BY DEF Keys, Prompts

\* The prompt of a caller is not in the outbox.
LEMMA AskIsNoKey ==
    ASSUME NEW r \in Rounds
    PROVE  Ask(r) \notin Keys
<1>1. /\ Ask(r)[1] = "ask"
      /\ \A x \in Rounds : Told(x)[1] = "terminal" /\ Question(x)[1] = "question"
      /\ \A b \in Commands : Result(b)[1] = "bg"
      /\ \A j \in Jobs : Report(j)[1] = "research"
  BY DEF Ask, Told, Question, Result, Report
<1> QED BY <1>1 DEF Keys

\* The record a broadcast finds is of a round of that session.
LEMMA CurrentRound ==
    ASSUME TypeOK, NEW s \in Kids, latest[s] > 0
    PROVE  /\ Latest(s) = latest[s] /\ Current(s) = <<s, latest[s]>>
           /\ Current(s) \in Rounds /\ Current(s)[1] = s
           /\ Heard(s) <=> rec[Current(s)] = "running"
<1>1. latest[s] \in 0 .. MaxRound /\ MaxRound \in Nat
  BY BoundsAssumption DEF TypeOK, DelegationsOK
<1>2. latest[s] \in 1 .. MaxRound
  BY <1>1
<1> QED BY <1>2 DEF Latest, Current, Heard, Rounds

--------------------------------------------------------------------------------
(* Type correctness *)

\* The rows of the outbox.
OutboxRows == [status : {"none", "pending", "delivered", "failed"},
               to : Sessions, says : {"none", "reply", "error", "other"}]

\* An outbox that got a row, or kept the one it had, has the shape of an outbox.
LEMMA EnqueuedType ==
    ASSUME TypeOK, NEW k \in Keys, NEW s \in Sessions, NEW says \in {"reply", "error", "other"},
           Enqueue(k, s, says)
    PROVE  outbox' \in [Keys -> OutboxRows]
BY DEF TypeOK, WorldOK, Enqueue, Enqueued, OutboxRows

\* So has one from which a prompt was taken,
LEMMA TakenType ==
    ASSUME TypeOK, NEW p
    PROVE  Taken(outbox, p) \in [Keys -> OutboxRows]
BY DEF TypeOK, WorldOK, Taken, OutboxRows

\* and one of which rows have failed.
LEMMA FailedType ==
    ASSUME TypeOK, NEW ks
    PROVE  FailedRows(outbox, ks) \in [Keys -> OutboxRows]
BY DEF TypeOK, WorldOK, FailedRows, OutboxRows

\* start_message, to a queue or to a new driver.
LEMMA SubmitType ==
    ASSUME TypeOK, NEW s \in Sessions, NEW p \in Prompts, Submit(s, p, outbox)
    PROVE  /\ queue' \in [Sessions -> Seq(Prompts)]
           /\ drv' \in [Sessions -> {"none", "turn", "over", "idle"}]
           /\ outbox' \in [Keys -> OutboxRows]
<1>1. outbox \in [Keys -> OutboxRows] /\ Taken(outbox, p) \in [Keys -> OutboxRows]
  BY TakenType DEF TypeOK, WorldOK, OutboxRows
<1>2. queue[s] \in Seq(Prompts)
  BY DEF TypeOK, WorldOK
<1>3. Append(queue[s], p) \in Seq(Prompts)
  BY <1>2
<1> QED BY <1>1, <1>3 DEF Submit, TypeOK, WorldOK

\* A session that is archived, or asked for it, is a session in one of its states.
LEMMA AutoArchiveType ==
    ASSUME TypeOK, NEW s \in Sessions, AutoArchive(s)
    PROVE  hide' \in [Sessions -> BOOLEAN] /\ sess' \in [Sessions -> {"none", "live", "archived"}]
BY DEF TypeOK, WorldOK, AutoArchive

\* Payments stay within the budget.
LEMMA PayType ==
    ASSUME TypeOK, NEW cost \in {RequestCost, WorkCost, FaultCost}, Pay(cost)
    PROVE  spent' \in 0 .. Budget
BY BoundsAssumption DEF TypeOK, WorldOK, Pay

\* The initial state has the shapes.
LEMMA TypeInit == Init => TypeOK
<1> SUFFICES ASSUME Init PROVE TypeOK
  OBVIOUS
<1>1. WorldOK
  <2>1. NoRow \in OutboxRows
    BY DEF NoRow, OutboxRows, Sessions
  <2> QED BY <2>1, BoundsAssumption DEF Init, WorldInit, WorldOK, OutboxRows, Sessions
<1>2. DelegationsOK
  BY BoundsAssumption DEF Init, DelegationsInit, DelegationsOK, NoFin, NoCall, Calls, Steps, States, Terminal, Fates
<1>3. WorkOK
  BY DEF Init, WorkInit, WorkOK, RowStates, Sessions
<1> QED BY <1>1, <1>2, <1>3 DEF TypeOK

\* What dispatch and drivers do keeps the shape of every variable.
LEMMA WorldTypes ==
    ASSUME TypeOK, WorldNext
    PROVE  TypeOK'
<1> USE DEF OutboxRows
<1>1. DelegationsOK' /\ WorkOK'
  BY DEF TypeOK, WorldNext, DelegationsOK, WorkOK, delVars, workVars, jobVars, commandVars
<1>2. ASSUME NEW k \in Keys, Dispatch(k) PROVE WorldOK'
  <2>1. outbox[k].to \in Sessions /\ k \in Prompts
    BY KeysAre DEF TypeOK, WorldOK
  <2>2. CASE sess[outbox[k].to] # "live"
    BY <1>2, <2>2, FailedType DEF Dispatch, TypeOK, WorldOK
  <2>3. CASE sess[outbox[k].to] = "live"
    <3>1. Submit(outbox[k].to, k, outbox)
      BY <1>2, <2>3 DEF Dispatch
    <3> QED BY <1>2, <2>1, <2>3, <3>1, SubmitType DEF Dispatch, TypeOK, WorldOK
  <2> QED BY <2>2, <2>3
<1>3. ASSUME NEW s \in Sessions, NextPrompt(s) PROVE WorldOK'
  <2>1. CASE queue[s] = <<>>
    BY <1>3, <2>1 DEF NextPrompt, TakeNext, TypeOK, WorldOK
  <2>2. CASE queue[s] # <<>>
    <3>1. queue[s] \in Seq(Prompts)
      BY DEF TypeOK, WorldOK
    <3>2. Tail(queue[s]) \in Seq(Prompts)
      BY <2>2, <3>1
    <3>3. outbox' \in [Keys -> OutboxRows]
      BY <1>3, <2>2, TakenType DEF NextPrompt, TakeNext
    <3> QED BY <1>3, <2>2, <3>2, <3>3 DEF NextPrompt, TakeNext, TypeOK, WorldOK
  <2> QED BY <2>1, <2>2
<1>4. ASSUME NEW s \in Sessions, DriverEnds(s) PROVE WorldOK'
  BY <1>4 DEF DriverEnds, TypeOK, WorldOK
<1>5. ASSUME NEW s \in Kids, Wakes(s) PROVE WorldOK'
  BY <1>5 DEF Wakes, TypeOK, WorldOK, Sessions
<1>6. ASSUME RootTurnEnds PROVE WorldOK'
  BY <1>6 DEF RootTurnEnds, TypeOK, WorldOK, Sessions
<1> QED BY <1>1, <1>2, <1>3, <1>4, <1>5, <1>6 DEF WorldNext, TypeOK

--------------------------------------------------------------------------------
\* What ended a round and where its handler is.
Handlers == [by : {"none", "turn", "error", "cancel"}, as : {"none"} \cup Terminal,
             step : Steps \cup {"none", "cut"}, down : SUBSET Rounds]

\* A record that settles is in a state, and its handler at a step.
LEMMA SettleType ==
    ASSUME TypeOK, NEW r \in Rounds, NEW st \in Terminal, NEW by \in {"turn", "error", "cancel"},
           Settle(r, st, by)
    PROVE  /\ rec' \in [Rounds -> {"none"} \cup States]
           /\ fin' \in [Rounds -> Handlers]
<1>1. Ending(by, st) \in Handlers
  BY DEF Ending, Handlers, Steps
<1> QED BY <1>1 DEF TypeOK, DelegationsOK, Settle, States, Handlers

\* Cutting off handlers leaves handlers.
LEMMA CutOffType ==
    ASSUME TypeOK, NEW s
    PROVE  CutOff(fin, s) \in [Rounds -> Handlers]
BY DEF TypeOK, DelegationsOK, CutOff, Steps, Handlers

\* A handler goes to its next step, or ends.
LEMMA GoType ==
    ASSUME NEW f \in [Rounds -> Handlers], NEW r, NEW step \in Steps \cup {"none", "cut"}
    PROVE  [f EXCEPT ![r].step = step] \in [Rounds -> Handlers]
<1>1. CASE r \in Rounds
  <2>1. f[r] \in Handlers
    BY <1>1
  <2>2. [f[r] EXCEPT !.step = step] \in Handlers
    BY <2>1 DEF Handlers
  <2> QED BY <1>1, <2>2
<1>2. CASE r \notin Rounds
  BY <1>2
<1> QED BY <1>1, <1>2

\* So does ending one.
LEMMA OverType ==
    ASSUME TypeOK, NEW r, Over(r)
    PROVE  fin' \in [Rounds -> Handlers]
BY DEF TypeOK, DelegationsOK, Over, NoFin, Handlers

\* The compare-and-set of the ledger leaves a ledger.
LEMMA FinishType ==
    ASSUME TypeOK, NEW r \in Rounds, NEW st \in {"none"} \cup States, Finish(r, st)
    PROVE  ledger' \in [Rounds -> {"none"} \cup States]
BY DEF TypeOK, DelegationsOK, Finish

\* What a broadcast finds running is a round of that session.
LEMMA HeardIsCurrent ==
    ASSUME TypeOK, NEW s \in Kids, Heard(s)
    PROVE  Current(s) \in Rounds /\ Current(s)[1] = s /\ rec[Current(s)] = "running"
BY CurrentRound DEF Heard

\* The calls that start a round keep the shape of every variable.
LEMMA CallTypes ==
    ASSUME TypeOK, NEW r \in Rounds,
           OpenRound(r) \/ StartTurn(r) \/ Refuse(r) \/ RefuseTell(r) \/ RefuseHide(r)
    PROVE  WorldOK' /\ DelegationsOK'
<1> USE DEF OutboxRows, Handlers
<1>1. r[1] \in Kids /\ r[1] \in Sessions /\ r[2] \in 1 .. MaxRound /\ r[2] \in 0 .. MaxRound
  BY RoundParts, BoundsAssumption
<1>2. CASE OpenRound(r)
  BY <1>1, <1>2 DEF OpenRound, TypeOK, WorldOK, DelegationsOK, worldVars, States, Calls
<1>3. CASE StartTurn(r)
  <2>1. CASE sess[r[1]] = "live"
    <3>1. Submit(r[1], Ask(r), outbox)
      BY <1>3, <2>1 DEF StartTurn
    <3>2. Ask(r) \in Prompts
      BY KeysAre
    <3>3. /\ queue' \in [Sessions -> Seq(Prompts)] /\ outbox' \in [Keys -> OutboxRows]
          /\ drv' \in [Sessions -> {"none", "turn", "over", "idle"}]
      BY <1>1, <3>1, <3>2, SubmitType
    <3>4. /\ UNCHANGED <<phase, sess, parent, hide, parked, asked, claimed, spent, ledger, rec, latest, fin, stop>>
          /\ call' = [call EXCEPT ![r] = NoCall]
          /\ fate' = fate \/ fate' = [fate EXCEPT ![r] = "stranded"]
      BY <1>3, <2>1 DEF StartTurn
    <3>5. WorldOK'
      BY <3>3, <3>4 DEF TypeOK, WorldOK
    <3>6. DelegationsOK'
      BY <3>4 DEF TypeOK, DelegationsOK, Fates
    <3> QED BY <3>5, <3>6
  <2>2. CASE sess[r[1]] # "live"
    <3>1. /\ rec' = [rec EXCEPT ![r] = "failed"] /\ call' = [call EXCEPT ![r] = "refuse"]
          /\ fate' = [fate EXCEPT ![r] = "refused"]
          /\ UNCHANGED <<phase, sess, parent, drv, queue, outbox, hide, parked, asked, claimed, spent,
                         ledger, latest, fin, stop>>
      BY <1>3, <2>2 DEF StartTurn
    <3>2. WorldOK'
      BY <3>1 DEF TypeOK, WorldOK
    <3>3. DelegationsOK'
      BY <3>1 DEF TypeOK, DelegationsOK, States, Terminal, Calls, Fates
    <3> QED BY <3>2, <3>3
  <2> QED BY <2>1, <2>2
<1>4. CASE Refuse(r)
  <2>1. ledger' \in [Rounds -> {"none"} \cup States]
    BY <1>4, FinishType DEF Refuse, States, Terminal
  <2> QED BY <1>4, <2>1 DEF Refuse, TypeOK, WorldOK, DelegationsOK, worldVars, Calls
<1>5. CASE RefuseTell(r)
  <2>1. outbox' \in [Keys -> OutboxRows]
    <3>1. parent[r[1]] \in Sessions /\ Told(r) \in Keys
      BY <1>1, KeysAre DEF TypeOK, WorldOK
    <3>2. Says(rec[r]) \in {"reply", "error", "other"}
      BY DEF Says
    <3> QED BY <1>5, <3>1, <3>2, EnqueuedType DEF RefuseTell
  <2> QED BY <1>5, <2>1 DEF RefuseTell, TypeOK, WorldOK, DelegationsOK, Calls
<1>6. CASE RefuseHide(r)
  BY <1>1, <1>6, AutoArchiveType DEF RefuseHide, TypeOK, WorldOK, DelegationsOK
<1> QED BY <1>2, <1>3, <1>4, <1>5, <1>6

\* So do the requests and what a child's turn does.
LEMMA ChildTypes ==
    ASSUME TypeOK, NEW s \in Kids,
           \/ \E st \in {"completed", "failed"} : TurnEnds(s, st)
           \/ TurnParks(s) \/ CancelPark(s) \/ TurnAsks(s) \/ Answered(s)
           \/ Interrupt(s) \/ InterruptIsHeard(s) \/ Cancel(s)
           \/ RecoverRound(s) \/ RecoverArchive(s)
    PROVE  WorldOK' /\ DelegationsOK'
<1> USE DEF OutboxRows, Handlers
<1>1. s \in Sessions /\ RequestCost \in {RequestCost, WorkCost, FaultCost}
  BY DEF Sessions
<1>2. ASSUME NEW st \in {"completed", "failed"}, TurnEnds(s, st) PROVE WorldOK' /\ DelegationsOK'
  <2>1. WorldOK'
    BY <1>1, <1>2 DEF TurnEnds, TypeOK, WorldOK
  <2>2. Heard(s) => Current(s) \in Rounds /\ Settle(Current(s), st, "turn")
    BY <1>2, HeardIsCurrent DEF TurnEnds
  <2> QED BY <1>2, <2>1, <2>2, SettleType DEF TurnEnds, TypeOK, DelegationsOK, Terminal
<1>3. CASE TurnParks(s)
  BY <1>1, <1>3, PayType DEF TurnParks, Spend, TypeOK, WorldOK, DelegationsOK, delVars
<1>4. CASE TurnAsks(s)
  <2>1. outbox' \in [Keys -> OutboxRows]
    <3>1. CASE Heard(s)
      <4>1. Question(Current(s)) \in Keys /\ parent[s] \in Sessions
        BY <1>1, <3>1, HeardIsCurrent, KeysAre DEF TypeOK, WorldOK
      <4> QED BY <1>4, <3>1, <4>1, EnqueuedType DEF TurnAsks
    <3>2. CASE ~Heard(s)
      BY <1>4, <3>2 DEF TurnAsks, TypeOK, WorldOK
    <3> QED BY <3>1, <3>2
  <2> QED BY <1>1, <1>4, <2>1, PayType DEF TurnAsks, Spend, TypeOK, WorldOK, DelegationsOK, delVars
<1>5. CASE Answered(s)
  BY <1>1, <1>5 DEF Answered, TypeOK, WorldOK, DelegationsOK, delVars
<1>6. CASE Interrupt(s)
  BY <1>1, <1>6, PayType, CutOffType DEF Interrupt, CutTurn, Spend, TypeOK, WorldOK, DelegationsOK
<1>7. CASE InterruptIsHeard(s)
  <2>1. Heard(s) => Current(s) \in Rounds /\ Settle(Current(s), "failed", "error")
    BY <1>7, HeardIsCurrent DEF InterruptIsHeard
  <2> QED BY <1>7, <2>1, SettleType DEF InterruptIsHeard, TypeOK, WorldOK, DelegationsOK, worldVars, Terminal
<1>8. CASE Cancel(s)
  <2>1. Current(s) \in Rounds /\ Settle(Current(s), "cancelled", "cancel")
    BY <1>8, HeardIsCurrent DEF Cancel, CancelFlip
  <2> QED BY <1>1, <1>8, <2>1, SettleType, PayType DEF Cancel, Spend, TypeOK, WorldOK, DelegationsOK, Terminal
<1>9. CASE RecoverRound(s)
  <2>1. ledger' \in [Rounds -> {"none"} \cup States]
    BY <1>9 DEF RecoverRound, TypeOK, DelegationsOK, States, Terminal
  <2> QED BY <1>1, <1>9, <2>1 DEF RecoverRound, TypeOK, WorldOK, DelegationsOK
<1>10. CASE RecoverArchive(s)
  BY <1>1, <1>10 DEF RecoverArchive, TypeOK, WorldOK, DelegationsOK, delVars
<1>11. CASE CancelPark(s)
  <2>1. CASE sess[s] = "live" /\ queue[s] # <<>>
    <3>1. Tail(queue[s]) \in Seq(Prompts)
      BY <1>1, <2>1 DEF TypeOK, WorldOK
    <3>2. outbox' \in [Keys -> OutboxRows]
      BY <1>11, <2>1, TakenType DEF CancelPark, TakeNext
    <3>3. claimed' \subseteq Keys /\ queue' \in [Sessions -> Seq(Prompts)]
      BY <1>1, <1>11, <2>1, <3>1 DEF CancelPark, TakeNext, TypeOK, WorldOK
    <3>4. /\ parked' = [parked EXCEPT ![s] = FALSE] /\ drv' = [drv EXCEPT ![s] = "turn"]
          /\ UNCHANGED <<phase, sess, parent, hide, asked, spent, ledger, rec, latest, call, fin, stop, fate>>
      BY <1>11, <2>1 DEF CancelPark, TakeNext
    <3> QED BY <1>1, <3>2, <3>3, <3>4 DEF TypeOK, WorldOK, DelegationsOK
  <2>2. CASE ~(sess[s] = "live" /\ queue[s] # <<>>)
    BY <1>1, <1>11, <2>2 DEF CancelPark, TypeOK, WorldOK, DelegationsOK, Fates
  <2> QED BY <2>1, <2>2
<1> QED BY <1>2, <1>3, <1>4, <1>5, <1>6, <1>7, <1>8, <1>9, <1>10, <1>11

\* So does what follows the end of a round.
LEMMA EndTypes ==
    ASSUME TypeOK, NEW r \in Rounds,
           \/ CancelInterrupts(r) \/ CancelIsHeard(r) \/ Cascade(r)
           \/ FinLedger(r) \/ FinTell(r) \/ FinHide(r) \/ RecoverTell(r)
    PROVE  WorldOK' /\ DelegationsOK'
<1> USE DEF OutboxRows, Handlers
<1>1. r[1] \in Kids /\ r[1] \in Sessions
  BY RoundParts
<1>2. parent[r[1]] \in Sessions /\ Told(r) \in Keys
  BY <1>1, KeysAre DEF TypeOK, WorldOK
<1>3. CASE CancelInterrupts(r)
  <2>1. fin' \in [Rounds -> Handlers]
    <3> HIDE DEF Handlers
    <3>1. /\ fin \in [Rounds -> Handlers] /\ CutOff(fin, r[1]) \in [Rounds -> Handlers]
          /\ {"error", "cascade"} \subseteq Steps
      BY CutOffType DEF TypeOK, DelegationsOK, Handlers, Steps
    <3> QED BY <1>3, <3>1, GoType DEF CancelInterrupts, Go
  <2> QED BY <1>1, <1>3, <2>1 DEF CancelInterrupts, CutTurn, TypeOK, WorldOK, DelegationsOK
<1>4. CASE CancelIsHeard(r)
  <2>1. CASE Heard(r[1])
    <3> DEFINE h == Current(r[1])
    <3>1. h \in Rounds
      BY <1>1, <2>1, HeardIsCurrent
    <3>2. [fin EXCEPT ![r].step = "cascade"] \in [Rounds -> Handlers]
      BY GoType DEF TypeOK, DelegationsOK, Steps
    <3>3. fin' = [[fin EXCEPT ![r].step = "cascade"] EXCEPT ![h] = Ending("error", "failed")]
          /\ rec' = [rec EXCEPT ![h] = "failed"]
      BY <1>4, <2>1 DEF CancelIsHeard
    <3>4. fin' \in [Rounds -> Handlers]
      BY <3>2, <3>3 DEF Ending, Steps, Terminal
    <3> QED BY <1>4, <3>3, <3>4 DEF CancelIsHeard, TypeOK, WorldOK, DelegationsOK, worldVars, States, Terminal
  <2>2. CASE ~Heard(r[1])
    <3>1. fin' \in [Rounds -> Handlers]
      <4> HIDE DEF Handlers
      <4>1. fin \in [Rounds -> Handlers] /\ "cascade" \in Steps
        BY DEF TypeOK, DelegationsOK, Handlers, Steps
      <4> QED BY <1>4, <2>2, <4>1, GoType DEF CancelIsHeard, Go
    <3> QED BY <1>4, <2>2, <3>1 DEF CancelIsHeard, TypeOK, WorldOK, DelegationsOK, worldVars
  <2> QED BY <2>1, <2>2
<1>5. CASE Cascade(r)
  <2>1. Below(r[1]) \subseteq Rounds
    BY HeardIsCurrent DEF Below
  <2> HIDE DEF Below
  <2>2. rec' \in [Rounds -> {"none"} \cup States]
    BY <1>5, <2>1 DEF Cascade, TypeOK, DelegationsOK, States, Terminal
  <2>3. fin' \in [Rounds -> Handlers]
    <3>1. fin[r] \in Handlers
      BY DEF TypeOK, DelegationsOK
    <3>2. [fin[r] EXCEPT !.step = "tell", !.down = Below(r[1])] \in Handlers
      BY <2>1, <3>1 DEF Steps
    <3>3. Ending("cancel", "cancelled") \in Handlers
      BY DEF Ending, Steps, Terminal
    <3> QED BY <1>5, <3>2, <3>3 DEF Cascade, TypeOK, DelegationsOK
  <2> QED BY <1>5, <2>2, <2>3 DEF Cascade, TypeOK, WorldOK, DelegationsOK, worldVars
<1>6. CASE FinLedger(r)
  <2>1. ledger' \in [Rounds -> {"none"} \cup States]
    <3>1. fin[r].as \in {"none"} \cup States
      BY DEF TypeOK, DelegationsOK, States
    <3> QED BY <1>6, <3>1, FinishType DEF FinLedger
  <2>2. fin' \in [Rounds -> Handlers]
    <3> HIDE DEF Handlers
    <3>1. fin \in [Rounds -> Handlers] /\ {"tell", "interrupt"} \subseteq Steps
      BY DEF TypeOK, DelegationsOK, Handlers, Steps
    <3> QED BY <1>6, <3>1, GoType, OverType DEF FinLedger, Go
  <2> QED BY <1>6, <2>1, <2>2 DEF FinLedger, TypeOK, WorldOK, DelegationsOK, worldVars
<1>7. CASE FinTell(r)
  <2>1. Says(rec[r]) \in {"reply", "error", "other"}
    BY DEF Says
  <2>2. outbox' \in [Keys -> OutboxRows]
    BY <1>2, <1>7, <2>1, EnqueuedType DEF FinTell
  <2>3. fin[r] \in Handlers
    BY DEF TypeOK, DelegationsOK
  <2>4. [fin[r] EXCEPT !.step = "hide", !.down = {}] \in Handlers
    BY <2>3 DEF Steps
  <2>5. fin' \in [Rounds -> Handlers]
    <3> HIDE DEF Handlers
    <3>1. CASE fin' = [fin EXCEPT ![r].step = "hide", ![r].down = {}]
      <4>1. fin' = [fin EXCEPT ![r] = [fin[r] EXCEPT !.step = "hide", !.down = {}]]
        BY <3>1
      <4> QED BY <2>4, <4>1 DEF TypeOK, DelegationsOK, Handlers
    <3> QED BY <1>7, <3>1, OverType DEF FinTell
  <2> QED BY <1>7, <2>2, <2>5 DEF FinTell, TypeOK, WorldOK, DelegationsOK
<1>8. CASE FinHide(r)
  BY <1>1, <1>8, AutoArchiveType DEF FinHide, Over, NoFin, TypeOK, WorldOK, DelegationsOK, Steps
<1>9. CASE RecoverTell(r)
  <2>1. Says(ledger[r]) \in {"reply", "error", "other"}
    BY DEF Says
  <2>2. outbox' \in [Keys -> OutboxRows]
    BY <1>2, <1>9, <2>1, EnqueuedType DEF RecoverTell
  <2> QED BY <1>9, <2>2 DEF RecoverTell, TypeOK, WorldOK, DelegationsOK, delVars
<1> QED BY <1>3, <1>4, <1>5, <1>6, <1>7, <1>8, <1>9

\* Every step of a delegation keeps the shape of every variable.
LEMMA DelegationTypes ==
    ASSUME TypeOK, DelegationsNext, UNCHANGED workVars
    PROVE  TypeOK'
<1> USE DEF OutboxRows, Handlers
<1>1. WorkOK'
  BY DEF TypeOK, WorkOK, workVars, jobVars, commandVars
<1>2. ASSUME NEW p \in Sessions, NEW s \in Kids, StartDelegation(p, s) PROVE WorldOK' /\ DelegationsOK'
  BY <1>2, PayType DEF StartDelegation, Spend, TypeOK, WorldOK, DelegationsOK, Sessions, Calls
<1>3. ASSUME NEW p \in Sessions, NEW s \in Kids, FollowUp(p, s) PROVE WorldOK' /\ DelegationsOK'
  <2>1. <<>> \in Seq(Prompts) /\ s \in Sessions
    BY DEF Sessions
  <2>2. call' \in [Rounds -> {NoCall} \cup Calls]
    BY <1>3 DEF FollowUp, TypeOK, DelegationsOK, Calls
  <2>3. /\ sess' \in [Sessions -> {"none", "live", "archived"}] /\ queue' \in [Sessions -> Seq(Prompts)]
        /\ hide' \in [Sessions -> BOOLEAN] /\ asked' \in [Sessions -> BOOLEAN]
    <3>1. Unarchived(s) \/ UNCHANGED <<sess, queue, hide, asked>>
      BY <1>3 DEF FollowUp
    <3>2. CASE Unarchived(s)
      <4>1. sess' = [sess EXCEPT ![s] = "live"] /\ hide' = [hide EXCEPT ![s] = FALSE]
            /\ asked' = [asked EXCEPT ![s] = FALSE] /\ queue' = [queue EXCEPT ![s] = <<>>]
        BY <3>2 DEF Unarchived
      <4>2. queue' \in [Sessions -> Seq(Prompts)]
        BY <2>1, <4>1 DEF TypeOK, WorldOK
      <4> QED BY <4>1, <4>2 DEF TypeOK, WorldOK
    <3>3. CASE UNCHANGED <<sess, queue, hide, asked>>
      BY <3>3 DEF TypeOK, WorldOK
    <3> QED BY <3>1, <3>2, <3>3
  <2>4. UNCHANGED <<phase, parent, drv, parked, outbox, claimed, ledger, rec, latest, fin, stop, fate>>
        /\ Pay(RequestCost)
    BY <1>3 DEF FollowUp, Spend
  <2>5. WorldOK'
    BY <2>3, <2>4, PayType DEF TypeOK, WorldOK
  <2> QED BY <2>2, <2>4, <2>5 DEF TypeOK, DelegationsOK
<1>4. ASSUME NEW s \in Sessions, ArchiveByUser(s) PROVE WorldOK' /\ DelegationsOK'
  <2>1. <<>> \in Seq(Prompts)
    OBVIOUS
  <2> QED BY <1>4, <2>1, PayType, FailedType, CutOffType
         DEF ArchiveByUser, Spend, TypeOK, WorldOK, DelegationsOK
<1>5. ASSUME NEW k \in Keys, Materialize(k) PROVE WorldOK' /\ DelegationsOK'
  BY <1>5, TakenType DEF Materialize, TypeOK, WorldOK, DelegationsOK, delVars
<1> QED BY <1>1, <1>2, <1>3, <1>4, <1>5, CallTypes, ChildTypes, EndTypes DEF DelegationsNext, TypeOK

\* So does every step of a command and of a job.
LEMMA WorkTypes ==
    ASSUME TypeOK, WorkNext, UNCHANGED delVars
    PROVE  TypeOK'
<1> USE DEF OutboxRows, Handlers
<1>1. DelegationsOK'
  BY DEF TypeOK, DelegationsOK, delVars
<1>2. CASE StopCommands
  <2>1. wish' \in [Commands -> BOOLEAN]
    BY <1>2, Zenon DEF StopCommands, TypeOK, WorkOK
  <2>2. UNCHANGED <<worldVars, home, proc, bg, task, late, jobVars>>
    BY <1>2 DEF StopCommands
  <2>3. WorldOK'
    BY <2>2 DEF TypeOK, WorldOK, worldVars
  <2> HIDE DEF OutboxRows, Handlers
  <2>4. WorkOK'
    BY <2>1, <2>2, Zenon DEF TypeOK, WorkOK, jobVars
  <2> QED BY <1>1, <2>3, <2>4 DEF TypeOK
<1>3. ASSUME NEW b \in Commands, NEW s \in Sessions, StartCommand(b, s) PROVE WorldOK' /\ WorkOK'
  BY <1>3, PayType DEF StartCommand, SpendWork, TypeOK, WorldOK, WorkOK, jobVars
<1>4. ASSUME NEW b \in Commands, NEW how \in {"clean", "bad", "signal"}, CommandExits(b, how)
      PROVE  WorldOK' /\ WorkOK'
  BY <1>4 DEF CommandExits, TypeOK, WorldOK, WorkOK, worldVars, jobVars
<1>5. ASSUME NEW b \in Commands,
             CommandRow(b) \/ CancelCommand(b) \/ CommandTimesOut(b) \/ CommandDrains(b) \/ CommandRecords(b)
      PROVE  WorldOK' /\ WorkOK'
  <2>1. CASE CommandRow(b)
    BY <2>1 DEF CommandRow, TypeOK, WorldOK, WorkOK, worldVars, jobVars, RowStates
  <2>2. CASE CancelCommand(b)
    BY <2>2, PayType DEF CancelCommand, SpendWork, TypeOK, WorldOK, WorkOK, jobVars
  <2>3. CASE CommandTimesOut(b)
    BY <2>3, PayType DEF CommandTimesOut, SpendWork, TypeOK, WorldOK, WorkOK, jobVars
  <2>4. CASE CommandDrains(b)
    BY <2>4 DEF CommandDrains, TypeOK, WorldOK, WorkOK, worldVars, jobVars
  <2>5. CASE CommandRecords(b)
    <3>1. CommandStatus(b) \in RowStates
      BY DEF CommandStatus, RowStates
    <3> QED BY <2>5, <3>1 DEF CommandRecords, TypeOK, WorldOK, WorkOK, worldVars, jobVars
  <2> QED BY <1>5, <2>1, <2>2, <2>3, <2>4, <2>5
<1>6. ASSUME NEW b \in Commands, CommandDelivers(b) \/ RecoverCommand(b) PROVE WorldOK' /\ WorkOK'
  <2>1. Result(b) \in Keys /\ home[b] \in Sessions
    BY KeysAre DEF TypeOK, WorkOK
  <2>2. outbox' \in [Keys -> OutboxRows]
    BY <1>6, <2>1, EnqueuedType DEF CommandDelivers, RecoverCommand
  <2>3. CASE CommandDelivers(b)
    BY <2>2, <2>3 DEF CommandDelivers, TypeOK, WorldOK, WorkOK, outsideOutbox, jobVars
  <2>4. CASE RecoverCommand(b)
    BY <2>2, <2>4 DEF RecoverCommand, TypeOK, WorldOK, WorkOK, outsideOutbox, workVars, jobVars, commandVars
  <2> QED BY <1>6, <2>3, <2>4
<1>7. ASSUME NEW j \in Jobs, NEW s \in Sessions, StartJob(j, s) PROVE WorldOK' /\ WorkOK'
  BY <1>7, PayType DEF StartJob, SpendWork, TypeOK, WorldOK, WorkOK, commandVars, RowStates
<1>8. ASSUME NEW j \in Jobs, JobRuns(j) \/ JobCompletes(j) \/ JobFails(j) PROVE WorldOK' /\ WorkOK'
  <2>1. CASE JobRuns(j)
    <3>1. \/ ToStage(j, "run") /\ UNCHANGED verdict
          \/ Fail(j, "failed")
      BY <2>1 DEF JobRuns
    <3>2. UNCHANGED <<worldVars, home, commandVars, job, quit>>
      BY <2>1 DEF JobRuns
    <3>3. WorldOK'
      BY <3>2 DEF TypeOK, WorldOK, worldVars
    <3>4. stage' \in [Jobs -> {"none", "queued", "run", "report", "failing", "final"}]
          /\ verdict' \in [Jobs -> {"none", "failed", "cancelled", "interrupted"}]
      BY <3>1 DEF ToStage, Fail, TypeOK, WorkOK
    <3> QED BY <3>2, <3>3, <3>4 DEF TypeOK, WorkOK, commandVars
  <2>2. CASE JobCompletes(j)
    BY <2>2 DEF JobCompletes, ToStage, TypeOK, WorldOK, WorkOK, worldVars, commandVars, RowStates
  <2>3. CASE JobFails(j)
    BY <2>3 DEF JobFails, ToStage, Fail, TypeOK, WorldOK, WorkOK, worldVars, commandVars
  <2> QED BY <1>8, <2>1, <2>2, <2>3
<1>9. ASSUME NEW j \in Jobs, JobFinalReads(j) \/ JobFinalWrites(j) PROVE WorldOK' /\ WorkOK'
  <2>1. CASE JobFinalReads(j)
    BY <2>1 DEF JobFinalReads, ToStage, TypeOK, WorldOK, WorkOK, worldVars, commandVars
  <2>2. CASE JobFinalWrites(j)
    <3>1. verdict[j] \in RowStates
      BY DEF TypeOK, WorkOK, RowStates
    <3> QED BY <2>2, <3>1 DEF JobFinalWrites, ToStage, TypeOK, WorldOK, WorkOK, worldVars, commandVars
  <2> QED BY <1>9, <2>1, <2>2
<1>10. ASSUME NEW j \in Jobs, CancelJob(j) PROVE WorldOK' /\ WorkOK'
  BY <1>10, PayType DEF CancelJob, SpendWork, TypeOK, WorldOK, WorkOK, commandVars
<1>11. ASSUME NEW j \in Jobs, CancelWrites(j) PROVE WorldOK' /\ WorkOK'
  BY <1>11 DEF CancelWrites, TypeOK, WorldOK, WorkOK, worldVars, commandVars, RowStates
<1>12. ASSUME NEW j \in Jobs, CancelKills(j) PROVE WorldOK' /\ WorkOK'
  <2>1. stage' \in [Jobs -> {"none", "queued", "run", "report", "failing", "final"}]
        /\ verdict' \in [Jobs -> {"none", "failed", "cancelled", "interrupted"}]
    <3>1. \/ Fail(j, "cancelled")
          \/ ToStage(j, "none") /\ UNCHANGED verdict
          \/ UNCHANGED <<stage, verdict>>
      BY <1>12 DEF CancelKills
    <3> QED BY <3>1 DEF Fail, ToStage, TypeOK, WorkOK
  <2> QED BY <1>12, <2>1 DEF CancelKills, TypeOK, WorldOK, WorkOK, worldVars, commandVars
<1>13. ASSUME NEW j \in Jobs, StopJob(j) PROVE WorldOK' /\ WorkOK'
  BY <1>13 DEF StopJob, Fail, ToStage, TypeOK, WorldOK, WorkOK, worldVars, commandVars
<1>14. ASSUME NEW j \in Jobs, JobReports(j) \/ RecoverReport(j) PROVE WorldOK' /\ WorkOK'
  <2>1. Report(j) \in Keys /\ home[j] \in Sessions
    BY KeysAre DEF TypeOK, WorkOK
  <2>2. outbox' \in [Keys -> OutboxRows]
    BY <1>14, <2>1, EnqueuedType DEF JobReports, RecoverReport
  <2>3. CASE JobReports(j)
    BY <2>2, <2>3 DEF JobReports, InStage, ToStage, TypeOK, WorldOK, WorkOK, outsideOutbox, commandVars
  <2>4. CASE RecoverReport(j)
    BY <2>2, <2>4 DEF RecoverReport, TypeOK, WorldOK, WorkOK, outsideOutbox, workVars, jobVars, commandVars
  <2> QED BY <1>14, <2>3, <2>4
<1> QED BY <1>1, <1>2, <1>3, <1>4, <1>5, <1>6, <1>7, <1>8, <1>9, <1>10, <1>11, <1>12, <1>13, <1>14
       DEF WorkNext, TypeOK

\* The end of a process forgets and the boot's stages settle, within the same shapes.
LEMMA BootTypes ==
    ASSUME TypeOK, Crash \/ Stop \/ Exits \/ BootCommands \/ BootJobs \/ BootNext
    PROVE  TypeOK'
<1> USE DEF OutboxRows, Handlers
<1>1. CASE Crash \/ Exits
  <2>1. /\ Forget /\ phase' = "down" /\ UNCHANGED <<sess, parent, parked, outbox, ledger, home, bg, job>>
        /\ proc' = [b \in Commands |-> IF proc[b] = "alive" THEN "alive" ELSE "none"]
    BY <1>1 DEF Crash, Exits
  <2>2. spent' \in 0 .. Budget
    BY <1>1, PayType DEF Crash, Exits, TypeOK, WorldOK
  <2>3. WorldOK'
    <3>1. <<>> \in Seq(Prompts)
      OBVIOUS
    <3> QED BY <2>1, <2>2, <3>1 DEF Forget, TypeOK, WorldOK
  <2>4. DelegationsOK'
    <3>1. MaxRound \in Nat
      BY BoundsAssumption
    <3> QED BY <2>1, <3>1 DEF Forget, TypeOK, DelegationsOK, NoFin, NoCall, Fates
  <2>5. WorkOK'
    BY <2>1 DEF Forget, TypeOK, WorkOK
  <2> QED BY <2>3, <2>4, <2>5 DEF TypeOK
<1>2. CASE Stop
  BY <1>2, PayType DEF Stop, TypeOK, WorldOK, DelegationsOK, WorkOK, delVars, workVars, jobVars, commandVars
<1>3. CASE BootCommands
  BY <1>3 DEF BootCommands, Stage, BootOther, MarkedCommands, BootPhases, RowStates, TypeOK, WorldOK,
              DelegationsOK, WorkOK, delVars, jobVars
<1>4. CASE BootJobs
  BY <1>4 DEF BootJobs, Stage, BootOther, MarkedJobs, BootPhases, RowStates, TypeOK, WorldOK,
              DelegationsOK, WorkOK, delVars, commandVars
<1>5. CASE BootNext
  BY <1>5 DEF BootNext, Stage, BootOther, BootPhases, TypeOK, WorldOK,
              DelegationsOK, WorkOK, delVars, workVars, jobVars, commandVars
<1> QED BY <1>1, <1>2, <1>3, <1>4, <1>5

\* Every variable keeps its shape, whatever dies when.
THEOREM TypeCorrect == Spec => []TypeOK
<1>1. ASSUME TypeOK, [Next]_vars PROVE TypeOK'
  <2>1. CASE UNCHANGED vars
    BY <1>1, <2>1 DEF vars, worldVars, delVars, workVars, jobVars, commandVars, TypeOK, WorldOK, DelegationsOK, WorkOK
  <2> QED BY <1>1, <2>1, WorldTypes, DelegationTypes, WorkTypes, BootTypes DEF Next
<1> QED BY <1>1, TypeInit, PTL DEF Spec

--------------------------------------------------------------------------------
(* What a step can move *)

\* Delegations are left alone, forgotten with the process, or moved by one of these.
CallStep(r) == OpenRound(r) \/ StartTurn(r) \/ Refuse(r) \/ RefuseTell(r) \/ RefuseHide(r)
EndStep(r)  == \/ CancelInterrupts(r) \/ CancelIsHeard(r) \/ Cascade(r)
               \/ FinLedger(r) \/ FinTell(r) \/ FinHide(r)
TurnStep(s) == \/ \E st \in {"completed", "failed"} : TurnEnds(s, st)
               \/ Interrupt(s) \/ InterruptIsHeard(s) \/ Cancel(s) \/ RecoverRound(s)

\* No other step touches a variable of the delegations.
LEMMA DelegationMoves ==
    ASSUME [Next]_vars
    PROVE  \/ UNCHANGED delVars
           \/ Crash \/ Exits
           \/ \E p \in Sessions, s \in Kids : StartDelegation(p, s) \/ FollowUp(p, s)
           \/ \E r \in Rounds : CallStep(r) \/ EndStep(r)
           \/ \E s \in Kids : TurnStep(s) \/ CancelPark(s)
           \/ \E s \in Sessions : ArchiveByUser(s)
<1>1. CASE DelegationsNext
  <2>1. ASSUME NEW r \in Rounds, RecoverTell(r) PROVE UNCHANGED delVars
    BY <2>1 DEF RecoverTell
  <2>2. ASSUME NEW s \in Kids, TurnParks(s) \/ TurnAsks(s) \/ Answered(s) \/ RecoverArchive(s)
        PROVE  UNCHANGED delVars
    BY <2>2 DEF TurnParks, TurnAsks, Answered, RecoverArchive
  <2>3. ASSUME NEW k \in Keys, Materialize(k) PROVE UNCHANGED delVars
    BY <2>3 DEF Materialize
  <2> QED BY <1>1, <2>1, <2>2, <2>3 DEF DelegationsNext, CallStep, EndStep, TurnStep
<1>2. CASE WorldNext
  BY <1>2 DEF WorldNext
<1>3. CASE Stop \/ BootCommands \/ BootJobs \/ BootNext
  BY <1>3 DEF Stop, BootCommands, BootJobs, BootNext, BootOther
<1>4. CASE UNCHANGED vars
  BY <1>4 DEF vars
<1> QED BY <1>1, <1>2, <1>3, <1>4 DEF Next

\* The phase changes with the process and with the stages of a boot only.
LEMMA PhaseMoves ==
    ASSUME [Next]_vars
    PROVE  phase' = phase \/ Crash \/ Stop \/ Exits \/ BootCommands \/ BootJobs \/ BootNext
<1>1. CASE WorldNext
  BY <1>1 DEF WorldNext, Dispatch, NextPrompt, TakeNext, DriverEnds, Wakes, RootTurnEnds
<1>2. CASE DelegationsNext
  BY <1>2 DEF DelegationsNext, StartDelegation, FollowUp, OpenRound, StartTurn, Refuse, RefuseTell, RefuseHide,
              CancelInterrupts, CancelIsHeard, Cascade, FinLedger, FinTell, FinHide, RecoverTell,
              TurnEnds, TurnParks, CancelPark, TurnAsks, Answered, Interrupt, InterruptIsHeard, Cancel, RecoverRound,
              RecoverArchive, ArchiveByUser, Materialize, worldVars
<1>3. CASE WorkNext
  BY <1>3 DEF WorkNext, StopCommands, StartCommand, CommandExits, CommandRow, CancelCommand, CommandTimesOut,
              CommandDrains, CommandRecords, CommandDelivers, RecoverCommand, StartJob, JobRuns, JobCompletes,
              JobFails, JobReports, JobFinalReads, JobFinalWrites, CancelJob, CancelWrites, CancelKills,
              StopJob, RecoverReport, worldVars, outsideOutbox
<1> QED BY <1>1, <1>2, <1>3 DEF Next, vars, worldVars

\* Commands and jobs touch nothing of a session; others leave them alone.
LEMMA WorkFrame ==
    ASSUME WorkNext
    PROVE  UNCHANGED <<phase, sess, parent, drv, queue, hide, parked, asked, claimed>>
BY DEF WorkNext, StopCommands, StartCommand, CommandExits, CommandRow, CancelCommand, CommandTimesOut,
       CommandDrains, CommandRecords, CommandDelivers, RecoverCommand, StartJob, JobRuns, JobCompletes,
       JobFails, JobReports, JobFinalReads, JobFinalWrites, CancelJob, CancelWrites, CancelKills,
       StopJob, RecoverReport, worldVars, outsideOutbox

\* A session is created by StartDelegation and by nothing else, and stays one.
LEMMA BeingMoves ==
    ASSUME TypeOK, Addressed, [Next]_vars, NEW s \in Sessions
    PROVE  /\ sess[s] # "none" => sess'[s] # "none"
           /\ sess[s] = "none" => sess'[s] = "none" \/ \E p \in Sessions : s \in Kids /\ StartDelegation(p, s)
<1> DEFINE Stays == /\ sess[s] # "none" => sess'[s] # "none"
                    /\ sess[s] = "none" => sess'[s] = "none"
<1>1. UNCHANGED sess => Stays
  OBVIOUS
<1>2. ASSUME NEW t \in Sessions, AutoArchive(t) PROVE Stays
  BY <1>2 DEF AutoArchive, TypeOK, WorldOK
<1>3. ASSUME NEW t \in Sessions, sess[t] # "none", \E x \in {"live", "archived"} : sess' = [sess EXCEPT ![t] = x]
      PROVE  Stays
  BY <1>3 DEF TypeOK, WorldOK
<1>4. Kids \subseteq Sessions /\ \A r \in Rounds : r[1] \in Sessions
  BY RoundParts DEF Sessions
<1> HIDE DEF Stays
<1>5. CASE WorldNext
  <2>1. ASSUME NEW t \in Sessions, DriverEnds(t) PROVE Stays
    BY <1>1, <1>3, <2>1 DEF DriverEnds, Addressed
  <2> QED BY <1>1, <1>5, <2>1 DEF WorldNext, Dispatch, NextPrompt, TakeNext, Wakes, RootTurnEnds, Stays
<1>6. CASE DelegationsNext
  <2>1. ASSUME NEW p \in Sessions, NEW t \in Kids, StartDelegation(p, t)
        PROVE  /\ sess[s] # "none" => sess'[s] # "none"
               /\ sess[s] = "none" => sess'[s] = "none" \/ \E q \in Sessions : s \in Kids /\ StartDelegation(q, s)
    BY <1>4, <2>1 DEF StartDelegation, TypeOK, WorldOK
  <2>2. ASSUME NEW p \in Sessions, NEW t \in Kids, FollowUp(p, t) PROVE Stays
    <3>1. t \in Sessions /\ sess[t] # "none" /\ (UNCHANGED sess \/ sess' = [sess EXCEPT ![t] = "live"])
      BY <1>4, <2>2 DEF FollowUp, Unarchived
    <3> QED BY <1>1, <1>3, <3>1
  <2>3. ASSUME NEW r \in Rounds, CallStep(r) \/ EndStep(r) \/ RecoverTell(r) PROVE Stays
    <3>1. AutoArchive(r[1]) \/ UNCHANGED sess
      BY <2>3 DEF CallStep, EndStep, OpenRound, StartTurn, Refuse, RefuseTell, RefuseHide, CancelInterrupts,
                  CancelIsHeard, Cascade, FinLedger, FinTell, FinHide, RecoverTell, worldVars
    <3> QED BY <1>1, <1>2, <1>4, <3>1
  <2>4. ASSUME NEW t \in Sessions, RecoverArchive(t) \/ ArchiveByUser(t) PROVE Stays
    BY <1>3, <2>4 DEF RecoverArchive, ArchiveByUser
  <2>5. ASSUME NEW t \in Kids, TurnStep(t) \/ TurnParks(t) \/ CancelPark(t) \/ TurnAsks(t) \/ Answered(t) PROVE Stays
    BY <1>1, <2>5 DEF TurnStep, TurnEnds, Interrupt, InterruptIsHeard, Cancel, RecoverRound, TurnParks, CancelPark, TurnAsks,
                      Answered, worldVars
  <2>6. ASSUME NEW k \in Keys, Materialize(k) PROVE Stays
    BY <1>1, <2>6 DEF Materialize
  <2> QED BY <1>4, <1>6, <2>1, <2>2, <2>3, <2>4, <2>5, <2>6
         DEF DelegationsNext, CallStep, EndStep, TurnStep, Stays
<1>7. CASE WorkNext
  BY <1>1, <1>7, WorkFrame DEF Stays
<1>8. CASE Crash \/ Stop \/ Exits \/ BootCommands \/ BootJobs \/ BootNext \/ UNCHANGED vars
  BY <1>1, <1>8 DEF Crash, Stop, Exits, BootCommands, BootJobs, BootNext, BootOther, vars, worldVars, Stays
<1> QED BY <1>5, <1>6, <1>7, <1>8 DEF Next

\* What the helpers of the outbox do to a row: one that is stored keeps its reader
\* and its words.
Keeps(box, k) == /\ box[k].status # "none" /\ box[k].to = outbox[k].to /\ box[k].says = outbox[k].says

\* enqueue_session_injection stores one row and never changes a stored one.
LEMMA EnqueueMoves ==
    ASSUME TypeOK, NEW k \in Keys, NEW s \in Sessions, NEW says, Enqueue(k, s, says), NEW q \in Keys
    PROVE  /\ Stored(q) => Keeps(outbox', q)
           /\ ~Stored(q) /\ q # k => outbox'[q].status = "none"
           /\ ~Stored(k) => outbox'[k].to = s /\ outbox'[k].says = says
           /\ outbox'[k].status # "none"
BY DEF TypeOK, WorldOK, Enqueue, Enqueued, Stored, Keeps

\* A prompt that is taken stays stored,
LEMMA TakenMoves ==
    ASSUME TypeOK, NEW p, p \in Keys => Stored(p), NEW q \in Keys
    PROVE  /\ Stored(q) => Keeps(Taken(outbox, p), q)
           /\ ~Stored(q) => Taken(outbox, p)[q].status = "none"
BY DEF TypeOK, WorldOK, Taken, Stored, Keeps

\* and so does one that fails.
LEMMA FailedMoves ==
    ASSUME TypeOK, NEW ks, \A k \in ks \cap Keys : Stored(k), NEW q \in Keys
    PROVE  /\ Stored(q) => Keeps(FailedRows(outbox, ks), q)
           /\ ~Stored(q) => FailedRows(outbox, ks)[q].status = "none"
BY DEF TypeOK, WorldOK, FailedRows, Stored, Keeps

\* A stored row is kept; a new one is of a round, a command or a job, for the
\* session that asked, and a round's end says what the record, or at boot the row, says.
Tells(r, k)   == k = Told(r) /\ outbox'[k].to = parent[r[1]] /\ outbox'[k].says \in {"reply", "error"}
ByRecord(r, k) == Tells(r, k) /\ (RefuseTell(r) \/ FinTell(r)) /\ outbox'[k].says = Says(rec[r])
ByRow(r, k)    == Tells(r, k) /\ RecoverTell(r) /\ outbox'[k].says = Says(ledger[r])

\* Every step keeps the stored rows, and says who gets a new one.
LEMMA OutboxMoves ==
    ASSUME TypeOK, RowsBehindQueues, [Next]_vars, NEW k \in Keys
    PROVE  /\ Stored(k) => Keeps(outbox', k)
           /\ ~Stored(k) /\ Stored(k)' =>
                \/ \E r \in Rounds : ByRecord(r, k) \/ ByRow(r, k)
                \/ \E s \in Kids : \E r \in Rounds : k = Question(r) /\ outbox'[k].to = parent[s]
                \/ \E b \in Commands : k = Result(b) /\ outbox'[k].to = home[b]
                \/ \E j \in Jobs : k = Report(j) /\ outbox'[k].to = home[j]
<1> DEFINE Kept == /\ Stored(k) => Keeps(outbox', k)
                   /\ ~Stored(k) => ~Stored(k)'
           New == \/ \E r \in Rounds : ByRecord(r, k) \/ ByRow(r, k)
                  \/ \E s \in Kids : \E r \in Rounds : k = Question(r) /\ outbox'[k].to = parent[s]
                  \/ \E b \in Commands : k = Result(b) /\ outbox'[k].to = home[b]
                  \/ \E j \in Jobs : k = Report(j) /\ outbox'[k].to = home[j]
           Goal == /\ Stored(k) => Keeps(outbox', k)
                   /\ ~Stored(k) /\ Stored(k)' => New
<1>1. Kept => Goal
  OBVIOUS
<1>2. UNCHANGED outbox => Kept
  BY DEF Stored, Keeps
<1>3. ASSUME NEW p, p \in Keys => Stored(p), outbox' = Taken(outbox, p) PROVE Kept
  BY <1>3, TakenMoves DEF Stored
<1>4. ASSUME NEW ks, \A q \in ks \cap Keys : Stored(q), outbox' = FailedRows(outbox, ks) PROVE Kept
  BY <1>4, FailedMoves DEF Stored
<1>5. ASSUME NEW s \in Sessions, NEW p, p \in Keys => Stored(p), Submit(s, p, outbox) PROVE Kept
  BY <1>2, <1>3, <1>5 DEF Submit
<1>6. Kids \subseteq Sessions /\ \A r \in Rounds : r[1] \in Kids
  BY RoundParts DEF Sessions
<1> HIDE DEF Kept, New
<1>12. ASSUME NEW s \in Sessions, queue[s] # <<>>, TakeNext(s) PROVE Kept
  <2>1. queue[s] \in Seq(Prompts) /\ 1 \in DOMAIN queue[s] /\ Head(queue[s]) = queue[s][1]
    BY <1>12 DEF TypeOK, WorldOK
  <2>2. Head(queue[s]) \in Keys => Stored(Head(queue[s]))
    BY <2>1 DEF RowsBehindQueues
  <2> QED BY <1>3, <1>12, <2>2 DEF TakeNext
<1>7. ASSUME WorldNext PROVE Goal
  <2>1. ASSUME NEW q \in Keys, Dispatch(q) PROVE Kept
    <3>1. Stored(q) /\ outbox[q].to \in Sessions
      BY <2>1 DEF Dispatch, Waiting, Stored, TypeOK, WorldOK
    <3> QED BY <1>4, <1>5, <2>1, <3>1 DEF Dispatch
  <2>2. ASSUME NEW s \in Sessions, NextPrompt(s) PROVE Kept
    BY <1>2, <1>12, <2>2 DEF NextPrompt
  <2> QED BY <1>1, <1>2, <1>7, <2>1, <2>2 DEF WorldNext, DriverEnds, Wakes, RootTurnEnds
<1>8. ASSUME DelegationsNext PROVE Goal
  <2>1. ASSUME NEW r \in Rounds, RefuseTell(r) \/ FinTell(r) \/ RecoverTell(r) PROVE Goal
    <3>1. Told(r) \in Keys /\ parent[r[1]] \in Sessions
      BY <1>6, KeysAre DEF TypeOK, WorldOK
    <3>2. CASE RefuseTell(r) \/ FinTell(r)
      <4>1. Enqueue(Told(r), parent[r[1]], Says(rec[r]))
        BY <3>2 DEF RefuseTell, FinTell
      <4>2. Says(rec[r]) \in {"reply", "error"}
        BY DEF Says
      <4> QED BY <3>1, <3>2, <4>1, <4>2, EnqueueMoves DEF Stored, New, ByRecord, Tells
    <3>3. CASE RecoverTell(r)
      <4>1. Enqueue(Told(r), parent[r[1]], Says(ledger[r]))
        BY <3>3 DEF RecoverTell
      <4>2. Says(ledger[r]) \in {"reply", "error"}
        BY DEF Says
      <4> QED BY <3>1, <3>3, <4>1, <4>2, EnqueueMoves DEF Stored, New, ByRow, Tells
    <3> QED BY <2>1, <3>2, <3>3
  <2>2. ASSUME NEW s \in Kids, TurnAsks(s) PROVE Goal
    <3>1. CASE Heard(s)
      <4>1. Current(s) \in Rounds /\ Question(Current(s)) \in Keys /\ parent[s] \in Sessions
        BY <1>6, <3>1, HeardIsCurrent, KeysAre DEF TypeOK, WorldOK
      <4>2. Enqueue(Question(Current(s)), parent[s], "other")
        BY <2>2, <3>1 DEF TurnAsks
      <4> QED BY <4>1, <4>2, EnqueueMoves DEF Stored, New
    <3>2. CASE ~Heard(s)
      BY <1>1, <1>2, <2>2, <3>2 DEF TurnAsks
    <3> QED BY <3>1, <3>2
  <2>3. ASSUME NEW s \in Sessions, ArchiveByUser(s) PROVE Kept
    <3>1. \A q \in QueuedKeys(s) : Stored(q)
      BY DEF QueuedKeys, RowsBehindQueues
    <3> QED BY <1>4, <2>3, <3>1 DEF ArchiveByUser
  <2>4. ASSUME NEW q \in Keys, Materialize(q) PROVE Kept
    <3>1. Stored(q)
      BY <2>4 DEF Materialize, ToMaterialize, Waiting, Stored
    <3> QED BY <1>3, <2>4, <3>1 DEF Materialize
  <2>5. ASSUME NEW r \in Rounds, StartTurn(r) PROVE Kept
    BY <1>2, <1>5, <1>6, <2>5, AskIsNoKey DEF StartTurn
  <2>6. ASSUME NEW r \in Rounds,
               \/ OpenRound(r) \/ Refuse(r) \/ RefuseHide(r) \/ CancelInterrupts(r)
               \/ CancelIsHeard(r) \/ Cascade(r) \/ FinLedger(r) \/ FinHide(r)
        PROVE  Kept
    BY <1>2, <2>6 DEF OpenRound, Refuse, RefuseHide, CancelInterrupts, CancelIsHeard, Cascade, FinLedger, FinHide,
                      worldVars
  <2>7. ASSUME NEW s \in Kids, TurnStep(s) \/ TurnParks(s) \/ Answered(s) \/ RecoverArchive(s) PROVE Kept
    BY <1>2, <2>7 DEF TurnStep, TurnEnds, Interrupt, InterruptIsHeard, Cancel, RecoverRound, TurnParks, CancelPark, Answered,
                      RecoverArchive, worldVars
  <2>8. ASSUME NEW p \in Sessions, NEW s \in Kids, StartDelegation(p, s) \/ FollowUp(p, s) PROVE Kept
    BY <1>2, <2>8 DEF StartDelegation, FollowUp
  <2>9. ASSUME NEW s \in Kids, CancelPark(s) PROVE Kept
    BY <1>2, <1>6, <1>12, <2>9 DEF CancelPark
  <2> HIDE DEF Goal
  <2> QED BY <1>1, <1>8, <2>1, <2>2, <2>3, <2>4, <2>5, <2>6, <2>7, <2>8, <2>9 DEF DelegationsNext, TurnStep
<1>9. ASSUME WorkNext PROVE Goal
  <2>1. ASSUME NEW b \in Commands, CommandDelivers(b) \/ RecoverCommand(b) PROVE Goal
    <3>1. Result(b) \in Keys /\ home[b] \in Sessions
      BY KeysAre DEF TypeOK, WorkOK
    <3>2. Enqueue(Result(b), home[b], "other")
      BY <2>1 DEF CommandDelivers, RecoverCommand
    <3> QED BY <3>1, <3>2, EnqueueMoves DEF Stored, New
  <2>2. ASSUME NEW j \in Jobs, JobReports(j) \/ RecoverReport(j) PROVE Goal
    <3>1. Report(j) \in Keys /\ home[j] \in Sessions
      BY KeysAre DEF TypeOK, WorkOK
    <3>2. Enqueue(Report(j), home[j], "other")
      BY <2>2 DEF JobReports, RecoverReport
    <3> QED BY <3>1, <3>2, EnqueueMoves DEF Stored, New
  <2>3. \/ UNCHANGED outbox
        \/ \E b \in Commands : CommandDelivers(b) \/ RecoverCommand(b)
        \/ \E j \in Jobs : JobReports(j) \/ RecoverReport(j)
    BY <1>9 DEF WorkNext, StopCommands, StartCommand, CommandExits, CommandRow, CancelCommand, CommandTimesOut,
              CommandDrains, CommandRecords, StartJob, JobRuns, JobCompletes, JobFails,
              JobFinalReads, JobFinalWrites, CancelJob, CancelWrites, CancelKills, StopJob, worldVars
  <2> HIDE DEF Goal
  <2> QED BY <1>1, <1>2, <2>1, <2>2, <2>3
<1>10. ASSUME Crash \/ Stop \/ Exits \/ BootCommands \/ BootJobs \/ BootNext \/ UNCHANGED vars PROVE Goal
  BY <1>1, <1>2, <1>10 DEF Crash, Stop, Exits, BootCommands, BootJobs, BootNext, BootOther, vars, worldVars
<1> HIDE DEF Goal
<1>11. Goal
  BY <1>1, <1>7, <1>8, <1>9, <1>10 DEF Next
<1> QED BY <1>11 DEF Goal, New

--------------------------------------------------------------------------------
(* What dies with the process *)

\* Every one of these variables is moved by a serving process only.
LEMMA ForgottenStep ==
    ASSUME TypeOK, Forgotten, [Next]_vars
    PROVE  Forgotten'
<1>1. CASE Crash \/ Exits
  BY <1>1 DEF Crash, Exits, Forget, Forgotten
<1>2. ASSUME ~Up, ~Crash, ~Exits PROVE UNCHANGED <<latest, rec, call, fin, drv, task>>
  <2> USE DEF Up
  <2>1. CASE WorldNext
    BY <1>2, <2>1 DEF WorldNext, Dispatch, NextPrompt, TakeNext, DriverEnds, Wakes, RootTurnEnds, delVars, workVars, commandVars
  <2>2. CASE DelegationsNext /\ UNCHANGED workVars
    BY <1>2, <2>2 DEF DelegationsNext, StartDelegation, FollowUp, OpenRound, StartTurn, Refuse, RefuseTell,
              RefuseHide, CancelInterrupts, CancelIsHeard, Cascade, FinLedger, FinTell, FinHide, At, RecoverTell,
              TurnEnds, TurnParks, CancelPark, TurnAsks, Answered, Interrupt, InterruptIsHeard, Cancel, RecoverRound,
              RecoverArchive, ArchiveByUser, Materialize, worldVars, delVars, workVars, commandVars, Spend
  <2>3. CASE WorkNext /\ UNCHANGED delVars
    BY <1>2, <2>3 DEF WorkNext, StopCommands, StartCommand, CommandExits, CommandRow, CancelCommand,
              CommandTimesOut, CommandDrains, CommandRecords, CommandDelivers, RecoverCommand, StartJob, JobRuns,
              JobCompletes, JobFails, JobReports, JobFinalReads, JobFinalWrites, CancelJob, CancelWrites,
              CancelKills, StopJob, RecoverReport, SpendWork, InStage, worldVars, outsideOutbox, commandVars,
              delVars, workVars
  <2>4. CASE Stop \/ BootCommands \/ BootJobs \/ BootNext \/ UNCHANGED vars
    BY <2>4 DEF Stop, BootCommands, BootJobs, BootNext, BootOther, vars, worldVars, delVars, workVars, commandVars
  <2> QED BY <1>2, <2>1, <2>2, <2>3, <2>4 DEF Next
<1>3. ASSUME ~Up', ~Crash, ~Exits PROVE ~Up
  BY <1>3, PhaseMoves DEF Up, Stop, BootCommands, BootJobs, BootNext, Stage
<1> QED BY <1>1, <1>2, <1>3 DEF Forgotten

--------------------------------------------------------------------------------
(* The rows of a child *)

\* What it says of one row.
LEMMA UpToAt ==
    ASSUME NEW rows, NEW s, NEW k, UpTo(rows, s, k), NEW m \in 1 .. MaxRound
    PROVE  rows[<<s, m>>] # "none" <=> m <= k
BY DEF UpTo

\* There is one number up to which the rows go.
LEMMA UpToIsOne ==
    ASSUME NEW rows, NEW s, NEW i \in 0 .. MaxRound, NEW k \in 0 .. MaxRound, UpTo(rows, s, i), UpTo(rows, s, k)
    PROVE  i = k
<1>1. MaxRound \in Nat /\ i \in Nat /\ k \in Nat /\ i <= MaxRound /\ k <= MaxRound
  BY BoundsAssumption
<1>2. ASSUME NEW a \in 0 .. MaxRound, NEW b \in 0 .. MaxRound, UpTo(rows, s, a), UpTo(rows, s, b) PROVE ~(a < b)
  <2>1. CASE b > 0
    <3>1. b \in 1 .. MaxRound
      BY <1>1, <2>1
    <3>2. (rows[<<s, b>>] # "none" <=> b <= a) /\ (rows[<<s, b>>] # "none" <=> b <= b)
      BY <1>2, <3>1, UpToAt
    <3> QED BY <1>1, <3>1, <3>2
  <2>2. CASE ~(b > 0)
    BY <1>1, <2>2
  <2> QED BY <2>1, <2>2
<1>3. ~(i < k) /\ ~(k < i)
  BY <1>2
<1> QED BY <1>1, <1>3

\* _load_latest_record finds the last row.
LEMMA LatestIsLast ==
    ASSUME TypeOK, RowsInOrder, NEW s \in Kids
    PROVE  Latest(s) \in 0 .. MaxRound /\ UpTo(ledger, s, Latest(s))
<1>1. MaxRound \in Nat /\ latest[s] \in 0 .. MaxRound
  BY BoundsAssumption DEF TypeOK, DelegationsOK
<1>2. CASE latest[s] > 0
  BY <1>1, <1>2 DEF Latest, RowsInOrder
<1>3. CASE latest[s] = 0
  <2>1. PICK k \in 0 .. MaxRound : UpTo(ledger, s, k)
    BY DEF RowsInOrder
  <2> DEFINE Is(n) == /\ n > 0 => ledger[<<s, n>>] # "none"
                      /\ \A m \in 1 .. MaxRound : ledger[<<s, m>>] # "none" => m <= n
  <2>2. Is(k)
    <3>1. k > 0 => k \in 1 .. MaxRound /\ k <= k
      BY <1>1, <2>1
    <3> QED BY <2>1, <3>1 DEF UpTo
  <2>3. LastRow(s) \in 0 .. MaxRound /\ Is(LastRow(s))
    BY <2>2 DEF LastRow
  <2> DEFINE l == LastRow(s)
  <2>4. l > 0 => l <= k
    <3>1. l > 0 => l \in 1 .. MaxRound
      BY <1>1, <2>3
    <3> QED BY <2>1, <2>3, <3>1 DEF UpTo
  <2>5. k > 0 => k <= l
    <3>1. k > 0 => k \in 1 .. MaxRound /\ k <= k
      BY <1>1, <2>1
    <3> QED BY <2>1, <2>3, <3>1 DEF UpTo
  <2>6. l = k
    BY <1>1, <2>1, <2>3, <2>4, <2>5
  <2> HIDE DEF l
  <2> QED BY <1>1, <1>3, <2>1, <2>6 DEF Latest, l
<1> QED BY <1>1, <1>2, <1>3

\* While no row of a child appears, its rows stay in order.
LEMMA SameRows ==
    ASSUME NEW s \in Kids, \A m \in 1 .. MaxRound : ledger'[<<s, m>>] = "none" <=> ledger[<<s, m>>] = "none", NEW k
    PROVE  UpTo(ledger', s, k) <=> UpTo(ledger, s, k)
BY DEF UpTo

\* A row appears where a request opens its round, or a boot finds none.
LEMMA RowMoves ==
    ASSUME TypeOK, RecordsAgree, [Next]_vars, NEW x \in Rounds
    PROVE  \/ ledger'[x] = ledger[x]
           \/ OpenRound(x) /\ ledger'[x] = "running"
           \/ FinLedger(x) /\ ledger[x] = "running" /\ ledger'[x] = fin[x].as /\ fin[x].as \in Terminal
           \/ Refuse(x) /\ ledger[x] = "running" /\ ledger'[x] = "failed"
           \/ \E s \in Kids : RecoverRound(s) /\ x[1] = s /\ ledger'[x] = "interrupted"
                              /\ (ledger[x] = "running" \/ ~HasRuns(s))
<1>1. CASE UNCHANGED ledger
  BY <1>1
<1>2. ASSUME NEW r \in Rounds, OpenRound(r) PROVE ledger'[x] = ledger[x] \/ (x = r /\ ledger'[x] = "running")
  BY <1>2 DEF OpenRound, TypeOK, DelegationsOK
<1>3. ASSUME NEW r \in Rounds, FinLedger(r)
      PROVE  \/ ledger'[x] = ledger[x]
             \/ x = r /\ ledger[x] = "running" /\ ledger'[x] = fin[x].as /\ fin[x].as \in Terminal
  BY <1>3 DEF FinLedger, Finish, At, RecordsAgree, RecordAgrees, TypeOK, DelegationsOK
<1>4. ASSUME NEW r \in Rounds, Refuse(r)
      PROVE  ledger'[x] = ledger[x] \/ (x = r /\ ledger[x] = "running" /\ ledger'[x] = "failed")
  BY <1>4 DEF Refuse, Finish, TypeOK, DelegationsOK
<1>5. ASSUME NEW s \in Kids, RecoverRound(s)
      PROVE  \/ ledger'[x] = ledger[x]
             \/ x[1] = s /\ ledger'[x] = "interrupted" /\ (ledger[x] = "running" \/ ~HasRuns(s))
  <2>1. PICK n \in 1 .. MaxRound : /\ ledger[<<s, n>>] = "running" \/ ~HasRuns(s)
                                   /\ ledger' = [ledger EXCEPT ![<<s, n>>] = "interrupted"]
    BY <1>5 DEF RecoverRound
  <2>2. CASE x = <<s, n>>
    BY <2>1, <2>2 DEF TypeOK, DelegationsOK
  <2>3. CASE x # <<s, n>>
    BY <2>1, <2>3 DEF TypeOK, DelegationsOK
  <2> QED BY <2>2, <2>3
<1>6. \/ UNCHANGED ledger
      \/ \E r \in Rounds : OpenRound(r) \/ FinLedger(r) \/ Refuse(r)
      \/ \E s \in Kids : RecoverRound(s)
  BY DelegationMoves DEF delVars, Crash, Exits, StartDelegation, FollowUp, CallStep, EndStep, TurnStep,
     StartTurn, RefuseTell, RefuseHide, CancelInterrupts, CancelIsHeard, Cascade, FinTell, FinHide, TurnEnds,
     Interrupt, InterruptIsHeard, Cancel, CancelPark, ArchiveByUser
<1> QED BY <1>1, <1>2, <1>3, <1>4, <1>5, <1>6

\* The rounds of a child stay in order.
LEMMA RowsInOrderStep ==
    ASSUME TypeOK, Forgotten, RowsInOrder, RecordsAgree, Addressed, [Next]_vars
    PROVE  RowsInOrder'
<1> DEFINE NoneSame == \A x \in Rounds : ledger'[x] = "none" <=> ledger[x] = "none"
           Born(s)  == sess[s] # "none" \/ sess'[s] = "none"
<1>1. Kids \subseteq Sessions /\ MaxRound \in Nat \ {0} /\ \A s \in Kids, n \in 1 .. MaxRound : <<s, n>> \in Rounds
  BY BoundsAssumption DEF Sessions, Rounds
<1>2. \A s \in Kids : latest[s] \in 0 .. MaxRound
  BY DEF TypeOK, DelegationsOK
\* Without a new row, a new record or a new request.
<1>3. ASSUME NoneSame, latest' = latest, \A x \in Rounds : call'[x] # call[x] => call[x] # NoCall /\ call'[x] # "round"
      PROVE  RowsInOrder'
  <2>1. ASSUME NEW s \in Kids, NEW k PROVE UpTo(ledger', s, k) <=> UpTo(ledger, s, k)
    BY <1>1, <1>3, SameRows
  <2>2. ASSUME NEW s \in Kids, sess'[s] = "none" PROVE sess[s] = "none"
    BY <1>1, <2>2, BeingMoves
  <2>3. \A s \in Kids : \E k \in 0 .. MaxRound : UpTo(ledger', s, k)
    BY <2>1 DEF RowsInOrder
  <2>4. \A s \in Kids : latest'[s] > 0 => UpTo(ledger', s, latest'[s])
    BY <1>3, <2>1 DEF RowsInOrder
  <2>5. \A x \in Rounds : call'[x] = "round" => UpTo(ledger', x[1], x[2] - 1)
    BY <1>3, <2>1, RoundParts DEF RowsInOrder
  <2>6. ASSUME NEW s \in Kids, sess'[s] = "none" PROVE UpTo(ledger', s, 0) /\ \A n \in 1 .. MaxRound : call'[<<s, n>>] = NoCall
    BY <1>1, <1>3, <2>1, <2>2, <2>6 DEF RowsInOrder
  <2> QED BY <2>3, <2>4, <2>5, <2>6 DEF RowsInOrder
<1>4. CASE UNCHANGED delVars
  BY <1>3, <1>4 DEF delVars
<1>5. CASE Crash \/ Exits
  <2>1. UNCHANGED <<ledger, sess>> /\ latest' = [s \in Kids |-> 0] /\ call' = [r \in Rounds |-> NoCall]
    BY <1>5 DEF Crash, Exits, Forget
  <2>2. \A x \in Rounds : call'[x] # "round"
    BY <2>1 DEF NoCall
  <2> QED BY <1>1, <2>1, <2>2 DEF RowsInOrder
<1>6. ASSUME NEW p \in Sessions, NEW t \in Kids, StartDelegation(p, t) PROVE RowsInOrder'
  <2>1. /\ UNCHANGED <<ledger, latest>> /\ sess[t] = "none" /\ sess' = [sess EXCEPT ![t] = "live"]
        /\ call' = [call EXCEPT ![<<t, 1>>] = "round"]
    BY <1>6 DEF StartDelegation
  <2>2. UpTo(ledger, t, 0)
    BY <2>1 DEF RowsInOrder
  <2>3. \A s \in Kids, k \in Nat : UpTo(ledger', s, k) <=> UpTo(ledger, s, k)
    BY <2>1 DEF UpTo
  <2>4. \A x \in Rounds : call'[x] = "round" => UpTo(ledger, x[1], x[2] - 1)
    BY <1>1, <2>1, <2>2, RoundParts DEF RowsInOrder, TypeOK, DelegationsOK
  <2>5. \A s \in Kids : sess'[s] = "none" => sess[s] = "none" /\ s # t
    BY <1>1, <2>1 DEF TypeOK, WorldOK
  <2> QED BY <1>1, <2>1, <2>3, <2>4, <2>5 DEF RowsInOrder, TypeOK, DelegationsOK
<1>7. ASSUME NEW p \in Sessions, NEW t \in Kids, FollowUp(p, t) PROVE RowsInOrder'
  <2> DEFINE n == Latest(t) + 1
  <2>1. /\ UNCHANGED <<ledger, latest>> /\ sess[t] # "none" /\ n <= MaxRound
        /\ call' = [call EXCEPT ![<<t, n>>] = "round"]
    BY <1>7 DEF FollowUp
  <2>2. Latest(t) \in 0 .. MaxRound /\ UpTo(ledger, t, Latest(t))
    BY LatestIsLast
  <2>3. n \in 1 .. MaxRound /\ n - 1 = Latest(t)
    BY <1>1, <2>1, <2>2
  <2> HIDE DEF n
  <2>4. \A x \in Rounds : call'[x] = "round" => UpTo(ledger, x[1], x[2] - 1)
    BY <1>1, <2>1, <2>2, <2>3, RoundParts DEF RowsInOrder, TypeOK, DelegationsOK
  <2>5. \A s \in Kids : sess'[s] = "none" => sess[s] = "none" /\ s # t
    BY <1>1, <2>1, BeingMoves
  <2>6. \A s \in Kids : s # t => \A m \in 1 .. MaxRound : call'[<<s, m>>] = call[<<s, m>>]
    BY <1>1, <2>1 DEF TypeOK, DelegationsOK
  <2> QED BY <1>1, <2>1, <2>4, <2>5, <2>6 DEF RowsInOrder
<1>8. ASSUME NEW r \in Rounds, OpenRound(r) PROVE RowsInOrder'
  <2> DEFINE t == r[1]
  <2>1. t \in Kids /\ r[2] \in 1 .. MaxRound /\ r = <<t, r[2]>>
    BY RoundParts
  <2>2. /\ call[r] = "round" /\ UNCHANGED sess
        /\ ledger' = [ledger EXCEPT ![r] = "running"] /\ latest' = [latest EXCEPT ![t] = r[2]]
        /\ call' = [call EXCEPT ![r] = "start"]
    BY <1>8 DEF OpenRound, worldVars
  <2>3. UpTo(ledger, t, r[2] - 1) /\ sess[t] # "none"
    BY <2>1, <2>2 DEF RowsInOrder, NoCall
  <2> HIDE DEF t
  <2>4. UpTo(ledger', t, r[2])
    <3>1. ASSUME NEW m \in 1 .. MaxRound PROVE ledger'[<<t, m>>] # "none" <=> m <= r[2]
      <4>1. ledger[<<t, m>>] # "none" <=> m <= r[2] - 1
        BY <2>3, UpToAt
      <4>2. <<t, m>> = r <=> m = r[2]
        BY <2>1
      <4>3. <<t, m>> \in Rounds
        BY <1>1, <2>1
      <4>4. ledger'[<<t, m>>] = IF m = r[2] THEN "running" ELSE ledger[<<t, m>>]
        BY <2>2, <4>2, <4>3 DEF TypeOK, DelegationsOK
      <4> QED BY <2>1, <4>1, <4>4
    <3> QED BY <3>1 DEF UpTo
  <2>5. \A s \in Kids, k \in 0 .. MaxRound : s # t => (UpTo(ledger', s, k) <=> UpTo(ledger, s, k))
    BY <1>1, <2>1, <2>2 DEF UpTo, TypeOK, DelegationsOK
  <2>6. ASSUME NEW x \in Rounds, call'[x] = "round" PROVE UpTo(ledger', x[1], x[2] - 1)
    <3>1. x # r /\ call[x] = "round"
      BY <2>2, <2>6 DEF TypeOK, DelegationsOK
    <3>2. x[1] \in Kids /\ x[2] \in 1 .. MaxRound /\ x = <<x[1], x[2]>> /\ UpTo(ledger, x[1], x[2] - 1)
      BY <3>1, RoundParts DEF RowsInOrder
    <3>3. x[2] - 1 \in 0 .. MaxRound /\ r[2] - 1 \in 0 .. MaxRound
      BY <1>1, <2>1, <3>2
    <3>4. x[1] # t
      <4>1. x[1] = t => x[2] - 1 = r[2] - 1
        BY <2>1, <2>3, <3>2, <3>3, UpToIsOne
      <4>2. x[2] - 1 = r[2] - 1 => x[2] = r[2]
        BY <2>1, <3>2
      <4> QED BY <2>1, <3>1, <3>2, <4>1, <4>2
    <3> QED BY <2>5, <3>2, <3>3, <3>4
  <2>7. \A s \in Kids : \E k \in 0 .. MaxRound : UpTo(ledger', s, k)
    <3>1. r[2] \in 0 .. MaxRound
      BY <1>1, <2>1
    <3> QED BY <2>4, <2>5, <3>1 DEF RowsInOrder
  <2>8. \A s \in Kids : latest'[s] > 0 => UpTo(ledger', s, latest'[s])
    BY <1>2, <2>1, <2>2, <2>4, <2>5 DEF RowsInOrder, TypeOK, DelegationsOK
  <2>9. \A s \in Kids : sess'[s] = "none" => UpTo(ledger', s, 0) /\ \A m \in 1 .. MaxRound : call'[<<s, m>>] = NoCall
    <3>1. \A s \in Kids : sess[s] = "none" => s # t /\ UpTo(ledger, s, 0) /\ \A m \in 1 .. MaxRound : call[<<s, m>>] = NoCall
      BY <2>3 DEF RowsInOrder
    <3>2. \A s \in Kids : s # t => \A m \in 1 .. MaxRound : call'[<<s, m>>] = call[<<s, m>>]
      BY <1>1, <2>1, <2>2 DEF TypeOK, DelegationsOK
    <3>3. 0 \in 0 .. MaxRound
      BY <1>1
    <3> QED BY <2>2, <2>5, <3>1, <3>2, <3>3
  <2> QED BY <2>6, <2>7, <2>8, <2>9 DEF RowsInOrder
<1>9. ASSUME NEW r \in Rounds, CallStep(r) \/ EndStep(r), ~OpenRound(r) PROVE RowsInOrder'
  <2>1. NoneSame
    <3>1. ASSUME NEW x \in Rounds PROVE ledger'[x] = "none" <=> ledger[x] = "none"
      <4>1. ~\E s \in Kids : RecoverRound(s)
        BY <1>9 DEF RecoverRound, CallStep, EndStep, StartTurn, Refuse, RefuseTell, RefuseHide, CancelInterrupts,
                    CancelIsHeard, Cascade, FinLedger, FinTell, FinHide, At, Up
      <4>2. OpenRound(x) => FALSE
        BY <1>9 DEF OpenRound, CallStep, EndStep, StartTurn, Refuse, RefuseTell, RefuseHide, CancelInterrupts,
                    CancelIsHeard, Cascade, FinLedger, FinTell, FinHide, TypeOK, DelegationsOK
      <4> QED BY <4>1, <4>2, RowMoves DEF Terminal
    <3> QED BY <3>1
  <2>2. latest' = latest /\ \A x \in Rounds : call'[x] # call[x] => call[x] # NoCall /\ call'[x] # "round"
    BY <1>9 DEF CallStep, EndStep, StartTurn, Refuse, RefuseTell, RefuseHide, CancelInterrupts,
                CancelIsHeard, Cascade, FinLedger, FinTell, FinHide, NoCall, TypeOK, DelegationsOK
  <2> QED BY <1>3, <2>1, <2>2
<1>10. ASSUME NEW s \in Kids, TurnStep(s), ~RecoverRound(s) PROVE RowsInOrder'
  BY <1>3, <1>10 DEF TurnStep, TurnEnds, Interrupt, InterruptIsHeard, Cancel
<1>11. ASSUME NEW s \in Sessions, ArchiveByUser(s) PROVE RowsInOrder'
  BY <1>3, <1>11 DEF ArchiveByUser
<1>12. ASSUME NEW t \in Kids, RecoverRound(t) PROVE RowsInOrder'
  <2>1. PICK n \in 1 .. MaxRound : /\ \/ ledger[<<t, n>>] = "running"
                                      \/ n = 1 /\ sess[t] = "live" /\ ~HasRuns(t)
                                   /\ ledger' = [ledger EXCEPT ![<<t, n>>] = "interrupted"]
    BY <1>12 DEF RecoverRound
  <2>2. /\ UNCHANGED <<latest, call, sess>> /\ ~Up /\ sess[t] # "none"
    BY <1>12 DEF RecoverRound, Up
  <2>3. CASE ledger[<<t, n>>] = "running"
    <3>1. NoneSame
      BY <1>1, <2>1, <2>3 DEF TypeOK, DelegationsOK
    <3> QED BY <1>3, <2>2, <3>1
  <2>4. CASE n = 1 /\ ~HasRuns(t)
    <3>1. UpTo(ledger', t, 1)
      <4>1. ASSUME NEW m \in 1 .. MaxRound PROVE ledger'[<<t, m>>] # "none" <=> m <= 1
        <5>1. ledger[<<t, m>>] = "none" /\ <<t, m>> \in Rounds /\ (<<t, m>> = <<t, 1>> <=> m = 1)
          BY <1>1, <2>4 DEF HasRuns
        <5>2. ledger'[<<t, m>>] = IF m = 1 THEN "interrupted" ELSE ledger[<<t, m>>]
          BY <2>1, <2>4, <5>1 DEF TypeOK, DelegationsOK
        <5> QED BY <5>1, <5>2
      <4> QED BY <4>1 DEF UpTo
    <3>2. \A s \in Kids, k \in 0 .. MaxRound : s # t => (UpTo(ledger', s, k) <=> UpTo(ledger, s, k))
      BY <1>1, <2>1 DEF UpTo, TypeOK, DelegationsOK
    <3>3. /\ \A s \in Kids : latest'[s] = 0
          /\ \A x \in Rounds : call'[x] # "round"
      BY <2>2 DEF Forgotten, NoCall
    <3>4. \A s \in Kids : \E k \in 0 .. MaxRound : UpTo(ledger', s, k)
      <4>1. 1 \in 0 .. MaxRound
        BY <1>1
      <4> QED BY <3>1, <3>2, <4>1 DEF RowsInOrder
    <3>5. \A s \in Kids : sess'[s] = "none" => UpTo(ledger', s, 0) /\ \A m \in 1 .. MaxRound : call'[<<s, m>>] = NoCall
      BY <1>1, <2>2, <3>2 DEF RowsInOrder
    <3> QED BY <3>3, <3>4, <3>5 DEF RowsInOrder
  <2> QED BY <2>1, <2>3, <2>4
<1>13. ASSUME NEW s \in Kids, CancelPark(s) PROVE RowsInOrder'
  BY <1>3, <1>13 DEF CancelPark
<1> HIDE DEF NoneSame
<1> QED BY <1>4, <1>5, <1>6, <1>7, <1>8, <1>9, <1>10, <1>11, <1>12, <1>13, DelegationMoves DEF CallStep, TurnStep

--------------------------------------------------------------------------------
(* What a step can do to one round *)

\* Of the variables a round has, these are left alone.
Same(x, v) == /\ "rec" \in v => rec'[x] = rec[x]
              /\ "call" \in v => call'[x] = call[x]
              /\ "ledger" \in v => ledger'[x] = ledger[x]
              /\ "fin" \in v => fin'[x].step = fin[x].step /\ fin'[x].by = fin[x].by /\ fin'[x].as = fin[x].as
              /\ "fate" \in v => fate'[x] = fate[x]

Stays(x)     == Same(x, {"rec", "call", "ledger", "fin", "fate"})
Drops(x)     == Same(x, {"rec", "call", "ledger", "fin"}) /\ rec[x] = "running" /\ fate'[x] = "dropped"
Forgets(x)   == /\ Same(x, {"ledger"}) /\ rec'[x] = "none" /\ call'[x] = NoCall
                /\ fate'[x] = (IF fate[x] = "refused" THEN "refused" ELSE "none")
                /\ fin'[x].step = "none" /\ phase' = "down"
Requests(x)  == Same(x, {"rec", "ledger", "fin", "fate"}) /\ call[x] = NoCall /\ call'[x] = "round"
Opens(x)     == /\ Same(x, {"fin", "fate"}) /\ call[x] = "round" /\ call'[x] = "start"
                /\ rec'[x] = "running" /\ ledger'[x] = "running"
Starts(x)    == /\ Same(x, {"rec", "ledger", "fin"}) /\ fate'[x] \in {fate[x], "stranded"}
                /\ call[x] = "start" /\ call'[x] = NoCall
                /\ StartTurn(x) /\ sess[x[1]] = "live"
Refused(x)   == /\ Same(x, {"ledger", "fin"}) /\ fate'[x] = "refused" /\ call[x] = "start" /\ call'[x] = "refuse"
                /\ rec'[x] = "failed"
Fails(x)     == /\ Same(x, {"rec", "fin", "fate"}) /\ call[x] = "refuse" /\ call'[x] = "refuseTell"
                /\ ledger'[x] = IF ledger[x] = "running" THEN "failed" ELSE ledger[x]
TellsRefusal(x) == /\ Same(x, {"rec", "ledger", "fin", "fate"})
                   /\ call[x] = "refuseTell" /\ call'[x] \in {"refuseHide", NoCall}
                   /\ outbox'[Told(x)].status # "none"
Hidden(x)    == Same(x, {"rec", "ledger", "fin", "fate"}) /\ call[x] = "refuseHide" /\ call'[x] = NoCall
Settles(x)   == /\ Same(x, {"call", "ledger", "fate"}) /\ rec[x] = "running" /\ fin'[x].step = "ledger"
                /\ rec'[x] \in {"completed", "failed", "cancelled"}
                /\ fin'[x].as = rec'[x]
                /\ fin'[x].by = "turn" => \E st \in {"completed", "failed"} : TurnEnds(x[1], st)
Cut(x)       == /\ Same(x, {"rec", "call", "ledger", "fate"}) /\ fin[x].by = "turn" /\ fin[x].step \in Steps
                /\ fin'[x].step = "cut"
Records(x)   == /\ Same(x, {"rec", "call", "fate"}) /\ fin[x].step = "ledger"
                /\ ledger[x] = "running" /\ ledger'[x] = fin[x].as
                /\ fin'[x].by = fin[x].by /\ fin'[x].step = IF fin[x].by = "cancel" THEN "interrupt" ELSE "tell"
Loses(x)     == /\ Same(x, {"rec", "call", "ledger", "fate"}) /\ fin[x].step = "ledger" /\ ledger[x] # "running"
                /\ fin'[x].step = "none"
Proceeds(x)  == /\ Same(x, {"rec", "call", "ledger", "fate"}) /\ fin'[x].by = fin[x].by
                /\ fin[x].step \in {"interrupt", "error", "cascade"}
                /\ fin'[x].step \in {"error", "cascade", "tell"}
                /\ fin'[x].step = "error" => fin[x].step = "interrupt"
                /\ fin[x].step = "error" => CancelIsHeard(x)
TellsEnd(x)  == /\ Same(x, {"rec", "call", "ledger", "fate"}) /\ fin[x].step = "tell"
                /\ \/ fin'[x].step = "hide" /\ fin'[x].by = fin[x].by
                   \/ fin'[x].step = "none"
                /\ outbox'[Told(x)].status # "none"
Leaves(x)    == Same(x, {"rec", "call", "ledger", "fate"}) /\ fin[x].step = "hide" /\ fin'[x].step = "none"
Recovers(x)  == Same(x, {"rec", "call", "fin", "fate"}) /\ ~Up /\ UNCHANGED phase /\ ledger'[x] = "interrupted"

RoundMove(x) == \/ Stays(x) \/ Drops(x) \/ Forgets(x) \/ Requests(x) \/ Opens(x) \/ Starts(x) \/ Refused(x) \/ Fails(x)
                \/ TellsRefusal(x) \/ Hidden(x) \/ Settles(x) \/ Cut(x) \/ Records(x) \/ Loses(x)
                \/ Proceeds(x) \/ TellsEnd(x) \/ Leaves(x) \/ Recovers(x)

\* A record that settles, and a handler that is cut off.
LEMMA SettleMoves ==
    ASSUME TypeOK, NEW h \in Rounds, NEW st, NEW by, Settle(h, st, by), NEW x \in Rounds
    PROVE  /\ rec'[x] = IF x = h THEN st ELSE rec[x]
           /\ x = h => fin'[x].step = "ledger" /\ fin'[x].by = by /\ fin'[x].as = st
           /\ x # h => fin'[x] = fin[x]
BY DEF TypeOK, DelegationsOK, Settle, Ending

\* A handler is cut off where it is a turn's, and left alone elsewhere.
LEMMA CutOffMoves ==
    ASSUME TypeOK, NEW s, NEW x \in Rounds
    PROVE  /\ CutOff(fin, s)[x].by = fin[x].by /\ CutOff(fin, s)[x].as = fin[x].as
           /\ \/ CutOff(fin, s)[x] = fin[x]
              \/ /\ x[1] = s /\ fin[x].by = "turn" /\ fin[x].step \in Steps
                 /\ CutOff(fin, s)[x].step = "cut"
BY DEF TypeOK, DelegationsOK, CutOff

\* Every step is one of these moves for every round.
LEMMA RoundMoves ==
    ASSUME TypeOK, RowsInOrder, RecordsAgree, [Next]_vars, NEW x \in Rounds
    PROVE  RoundMove(x)
<1> USE DEF Same
<1>1. CASE UNCHANGED delVars
  BY <1>1 DEF delVars, RoundMove, Stays
<1>2. CASE Crash \/ Exits
  BY <1>2 DEF Crash, Exits, Forget, NoFin, RoundMove, Forgets
<1>3. ASSUME NEW p \in Sessions, NEW s \in Kids, StartDelegation(p, s) \/ FollowUp(p, s) PROVE RoundMove(x)
  <2>1. sess[s] = "none" => call[<<s, 1>>] = NoCall
    BY BoundsAssumption DEF RowsInOrder
  <2> QED BY <1>3, <2>1 DEF StartDelegation, FollowUp, TypeOK, DelegationsOK, RoundMove, Stays, Requests
<1>4. ASSUME NEW r \in Rounds, CallStep(r) PROVE RoundMove(x)
  <2>1. CASE x # r
    BY <1>4, <2>1 DEF CallStep, OpenRound, StartTurn, Refuse, Finish, RefuseTell, RefuseHide,
                      TypeOK, DelegationsOK, RoundMove, Stays
  <2>2. CASE x = r
    <3>1. CASE OpenRound(r)
      BY <2>2, <3>1 DEF OpenRound, TypeOK, DelegationsOK, RoundMove, Opens
    <3>2. CASE StartTurn(r)
      BY <2>2, <3>2 DEF StartTurn, TypeOK, DelegationsOK, RoundMove, Starts, Refused
    <3>3. CASE Refuse(r)
      BY <2>2, <3>3 DEF Refuse, Finish, TypeOK, DelegationsOK, RoundMove, Fails
    <3>4. CASE RefuseTell(r)
      <4>1. Told(r) \in Keys /\ parent[r[1]] \in Sessions
        BY KeysAre, RoundParts DEF TypeOK, WorldOK
      <4>2. outbox'[Told(r)].status # "none"
        BY <3>4, <4>1, EnqueueMoves DEF RefuseTell
      <4> QED BY <2>2, <3>4, <4>2 DEF RefuseTell, TypeOK, DelegationsOK, RoundMove, TellsRefusal
    <3>5. CASE RefuseHide(r)
      BY <2>2, <3>5 DEF RefuseHide, TypeOK, DelegationsOK, RoundMove, Hidden
    <3> QED BY <1>4, <3>1, <3>2, <3>3, <3>4, <3>5 DEF CallStep
  <2> QED BY <2>1, <2>2
<1>5. ASSUME NEW r \in Rounds, CancelInterrupts(r) PROVE RoundMove(x)
  <2>1. UNCHANGED <<rec, call, ledger, fate>> /\ fin[r].step = "interrupt"
    BY <1>5 DEF CancelInterrupts, At
  <2>2. CASE fin' = [CutOff(fin, r[1]) EXCEPT ![r].step = "error"]
    <3>1. CutOff(fin, r[1]) \in [Rounds -> Handlers]
      BY CutOffType
    <3>2. x # r => fin'[x] = CutOff(fin, r[1])[x]
      BY <2>2, <3>1
    <3>3. x = r => fin'[x].step = "error" /\ fin'[x].by = fin[x].by
      BY <2>2, <3>1, CutOffMoves DEF Handlers
    <3>4. CASE x = r
      BY <2>1, <3>3, <3>4 DEF RoundMove, Proceeds
    <3>5. CASE x # r
      BY <2>1, <3>2, <3>5, CutOffMoves DEF RoundMove, Stays, Cut
    <3> QED BY <3>4, <3>5
  <2>3. CASE Go(r, "cascade")
    BY <2>1, <2>3 DEF Go, TypeOK, DelegationsOK, RoundMove, Stays, Proceeds
  <2> QED BY <1>5, <2>2, <2>3 DEF CancelInterrupts
<1>6. ASSUME NEW r \in Rounds, CancelIsHeard(r) PROVE RoundMove(x)
  <2>1. UNCHANGED <<call, ledger, fate>> /\ fin[r].step = "error" /\ r[1] \in Kids
    BY <1>6, RoundParts DEF CancelIsHeard, At
  <2>2. CASE Heard(r[1])
    <3> DEFINE h == Current(r[1])
    <3>1. h \in Rounds /\ rec[h] = "running" /\ h # r
      BY <2>1, <2>2, HeardIsCurrent DEF RecordsAgree, RecordAgrees, Terminal
    <3>2. rec' = [rec EXCEPT ![h] = "failed"]
          /\ fin' = [fin EXCEPT ![r].step = "cascade", ![h] = Ending("error", "failed")]
      BY <1>6, <2>2 DEF CancelIsHeard
    <3> HIDE DEF h
    <3>3. CASE x = h
      BY <2>1, <3>1, <3>2, <3>3 DEF TypeOK, DelegationsOK, RoundMove, Settles, Ending
    <3>4. CASE x = r
      BY <1>6, <2>1, <3>1, <3>2, <3>4 DEF TypeOK, DelegationsOK, RoundMove, Proceeds
    <3>5. CASE x # h /\ x # r
      BY <2>1, <3>1, <3>2, <3>5 DEF TypeOK, DelegationsOK, RoundMove, Stays
    <3> QED BY <3>3, <3>4, <3>5
  <2>3. CASE ~Heard(r[1])
    BY <1>6, <2>1, <2>3 DEF CancelIsHeard, Go, TypeOK, DelegationsOK, RoundMove, Stays, Proceeds
  <2> QED BY <2>2, <2>3
<1>7. ASSUME NEW r \in Rounds, Cascade(r) PROVE RoundMove(x)
  <2>1. UNCHANGED <<call, ledger, fate>> /\ fin[r].step = "cascade" /\ rec[r] # "running"
    BY <1>7 DEF Cascade, At, RecordsAgree, RecordAgrees, Terminal
  <2>2. \A y \in Below(r[1]) : rec[y] = "running"
    BY HeardIsCurrent DEF Below
  <2>3. /\ rec'[x] = IF x \in Below(r[1]) THEN "cancelled" ELSE rec[x]
        /\ fin'[x] = IF x = r THEN [fin[r] EXCEPT !.step = "tell", !.down = Below(r[1])]
                     ELSE IF x \in Below(r[1]) THEN Ending("cancel", "cancelled")
                     ELSE fin[x]
    BY <1>7 DEF Cascade
  <2> HIDE DEF Below
  <2>4. CASE x = r
    BY <2>1, <2>2, <2>3, <2>4 DEF TypeOK, DelegationsOK, RoundMove, Proceeds
  <2>5. CASE x # r /\ x \in Below(r[1])
    BY <2>1, <2>2, <2>3, <2>5 DEF RoundMove, Settles, Ending
  <2>6. CASE x # r /\ x \notin Below(r[1])
    BY <2>1, <2>3, <2>6 DEF RoundMove, Stays
  <2> QED BY <2>4, <2>5, <2>6
<1>8. ASSUME NEW r \in Rounds, FinLedger(r) \/ FinTell(r) \/ FinHide(r) PROVE RoundMove(x)
  <2>1. CASE x # r
    BY <1>8, <2>1 DEF FinLedger, Finish, FinTell, FinHide, Go, Over, At, TypeOK, DelegationsOK, RoundMove, Stays
  <2>2. CASE x = r /\ FinLedger(r)
    BY <2>2 DEF FinLedger, Finish, Go, Over, NoFin, At, TypeOK, DelegationsOK, RoundMove, Records, Loses
  <2>3. CASE x = r /\ FinTell(r)
    <3>1. Told(r) \in Keys /\ parent[r[1]] \in Sessions
      BY KeysAre, RoundParts DEF TypeOK, WorldOK
    <3>2. outbox'[Told(r)].status # "none"
      BY <2>3, <3>1, EnqueueMoves DEF FinTell
    <3> QED BY <2>3, <3>2 DEF FinTell, At, Over, NoFin, TypeOK, DelegationsOK, RoundMove, TellsEnd
  <2>4. CASE x = r /\ FinHide(r)
    BY <2>4 DEF FinHide, Over, NoFin, At, TypeOK, DelegationsOK, RoundMove, Leaves
  <2> QED BY <1>8, <2>1, <2>2, <2>3, <2>4
<1>9. ASSUME NEW s \in Kids, TurnStep(s) PROVE RoundMove(x)
  <2>1. ASSUME NEW st \in {"completed", "failed", "cancelled"}, NEW by, Heard(s), Settle(Current(s), st, by),
               UNCHANGED <<call, ledger, fate>>,
               by = "turn" => \E end \in {"completed", "failed"} : TurnEnds(s, end)
        PROVE  RoundMove(x)
    <3>1. Current(s) \in Rounds /\ Current(s)[1] = s /\ rec[Current(s)] = "running"
      BY <2>1, HeardIsCurrent
    <3>2. CASE x = Current(s)
      BY <2>1, <3>1, <3>2, SettleMoves DEF RoundMove, Settles
    <3>3. CASE x # Current(s)
      BY <2>1, <3>1, <3>3, SettleMoves DEF RoundMove, Stays
    <3> QED BY <3>2, <3>3
  <2>2. ASSUME UNCHANGED <<rec, fin, call, ledger, fate>> PROVE RoundMove(x)
    BY <2>2 DEF RoundMove, Stays
  <2>3. ASSUME NEW st \in {"completed", "failed"}, TurnEnds(s, st) PROVE RoundMove(x)
    <3>1. UNCHANGED <<call, ledger, fate>> /\ \E end \in {"completed", "failed"} : TurnEnds(s, end)
      BY <2>3 DEF TurnEnds
    <3>2. (Heard(s) /\ Settle(Current(s), st, "turn")) \/ UNCHANGED <<rec, fin>>
      BY <2>3 DEF TurnEnds
    <3> QED BY <2>1, <2>2, <3>1, <3>2
  <2>4. CASE Interrupt(s)
    BY <2>4, CutOffMoves DEF Interrupt, RoundMove, Stays, Cut
  <2>5. CASE InterruptIsHeard(s)
    BY <2>1, <2>2, <2>5 DEF InterruptIsHeard
  <2>6. CASE Cancel(s)
    BY <2>1, <2>6 DEF Cancel, CancelFlip
  <2>7. CASE RecoverRound(s)
    BY <2>7 DEF RecoverRound, Up, TypeOK, DelegationsOK, RoundMove, Stays, Recovers
  <2> QED BY <1>9, <2>3, <2>4, <2>5, <2>6, <2>7 DEF TurnStep
<1>10. ASSUME NEW s \in Sessions, ArchiveByUser(s) PROVE RoundMove(x)
  BY <1>10, CutOffMoves DEF ArchiveByUser, RoundMove, Stays, Cut
<1>11. ASSUME NEW s \in Kids, CancelPark(s) PROVE RoundMove(x)
  <2>1. UNCHANGED <<rec, fin, call, ledger>>
    BY <1>11 DEF CancelPark
  <2>2. fate' = fate \/ (Heard(s) /\ fate' = [fate EXCEPT ![Current(s)] = "dropped"])
    BY <1>11 DEF CancelPark
  <2>3. CASE fate' = fate
    BY <2>1, <2>3 DEF RoundMove, Stays
  <2>4. CASE Heard(s) /\ fate' = [fate EXCEPT ![Current(s)] = "dropped"]
    <3>1. Current(s) \in Rounds /\ rec[Current(s)] = "running"
      BY <2>4, HeardIsCurrent
    <3> QED BY <2>1, <2>4, <3>1 DEF TypeOK, DelegationsOK, RoundMove, Stays, Drops
  <2> QED BY <2>2, <2>3, <2>4
<1> QED BY <1>1, <1>2, <1>3, <1>4, <1>5, <1>6, <1>7, <1>8, <1>9, <1>10, <1>11, DelegationMoves DEF EndStep

--------------------------------------------------------------------------------
(* Records, ledger and the caller's prompt *)

\* A request opens a round that has no row, hence no record and no handler.
LEMMA OpensFresh ==
    ASSUME TypeOK, RowsInOrder, RecordsAgree, NEW x \in Rounds, call[x] = "round"
    PROVE  ledger[x] = "none" /\ rec[x] = "none" /\ fin[x].step = "none"
<1>1. x[1] \in Kids /\ x[2] \in 1 .. MaxRound /\ x = <<x[1], x[2]>> /\ UpTo(ledger, x[1], x[2] - 1)
  BY RoundParts DEF RowsInOrder
<1>2. ledger[<<x[1], x[2]>>] # "none" <=> x[2] <= x[2] - 1
  BY <1>1, UpToAt
<1>3. ledger[x] = "none"
  BY <1>1, <1>2, BoundsAssumption
<1> QED BY <1>3 DEF RecordsAgree, RecordAgrees, Terminal, TypeOK, DelegationsOK

\* Records and rows go on agreeing, whichever of two ends of a round comes first.
LEMMA RecordsAgreeStep ==
    ASSUME TypeOK, Forgotten, RowsInOrder, RecordsAgree, [Next]_vars
    PROVE  RecordsAgree'
<1> SUFFICES ASSUME NEW x \in Rounds PROVE RecordAgrees(x)'
  BY DEF RecordsAgree
<1>1. RecordAgrees(x) /\ RoundMove(x)
  BY RoundMoves DEF RecordsAgree
<1>2. /\ ledger[x] \in {"none", "running"} \cup Terminal
      /\ call[x] \in {NoCall} \cup Calls /\ fin[x].step \in Steps \cup {"none", "cut"}
  BY DEF TypeOK, DelegationsOK, States
<1> USE DEF Same, RecordAgrees, Terminal, Calls, NoCall, Steps
<1>3. CASE Stays(x) \/ Requests(x) \/ Starts(x) \/ Hidden(x) \/ TellsRefusal(x)
  BY <1>1, <1>3 DEF Stays, Requests, Starts, Hidden, TellsRefusal
<1>4. CASE Forgets(x)
  BY <1>1, <1>4 DEF Forgets
<1>5. CASE Opens(x)
  BY <1>1, <1>5, OpensFresh DEF Opens
<1>6. CASE Refused(x)
  BY <1>1, <1>2, <1>6 DEF Refused
<1>7. CASE Fails(x)
  BY <1>1, <1>2, <1>7 DEF Fails
<1>8. CASE Settles(x)
  BY <1>1, <1>2, <1>8 DEF Settles
<1>9. CASE Cut(x) \/ Loses(x) \/ TellsEnd(x) \/ Leaves(x)
  BY <1>1, <1>9 DEF Cut, Loses, TellsEnd, Leaves
<1>10. CASE Records(x)
  BY <1>1, <1>2, <1>10 DEF Records
<1>11. CASE Proceeds(x)
  BY <1>1, <1>11 DEF Proceeds
<1>12. CASE Recovers(x)
  <2>1. rec[x] = "none" /\ call[x] = NoCall /\ fin[x].step = "none"
    BY <1>12 DEF Recovers, Forgotten, NoFin
  <2> QED BY <1>12, <2>1 DEF Recovers
<1>13. CASE Drops(x)
  BY <1>1, <1>13 DEF Drops
<1> QED BY <1>1, <1>3, <1>4, <1>5, <1>6, <1>7, <1>8, <1>9, <1>10, <1>11, <1>12, <1>13 DEF RoundMove

\* What is told stays told.
LEMMA ToldStays ==
    ASSUME TypeOK, RowsBehindQueues, [Next]_vars, NEW x \in Rounds, IsTold(x)
    PROVE  IsTold(x)'
BY KeysAre, OutboxMoves DEF IsTold, Stored, Keeps

\* A process begins to serve at the end of a boot only.
LEMMA UpMoves ==
    ASSUME [Next]_vars, Up', ~Up
    PROVE  phase = "archive" /\ phase' = "up" /\ BootNext
BY PhaseMoves DEF Up, Crash, Stop, Exits, BootCommands, BootJobs, BootNext, Stage

\* An end that is in the ledger is told, or somebody is on the way there.
LEMMA EndsAreCarriedStep ==
    ASSUME TypeOK, Forgotten, RowsInOrder, RecordsAgree, EndsAreCarried, RowsBehindQueues, Booted, [Next]_vars
    PROVE  EndsAreCarried'
<1> SUFFICES ASSUME NEW x \in Rounds PROVE Carried(x)'
  BY DEF EndsAreCarried
<1>1. Carried(x) /\ RecordAgrees(x) /\ RoundMove(x)
  BY RoundMoves DEF EndsAreCarried, RecordsAgree
<1>2. /\ ledger[x] \in {"none", "running"} \cup Terminal
      /\ call[x] \in {NoCall} \cup Calls /\ fin[x].step \in Steps \cup {"none", "cut"}
  BY DEF TypeOK, DelegationsOK, States
<1>3. IsTold(x) => IsTold(x)'
  BY ToldStays
<1>4. ASSUME Up', ~Up PROVE Stays(x) /\ (ledger[x] \in Terminal => IsTold(x))
  <2>1. phase = "archive" /\ BootNext
    BY <1>4, UpMoves
  <2>2. Untold = {}
    BY <2>1 DEF Booted
  <2> QED BY <2>1, <2>2 DEF BootNext, BootOther, delVars, Stays, Same, Untold, IsTold
<1> USE DEF Same, RecordAgrees, Terminal, Calls, NoCall, Steps
<1>5. CASE Stays(x)
  BY <1>1, <1>3, <1>4, <1>5 DEF Stays, Carried
<1>6. CASE Forgets(x)
  BY <1>1, <1>6 DEF Forgets, Carried, Up
<1>7. ASSUME ~Stays(x) PROVE Up' => Up
  BY <1>4, <1>7
<1>8. CASE (Requests(x) \/ Starts(x) \/ Hidden(x) \/ Drops(x)) /\ ~Stays(x)
  BY <1>1, <1>3, <1>7, <1>8 DEF Requests, Starts, Hidden, Drops, Carried
<1>9. CASE TellsRefusal(x) \/ TellsEnd(x)
  <2>1. IsTold(x)'
    BY <1>9 DEF TellsRefusal, TellsEnd, IsTold
  <2> QED BY <1>1, <1>9, <2>1 DEF TellsRefusal, TellsEnd, Carried
<1>10. CASE Opens(x)
  BY <1>1, <1>10, OpensFresh DEF Opens, Carried
<1>11. CASE Refused(x) /\ ~Stays(x)
  BY <1>1, <1>2, <1>3, <1>7, <1>11 DEF Refused, Carried
<1>12. CASE Fails(x)
  BY <1>1, <1>2, <1>3, <1>12 DEF Fails, Carried
<1>13. CASE Settles(x)
  BY <1>1, <1>2, <1>3, <1>13 DEF Settles, Carried
<1>14. CASE Cut(x)
  BY <1>1, <1>3, <1>14 DEF Cut, Carried
<1>15. CASE Records(x)
  BY <1>1, <1>2, <1>3, <1>15 DEF Records, Carried
<1>16. CASE Loses(x) /\ ~Stays(x)
  BY <1>1, <1>2, <1>3, <1>7, <1>16 DEF Loses, Carried
<1>17. CASE Proceeds(x)
  BY <1>1, <1>3, <1>17 DEF Proceeds, Carried
<1>18. CASE Leaves(x)
  BY <1>1, <1>3, <1>18 DEF Leaves, Carried
<1>19. CASE Recovers(x)
  <2>1. call[x] = NoCall /\ fin[x].step = "none" /\ ~Up'
    BY <1>19 DEF Recovers, Forgotten, NoFin, Up
  <2> QED BY <1>19, <2>1 DEF Recovers, Carried
<1> QED BY <1>1, <1>5, <1>6, <1>8, <1>9, <1>10, <1>11, <1>12, <1>13, <1>14, <1>15, <1>16, <1>17, <1>18, <1>19
       DEF RoundMove

--------------------------------------------------------------------------------
(* The caller's prompt says what the row says *)

\* A prompt is stored with what the row says, and a row that has ended stays so.
LEMMA ReplyIsTrueStep ==
    ASSUME TypeOK, RowsInOrder, RecordsAgree, EndsAreCarried, RowsBehindQueues, ReplyIsTrue, [Next]_vars
    PROVE  ReplyIsTrue'
<1> SUFFICES ASSUME NEW x \in Rounds, IsTold(x)'
             PROVE  /\ ledger'[x] \in Terminal
                    /\ outbox'[Told(x)].says = "reply" => ledger'[x] = "completed"
                    /\ ledger'[x] = "completed" => outbox'[Told(x)].says = "reply" \/ fate'[x] = "refused"
  BY DEF ReplyIsTrue, IsTold
<1>1. Told(x) \in Keys
  BY KeysAre
<1>2. ledger[x] \in Terminal => ledger'[x] = ledger[x]
  <2>1. ASSUME NEW s \in Kids, x[1] = s, ~HasRuns(s) PROVE ledger[x] = "none"
    BY <2>1, RoundParts DEF HasRuns
  <2>2. ASSUME OpenRound(x) PROVE ledger[x] = "none"
    BY <2>2, OpensFresh DEF OpenRound
  <2> QED BY <2>1, <2>2, RowMoves DEF Terminal
<1>5. fate[x] = "refused" => fate'[x] = "refused"
  <2>1. RecordAgrees(x) /\ RoundMove(x)
    BY RoundMoves DEF RecordsAgree
  <2> QED BY <2>1 DEF RecordAgrees, RoundMove, Same, Stays, Drops, Forgets, Requests, Opens, Starts, Refused, Fails,
                      TellsRefusal, Hidden, Settles, Cut, Records, Loses, Proceeds, TellsEnd, Leaves, Recovers
<1>3. CASE IsTold(x)
  <2>1. outbox'[Told(x)].says = outbox[Told(x)].says
    BY <1>1, <1>3, OutboxMoves DEF IsTold, Stored, Keeps
  <2> QED BY <1>2, <1>3, <1>5, <2>1 DEF ReplyIsTrue
<1>4. CASE ~IsTold(x)
  <2>1. PICK r \in Rounds : ByRecord(r, Told(x)) \/ ByRow(r, Told(x))
    BY <1>1, <1>4, OutboxMoves, KeysDiffer DEF IsTold, Stored
  <2>2. r = x
    BY <2>1, KeysDiffer DEF ByRecord, ByRow, Tells
  <2>3. CASE ByRecord(x, Told(x))
    <3>1. ledger[x] \in Terminal /\ rec[x] \in Terminal
      BY <2>3 DEF ByRecord, RefuseTell, FinTell, At, EndsAreCarried, Carried, RecordsAgree, RecordAgrees,
                  Steps, Terminal
    <3>2. /\ rec[x] = "completed" => ledger[x] = "completed"
          /\ ledger[x] = "completed" => rec[x] = "completed" \/ fate[x] = "refused"
      BY <3>1 DEF RecordsAgree, RecordAgrees, Terminal
    <3> QED BY <1>2, <1>5, <2>3, <3>1, <3>2 DEF ByRecord, Says
  <2>4. CASE ByRow(x, Told(x))
    <3>1. ledger[x] \in Terminal
      BY <2>4 DEF ByRow, RecoverTell, Untold
    <3> QED BY <1>2, <2>4, <3>1 DEF ByRow, Says
  <2> QED BY <2>1, <2>2, <2>3, <2>4
<1> QED BY <1>3, <1>4

--------------------------------------------------------------------------------
(* What a step can do to one session *)

\* A driver and its queue rest, or the queue grows behind a driver.
Grows(s) == \E p \in Prompts : (p \in Keys => Stored(p)) /\ queue'[s] = Append(queue[s], p)
Rests(s) == drv'[s] = drv[s] /\ parked'[s] = parked[s] /\ (queue'[s] = queue[s] \/ Grows(s))

\* A driver is started, by a prompt or after a usage limit.
Begins(s) == /\ sess[s] = "live" /\ drv[s] = "none" /\ drv'[s] = "turn"
             /\ ~parked'[s] /\ queue'[s] = queue[s]

\* Its turn ends, parks or is cut; it picks the next prompt, or ends.
Ends(s)    == /\ drv[s] = "turn" /\ queue'[s] = queue[s] /\ parked'[s] = parked[s]
              /\ s \in Kids => drv'[s] = "over" /\ \E st \in {"completed", "failed"} : TurnEnds(s, st)
Parks(s)   == drv[s] = "turn" /\ drv'[s] = "none" /\ parked'[s] /\ queue'[s] = queue[s]
IsCut(s)   == /\ s \in Kids /\ Interruptible(s) /\ drv'[s] = "over" /\ queue'[s] = queue[s]
              /\ parked'[s] = parked[s] /\ (stop'[s] \/ \E r \in Rounds : r[1] = s /\ fin'[r].step = "error")
Picks(s)   == /\ drv[s] = "over" /\ (s \in Kids => ~Handling(s)) /\ parked'[s] = parked[s]
              /\ \/ drv'[s] = "turn" /\ queue[s] # <<>> /\ queue'[s] = Tail(queue[s])
                 \/ drv'[s] = "idle" /\ queue[s] = <<>> /\ queue'[s] = queue[s]
Retires(s) == drv[s] = "idle" /\ drv'[s] = "none" /\ queue'[s] = queue[s] /\ parked'[s] = parked[s]

\* The session goes: with the process, or archived by a person; it comes back empty.
Dies(s)    == phase' = "down" /\ Forget
Closes(s)  == ArchiveByUser(s) /\ drv'[s] = "none" /\ queue'[s] = <<>> /\ parked'[s] = parked[s] /\ sess'[s] = "archived"
Revives(s) == sess[s] = "archived" /\ drv'[s] = drv[s] /\ parked'[s] = parked[s] /\ queue'[s] = <<>>

\* A park goes without a turn: at boot, when somebody else has the session, or with
\* nothing behind it.
Unparks(s) == /\ drv'[s] = drv[s] /\ ~parked'[s] /\ queue'[s] = queue[s]
              /\ \/ ~Up \/ sess[s] # "live" \/ (drv[s] # "none" /\ parked[s])
                 \/ s \in Kids /\ CancelPark(s) /\ queue[s] = <<>>

\* A person gives the parked turn up, and a driver takes what waited behind it.
Takes(s)   == /\ sess[s] = "live" /\ parked[s] /\ ~parked'[s] /\ drv'[s] = "turn"
              /\ queue[s] # <<>> /\ queue'[s] = Tail(queue[s])

SessionMove(s) == \/ Rests(s) \/ Begins(s) \/ Ends(s) \/ Parks(s) \/ IsCut(s) \/ Picks(s) \/ Retires(s)
                  \/ Dies(s) \/ Closes(s) \/ Revives(s) \/ Unparks(s) \/ Takes(s)

\* start_message moves its own session only.
LEMMA SubmitMoves ==
    ASSUME TypeOK, NEW t \in Sessions, NEW p \in Prompts, p \in Keys => Stored(p), Submit(t, p, outbox),
           sess[t] = "live", UNCHANGED parked, NEW s \in Sessions
    PROVE  Rests(s) \/ Begins(s)
<1>1. CASE Busy(t)
  BY <1>1 DEF Submit, Rests, Grows, TypeOK, WorldOK
<1>2. CASE ~Busy(t)
  BY <1>2 DEF Submit, Busy, Rests, Begins, TypeOK, WorldOK
<1> QED BY <1>1, <1>2

\* Nothing else happens to a session's driver, queue and park.
LEMMA SessionMoves ==
    ASSUME TypeOK, [Next]_vars, NEW s \in Sessions
    PROVE  SessionMove(s)
<1>1. UNCHANGED <<drv, queue, parked>> => SessionMove(s)
  BY DEF SessionMove, Rests
<1>2. Kids \subseteq Sessions /\ \A r \in Rounds : r[1] \in Kids
  BY RoundParts DEF Sessions
<1>3. ASSUME NEW k \in Keys, Dispatch(k) PROVE SessionMove(s)
  <2>1. CASE sess[outbox[k].to] # "live"
    BY <1>1, <1>3, <2>1 DEF Dispatch
  <2>2. CASE sess[outbox[k].to] = "live"
    <3>1. Submit(outbox[k].to, k, outbox) /\ UNCHANGED parked /\ Stored(k) /\ k \in Prompts /\ outbox[k].to \in Sessions
      BY <1>3, <2>2, KeysAre DEF Dispatch, Waiting, Stored, TypeOK, WorldOK
    <3> QED BY <2>2, <3>1, SubmitMoves DEF SessionMove
  <2> QED BY <2>1, <2>2
<1>4. ASSUME NEW t \in Sessions, (t \in Kids => ~Handling(t)), NextPrompt(t) PROVE SessionMove(s)
  <2>1. CASE s # t
    BY <1>4, <2>1 DEF NextPrompt, TakeNext, SessionMove, Rests, TypeOK, WorldOK
  <2>2. CASE s = t
    BY <1>4, <2>2 DEF NextPrompt, TakeNext, SessionMove, Picks, TypeOK, WorldOK
  <2> QED BY <2>1, <2>2
<1>5. ASSUME NEW t \in Sessions, DriverEnds(t) PROVE SessionMove(s)
  BY <1>5 DEF DriverEnds, SessionMove, Rests, Retires, TypeOK, WorldOK
<1>6. ASSUME NEW t \in Kids, Wakes(t) PROVE SessionMove(s)
  BY <1>2, <1>6 DEF Wakes, SessionMove, Rests, Begins, Unparks, TypeOK, WorldOK
<1>7. ASSUME RootTurnEnds PROVE SessionMove(s)
  BY <1>7, RootAssumption DEF RootTurnEnds, SessionMove, Rests, Ends, TypeOK, WorldOK, Sessions
<1>8. ASSUME NEW p \in Sessions, NEW t \in Kids, StartDelegation(p, t) PROVE SessionMove(s)
  BY <1>1, <1>8 DEF StartDelegation
<1>9. ASSUME NEW p \in Sessions, NEW t \in Kids, FollowUp(p, t) PROVE SessionMove(s)
  BY <1>2, <1>9 DEF FollowUp, Unarchived, SessionMove, Rests, Revives, TypeOK, WorldOK
<1>10. ASSUME NEW r \in Rounds, StartTurn(r) PROVE SessionMove(s)
  <2>1. CASE sess[r[1]] # "live"
    BY <1>1, <1>10, <2>1 DEF StartTurn
  <2>2. CASE sess[r[1]] = "live"
    <3>1. Submit(r[1], Ask(r), outbox) /\ UNCHANGED parked /\ Ask(r) \in Prompts /\ r[1] \in Sessions
      BY <1>2, <1>10, <2>2, KeysAre DEF StartTurn
    <3> QED BY <2>2, <3>1, SubmitMoves, AskIsNoKey DEF SessionMove
  <2> QED BY <2>1, <2>2
<1>11. ASSUME NEW r \in Rounds, CancelInterrupts(r) PROVE SessionMove(s)
  <2>1. CASE ~Interruptible(r[1])
    BY <1>1, <1>11, <2>1 DEF CancelInterrupts
  <2>2. CASE Interruptible(r[1])
    <3>1. drv' = [drv EXCEPT ![r[1]] = "over"] /\ UNCHANGED <<queue, parked>>
      BY <1>11, <2>2 DEF CancelInterrupts, CutTurn
    <3>2. fin'[r].step = "error"
      <4>1. CutOff(fin, r[1]) \in [Rounds -> Handlers] /\ fin' = [CutOff(fin, r[1]) EXCEPT ![r].step = "error"]
        BY <1>11, <2>2, CutOffType DEF CancelInterrupts
      <4> QED BY <4>1 DEF Handlers
    <3> QED BY <1>2, <2>2, <3>1, <3>2 DEF SessionMove, Rests, IsCut, TypeOK, WorldOK
  <2> QED BY <2>1, <2>2
<1>12. ASSUME NEW r \in Rounds,
              \/ OpenRound(r) \/ Refuse(r) \/ RefuseTell(r) \/ RefuseHide(r) \/ CancelIsHeard(r)
              \/ Cascade(r) \/ FinLedger(r) \/ FinTell(r) \/ FinHide(r) \/ RecoverTell(r)
       PROVE  SessionMove(s)
  BY <1>1, <1>12 DEF OpenRound, Refuse, RefuseTell, RefuseHide, CancelIsHeard, Cascade, FinLedger, FinTell,
                     FinHide, RecoverTell, worldVars
<1>13. ASSUME NEW t \in Kids, NEW st \in {"completed", "failed"}, TurnEnds(t, st) PROVE SessionMove(s)
  <2>1. CASE s # t
    BY <1>13, <2>1 DEF TurnEnds, SessionMove, Rests, TypeOK, WorldOK
  <2>2. CASE s = t
    <3>1. drv[s] = "turn" /\ drv'[s] = "over" /\ UNCHANGED <<queue, parked>>
      BY <1>13, <2>2 DEF TurnEnds, TypeOK, WorldOK
    <3> QED BY <1>13, <2>2, <3>1 DEF SessionMove, Ends
  <2> QED BY <2>1, <2>2
<1>14. ASSUME NEW t \in Kids, TurnParks(t) \/ Interrupt(t) \/ RecoverRound(t) PROVE SessionMove(s)
  <2>1. CASE TurnParks(t)
    BY <1>2, <2>1 DEF TurnParks, SessionMove, Rests, Parks, TypeOK, WorldOK
  <2>2. CASE Interrupt(t)
    <3>1. /\ drv' = [drv EXCEPT ![t] = "over"] /\ UNCHANGED <<queue, parked>> /\ Interruptible(t)
          /\ stop' = [stop EXCEPT ![t] = TRUE]
      BY <2>2 DEF Interrupt, CutTurn
    <3> QED BY <1>2, <3>1 DEF SessionMove, Rests, IsCut, TypeOK, WorldOK, DelegationsOK
  <2>3. CASE RecoverRound(t)
    BY <1>2, <2>3 DEF RecoverRound, Up, SessionMove, Rests, Unparks, TypeOK, WorldOK
  <2> QED BY <1>14, <2>1, <2>2, <2>3
<1>15. ASSUME NEW t \in Kids, TurnAsks(t) \/ Answered(t) \/ InterruptIsHeard(t) \/ Cancel(t) \/ RecoverArchive(t)
       PROVE  SessionMove(s)
  BY <1>1, <1>15 DEF TurnAsks, Answered, InterruptIsHeard, Cancel, RecoverArchive, worldVars
<1>16. ASSUME NEW t \in Sessions, ArchiveByUser(t) PROVE SessionMove(s)
  <2>1. CASE s # t
    BY <1>16, <2>1 DEF ArchiveByUser, SessionMove, Rests, TypeOK, WorldOK
  <2>2. CASE s = t
    <3>1. drv'[s] = "none" /\ queue'[s] = <<>> /\ sess'[s] = "archived" /\ parked'[s] = parked[s]
      BY <1>16, <2>2 DEF ArchiveByUser, TypeOK, WorldOK
    <3> QED BY <1>16, <2>2, <3>1 DEF SessionMove, Closes
  <2> QED BY <2>1, <2>2
<1>17. ASSUME NEW k \in Keys, Materialize(k) PROVE SessionMove(s)
  BY <1>1, <1>17 DEF Materialize
<1>18. CASE WorkNext
  BY <1>1, <1>18, WorkFrame
<1>19. CASE Crash \/ Exits
  BY <1>19 DEF Crash, Exits, SessionMove, Dies
<1>20. CASE Stop \/ BootCommands \/ BootJobs \/ BootNext \/ UNCHANGED vars
  BY <1>1, <1>20 DEF Stop, BootCommands, BootJobs, BootNext, BootOther, vars, worldVars
<1>21. CASE WorldNext
  BY <1>3, <1>4, <1>5, <1>6, <1>7, <1>21 DEF WorldNext
<1>23. ASSUME NEW t \in Kids, CancelPark(t) PROVE SessionMove(s)
  <2>1. t \in Sessions /\ parked[t] /\ parked' = [parked EXCEPT ![t] = FALSE]
    BY <1>2, <1>23 DEF CancelPark
  <2>2. CASE sess[t] = "live" /\ queue[t] # <<>>
    <3>1. drv' = [drv EXCEPT ![t] = "turn"] /\ queue' = [queue EXCEPT ![t] = Tail(queue[t])]
      BY <1>23, <2>2 DEF CancelPark, TakeNext
    <3> QED BY <2>1, <2>2, <3>1 DEF SessionMove, Rests, Takes, TypeOK, WorldOK
  <2>3. CASE ~(sess[t] = "live" /\ queue[t] # <<>>)
    <3>1. UNCHANGED <<drv, queue>>
      BY <1>23, <2>3 DEF CancelPark
    <3>2. CASE s # t
      BY <2>1, <3>1, <3>2 DEF SessionMove, Rests, TypeOK, WorldOK
    <3>3. CASE s = t
      BY <1>23, <2>1, <2>3, <3>1, <3>3 DEF SessionMove, Unparks, TypeOK, WorldOK
    <3> QED BY <3>2, <3>3
  <2> QED BY <2>2, <2>3
<1>22. CASE DelegationsNext
  BY <1>8, <1>9, <1>10, <1>11, <1>12, <1>13, <1>14, <1>15, <1>16, <1>17, <1>22, <1>23 DEF DelegationsNext
<1> QED BY <1>18, <1>19, <1>20, <1>21, <1>22 DEF Next

\* A session's parent is set when it is created; a command or a job gets its
\* home when it starts, a live session each time.
LEMMA HomeMoves ==
    ASSUME [Next]_vars
    PROVE  /\ \/ UNCHANGED parent
              \/ \E p \in Sessions, s \in Kids : StartDelegation(p, s)
           /\ \/ UNCHANGED home
              \/ \E w \in Commands \cup Jobs, s \in Sessions : sess[s] = "live" /\ home' = [home EXCEPT ![w] = s]
<1>1. CASE WorldNext
  BY <1>1 DEF WorldNext, Dispatch, NextPrompt, TakeNext, DriverEnds, Wakes, RootTurnEnds, workVars
<1>2. CASE DelegationsNext /\ UNCHANGED workVars
  BY <1>2 DEF DelegationsNext, FollowUp, OpenRound, StartTurn, Refuse, RefuseTell, RefuseHide,
              CancelInterrupts, CancelIsHeard, Cascade, FinLedger, FinTell, FinHide, RecoverTell,
              TurnEnds, TurnParks, CancelPark, TurnAsks, Answered, Interrupt, InterruptIsHeard, Cancel, RecoverRound,
              RecoverArchive, ArchiveByUser, Materialize, worldVars, workVars
<1>3. CASE WorkNext
  <2>1. \/ UNCHANGED home
        \/ \E b \in Commands, s \in Sessions : StartCommand(b, s)
        \/ \E j \in Jobs, s \in Sessions : StartJob(j, s)
    BY <1>3 DEF WorkNext, StopCommands, CommandExits, CommandRow, CancelCommand, CommandTimesOut,
              CommandDrains, CommandRecords, CommandDelivers, RecoverCommand, JobRuns, JobCompletes,
              JobFails, JobReports, JobFinalReads, JobFinalWrites, CancelJob, CancelWrites, CancelKills,
              StopJob, RecoverReport, workVars
  <2> QED BY <1>3, <2>1, WorkFrame DEF StartCommand, StartJob
<1>4. CASE Crash \/ Stop \/ Exits \/ BootCommands \/ BootJobs \/ BootNext \/ UNCHANGED vars
  BY <1>4 DEF Crash, Stop, Exits, BootCommands, BootJobs, BootNext, BootOther, vars, worldVars, workVars
<1> QED BY <1>1, <1>2, <1>3, <1>4 DEF Next

--------------------------------------------------------------------------------
(* Who is addressed, what is queued, who waits *)

\* Drivers, prompts and work belong to sessions that exist, and these stay.
LEMMA AddressedStep ==
    ASSUME TypeOK, Addressed, RowsBehindQueues, [Next]_vars
    PROVE  Addressed'
<1>1. ASSUME NEW s \in Sessions, sess[s] # "none" PROVE sess'[s] # "none"
  BY <1>1, BeingMoves
<1>2. Kids \subseteq Sessions /\ Root \in Sessions /\ \A r \in Rounds : r[1] \in Kids
  BY RoundParts DEF Sessions
<1>3. ASSUME NEW s \in Sessions, drv'[s] # "none" PROVE sess'[s] # "none"
  <2>1. SessionMove(s)
    BY SessionMoves
  <2>2. sess[s] # "none" \/ drv[s] # "none"
    BY <1>3, <2>1 DEF SessionMove, Rests, Begins, Ends, Parks, IsCut, Interruptible, Picks, Retires, Dies, Forget,
                      Closes, Revives, Unparks, Takes
  <2> QED BY <1>1, <2>2 DEF Addressed
<1>4. ASSUME NEW s \in Kids PROVE sess'[parent'[s]] # "none"
  <2>1. parent'[s] = parent[s] \/ (parent'[s] \in Sessions /\ sess[parent'[s]] = "live")
    BY <1>2, HomeMoves DEF StartDelegation, TypeOK, WorldOK
  <2>2. parent'[s] \in Sessions /\ sess[parent'[s]] # "none"
    BY <1>2, <2>1 DEF Addressed, TypeOK, WorldOK
  <2> QED BY <1>1, <2>2
<1>5. ASSUME NEW w \in Commands \cup Jobs PROVE sess'[home'[w]] # "none"
  <2>1. home'[w] = home[w] \/ (home'[w] \in Sessions /\ sess[home'[w]] = "live")
    BY HomeMoves DEF TypeOK, WorkOK
  <2>2. home'[w] \in Sessions /\ sess[home'[w]] # "none"
    BY <2>1 DEF Addressed, TypeOK, WorkOK
  <2> QED BY <1>1, <2>2
<1>6. ASSUME NEW k \in Keys, outbox'[k].status # "none" PROVE sess'[outbox'[k].to] # "none"
  <2>1. CASE Stored(k)
    <3>1. outbox'[k].to = outbox[k].to /\ outbox[k].to \in Sessions
      BY <2>1, OutboxMoves DEF Keeps, TypeOK, WorldOK
    <3> QED BY <1>1, <2>1, <3>1 DEF Addressed, Stored
  <2>2. CASE ~Stored(k)
    <3>1. \/ \E s \in Kids : outbox'[k].to = parent[s]
          \/ \E w \in Commands \cup Jobs : outbox'[k].to = home[w]
      BY <1>2, <1>6, <2>2, OutboxMoves DEF Stored, ByRecord, ByRow, Tells
    <3>2. outbox'[k].to \in Sessions /\ sess[outbox'[k].to] # "none"
      BY <1>2, <3>1 DEF Addressed, TypeOK, WorldOK, WorkOK
    <3> QED BY <1>1, <3>2
  <2> QED BY <2>1, <2>2
<1>7. sess'[Root] # "none"
  BY <1>1, <1>2 DEF Addressed
<1> QED BY <1>3, <1>4, <1>5, <1>6, <1>7 DEF Addressed

\* A key that is queued has its row.
LEMMA RowsBehindQueuesStep ==
    ASSUME TypeOK, RowsBehindQueues, [Next]_vars
    PROVE  RowsBehindQueues'
<1> SUFFICES ASSUME NEW s \in Sessions, NEW i \in DOMAIN (queue'[s]), queue'[s][i] \in Keys
             PROVE  outbox'[queue'[s][i]].status # "none"
  BY DEF RowsBehindQueues, Stored
<1>1. ASSUME NEW k \in Keys, Stored(k) PROVE outbox'[k].status # "none"
  BY <1>1, OutboxMoves DEF Keeps
<1>2. queue[s] \in Seq(Prompts)
  BY DEF TypeOK, WorldOK
<1>3. \A n \in DOMAIN queue[s] : queue[s][n] \in Keys => Stored(queue[s][n])
  BY DEF RowsBehindQueues
<1>4. CASE queue'[s] = queue[s]
  BY <1>1, <1>3, <1>4
<1>5. CASE Grows(s)
  <2>1. PICK p \in Prompts : (p \in Keys => Stored(p)) /\ queue'[s] = Append(queue[s], p)
    BY <1>5 DEF Grows
  <2>2. i \in 1 .. (Len(queue[s]) + 1)
    BY <1>2, <2>1
  <2>3. CASE i = Len(queue[s]) + 1
    BY <1>1, <1>2, <2>1, <2>3
  <2>4. CASE i # Len(queue[s]) + 1
    <3>1. i \in DOMAIN queue[s] /\ queue'[s][i] = queue[s][i]
      BY <1>2, <2>1, <2>2, <2>4
    <3> QED BY <1>1, <1>3, <3>1
  <2> QED BY <2>3, <2>4
<1>6. CASE queue[s] # <<>> /\ queue'[s] = Tail(queue[s])
  <2>1. i + 1 \in DOMAIN queue[s] /\ queue'[s][i] = queue[s][i + 1]
    BY <1>2, <1>6
  <2> QED BY <1>1, <1>3, <2>1
<1>7. CASE queue'[s] = <<>>
  BY <1>7
<1>8. queue'[s] = queue[s] \/ Grows(s) \/ (queue[s] # <<>> /\ queue'[s] = Tail(queue[s])) \/ queue'[s] = <<>>
  BY SessionMoves DEF SessionMove, Rests, Begins, Ends, Parks, IsCut, Picks, Retires, Dies, Forget,
                      Closes, Revives, Unparks, Takes
<1> QED BY <1>4, <1>5, <1>6, <1>7, <1>8

\* The handler of a turn starts where the turn ends, and goes with an interrupt or
\* an archive.
LEMMA HandlingMoves ==
    ASSUME TypeOK, RowsInOrder, RecordsAgree, [Next]_vars, NEW s \in Kids, Handling(s)'
    PROVE  /\ Handling(s) \/ \E st \in {"completed", "failed"} : TurnEnds(s, st)
           /\ ~ArchiveByUser(s) /\ ~Forget
<1>1. PICK r \in Rounds : r[1] = s /\ fin'[r].by = "turn" /\ fin'[r].step \in Steps
  BY DEF Handling
<1>2. RoundMove(r)
  BY RoundMoves
<1>3. Handling(s) \/ \E st \in {"completed", "failed"} : TurnEnds(s, st)
  BY <1>1, <1>2 DEF Handling, RoundMove, Same, Stays, Drops, Forgets, Requests, Opens, Starts, Refused, Fails, TellsRefusal,
     Hidden, Settles, Cut, Records, Loses, Proceeds, TellsEnd, Leaves, Recovers, Steps
<1>4. ASSUME ArchiveByUser(s) PROVE FALSE
  <2>1. fin'[r] = CutOff(fin, s)[r]
    BY <1>4 DEF ArchiveByUser
  <2> QED BY <1>1, <2>1, CutOffMoves DEF CutOff, Steps
<1>5. ASSUME Forget PROVE FALSE
  BY <1>1, <1>5 DEF Forget, NoFin
<1> QED BY <1>3, <1>4, <1>5

\* A park and a driver exclude each other, and the driver waits.
LEMMA WaitsStep ==
    ASSUME TypeOK, RowsInOrder, RecordsAgree, Waits, [Next]_vars
    PROVE  Waits'
<1>1. ASSUME NEW s \in Sessions, parked'[s] PROVE drv'[s] = "none"
  <2>1. parked[s] => drv[s] = "none"
    BY DEF Waits
  <2>2. IsCut(s) => drv[s] \in {"turn", "over"}
    BY DEF IsCut, Interruptible, Waits
  <2> QED BY <1>1, <2>1, <2>2, SessionMoves DEF SessionMove, Rests, Begins, Ends, Parks, IsCut, Picks, Retires,
             Dies, Forget, Closes, Revives, Unparks, Takes
<1>2. ASSUME NEW s \in Kids, Handling(s)' PROVE drv'[s] = "over"
  <2>1. s \in Sessions /\ (Handling(s) => drv[s] = "over") /\ (parked[s] => drv[s] = "none")
    BY DEF Waits, Sessions
  <2>2. ASSUME NEW st \in {"completed", "failed"}, TurnEnds(s, st) PROVE drv'[s] = "over"
    BY <2>1, <2>2 DEF TurnEnds, TypeOK, WorldOK
  <2>3. CASE Handling(s)
    BY <1>2, <2>1, <2>3, HandlingMoves, SessionMoves DEF SessionMove, Rests, Begins, Ends, Parks, IsCut, Picks, Retires,
       Dies, Closes, Revives, Unparks, Takes
  <2> QED BY <1>2, <2>2, <2>3, HandlingMoves
<1> QED BY <1>1, <1>2 DEF Waits

--------------------------------------------------------------------------------
(* A round that runs is in somebody's hands *)

\* What the manager holds of a session changes where a request opens a round, and
\* with the process.
LEMMA LatestMoves ==
    ASSUME TypeOK, [Next]_vars, NEW s \in Kids
    PROVE  \/ latest'[s] = latest[s]
           \/ \E r \in Rounds : OpenRound(r) /\ r[1] = s /\ latest'[s] = r[2]
           \/ latest'[s] = 0
<1>1. ASSUME NEW r \in Rounds, OpenRound(r)
      PROVE  latest'[s] = latest[s] \/ (r[1] = s /\ latest'[s] = r[2])
  BY <1>1 DEF OpenRound, TypeOK, DelegationsOK
<1>2. ASSUME NEW r \in Rounds, CallStep(r) \/ EndStep(r), ~OpenRound(r) PROVE UNCHANGED latest
  BY <1>2 DEF CallStep, EndStep, StartTurn, Refuse, RefuseTell, RefuseHide, CancelInterrupts, CancelIsHeard,
              Cascade, FinLedger, FinTell, FinHide
<1>3. ASSUME NEW t \in Kids, TurnStep(t) \/ CancelPark(t) PROVE UNCHANGED latest
  BY <1>3 DEF TurnStep, TurnEnds, Interrupt, InterruptIsHeard, Cancel, RecoverRound, CancelPark
<1>4. CASE Crash \/ Exits
  BY <1>4 DEF Crash, Exits, Forget
<1> QED BY <1>1, <1>2, <1>3, <1>4, DelegationMoves DEF delVars, StartDelegation, FollowUp, ArchiveByUser

\* A session that comes alive is new, or was archived and gets a follow-up, neither
\* of which happens while a round of it is heard.
LEMMA ComesAlive ==
    ASSUME TypeOK, RowsInOrder, Addressed, [Next]_vars, NEW s \in Kids, Heard(s), sess'[s] = "live"
    PROVE  sess[s] = "live"
<1>1. s \in Sessions /\ latest[s] \in 1 .. MaxRound
  BY DEF Heard, Sessions, TypeOK, DelegationsOK
<1>2. sess[s] # "none"
  <2>1. UpTo(ledger, s, latest[s])
    BY <1>1 DEF RowsInOrder
  <2>2. sess[s] = "none" => UpTo(ledger, s, 0)
    BY DEF RowsInOrder
  <2>3. 0 \in 0 .. MaxRound /\ latest[s] \in 0 .. MaxRound
    BY <1>1, BoundsAssumption
  <2> QED BY <1>1, <2>1, <2>2, <2>3, UpToIsOne
<1>3. ASSUME NEW p \in Sessions, NEW t \in Kids, FollowUp(p, t), sess[t] = "archived" PROVE t # s
  BY <1>1, <1>3 DEF FollowUp, StateOf, Heard, Terminal
<1>4. ASSUME sess[s] = "archived", sess'[s] = "live" PROVE FALSE
  <2>1. ASSUME NEW t \in Sessions, AutoArchive(t) PROVE FALSE
    BY <1>1, <1>4, <2>1 DEF AutoArchive, TypeOK, WorldOK
  <2>2. ASSUME NEW t \in Sessions, sess' = [sess EXCEPT ![t] = "archived"] PROVE FALSE
    BY <1>1, <1>4, <2>2 DEF TypeOK, WorldOK
  <2>3. ASSUME UNCHANGED sess PROVE FALSE
    BY <1>4, <2>3
  <2>4. CASE WorldNext
    BY <2>2, <2>3, <2>4 DEF WorldNext, Dispatch, NextPrompt, TakeNext, DriverEnds, Wakes, RootTurnEnds
  <2>5. CASE DelegationsNext
    <3>1. ASSUME NEW p \in Sessions, NEW t \in Kids, StartDelegation(p, t) PROVE FALSE
      BY <1>1, <1>4, <3>1 DEF StartDelegation, TypeOK, WorldOK
    <3>2. ASSUME NEW p \in Sessions, NEW t \in Kids, FollowUp(p, t) PROVE FALSE
      <4>1. sess[t] = "archived" /\ sess' = [sess EXCEPT ![t] = "live"] /\ t # s
        BY <1>3, <2>3, <3>2 DEF FollowUp, Unarchived
      <4> QED BY <1>1, <1>4, <4>1 DEF TypeOK, WorldOK
    <3>3. ASSUME NEW r \in Rounds, CallStep(r) \/ EndStep(r) \/ RecoverTell(r) PROVE FALSE
      <4>1. AutoArchive(r[1]) \/ UNCHANGED sess
        BY <3>3 DEF CallStep, EndStep, OpenRound, StartTurn, Refuse, RefuseTell, RefuseHide, CancelInterrupts,
                    CancelIsHeard, Cascade, FinLedger, FinTell, FinHide, RecoverTell, worldVars
      <4> QED BY <2>1, <2>3, <4>1, RoundParts
    <3>4. ASSUME NEW t \in Sessions, RecoverArchive(t) \/ ArchiveByUser(t) PROVE FALSE
      BY <2>2, <3>4 DEF RecoverArchive, ArchiveByUser
    <3>5. ASSUME NEW t \in Kids, TurnStep(t) \/ TurnParks(t) \/ CancelPark(t) \/ TurnAsks(t) \/ Answered(t) PROVE FALSE
      BY <2>3, <3>5 DEF TurnStep, TurnEnds, Interrupt, InterruptIsHeard, Cancel, RecoverRound, TurnParks, CancelPark, TurnAsks,
                        Answered, worldVars
    <3>6. ASSUME NEW k \in Keys, Materialize(k) PROVE FALSE
      BY <2>3, <3>6 DEF Materialize
    <3> QED BY <2>5, <3>1, <3>2, <3>3, <3>4, <3>5, <3>6 DEF DelegationsNext, CallStep, EndStep, TurnStep, Sessions
  <2>6. CASE WorkNext
    BY <2>3, <2>6, WorkFrame
  <2>7. CASE Crash \/ Stop \/ Exits \/ BootCommands \/ BootJobs \/ BootNext \/ UNCHANGED vars
    BY <2>3, <2>7 DEF Crash, Stop, Exits, BootCommands, BootJobs, BootNext, BootOther, vars, worldVars
  <2> QED BY <2>4, <2>5, <2>6, <2>7 DEF Next
<1> QED BY <1>1, <1>2, <1>4 DEF TypeOK, WorldOK

\* What is heard in a step was heard before, or has just been opened.
LEMMA HeardMoves ==
    ASSUME TypeOK, RowsInOrder, RecordsAgree, [Next]_vars, NEW s \in Kids, Heard(s)'
    PROVE  \/ /\ Heard(s) /\ latest'[s] = latest[s]
           \/ \E r \in Rounds : Opens(r) /\ r[1] = s /\ latest'[s] = r[2]
<1>1. latest'[s] > 0 /\ rec'[<<s, latest'[s]>>] = "running"
  BY DEF Heard
<1>2. ASSUME NEW r \in Rounds, OpenRound(r) PROVE Opens(r)
  BY <1>2 DEF OpenRound, Opens, Same, TypeOK, DelegationsOK
<1>3. CASE latest'[s] = latest[s]
  <2>1. latest[s] \in 1 .. MaxRound /\ <<s, latest[s]>> \in Rounds
    BY <1>1, <1>3 DEF TypeOK, DelegationsOK, Rounds
  <2>2. PICK h \in Rounds : h = <<s, latest[s]>>
    BY <2>1
  <2>3. rec'[h] = "running" /\ RoundMove(h)
    BY <1>1, <1>3, <2>2, RoundMoves
  <2>4. rec[h] = "running" \/ Opens(h)
    BY <2>3 DEF RoundMove, Same, Stays, Drops, Forgets, Requests, Starts, Refused, Fails, TellsRefusal,
       Hidden, Settles, Cut, Records, Loses, Proceeds, TellsEnd, Leaves, Recovers, NoCall
  <2> QED BY <1>1, <1>3, <2>2, <2>4 DEF Heard
<1>4. ~(latest'[s] = 0)
  BY <1>1
<1> QED BY <1>2, <1>3, <1>4, LatestMoves

\* An interrupt stays on its way until it is heard.
LEMMA StopMoves ==
    ASSUME TypeOK, [Next]_vars, NEW s \in Kids, stop[s]
    PROVE  stop'[s] \/ InterruptIsHeard(s) \/ Forget
<1>1. ASSUME NEW t \in Kids, TurnStep(t) PROVE stop'[s] \/ InterruptIsHeard(s)
  BY <1>1 DEF TurnStep, TurnEnds, Interrupt, InterruptIsHeard, Cancel, RecoverRound, TypeOK, DelegationsOK
<1>2. ASSUME NEW r \in Rounds, CallStep(r) \/ EndStep(r) PROVE UNCHANGED stop
  BY <1>2 DEF CallStep, EndStep, OpenRound, StartTurn, Refuse, RefuseTell, RefuseHide, CancelInterrupts, CancelIsHeard,
              Cascade, FinLedger, FinTell, FinHide
<1> QED BY <1>1, <1>2, DelegationMoves DEF delVars, StartDelegation, FollowUp, CancelPark, ArchiveByUser, Crash, Exits

\* The parts of RunningIsHeld, for one session and the round the manager hears.
Driven(s)    == drv[s] = "turn" \/ parked[s] \/ (drv[s] = "over" /\ queue[s] # <<>>)
Queued(s, h) == \E i \in DOMAIN queue[s] : queue[s][i] = Ask(h)
Holder(s, h) == \/ call[h] # NoCall \/ Driven(s) \/ stop[s]
                \/ \E r \in Rounds : r[1] = s /\ fin[r].step = "error"
                \/ fate[h] = "stranded" /\ Queued(s, h)
                \/ fate[h] = "dropped"

\* What a queue holds stays in it when it grows.
LEMMA GrowsKeep ==
    ASSUME TypeOK, NEW s \in Sessions, NEW h, Queued(s, h), Grows(s)
    PROVE  Queued(s, h)'
<1>1. PICK p \in Prompts : queue'[s] = Append(queue[s], p)
  BY DEF Grows
<1>2. PICK i \in DOMAIN queue[s] : queue[s][i] = Ask(h)
  BY DEF Queued
<1>3. queue[s] \in Seq(Prompts)
  BY DEF TypeOK, WorldOK
<1>4. i \in DOMAIN (queue'[s]) /\ queue'[s][i] = Ask(h)
  BY <1>1, <1>2, <1>3
<1> QED BY <1>4 DEF Queued, Ask

\* start_message takes the request of a live session: to a turn, or behind one, or to
\* a queue that is stranded.
LEMMA StartHolds ==
    ASSUME TypeOK, NEW s \in Kids, NEW h \in Rounds, h[1] = s, Starts(h)
    PROVE  Holder(s, h)'
<1>1. s \in Sessions /\ Submit(s, Ask(h), outbox) /\ UNCHANGED parked /\ queue[s] \in Seq(Prompts) /\ Ask(h) \in Prompts
  BY KeysAre DEF Starts, StartTurn, TypeOK, WorldOK, Sessions
<1>2. CASE ~Busy(s)
  <2>1. drv'[s] = "turn"
    BY <1>1, <1>2 DEF Submit, TypeOK, WorldOK
  <2> QED BY <2>1 DEF Holder, Driven
<1>3. CASE Busy(s)
  <2>1. queue'[s] = Append(queue[s], Ask(h)) /\ drv'[s] = drv[s] /\ parked'[s] = parked[s]
    BY <1>1, <1>3 DEF Submit, TypeOK, WorldOK
  <2>2. queue'[s] # <<>> /\ Len(queue[s]) + 1 \in DOMAIN (queue'[s]) /\ queue'[s][Len(queue[s]) + 1] = Ask(h)
    BY <1>1, <2>1
  <2>3. CASE drv[s] = "idle"
    <3>1. fate'[h] = "stranded"
      BY <2>3 DEF Starts, StartTurn, TypeOK, DelegationsOK
    <3> QED BY <2>2, <3>1 DEF Holder, Queued, Ask
  <2>4. CASE drv[s] # "idle"
    BY <1>1, <1>3, <2>1, <2>2, <2>4 DEF Busy, Holder, Driven, TypeOK, WorldOK
  <2> QED BY <2>3, <2>4
<1> QED BY <1>2, <1>3

\* Whatever holds a round that stays running, a step of it passes the round on.
LEMMA HolderStays ==
    ASSUME TypeOK, RowsInOrder, RecordsAgree, Waits, [Next]_vars, Up, Up',
           NEW s \in Kids, Heard(s), Heard(s)', sess[s] = "live", sess'[s] = "live",
           NEW h \in Rounds, h = <<s, latest[s]>>, latest'[s] = latest[s], Holder(s, h)
    PROVE  Holder(s, h)'
<1>1. /\ rec[h] = "running" /\ rec'[h] = "running" /\ Current(s) = h /\ h[1] = s /\ s \in Sessions
  BY CurrentRound DEF Heard, Sessions
<1>2. ASSUME NEW st \in Terminal, NEW by, Settle(h, st, by) PROVE FALSE
  BY <1>1, <1>2, SettleMoves DEF Terminal
<1>3. ~Forget
  BY <1>1 DEF Forget
<1>4. CASE call[h] # NoCall
  <2>1. RoundMove(h)
    BY RoundMoves
  <2>2. CASE Starts(h)
    BY <1>1, <2>2, StartHolds
  <2>3. CASE ~Starts(h)
    <3>1. call'[h] # NoCall
      BY <1>1, <1>4, <2>1, <2>3 DEF RoundMove, Same, Stays, Drops, Forgets, Requests, Opens, Refused, Fails, TellsRefusal,
         Hidden, Settles, Cut, Records, Loses, Proceeds, TellsEnd, Leaves, Recovers, NoCall, RecordsAgree, RecordAgrees
    <3> QED BY <3>1 DEF Holder
  <2> QED BY <2>2, <2>3
<1>8. ASSUME call[h] = NoCall PROVE fate'[h] = fate[h] \/ fate'[h] = "dropped"
  <2>1. RoundMove(h)
    BY RoundMoves
  <2> QED BY <1>1, <1>8, <2>1 DEF RoundMove, Same, Stays, Drops, Forgets, Requests, Opens, Starts, Refused, Fails,
       TellsRefusal, Hidden, Settles, Cut, Records, Loses, Proceeds, TellsEnd, Leaves, Recovers, NoCall
<1>9. SessionMove(s) /\ (parked[s] => drv[s] = "none")
  BY <1>1, SessionMoves DEF Waits
<1>10. ASSUME NEW st \in {"completed", "failed"}, TurnEnds(s, st) PROVE FALSE
  BY <1>1, <1>2, <1>10 DEF TurnEnds, Terminal
<1>11. CASE IsCut(s)
  BY <1>11 DEF IsCut, Holder
<1>5. CASE Driven(s) /\ ~IsCut(s)
  <2>1. ASSUME Grows(s) PROVE queue'[s] # <<>>
    <3>1. PICK p \in Prompts : queue'[s] = Append(queue[s], p)
      BY <2>1 DEF Grows
    <3>2. queue[s] \in Seq(Prompts)
      BY <1>1 DEF TypeOK, WorldOK
    <3> QED BY <3>1, <3>2
  <2>2. CASE CancelPark(s) /\ queue[s] = <<>>
    <3>1. fate' = [fate EXCEPT ![h] = "dropped"]
      BY <1>1, <2>2 DEF CancelPark
    <3> QED BY <3>1 DEF Holder, TypeOK, DelegationsOK
  <2>3. CASE ~(CancelPark(s) /\ queue[s] = <<>>)
    <3>1. Driven(s)'
      BY <1>3, <1>5, <1>9, <1>10, <2>1, <2>3 DEF Driven, SessionMove, Rests, Begins, Ends, Parks, Picks,
         Retires, Dies, Closes, Revives, Unparks, Takes
    <3> QED BY <3>1 DEF Holder
  <2> QED BY <2>2, <2>3
<1>6. CASE stop[s]
  <2>1. ASSUME InterruptIsHeard(s) PROVE FALSE
    BY <1>1, <1>2, <2>1 DEF InterruptIsHeard, Terminal
  <2> QED BY <1>3, <1>6, <2>1, StopMoves DEF Holder
<1>7. ASSUME NEW r \in Rounds, r[1] = s, fin[r].step = "error" PROVE Holder(s, h)'
  <2>1. RoundMove(r) /\ RecordAgrees(r)
    BY RoundMoves DEF RecordsAgree
  <2>2. ASSUME CancelIsHeard(r) PROVE FALSE
    <3>1. rec' = [rec EXCEPT ![h] = "failed"]
      BY <1>1, <1>7, <2>2 DEF CancelIsHeard
    <3> QED BY <1>1, <3>1 DEF TypeOK, DelegationsOK
  <2>3. rec[r] # "running" /\ fin[r].by = "cancel" /\ call[r] # "round"
    BY <1>7, <2>1, OpensFresh DEF RecordAgrees, Terminal
  <2>4. ~Forgets(r)
    BY DEF Forgets, Up
  <2>5. fin'[r].step = "error"
    BY <1>7, <2>1, <2>2, <2>3, <2>4 DEF RoundMove, Same, Stays, Drops, Requests, Opens, Starts, Refused, Fails, TellsRefusal,
       Hidden, Settles, Cut, Records, Loses, Proceeds, TellsEnd, Leaves, Recovers
  <2> QED BY <1>7, <2>5 DEF Holder
<1>12. CASE call[h] = NoCall /\ fate[h] = "stranded" /\ Queued(s, h) /\ ~IsCut(s)
  <2>1. queue[s] # <<>>
    BY <1>12 DEF Queued
  <2>2. queue'[s] = queue[s] \/ Grows(s) \/ Driven(s)'
    BY <1>3, <1>9, <1>10, <1>12, <2>1 DEF Driven, SessionMove, Rests, Begins, Ends, Parks, Picks,
       Retires, Dies, Closes, Revives, Unparks, Takes
  <2>3. CASE Driven(s)'
    BY <2>3 DEF Holder
  <2>4. CASE queue'[s] = queue[s] \/ Grows(s)
    <3>1. Queued(s, h)'
      BY <1>1, <1>12, <2>4, GrowsKeep DEF Queued, Ask
    <3> QED BY <1>8, <1>12, <3>1 DEF Holder
  <2> QED BY <2>2, <2>3, <2>4
<1>13. CASE call[h] = NoCall /\ fate[h] = "dropped"
  BY <1>8, <1>13 DEF Holder
<1> QED BY <1>4, <1>5, <1>6, <1>7, <1>11, <1>12, <1>13 DEF Holder

\* So a running round of a live session is held for ever, or ends.
LEMMA RunningIsHeldStep ==
    ASSUME TypeOK, TypeOK', Forgotten, RowsInOrder, RecordsAgree, Addressed, Waits, RunningIsHeld, [Next]_vars
    PROVE  RunningIsHeld'
<1> SUFFICES ASSUME Up', NEW s \in Kids, Heard(s)', sess'[s] = "live", NEW h \in Rounds, h = <<s, latest'[s]>>
             PROVE  Holder(s, h)'
  <2>1. ASSUME NEW s \in Kids, Heard(s)' PROVE Current(s)' \in Rounds /\ Current(s)' = <<s, latest'[s]>>
    <3>1. latest'[s] \in 0 .. MaxRound /\ latest'[s] > 0 /\ MaxRound \in Nat
      BY <2>1, BoundsAssumption DEF Heard, TypeOK, DelegationsOK
    <3> QED BY <3>1 DEF Current, Latest, Rounds
  <2> QED BY <2>1 DEF RunningIsHeld, InHands, Holder, Driven, Queued
<1>1. ASSUME NEW r \in Rounds, Opens(r), r[1] = s, latest'[s] = r[2] PROVE Holder(s, h)'
  <2>1. r = h /\ call'[h] # NoCall
    BY <1>1, RoundParts DEF Opens, NoCall
  <2> QED BY <2>1 DEF Holder
<1>2. CASE Heard(s) /\ latest'[s] = latest[s]
  <2>1. Up
    BY <1>2 DEF Forgotten, Heard
  <2>2. sess[s] = "live"
    BY <1>2, ComesAlive
  <2>3. h = <<s, latest[s]>> /\ Current(s) = h
    BY <1>2, CurrentRound DEF Heard
  <2>4. Holder(s, h)
    BY <1>2, <2>1, <2>2, <2>3 DEF RunningIsHeld, InHands, Holder, Driven, Queued
  <2> QED BY <1>2, <2>1, <2>2, <2>3, <2>4, HolderStays
<1> QED BY <1>1, <1>2, HeardMoves

--------------------------------------------------------------------------------
(* The stages of a boot, and the commands *)

\* What is stored stays stored.
LEMMA StoredStays ==
    ASSUME TypeOK, RowsBehindQueues, [Next]_vars, NEW k \in Keys, outbox[k].status # "none"
    PROVE  outbox'[k].status # "none"
BY OutboxMoves DEF Stored, Keeps

\* Rows stand still in a process that does not serve, but for the boot's own writes.
LEMMA RowsStandStill ==
    ASSUME TypeOK, [Next]_vars, ~Up
    PROVE  /\ bg' = bg \/ BootCommands
           /\ job' = job \/ BootJobs
           /\ ledger' = ledger \/ \E s \in Kids : RecoverRound(s)
<1>1. CASE WorldNext
  BY <1>1 DEF WorldNext, delVars, workVars, jobVars, commandVars
<1>2. CASE DelegationsNext /\ UNCHANGED workVars
  BY <1>2 DEF DelegationsNext, Up, At, Spend, StartDelegation, FollowUp, OpenRound, StartTurn, Refuse, RefuseTell,
              RefuseHide, CancelInterrupts, CancelIsHeard, Cascade, FinLedger, FinTell, FinHide, RecoverTell,
              TurnEnds, TurnParks, CancelPark, TurnAsks, Answered, Interrupt, InterruptIsHeard, Cancel,
              RecoverArchive, ArchiveByUser, Materialize, delVars, workVars, jobVars, commandVars
<1>3. CASE WorkNext /\ UNCHANGED delVars
  BY <1>3 DEF WorkNext, Up, SpendWork, InStage, StopCommands, StartCommand, CommandExits, CommandRow, CancelCommand,
              CommandTimesOut, CommandDrains, CommandRecords, CommandDelivers, RecoverCommand, StartJob, JobRuns,
              JobCompletes, JobFails, JobReports, JobFinalReads, JobFinalWrites, CancelJob, CancelWrites,
              CancelKills, StopJob, RecoverReport, delVars, workVars, jobVars, commandVars
<1>4. CASE Crash \/ Stop \/ Exits \/ BootCommands \/ BootJobs \/ BootNext \/ UNCHANGED vars
  BY <1>4 DEF Crash, Stop, Exits, BootCommands, BootJobs, BootNext, BootOther, vars, delVars, workVars,
              jobVars, commandVars
<1> QED BY <1>1, <1>2, <1>3, <1>4 DEF Next


\* A boot undoes nothing of its earlier stages.
LEMMA BootedStep ==
    ASSUME TypeOK, RowsBehindQueues, Booted, [Next]_vars
    PROVE  Booted'
<1>1. CASE BootCommands
  BY <1>1 DEF BootCommands, Stage, BootPhases, Booted, MarkedCommands
<1>2. CASE BootJobs
  BY <1>2 DEF BootJobs, Stage, BootOther, commandVars, BootPhases, Booted, MarkedJobs, UntoldCommands
<1>3. CASE BootNext
  <2>1. UNCHANGED <<bg, job, ledger, outbox>>
    BY <1>3 DEF BootNext, BootOther, delVars, workVars, commandVars, jobVars
  <2>2. \/ phase = "research" /\ phase' = "rounds" /\ UntoldJobs = {}
        \/ phase = "rounds" /\ phase' = "tell" /\ ~RoundsToRecover
        \/ phase = "tell" /\ phase' = "materialize" /\ Untold = {}
        \/ phase = "materialize" /\ phase' = "archive"
        \/ phase = "archive" /\ phase' = "up"
    BY <1>3 DEF BootNext, Stage
  <2>3. ~RoundsToRecover => \A r \in Rounds : ledger[r] # "running"
    BY RoundParts DEF RoundsToRecover
  <2> QED BY <2>1, <2>2, <2>3 DEF Booted, BootPhases, UntoldCommands, UntoldJobs, Untold
<1>4. CASE phase' = phase /\ phase \in BootPhases
  <2>1. ~Up /\ ~BootCommands /\ ~BootJobs
    BY <1>4 DEF Up, BootPhases, BootCommands, BootJobs, Stage
  <2>2. bg' = bg /\ job' = job
    BY <2>1, RowsStandStill
  <2>3. ledger' = ledger \/ phase = "rounds"
    BY <2>1, RowsStandStill DEF RecoverRound
  <2>4. /\ \A b \in Commands : outbox[Result(b)].status # "none" => outbox'[Result(b)].status # "none"
        /\ \A j \in Jobs : outbox[Report(j)].status # "none" => outbox'[Report(j)].status # "none"
        /\ \A r \in Rounds : outbox[Told(r)].status # "none" => outbox'[Told(r)].status # "none"
    BY KeysAre, StoredStays
  <2> QED BY <1>4, <2>2, <2>3, <2>4 DEF Booted, BootPhases, UntoldCommands, UntoldJobs, Untold
<1>5. CASE phase' \notin BootPhases
  BY <1>5 DEF Booted, BootPhases
<1>6. phase' = phase \/ phase' \notin BootPhases \/ BootCommands \/ BootJobs \/ BootNext
  BY PhaseMoves DEF Crash, Stop, Exits, BootPhases
<1> QED BY <1>1, <1>2, <1>3, <1>4, <1>5, <1>6

\* What a step can do to one command.
CommandMove(b) ==
    \/ bg'[b] = bg[b] /\ task'[b] = task[b]
    \/ bg[b] = "none" /\ bg'[b] = "none" /\ task'[b] = "spawned"
    \/ task[b] = "spawned" /\ bg'[b] = "running" /\ task'[b] = "running"
    \/ task[b] = "running" /\ task'[b] = "drained" /\ bg'[b] = bg[b]
    \/ task[b] = "drained" /\ task'[b] = "recorded" /\ Ended(bg'[b])
    \/ task[b] = "recorded" /\ task'[b] = "none" /\ bg'[b] = bg[b] /\ outbox'[Result(b)].status # "none"
    \/ bg'[b] = bg[b] /\ task'[b] = "none" /\ phase' = "down"
    \/ phase' = "bg" /\ task'[b] = task[b] /\ (bg[b] = "none" => bg'[b] = "none")

\* Nothing else happens to a command's row and coroutine.
LEMMA CommandMoves ==
    ASSUME TypeOK, [Next]_vars, NEW b \in Commands
    PROVE  CommandMove(b)
<1>1. UNCHANGED <<bg, task>> => CommandMove(b)
  BY DEF CommandMove
<1>2. CASE WorldNext \/ (DelegationsNext /\ UNCHANGED workVars)
  BY <1>1, <1>2 DEF WorldNext, workVars, commandVars
<1>3. CASE WorkNext
  <2>1. ASSUME NEW c \in Commands, NEW s \in Sessions, StartCommand(c, s) PROVE CommandMove(b)
    BY <2>1 DEF StartCommand, CommandMove, TypeOK, WorkOK
  <2>2. ASSUME NEW c \in Commands, CommandRow(c) \/ CommandDrains(c) PROVE CommandMove(b)
    BY <2>2 DEF CommandRow, CommandDrains, CommandMove, TypeOK, WorkOK
  <2>3. ASSUME NEW c \in Commands, CommandRecords(c) PROVE CommandMove(b)
    <3>1. Ended(CommandStatus(c))
      BY DEF CommandStatus, Ended
    <3> QED BY <2>3, <3>1 DEF CommandRecords, CommandMove, TypeOK, WorkOK
  <2>4. ASSUME NEW c \in Commands, CommandDelivers(c) PROVE CommandMove(b)
    <3>1. Result(c) \in Keys /\ home[c] \in Sessions /\ Enqueue(Result(c), home[c], "other")
      BY <2>4, KeysAre DEF CommandDelivers, TypeOK, WorkOK
    <3>2. outbox'[Result(c)].status # "none"
      BY <3>1, EnqueueMoves
    <3> QED BY <2>4, <3>2 DEF CommandDelivers, CommandMove, TypeOK, WorkOK
  <2>5. \/ UNCHANGED <<bg, task>>
        \/ \E c \in Commands : \/ \E s \in Sessions : StartCommand(c, s)
                               \/ CommandRow(c) \/ CommandDrains(c) \/ CommandRecords(c) \/ CommandDelivers(c)
    BY <1>3 DEF WorkNext, StopCommands, CommandExits, CancelCommand, CommandTimesOut, RecoverCommand,
              StartJob, JobRuns, JobCompletes, JobFails, JobReports, JobFinalReads, JobFinalWrites, CancelJob,
              CancelWrites, CancelKills, StopJob, RecoverReport, workVars, commandVars
  <2> QED BY <1>1, <2>1, <2>2, <2>3, <2>4, <2>5
<1>4. CASE Crash \/ Exits
  BY <1>4 DEF Crash, Exits, Forget, CommandMove
<1>5. CASE BootCommands
  BY <1>5 DEF BootCommands, Stage, MarkedCommands, CommandMove
<1>6. CASE Stop \/ BootJobs \/ BootNext \/ UNCHANGED vars
  BY <1>1, <1>6 DEF Stop, BootJobs, BootNext, BootOther, vars, workVars, commandVars
<1> QED BY <1>2, <1>3, <1>4, <1>5, <1>6 DEF Next

\* The row of a command is written by its own coroutine.
LEMMA SpawnedStep ==
    ASSUME TypeOK, Spawned, [Next]_vars
    PROVE  Spawned'
BY CommandMoves DEF Spawned, CommandMove

\* A command's end is stored or carried, also where a boot begins to serve.
LEMMA CommandIsToldStep ==
    ASSUME TypeOK, RowsBehindQueues, Booted, CommandIsTold, [Next]_vars
    PROVE  CommandIsTold'
<1> SUFFICES ASSUME Up', NEW b \in Commands
             PROVE  /\ Ended(bg'[b]) => outbox'[Result(b)].status # "none" \/ task'[b] = "recorded"
                    /\ bg'[b] = "running" => task'[b] \in {"running", "drained"}
  BY DEF CommandIsTold, Ended
<1>1. outbox[Result(b)].status # "none" => outbox'[Result(b)].status # "none"
  BY KeysAre, StoredStays
<1>2. CASE Up
  <2>1. phase' # "down" /\ phase' # "bg"
    BY DEF Up
  <2> QED BY <1>1, <1>2, <2>1, CommandMoves DEF CommandMove, CommandIsTold, Ended
<1>3. CASE ~Up
  <2>1. phase = "archive" /\ UNCHANGED bg
    BY <1>3, UpMoves DEF BootNext, workVars, commandVars
  <2>2. bg[b] # "running" /\ UntoldCommands = {}
    BY <2>1 DEF Booted, BootPhases
  <2>3. Ended(bg[b]) => outbox[Result(b)].status # "none"
    BY <2>2 DEF UntoldCommands
  <2> QED BY <1>1, <2>1, <2>2, <2>3
<1> QED BY <1>2, <1>3

--------------------------------------------------------------------------------
(* The invariant and what follows from it *)

\* The initial state satisfies the invariant.
LEMMA InvariantInit ==
    ASSUME Init
    PROVE  Invariant
<1>1. TypeOK
  BY TypeInit
<1>2. phase = "up" /\ Up
  BY DEF Init, WorldInit, Up
<1>3. Forgotten /\ Booted
  BY <1>2 DEF Forgotten, Booted, BootPhases
<1>4. RowsInOrder
  <2>1. \A s \in Kids : UpTo(ledger, s, 0)
    BY DEF Init, DelegationsInit, UpTo, Rounds
  <2>2. 0 \in 0 .. MaxRound
    BY BoundsAssumption
  <2>3. (\A s \in Kids : latest[s] = 0) /\ (\A r \in Rounds : call[r] = NoCall) /\ NoCall # "round"
    BY DEF Init, DelegationsInit, NoCall
  <2>4. \A s \in Kids, n \in 1 .. MaxRound : <<s, n>> \in Rounds
    BY DEF Rounds
  <2> QED BY <2>1, <2>2, <2>3, <2>4 DEF RowsInOrder
<1>5. RecordsAgree /\ EndsAreCarried
  BY DEF Init, DelegationsInit, RecordsAgree, RecordAgrees, EndsAreCarried, Carried, Terminal, Steps, NoFin, NoCall
<1>6. Addressed /\ RowsBehindQueues /\ Waits
  <2>1. \A r \in Rounds : fin[r].by # "turn"
    BY DEF Init, DelegationsInit, NoFin
  <2> QED BY <2>1 DEF Init, WorldInit, WorkInit, NoRow, Addressed, RowsBehindQueues, Waits, Handling, Sessions
<1>7. Spawned /\ CommandIsTold
  BY DEF Init, WorkInit, Spawned, CommandIsTold, Ended
<1>8. ReplyIsTrue
  BY KeysAre DEF Init, WorldInit, NoRow, ReplyIsTrue, IsTold
<1>9. RunningIsHeld
  BY DEF Init, DelegationsInit, RunningIsHeld, Heard
<1> QED BY <1>3, <1>4, <1>5, <1>6, <1>7, <1>8, <1>9 DEF Invariant

\* Every step keeps it.
LEMMA InvariantStep ==
    ASSUME TypeOK, TypeOK', Invariant, [Next]_vars
    PROVE  Invariant'
<1> USE DEF Invariant
<1>1. Forgotten' /\ RowsInOrder' /\ RecordsAgree' /\ EndsAreCarried'
  BY ForgottenStep, RowsInOrderStep, RecordsAgreeStep, EndsAreCarriedStep
<1>2. Addressed' /\ RowsBehindQueues' /\ Waits' /\ Booted' /\ Spawned'
  BY AddressedStep, RowsBehindQueuesStep, WaitsStep, BootedStep, SpawnedStep
<1>3. ReplyIsTrue' /\ RunningIsHeld' /\ CommandIsTold'
  BY ReplyIsTrueStep, RunningIsHeldStep, CommandIsToldStep
<1> QED BY <1>1, <1>2, <1>3

\* The inductive invariant holds in every reachable state.
THEOREM InvariantAlways == Spec => []Invariant
<1>1. Init => Invariant
  BY InvariantInit
<1>2. TypeOK /\ TypeOK' /\ Invariant /\ [Next]_vars => Invariant'
  BY InvariantStep
<1> QED BY <1>1, <1>2, TypeCorrect, PTL DEF Spec

\* What a caller reads of a round is what its row says, in every process there will be,
\* but for a completed round whose own request was refused afterwards.
THEOREM Truthful == Spec => []ReplyIsTrue
<1>1. Invariant => ReplyIsTrue
  BY DEF Invariant
<1> QED BY <1>1, InvariantAlways, PTL

\* A round that the manager believes running in a live session has somebody to end it.
THEOREM Held == Spec => []RunningIsHeld
<1>1. Invariant => RunningIsHeld
  BY DEF Invariant
<1> QED BY <1>1, InvariantAlways, PTL

\* While a process serves, every round and every command that has ended is told or is
\* on its way to be told.
THEOREM AllTold == Spec => []EndsAreTold
<1>1. Invariant => EndsAreTold
  <2>1. ASSUME EndsAreCarried PROVE RoundIsTold
    <3>1. ASSUME Up, NEW r \in Rounds, ledger[r] \in Terminal
          PROVE  \/ outbox[Told(r)].status # "none"
                 \/ fin[r].step # "none" \/ call[r] \in {"refuse", "refuseTell"}
      BY <2>1, <3>1 DEF EndsAreCarried, Carried, IsTold
    <3> QED BY <3>1 DEF RoundIsTold
  <2> QED BY <2>1 DEF Invariant, EndsAreTold
<1> QED BY <1>1, InvariantAlways, PTL

\* Wherever the last process and earlier boots died, a boot that begins to serve has
\* left no row running, no end untold, no delegated session alive and no prompt that
\* would wake a model in one.
THEOREM BootSettles == Spec => RecoveryIsComplete
<1>1. ASSUME TypeOK, Invariant, [Next]_vars, phase' = "up", phase # "up"
      PROVE  /\ \A r \in Rounds : /\ ledger[r] # "running"
                                  /\ ledger[r] \in Terminal => outbox[Told(r)].status # "none"
             /\ \A s \in Kids : sess[s] # "none" => sess[s] = "archived"
             /\ \A k \in Keys : Waiting(k) => outbox[k].to = Root \/ sess[outbox[k].to] = "archived"
             /\ \A b \in Commands : bg[b] # "running" /\ (Ended(bg[b]) => outbox[Result(b)].status # "none")
             /\ \A j \in Jobs : job[j] # "running" /\ (job[j] = "completed" => outbox[Report(j)].status # "none")
  <2>1. phase = "archive" /\ BootNext
    BY <1>1, PhaseMoves DEF Crash, Stop, Exits, BootCommands, BootJobs, BootNext, Stage
  <2>2. \A s \in Kids : sess[s] # "live"
    BY <1>1, <2>1 DEF BootNext, Stage
  <2>3. Booted /\ Addressed
    BY <1>1 DEF Invariant
  <2>4. \A r \in Rounds : ledger[r] # "running" /\ (ledger[r] \in Terminal => outbox[Told(r)].status # "none")
    BY <2>1, <2>3 DEF Booted, Untold
  <2>5. \A s \in Kids : sess[s] # "none" => sess[s] = "archived"
    BY <1>1, <2>2 DEF TypeOK, WorldOK, Sessions
  <2>6. ASSUME NEW k \in Keys, Waiting(k) PROVE outbox[k].to = Root \/ sess[outbox[k].to] = "archived"
    <3>1. outbox[k].to \in {Root} \cup Kids /\ sess[outbox[k].to] # "none"
      BY <1>1, <2>3, <2>6 DEF Waiting, Addressed, TypeOK, WorldOK, Sessions
    <3> QED BY <2>5, <3>1
  <2>7. \A b \in Commands : bg[b] # "running" /\ (Ended(bg[b]) => outbox[Result(b)].status # "none")
    BY <2>1, <2>3 DEF Booted, BootPhases, UntoldCommands
  <2>8. \A j \in Jobs : job[j] # "running" /\ (job[j] = "completed" => outbox[Report(j)].status # "none")
    BY <2>1, <2>3 DEF Booted, BootPhases, UntoldJobs
  <2> QED BY <2>4, <2>5, <2>6, <2>7, <2>8
<1> QED BY <1>1, TypeCorrect, InvariantAlways, PTL DEF Spec, RecoveryIsComplete
================================================================================
