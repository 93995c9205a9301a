--------------------------- MODULE TaskBoard_proofs ---------------------------
(***************************************************************************)
(* What holds of TaskBoard for every set of tasks, boards and agents,      *)
(* every limit and every budget: an attempt and its task agree, what a     *)
(* claim checked stays true, neither graph closes a cycle, a boot leaves   *)
(* no end unreported, and the board is an account in which every attempt   *)
(* ends once and is reported once.  Types come first, action by action;    *)
(* then one lemma (StepCases) says what any action does to tasks, links    *)
(* and attempts, and every invariant is proved from those four cases.      *)
(***************************************************************************)
EXTENDS TaskBoard, FiniteSetTheorems, TLAPS

--------------------------------------------------------------------------------
(* The inductive invariant: the properties, and what their steps need of each other. *)

\* What is still to be done for an attempt is to be done after its end.
EndedFirst == \A r \in Runs : tail[r].left # <<>> => Ended(r)

\* The attempts of a task are the first ones: a claim makes the next.
AttemptsInOrder == \A t \in Tasks : \E n \in Nat : Attempted(t) = 1..n

\* Who a task names is one of its attempts.
OwnersAreAttempts == \A t \in Tasks : task[t].owner # 0 => <<t, task[t].owner>> \in Runs

\* Links and parents lead to rows that exist (foreign keys).
LinkedRowsExist ==
    /\ \A e \in deps : Exists(e[2])
    /\ \A t \in Tasks : task[t].parent # NoParent => Exists(task[t].parent)

\* The two halves of Acyclic: every set of tasks has one that leads out of it.
LinksLeadOut   == \A S \in (SUBSET Tasks) \ {{}} : \E t \in S : DepsOf(deps, t) \cap S = {}
ParentsLeadOut == \A S \in (SUBSET Tasks) \ {{}} : \E t \in S : task[t].parent \notin S

\* The history names attempts that have ended.
BeforeEnded == \A r \in before : Ended(r)

\* The intents of the session that asked are gone with it.
ErasedWithOrigin == ~origin => \A r \in Runs : report[r] \notin Ends

Invariant == /\ TypeOK /\ EndedFirst
             /\ AttemptsInOrder /\ OwnerAgreement /\ OwnersAreAttempts
             /\ RunningDepsDone /\ SharedDirExclusive
             /\ LinkedRowsExist /\ LinksLeadOut /\ ParentsLeadOut
             /\ BeforeEnded /\ ErasedWithOrigin /\ RecoveredRunsAreReported

--------------------------------------------------------------------------------
(* Types, action by action *)

\* An attempt is a task and a number from 1 to the bound of that task.
LEMMA RunParts ==
    /\ \A r \in Runs : r[1] \in Tasks /\ r[2] \in 1..Attempts[r[1]] /\ r = <<r[1], r[2]>>
    /\ \A t \in Tasks, k \in Nat : k \in 1..Attempts[t] => <<t, k>> \in Runs
BY DEF Runs

\* Recomputing eligibility keeps the table a table of rows.
LEMMA SettleType ==
    ASSUME NEW T \in [Tasks -> TaskRows], NEW D, NEW B, NEW A, NEW S
    PROVE  Settle(T, D, B, A, S) \in [Tasks -> TaskRows]
<1> SUFFICES ASSUME NEW t \in Tasks
             PROVE  Settle(T, D, B, A, S)[t] \in TaskRows
  BY DEF Settle
<1>1. T[t] \in TaskRows
  OBVIOUS
<1>2. Settle(T, D, B, A, S)[t] \in {T[t], [T[t] EXCEPT !.status = "ready"], [T[t] EXCEPT !.status = "todo"]}
  BY DEF Settle
<1> QED BY <1>1, <1>2 DEF TaskRows, Statuses

\* What update_task writes.
LEMMA EditedRow ==
    ASSUME NEW x \in TaskRows, NEW p \in Parents, NEW late \in BOOLEAN
    PROVE  [x EXCEPT !.parent = p, !.later = late] \in TaskRows
BY DEF TaskRows

\* What _finish_run writes.
LEMMA FinishedRow ==
    ASSUME NEW x \in TaskRows, NEW v \in Verdicts, NEW st \in {"done", "blocked"}
    PROVE  [x EXCEPT !.status = st, !.owner = 0, !.verdict = v] \in TaskRows
BY DEF TaskRows, Statuses

\* A task that comes due.
LEMMA DueRow ==
    ASSUME NEW x \in TaskRows
    PROVE  [x EXCEPT !.later = FALSE] \in TaskRows
BY DEF TaskRows

\* What claim_ready writes.
LEMMA ClaimedRow ==
    ASSUME NEW x \in TaskRows, NEW k \in Nat
    PROVE  [x EXCEPT !.status = "running", !.owner = k] \in TaskRows
BY DEF TaskRows, Statuses

\* A status changed in place.
LEMMA StatusRow ==
    ASSUME NEW x \in TaskRows, NEW st \in Statuses
    PROVE  [x EXCEPT !.status = st] \in TaskRows
BY DEF TaskRows

\* The same in the table.
LEMMA StatusTable ==
    ASSUME TypeOK, NEW t \in Tasks, NEW st \in Statuses
    PROVE  [task EXCEPT ![t].status = st] \in [Tasks -> TaskRows]
<1>1. task \in [Tasks -> TaskRows]
  BY DEF TypeOK, RowsOK
<1>2. [task[t] EXCEPT !.status = st] \in TaskRows
  BY <1>1, StatusRow
<1> QED BY <1>1, <1>2

\* archive_task.
LEMMA ArchivedRow ==
    ASSUME NEW x \in TaskRows, NEW yes \in BOOLEAN
    PROVE  [x EXCEPT !.archived = yes] \in TaskRows
BY DEF TaskRows

\* What a boot writes on a task that was running.
LEMMA InterruptedRow ==
    ASSUME NEW x \in TaskRows
    PROVE  LET y == [x EXCEPT !.status = "blocked", !.owner = 0]
           IN  y \in TaskRows /\ y.status = "blocked" /\ y.owner = 0 /\ y.parent = x.parent
BY DEF TaskRows, Statuses

\* What assign_task writes.
LEMMA AssignedRow ==
    ASSUME NEW x \in TaskRows, NEW a \in Assignees
    PROVE  [x EXCEPT !.agent = a] \in TaskRows
BY DEF TaskRows

\* What attach_run_session writes on the attempt.
LEMMA AttachedRow ==
    ASSUME NEW x \in [state : Ends \cup {"none", "running"}, attached : BOOLEAN]
    PROVE  [x EXCEPT !.attached = TRUE] \in [state : Ends \cup {"none", "running"}, attached : BOOLEAN]
OBVIOUS

\* Requests about a board keep every type.
LEMMA BoardRequestsType ==
    ASSUME TypeOK, BoardRequests
    PROVE  TypeOK'
<1>1. ASSUME NEW b \in Boards, NEW yes \in BOOLEAN, ArchiveBoard(b, yes)
      PROVE  RowsOK' /\ MemoryOK'
  <2>1. task' \in [Tasks -> TaskRows]
    BY <1>1, SettleType DEF TypeOK, RowsOK, ArchiveBoard
  <2>2. board' \in [Boards -> [dispatch : BOOLEAN, archived : BOOLEAN]]
    BY <1>1 DEF TypeOK, RowsOK, ArchiveBoard
  <2>3. UNCHANGED <<deps, live, up, before, retro, origin, report, run, mem>>
    BY <1>1 DEF ArchiveBoard, Rest, Quiet
  <2> QED BY <2>1, <2>2, <2>3 DEF TypeOK, RowsOK, MemoryOK, mem
<1>2. ASSUME NEW b \in Boards, NEW yes \in BOOLEAN, SetDispatchEnabled(b, yes)
      PROVE  RowsOK' /\ MemoryOK'
  <2>1. board' \in [Boards -> [dispatch : BOOLEAN, archived : BOOLEAN]]
    BY <1>2 DEF TypeOK, RowsOK, SetDispatchEnabled
  <2>2. UNCHANGED <<task, deps, live, up, before, retro, origin, report, run, mem>>
    BY <1>2 DEF SetDispatchEnabled, Rest, Quiet
  <2> QED BY <2>1, <2>2 DEF TypeOK, RowsOK, MemoryOK, mem
<1> QED BY <1>1, <1>2 DEF BoardRequests, TypeOK

\* A created task is a row.
LEMMA CreateType ==
    ASSUME TypeOK, NEW t \in Tasks, NEW st \in {"triage", "todo"}, NEW p \in Parents,
           NEW a \in Assignees, NEW D \in SUBSET Tasks, NEW m \in Runs \cup {NoRun},
           Create(t, st, p, a, D, m)
    PROVE  /\ task' \in [Tasks -> TaskRows] /\ deps' \subseteq Tasks \X Tasks
           /\ UNCHANGED <<board, live>>
<1> DEFINE new == [NewTask EXCEPT !.status = st, !.parent = p, !.agent = a, !.maker = m]
<1>1. new \in TaskRows
  BY DEF NewTask, TaskRows, Statuses, Verdicts
<1>2. [task EXCEPT ![t] = new] \in [Tasks -> TaskRows]
  BY <1>1 DEF TypeOK, RowsOK
<1> HIDE DEF new
<1>3. task' = Settle([task EXCEPT ![t] = new], deps', board, live, {t})
  BY DEF Create, Recomputed, new
<1> QED BY <1>2, <1>3, SettleType DEF Create, TypeOK, RowsOK

\* A link keeps the tables typed.
LEMMA LinkedType ==
    ASSUME TypeOK, NEW t \in Tasks, NEW d \in Tasks, Linked(t, d)
    PROVE  task' \in [Tasks -> TaskRows] /\ deps' \subseteq Tasks \X Tasks
BY DEF TypeOK, RowsOK, Linked, TaskRows, Statuses

\* Requests about a task keep every type.
LEMMA TaskRequestsType ==
    ASSUME TypeOK, TaskRequests
    PROVE  TypeOK'
<1>0. ASSUME task' \in [Tasks -> TaskRows], deps' \subseteq Tasks \X Tasks,
             UNCHANGED <<board, live>>, Rest, Quiet
      PROVE  TypeOK'
  BY <1>0 DEF TypeOK, RowsOK, MemoryOK, Rest, Quiet, mem
<1>1. ASSUME NEW t \in Tasks, NEW st \in {"triage", "todo"}, NEW p \in Parents,
             NEW a \in Assignees, NEW D \in SUBSET Tasks, CreateTask(t, st, p, a, D)
      PROVE  TypeOK'
  BY <1>0, <1>1, CreateType DEF CreateTask
<1>2. ASSUME NEW t \in Tasks, NEW p \in Parents, NEW late \in BOOLEAN, UpdateTask(t, p, late)
      PROVE  TypeOK'
  <2> DEFINE row == [task[t] EXCEPT !.parent = p, !.later = late]
  <2>1. row \in TaskRows
    BY EditedRow DEF TypeOK, RowsOK
  <2>2. [task EXCEPT ![t].parent = p, ![t].later = late] = [task EXCEPT ![t] = row]
    BY DEF TypeOK, RowsOK, TaskRows
  <2>3. [task EXCEPT ![t].parent = p, ![t].later = late] \in [Tasks -> TaskRows]
    BY <2>1, <2>2 DEF TypeOK, RowsOK
  <2> QED BY <1>0, <1>2, <2>3, SettleType DEF UpdateTask, Recomputed, TypeOK, RowsOK
<1>3. ASSUME NEW t \in Tasks, NEW a \in Assignees, AssignTask(t, a)
      PROVE  TypeOK'
  <2>1. [task[t] EXCEPT !.agent = a] \in TaskRows
    BY AssignedRow DEF TypeOK, RowsOK
  <2>2. [task EXCEPT ![t].agent = a] \in [Tasks -> TaskRows]
    BY <2>1 DEF TypeOK, RowsOK
  <2> QED BY <1>0, <1>3, <2>2, SettleType DEF AssignTask, Recomputed, TypeOK, RowsOK
<1>4. ASSUME NEW t \in Tasks, NEW d \in Tasks, AddDependency(t, d)
      PROVE  TypeOK'
  BY <1>0, <1>4, LinkedType DEF AddDependency
<1>5. ASSUME NEW t \in Tasks, NEW d \in Tasks, RemoveDependency(t, d)
      PROVE  TypeOK'
  BY <1>0, <1>5, SettleType DEF RemoveDependency, Recomputed, TypeOK, RowsOK
<1> QED BY <1>1, <1>2, <1>3, <1>4, <1>5 DEF TaskRequests

\* The compare-and-set of an end keeps both tables typed.
LEMMA FinishType ==
    ASSUME TypeOK, NEW r \in Runs, NEW o \in Ends, NEW v \in Verdicts, Finish(r, o, v)
    PROVE  /\ task' \in [Tasks -> TaskRows]
           /\ run' \in [Runs -> [state : Ends \cup {"none", "running"}, attached : BOOLEAN]]
<1>1. r[1] \in Tasks
  BY RunParts
<1> DEFINE st  == IF o = "completed" THEN "done" ELSE "blocked"
           row == [task[r[1]] EXCEPT !.status = st, !.owner = 0, !.verdict = v]
<1>2. row \in TaskRows
  BY <1>1, FinishedRow DEF TypeOK, RowsOK
<1>3. [task EXCEPT ![r[1]] = row] \in [Tasks -> TaskRows]
  BY <1>2 DEF TypeOK, RowsOK
<1>4. task' = Settle([task EXCEPT ![r[1]] = row], deps, board, live,
                     IF o = "completed" THEN Dependents(r[1]) ELSE {})
  BY <1>1 DEF Finish, Recomputed, TypeOK, RowsOK
<1>5. task' \in [Tasks -> TaskRows]
  BY <1>3, <1>4, SettleType
<1> QED BY <1>5 DEF Finish, TypeOK, RowsOK

\* What is left to do is a path and a sequence of its steps.
LEMMA ThenType ==
    ASSUME TypeOK, NEW r \in Runs, NEW by \in Paths, NEW left \in Seq(TailSteps),
           Then(r, by, left)
    PROVE  tail' \in [Runs -> [by : Paths, left : Seq(TailSteps)]]
BY DEF TypeOK, MemoryOK, Then

\* An end and what it leaves to do.
LEMMA FinishesType ==
    ASSUME TypeOK, NEW r \in Runs, NEW o \in Ends, NEW v \in Verdicts, NEW by \in Paths,
           NEW left \in Seq(TailSteps), Finish(r, o, v), Then(r, by, left),
           SameBoard, SameAccount, UNCHANGED before
    PROVE  RowsOK' /\ tail' \in [Runs -> [by : Paths, left : Seq(TailSteps)]]
BY FinishType, ThenType DEF TypeOK, RowsOK, SameBoard, SameAccount

\* Requests about the life of a task keep every type.
LEMMA LifecycleRequestsType ==
    ASSUME TypeOK, LifecycleRequests
    PROVE  TypeOK'
<1> SUFFICES ASSUME NEW t \in Tasks,
                    \/ TriageTask(t) \/ SpecifyTask(t) \/ ReadyTask(t) \/ UnblockTask(t)
                    \/ BlockActiveTask(t) \/ CancelRunning(t) \/ CancelIdle(t)
             PROVE  TypeOK'
  BY DEF LifecycleRequests
<1>0. ASSUME task' \in [Tasks -> TaskRows], UNCHANGED <<deps, board, live>>, Rest, Quiet
      PROVE  TypeOK'
  BY <1>0 DEF TypeOK, RowsOK, MemoryOK, Rest, Quiet, mem
<1>1. CASE TriageTask(t)
  BY <1>0, <1>1, StatusTable DEF TriageTask, Statuses
<1>2. CASE SpecifyTask(t)
  <2>1. [task EXCEPT ![t].status = "todo"] \in [Tasks -> TaskRows]
    BY StatusTable DEF Statuses
  <2> QED BY <1>0, <1>2, <2>1, SettleType DEF SpecifyTask, Recomputed
<1>3. CASE ReadyTask(t)
  BY <1>0, <1>3, StatusTable DEF ReadyTask, Statuses
<1>4. CASE UnblockTask(t)
  <2>1. [task EXCEPT ![t].status = "todo"] \in [Tasks -> TaskRows]
    BY StatusTable DEF Statuses
  <2> QED BY <1>0, <1>4, <2>1, SettleType DEF UnblockTask, Recomputed
<1>5. CASE CancelIdle(t)
  BY <1>0, <1>5, StatusTable DEF CancelIdle, Cancelled, Statuses
<1>6. CASE BlockActiveTask(t)
  <2>1. PICK r \in Runs : /\ Finish(r, "blocked", "none")
                          /\ Then(r, "call", IF run[r].attached
                                             THEN <<"notify", "interrupt">> ELSE <<"notify">>)
    BY <1>6 DEF BlockActiveTask
  <2> DEFINE left == IF run[r].attached THEN <<"notify", "interrupt">> ELSE <<"notify">>
  <2>0. left \in Seq(TailSteps)
    <3>1. {"notify", "interrupt", "cancel"} \subseteq TailSteps
      BY DEF TailSteps
    <3> QED BY <3>1
  <2> HIDE DEF left
  <2>2. RowsOK' /\ tail' \in [Runs -> [by : Paths, left : Seq(TailSteps)]]
    BY <1>6, <2>0, <2>1, FinishesType DEF left, BlockActiveTask, Ends, Verdicts, Paths, TailSteps
  <2> QED BY <1>6, <2>2 DEF BlockActiveTask, TypeOK, MemoryOK
<1>7. CASE CancelRunning(t)
  <2>1. PICK r \in Runs : /\ Finish(r, "cancelled", "none")
                          /\ Then(r, "call", IF run[r].attached
                                             THEN <<"notify", "interrupt", "cancel">>
                                             ELSE <<"notify", "cancel">>)
    BY <1>7 DEF CancelRunning
  <2> DEFINE left == IF run[r].attached THEN <<"notify", "interrupt", "cancel">>
                                         ELSE <<"notify", "cancel">>
  <2>0. left \in Seq(TailSteps)
    <3>1. {"notify", "interrupt", "cancel"} \subseteq TailSteps
      BY DEF TailSteps
    <3> QED BY <3>1
  <2> HIDE DEF left
  <2>2. RowsOK' /\ tail' \in [Runs -> [by : Paths, left : Seq(TailSteps)]]
    BY <1>7, <2>0, <2>1, FinishesType DEF left, CancelRunning, Ends, Verdicts, Paths, TailSteps
  <2> QED BY <1>7, <2>2 DEF CancelRunning, TypeOK, MemoryOK
<1> QED BY <1>1, <1>2, <1>3, <1>4, <1>5, <1>6, <1>7

\* So do closing and archiving a task.
LEMMA ClosingRequestsType ==
    ASSUME TypeOK, ClosingRequests
    PROVE  TypeOK'
<1>0. ASSUME task' \in [Tasks -> TaskRows], UNCHANGED <<deps, board, live>>, Rest, Quiet
      PROVE  TypeOK'
  BY <1>0 DEF TypeOK, RowsOK, MemoryOK, Rest, Quiet, mem
<1>1. ASSUME NEW t \in Tasks, CloseTask(t)
      PROVE  TypeOK'
  <2>1. [task EXCEPT ![t].status = "done"] \in [Tasks -> TaskRows]
    BY StatusTable DEF Statuses
  <2> QED BY <1>0, <1>1, <2>1, SettleType DEF CloseTask, Recomputed
<1>2. ASSUME NEW t \in Tasks, NEW yes \in BOOLEAN, ArchiveTask(t, yes)
      PROVE  TypeOK'
  <2>1. [task[t] EXCEPT !.archived = yes] \in TaskRows
    BY ArchivedRow DEF TypeOK, RowsOK
  <2> QED BY <1>0, <1>2, <2>1 DEF ArchiveTask, TypeOK, RowsOK
<1> QED BY <1>1, <1>2 DEF ClosingRequests

\* What the terminal paths leave to do.
LEMMA TailsType == {<<"conclude">>, <<"notify">>, <<"notify", "interrupt">>, <<"notify", "archive">>}
                     \subseteq Seq(TailSteps)
<1>1. {"notify", "conclude", "interrupt", "archive"} \subseteq TailSteps
  BY DEF TailSteps
<1> QED BY <1>1

\* Calls of a worker keep every type.
LEMMA WorkerRequestsType ==
    ASSUME TypeOK, WorkerRequests
    PROVE  TypeOK'
<1>0. ASSUME task' \in [Tasks -> TaskRows], deps' \subseteq Tasks \X Tasks,
             UNCHANGED <<board, live>>, Rest, Quiet
      PROVE  TypeOK'
  BY <1>0 DEF TypeOK, RowsOK, MemoryOK, Rest, Quiet, mem
<1>1. ASSUME NEW r \in Runs, BlockWorker(r)
      PROVE  TypeOK'
  BY <1>1, FinishesType, TailsType
     DEF BlockWorker, Unbudgeted, TypeOK, MemoryOK, Ends, Verdicts, Paths
<1>2. ASSUME NEW r \in Runs, SubmitRetrospective(r)
      PROVE  TypeOK'
  BY <1>2 DEF SubmitRetrospective, Reflected, Unbudgeted, Quiet, mem, TypeOK, RowsOK, MemoryOK
<1>3. ASSUME NEW r \in Runs, CompleteCommit(r)
      PROVE  TypeOK'
  <2>1. CASE Finish(r, "completed", call[r]) /\ Then(r, "call", <<"conclude">>)
    <3>1. call[r] \in Verdicts
      BY DEF TypeOK, MemoryOK
    <3>2. RowsOK' /\ tail' \in [Runs -> [by : Paths, left : Seq(TailSteps)]]
      BY <1>3, <2>1, <3>1, FinishesType, TailsType
         DEF CompleteCommit, Unbudgeted, Ends, Paths
    <3>3. call' \in [Runs -> Verdicts]
      BY <1>3 DEF CompleteCommit, TypeOK, MemoryOK, Verdicts
    <3> QED BY <1>3, <3>2, <3>3 DEF CompleteCommit, Unbudgeted, TypeOK, MemoryOK
  <2>2. CASE UNCHANGED <<task, run, tail>>
    BY <1>3, <2>2 DEF CompleteCommit, SameBoard, SameAccount, Unbudgeted, TypeOK, RowsOK, MemoryOK, Verdicts
  <2> QED BY <1>3, <2>1, <2>2 DEF CompleteCommit
<1>4. ASSUME NEW r \in Runs, NEW v \in {"pass", "fail"}, CompleteBegin(r, v)
      PROVE  TypeOK'
  BY <1>4 DEF CompleteBegin, db, Unbudgeted, TypeOK, RowsOK, MemoryOK, Verdicts
<1>5. ASSUME NEW r \in Runs, NEW t \in Tasks, NEW st \in {"triage", "todo"}, NEW p \in Tasks,
             NEW a \in Assignees, NEW D \in SUBSET Tasks, WorkerCreates(r, t, st, p, a, D)
      PROVE  TypeOK'
  <2>1. p \in Parents
    BY DEF Parents
  <2> QED BY <1>0, <1>5, <2>1, CreateType DEF WorkerCreates
<1>6. ASSUME NEW r \in Runs, NEW t \in Tasks, NEW d \in Tasks, WorkerLinks(r, t, d)
      PROVE  TypeOK'
  BY <1>0, <1>6, LinkedType DEF WorkerLinks
<1> QED BY <1>1, <1>2, <1>3, <1>4, <1>5, <1>6 DEF WorkerRequests

\* So does what happens outside of the board.
LEMMA OutsideType ==
    ASSUME TypeOK, Outside \/ ResumeAfterDeploy
    PROVE  TypeOK'
<1>1. CASE DeleteOrigin
  BY <1>1 DEF DeleteOrigin, Quiet, mem, Request, Spend, TypeOK, RowsOK, MemoryOK
<1>2. CASE PauseForDeploy
  BY <1>2 DEF PauseForDeploy, db, Request, TypeOK, RowsOK, MemoryOK
<1>3. CASE ResumeAfterDeploy
  BY <1>3 DEF ResumeAfterDeploy, db, Unbudgeted, TypeOK, RowsOK, MemoryOK
<1>4. ASSUME NEW a \in Agents, ArchiveAgent(a)
      PROVE  TypeOK'
  BY <1>4 DEF ArchiveAgent, Request, Rest, Quiet, mem, TypeOK, RowsOK, MemoryOK
<1>5. ASSUME NEW t \in Tasks, ComesDue(t)
      PROVE  TypeOK'
  <2>1. task' \in [Tasks -> TaskRows]
    BY <1>5, DueRow DEF ComesDue, TypeOK, RowsOK
  <2> QED BY <1>5, <2>1 DEF ComesDue, Rest, Quiet, mem, TypeOK, RowsOK, MemoryOK
<1> QED BY <1>1, <1>2, <1>3, <1>4, <1>5 DEF Outside

\* The next attempt, while the bound is not reached.
LEMMA NextRunType ==
    ASSUME NEW t \in Tasks
    PROVE  /\ Cardinality(Attempted(t)) \in Nat
           /\ Cardinality(Attempted(t)) < Attempts[t] => NextRun(t) \in Runs
<1>1. IsFiniteSet(1..Attempts[t])
  BY FS_Interval, LimitAssumption
<1>2. IsFiniteSet(Attempted(t))
  BY <1>1, FS_Subset DEF Attempted
<1>3. Cardinality(Attempted(t)) \in Nat
  BY <1>2, FS_CardinalityType
<1>4. ASSUME Cardinality(Attempted(t)) < Attempts[t]
      PROVE  NextRun(t) \in Runs
  BY <1>3, <1>4, RunParts, LimitAssumption DEF NextRun
<1> QED BY <1>3, <1>4

\* A session that is given a prompt.
LEMMA StartedType ==
    ASSUME NEW s \in SessStates
    PROVE  Started(s) \in SessStates
BY DEF SessStates, Started

\* Every step of the dispatcher keeps every type.
LEMMA DispatcherType ==
    ASSUME TypeOK, Dispatcher
    PROVE  TypeOK'
<1> DEFINE DispRows == [pc : {"off", "sleep", "renew", "expire", "serve", "setup", "attached", "raised"},
                        left : SUBSET (Runs \cup Tasks), run : Runs \cup {NoRun}]
           Held(d)  == d.pc \in {"expire", "setup", "attached", "raised"} => d.run \in Runs
<1>0. ASSUME disp' \in DispRows, Held(disp'),
             UNCHANGED <<db, paused, sess, archReq, check, call, tail>>, Unbudgeted
      PROVE  TypeOK'
  BY <1>0 DEF TypeOK, RowsOK, MemoryOK, db, Unbudgeted
<1>s. \A T : Serve(T) \in DispRows /\ Held(Serve(T))
  BY DEF Serve, Idle
<1>i. Idle \in DispRows /\ Held(Idle)
  BY DEF Idle
<1>d. disp \in DispRows /\ Held(disp)
  BY DEF TypeOK, MemoryOK
<1>1. CASE DispatcherPass
  <2>1. task' \in [Tasks -> TaskRows]
    BY <1>1, SettleType DEF DispatcherPass, TypeOK, RowsOK
  <2>2. disp' \in DispRows /\ Held(disp')
    BY <1>1, <1>s DEF DispatcherPass
  <2> QED BY <1>1, <2>1, <2>2
        DEF DispatcherPass, SameBoard, SameAccount, DispatcherStill, Unbudgeted, TypeOK, RowsOK, MemoryOK
<1>2. CASE ExpireRun
  <2>0. disp.run \in Runs
    BY <1>2, <1>d DEF ExpireRun
  <2>1. disp' \in DispRows /\ Held(disp')
    BY <1>2, <1>d, <1>i DEF ExpireRun
  <2>2. CASE Finish(disp.run, "interrupted", "none")
    <3> DEFINE left == IF run[disp.run].attached THEN <<"notify", "interrupt">> ELSE <<"notify">>
    <3>1. left \in Seq(TailSteps)
      BY TailsType
    <3> HIDE DEF left
    <3>2. CASE Then(disp.run, "disp", left)
      <4>1. RowsOK' /\ tail' \in [Runs -> [by : Paths, left : Seq(TailSteps)]]
        BY <1>2, <2>0, <2>2, <3>1, <3>2, FinishesType DEF ExpireRun, Unbudgeted, Ends, Verdicts, Paths
      <4> QED BY <1>2, <2>1, <4>1 DEF ExpireRun, DispatcherStill, Unbudgeted, TypeOK, MemoryOK
    <3> QED BY <1>2, <2>2, <3>2 DEF ExpireRun, Finish, left
  <2>3. CASE ~Owns(disp.run) /\ UNCHANGED <<task, run, tail>>
    BY <1>2, <2>1, <2>3 DEF ExpireRun, SameBoard, SameAccount, DispatcherStill, Unbudgeted,
                            TypeOK, RowsOK, MemoryOK
  <2> QED BY <1>2, <2>2, <2>3 DEF ExpireRun
<1>3. CASE Renewed
  BY <1>0, <1>3, <1>s DEF Renewed
<1>4. CASE ServedAll
  BY <1>0, <1>4, <1>i DEF ServedAll
<1>5. CASE AttachRunSession
  <2>0. disp.run \in Runs
    BY <1>5, <1>d DEF AttachRunSession
  <2>1. disp' \in DispRows /\ Held(disp')
    BY <1>5, <1>d, <2>0 DEF AttachRunSession, Next1
  <2>2. sess' \in [Runs -> SessStates]
    BY <1>5 DEF AttachRunSession, TypeOK, MemoryOK, SessStates
  <2>3. run' \in [Runs -> [state : Ends \cup {"none", "running"}, attached : BOOLEAN]]
    BY <1>5, <2>0, AttachedRow DEF AttachRunSession, TypeOK, RowsOK
  <2> QED BY <1>5, <2>1, <2>2, <2>3 DEF AttachRunSession, SameBoard, SameAccount, DispatcherStill,
                                        Unbudgeted, TypeOK, RowsOK, MemoryOK
<1>6. CASE StartWorker
  <2>0. disp.run \in Runs
    BY <1>6, <1>d DEF StartWorker
  <2>1. disp' \in DispRows /\ Held(disp')
    BY <1>6, <1>d, <2>0 DEF StartWorker, Next1
  <2>2. sess' \in [Runs -> SessStates]
    BY <1>6, <2>0, StartedType DEF StartWorker, TypeOK, MemoryOK
  <2> QED BY <1>6, <2>1, <2>2 DEF StartWorker, db, DispatcherStill, Unbudgeted, TypeOK, RowsOK, MemoryOK
<1>7. CASE SetupFails
  <2>0. disp.run \in Runs
    BY <1>7, <1>d DEF SetupFails, WorkspaceFails
  <2>1. disp' \in DispRows /\ Held(disp')
    BY <1>7, <1>d, <2>0 DEF SetupFails, Next1
  <2>2. CASE Finish(disp.run, "failed", "none") /\ Then(disp.run, "disp", <<"notify">>)
    <3>1. RowsOK' /\ tail' \in [Runs -> [by : Paths, left : Seq(TailSteps)]]
      BY <1>7, <2>0, <2>2, FinishesType, TailsType DEF SetupFails, Unbudgeted, Ends, Verdicts, Paths
    <3> QED BY <1>7, <2>1, <3>1 DEF SetupFails, DispatcherStill, Unbudgeted, TypeOK, MemoryOK
  <2>3. CASE UNCHANGED <<task, run, tail>>
    BY <1>7, <2>1, <2>3 DEF SetupFails, SameBoard, SameAccount, DispatcherStill, Unbudgeted,
                            TypeOK, RowsOK, MemoryOK
  <2> QED BY <1>7, <2>2, <2>3 DEF SetupFails
<1>8. ASSUME NEW r \in Runs, RenewRead(r)
      PROVE  TypeOK'
  <2>1. disp.left \in SUBSET (Runs \cup Tasks) /\ disp.run \in Runs \cup {NoRun} /\ disp.pc = "renew"
    BY <1>8, <1>d DEF RenewRead
  <2>2. \/ disp' = Idle
        \/ disp' = [disp EXCEPT !.left = @ \ {r}]
        \/ disp' = [disp EXCEPT !.left = @ \ {r}, !.run = r, !.pc = "expire"]
        \/ disp' = [disp EXCEPT !.left = @ \ {r}, !.run = r, !.pc = "renew"]
    BY <1>8 DEF RenewRead
  <2>3. disp' \in DispRows /\ Held(disp')
    BY <1>d, <1>i, <2>1, <2>2
  <2> QED BY <1>0, <1>8, <2>3 DEF RenewRead
<1>9. ASSUME NEW t \in Tasks, ClaimReady(t)
      PROVE  TypeOK'
  <2>1. CASE CanClaim(t) /\ disp' = [pc |-> "setup", left |-> disp.left \ {t}, run |-> NextRun(t)]
             /\ run'  = [run EXCEPT ![NextRun(t)].state = "running"]
             /\ task' = [task EXCEPT ![t].status = "running", ![t].owner = NextRun(t)[2]]
    <3>1. NextRun(t) \in Runs /\ NextRun(t)[2] \in Nat
      BY <1>9, NextRunType DEF ClaimReady, NextRun
    <3>2. disp' \in DispRows /\ Held(disp')
      BY <1>d, <2>1, <3>1
    <3>3. run' \in [Runs -> [state : Ends \cup {"none", "running"}, attached : BOOLEAN]]
      BY <2>1, <3>1 DEF TypeOK, RowsOK
    <3>4. task' \in [Tasks -> TaskRows]
      <4> DEFINE row == [task[t] EXCEPT !.status = "running", !.owner = NextRun(t)[2]]
      <4>1. row \in TaskRows
        BY <3>1, ClaimedRow DEF TypeOK, RowsOK
      <4>2. task' = [task EXCEPT ![t] = row]
        BY <2>1 DEF TypeOK, RowsOK, TaskRows
      <4> QED BY <4>1, <4>2 DEF TypeOK, RowsOK
    <3> QED BY <1>9, <3>2, <3>3, <3>4 DEF ClaimReady, SameBoard, SameAccount, DispatcherStill,
                                          Unbudgeted, TypeOK, RowsOK, MemoryOK
  <2>2. CASE disp' = [disp EXCEPT !.left = @ \ {t}] /\ UNCHANGED <<run, task>>
    BY <1>9, <1>d, <2>2 DEF ClaimReady, SameBoard, SameAccount, DispatcherStill,
                            Unbudgeted, TypeOK, RowsOK, MemoryOK
  <2> QED BY <1>9, <2>1, <2>2 DEF ClaimReady
<1>10. ASSUME NEW t \in Tasks, SkipExhausted(t)
       PROVE  TypeOK'
  BY <1>0, <1>10, <1>d DEF SkipExhausted
<1> QED BY <1>1, <1>2, <1>3, <1>4, <1>5, <1>6, <1>7, <1>8, <1>9, <1>10 DEF Dispatcher

\* A report is an end or the record that nobody is left to hear it.
LEMMA ReportType ==
    ASSUME TypeOK, NEW r \in Runs, Ended(r)
    PROVE  ReportOf(r) \in [Runs -> Ends \cup {"none", "erased", "unavailable"}]
BY DEF TypeOK, RowsOK, ReportOf, Ended

\* A driver that has drained its queue.
LEMMA BackToIdleType ==
    ASSUME TypeOK, NEW r \in Runs, BackToIdle(r)
    PROVE  sess' \in [Runs -> SessStates]
BY DEF TypeOK, MemoryOK, BackToIdle, SessStates

\* A new idle check.
LEMMA IdleCheckSpawnedType ==
    ASSUME TypeOK, NEW r \in Runs, IdleCheckSpawned(r)
    PROVE  /\ check' \in [Runs -> {"none", "read", "fail"}]
           /\ tail' \in [Runs -> [by : Paths, left : Seq(TailSteps)]]
<1>1. NoTail \in [by : Paths, left : Seq(TailSteps)]
  BY DEF NoTail, Paths
<1> QED BY <1>1 DEF TypeOK, MemoryOK, IdleCheckSpawned

\* Turns of a worker and the checks of its silence keep every type.
LEMMA WorkerType ==
    ASSUME TypeOK, NEW r \in Runs, Worker(r) \/ IdleCheck(r)
    PROVE  TypeOK'
<1>1. CASE TurnWaits(r)
  BY <1>1, IdleCheckSpawnedType DEF TurnWaits, Request, db, TypeOK, RowsOK, MemoryOK, SessStates
<1>2. CASE TurnResumes(r)
  BY <1>2 DEF TurnResumes, Unbudgeted, db, TypeOK, RowsOK, MemoryOK, SessStates
<1>3. CASE UserMessage(r)
  <2>1. sess' \in [Runs -> SessStates]
    BY <1>3, StartedType DEF UserMessage, TypeOK, MemoryOK
  <2> QED BY <1>3, <2>1 DEF UserMessage, Request, db, TypeOK, RowsOK, MemoryOK
<1>4. CASE TurnEnds(r)
  BY <1>4, IdleCheckSpawnedType, BackToIdleType DEF TurnEnds, Unbudgeted, db, TypeOK, RowsOK, MemoryOK
<1>5. ASSUME NEW o \in Ends, TurnFails(r, o)
      PROVE  TypeOK'
  <2>1. CASE Finish(r, o, "none") /\ Then(r, "call", <<"conclude">>) /\ check' = [check EXCEPT ![r] = "read"]
    <3>1. RowsOK' /\ tail' \in [Runs -> [by : Paths, left : Seq(TailSteps)]]
      BY <1>5, <2>1, FinishesType, TailsType DEF TurnFails, Verdicts, Paths
    <3>2. check' \in [Runs -> {"none", "read", "fail"}]
      BY <2>1 DEF TypeOK, MemoryOK
    <3> QED BY <1>5, <3>1, <3>2, BackToIdleType DEF TurnFails, TypeOK, MemoryOK
  <2>2. CASE IdleCheckSpawned(r) /\ UNCHANGED <<task, run>>
    BY <1>5, <2>2, BackToIdleType, IdleCheckSpawnedType
       DEF TurnFails, SameBoard, SameAccount, TypeOK, RowsOK, MemoryOK
  <2> QED BY <1>5, <2>1, <2>2 DEF TurnFails
<1>6. CASE IdleCheckRead(r)
  BY <1>6 DEF IdleCheckRead, Unbudgeted, db, TypeOK, RowsOK, MemoryOK
<1>7. CASE IdleCheckFail(r)
  <2>1. check' \in [Runs -> {"none", "read", "fail"}]
    BY <1>7 DEF IdleCheckFail, TypeOK, MemoryOK
  <2>2. CASE Finish(r, "failed", "none") /\ Then(r, "check", <<"notify", "archive">>)
    <3>1. RowsOK' /\ tail' \in [Runs -> [by : Paths, left : Seq(TailSteps)]]
      BY <1>7, <2>2, FinishesType, TailsType DEF IdleCheckFail, Unbudgeted, Ends, Verdicts, Paths
    <3> QED BY <1>7, <2>1, <3>1 DEF IdleCheckFail, Unbudgeted, TypeOK, MemoryOK
  <2>3. CASE UNCHANGED <<task, run, tail>>
    BY <1>7, <2>1, <2>3 DEF IdleCheckFail, SameBoard, SameAccount, Unbudgeted, TypeOK, RowsOK, MemoryOK
  <2> QED BY <1>7, <2>2, <2>3 DEF IdleCheckFail
<1>8. CASE HookEnds(r)
  <2>1. sess' \in [Runs -> SessStates] /\ archReq' \subseteq Runs
    BY <1>8 DEF HookEnds, TypeOK, MemoryOK, SessStates
  <2> QED BY <1>8, <2>1 DEF HookEnds, Unbudgeted, db, TypeOK, RowsOK, MemoryOK
<1> QED BY <1>1, <1>2, <1>3, <1>4, <1>5, <1>6, <1>7, <1>8 DEF Worker, IdleCheck

\* One step of a terminal path is taken.
LEMMA AdvanceType ==
    ASSUME TypeOK, NEW r \in Runs, NEW step, At(r, step), Advance(r)
    PROVE  tail' \in [Runs -> [by : Paths, left : Seq(TailSteps)]]
<1>1. NoTail \in [by : Paths, left : Seq(TailSteps)]
  BY DEF NoTail, Paths
<1>2. tail[r].left \in Seq(TailSteps) /\ tail[r].left # <<>>
  BY DEF At, TypeOK, MemoryOK
<1>3. [by |-> tail[r].by, left |-> Tail(tail[r].left)] \in [by : Paths, left : Seq(TailSteps)]
  <2>1. Tail(tail[r].left) \in Seq(TailSteps)
    BY <1>2
  <2> QED BY <2>1 DEF TypeOK, MemoryOK
<1> DEFINE rest == IF Len(tail[r].left) = 1 THEN NoTail
                   ELSE [by |-> tail[r].by, left |-> Tail(tail[r].left)]
<1>4. rest \in [by : Paths, left : Seq(TailSteps)]
  BY <1>1, <1>3
<1>5. tail' = [tail EXCEPT ![r] = rest]
  BY DEF Advance
<1> QED BY <1>4, <1>5 DEF TypeOK, MemoryOK

\* Every step of a terminal path keeps every type.
LEMMA TailStepType ==
    ASSUME TypeOK, EndedFirst, NEW r \in Runs, TailStep(r)
    PROVE  TypeOK'
<1>1. CASE NotifyTerminal(r)
  <2>1. Ended(r)
    BY <1>1 DEF NotifyTerminal, At, EndedFirst
  <2>2. tail' \in [Runs -> [by : Paths, left : Seq(TailSteps)]] /\ archReq' \subseteq Runs
    BY <1>1, AdvanceType DEF NotifyTerminal, Mark, TypeOK, MemoryOK
  <2> QED BY <1>1, <2>1, <2>2, ReportType DEF NotifyTerminal, TailStill, SameBoard, Unbudgeted,
                                               TypeOK, RowsOK, MemoryOK
<1>2. CASE InterruptWorker(r)
  <2>1. tail' \in [Runs -> [by : Paths, left : Seq(TailSteps)]]
    BY <1>2, AdvanceType DEF InterruptWorker
  <2>2. /\ sess' \in [Runs -> SessStates]
        /\ archReq' \subseteq Runs
    BY <1>2, BackToIdleType DEF InterruptWorker, Mark, TypeOK, MemoryOK
  <2> QED BY <1>2, <2>1, <2>2 DEF InterruptWorker, TailStill, Unbudgeted, db, TypeOK, RowsOK, MemoryOK
<1>3. CASE CancelAfterRun(r)
  <2>1. tail' \in [Runs -> [by : Paths, left : Seq(TailSteps)]]
    BY <1>3, AdvanceType DEF CancelAfterRun
  <2>2. task' \in [Tasks -> TaskRows]
    <3>1. Cancelled(r[1]) \in [Tasks -> TaskRows]
      BY RunParts, StatusTable DEF Cancelled, Statuses
    <3> QED BY <1>3, <3>1 DEF CancelAfterRun, TypeOK, RowsOK
  <2> QED BY <1>3, <2>1, <2>2 DEF CancelAfterRun, TailStill, SameBoard, SameAccount, Unbudgeted,
                                  TypeOK, RowsOK, MemoryOK
<1>4. CASE ArchiveWorker(r)
  <2>1. tail' \in [Runs -> [by : Paths, left : Seq(TailSteps)]]
    BY <1>4, AdvanceType DEF ArchiveWorker
  <2>2. sess' \in [Runs -> SessStates] /\ archReq' \subseteq Runs
    BY <1>4 DEF ArchiveWorker, Mark, TypeOK, MemoryOK, SessStates
  <2> QED BY <1>4, <2>1, <2>2 DEF ArchiveWorker, TailStill, Unbudgeted, db, TypeOK, RowsOK, MemoryOK
<1> QED BY <1>1, <1>2, <1>3, <1>4 DEF TailStep

\* Teardown, crash and boot keep every type.
LEMMA RestartType ==
    ASSUME TypeOK, EndedFirst, ShutdownBegin \/ Teardown \/ Crash \/ Boot
    PROVE  TypeOK'
<1>n. NoTail \in [by : Paths, left : Seq(TailSteps)]
  BY DEF NoTail, Paths
<1>o. ASSUME disp' \in {Off, Idle}
      PROVE  /\ disp' \in [pc : {"off", "sleep", "renew", "expire", "serve", "setup", "attached", "raised"},
                           left : SUBSET (Runs \cup Tasks), run : Runs \cup {NoRun}]
             /\ disp'.pc \notin {"expire", "setup", "attached", "raised"}
  BY <1>o DEF Off, Idle
<1>1. CASE ShutdownBegin
  BY <1>1, <1>n, <1>o DEF ShutdownBegin, db, TypeOK, RowsOK, MemoryOK
<1>2. ASSUME NEW r \in Runs, ShutdownRun(r)
      PROVE  TypeOK'
  <2> DEFINE left == IF run[r].attached THEN <<"notify", "interrupt">> ELSE <<"notify">>
  <2>1. left \in Seq(TailSteps)
    BY TailsType
  <2>2. Then(r, "stop", left)
    BY <1>2 DEF ShutdownRun
  <2> HIDE DEF left
  <2>3. RowsOK' /\ tail' \in [Runs -> [by : Paths, left : Seq(TailSteps)]]
    BY <1>2, <2>1, <2>2, FinishesType DEF ShutdownRun, Unbudgeted, Ends, Verdicts, Paths
  <2> QED BY <1>2, <2>3 DEF ShutdownRun, Unbudgeted, TypeOK, MemoryOK
<1>3. CASE Dead /\ UNCHANGED db
  BY <1>3, <1>n, <1>o DEF Dead, db, TypeOK, RowsOK, MemoryOK, Verdicts, SessStates
<1>4. CASE RecoverPhase1
  <2>1. run' \in [Runs -> [state : Ends \cup {"none", "running"}, attached : BOOLEAN]]
    BY <1>4 DEF RecoverPhase1, TypeOK, RowsOK, Ends
  <2>2. task' \in [Tasks -> TaskRows]
    <3>1. \A t \in Tasks : task'[t] \in {task[t], [task[t] EXCEPT !.status = "blocked", !.owner = 0]}
      BY <1>4 DEF RecoverPhase1
    <3>2. ASSUME NEW t \in Tasks PROVE task'[t] \in TaskRows
      <4>1. task[t] \in TaskRows
        BY DEF TypeOK, RowsOK
      <4>2. [task[t] EXCEPT !.status = "blocked", !.owner = 0] \in TaskRows
        BY <4>1, InterruptedRow
      <4> QED BY <3>1, <4>1, <4>2
    <3> QED BY <1>4, <3>2 DEF RecoverPhase1
  <2> QED BY <1>4, <2>1, <2>2 DEF RecoverPhase1, SameBoard, SameAccount, Quiet, mem, TypeOK, RowsOK, MemoryOK
<1>5. ASSUME NEW r \in Runs, RepairReport(r)
      PROVE  TypeOK'
  BY <1>5, ReportType DEF RepairReport, Unreported, Quiet, mem, Unbudgeted, TypeOK, RowsOK, MemoryOK
<1>6. CASE RecoverPhase2End
  BY <1>6, <1>o DEF RecoverPhase2End, db, TypeOK, RowsOK, MemoryOK, SessStates
<1> QED BY <1>1, <1>2, <1>3, <1>4, <1>5, <1>6 DEF Teardown, ShutdownEnd, Crash, Boot

\* Every step keeps the types.
LEMMA StepType ==
    ASSUME TypeOK, EndedFirst, [Next]_vars
    PROVE  TypeOK'
<1>1. CASE UNCHANGED vars
  BY <1>1 DEF vars, db, mem, TypeOK, RowsOK, MemoryOK
<1> QED BY <1>1, BoardRequestsType, TaskRequestsType, LifecycleRequestsType, ClosingRequestsType,
           WorkerRequestsType, OutsideType, DispatcherType, WorkerType, TailStepType, RestartType
        DEF Next

--------------------------------------------------------------------------------
(* What a step does to tasks, links and attempts *)

\* Nothing but the eligibility of a task is ever recomputed.
LEMMA SettleKeeps ==
    ASSUME NEW T \in [Tasks -> TaskRows], NEW D, NEW B, NEW A, NEW S, NEW t \in Tasks
    PROVE  LET x == T[t]
               y == Settle(T, D, B, A, S)[t]
           IN  /\ y.owner = x.owner /\ y.verdict = x.verdict /\ y.parent = x.parent
               /\ y.status = x.status \/ {x.status, y.status} \subseteq {"todo", "ready"}
<1>1. T[t] \in TaskRows
  OBVIOUS
<1>2. Settle(T, D, B, A, S)[t] \in {T[t], [T[t] EXCEPT !.status = "ready"], [T[t] EXCEPT !.status = "todo"]}
  BY DEF Settle
<1>3. CASE Settle(T, D, B, A, S)[t] = T[t]
  BY <1>3
<1>4. CASE Settle(T, D, B, A, S)[t] # T[t]
  <2>1. T[t].status \in {"todo", "ready"}
    BY <1>4 DEF Settle
  <2> QED BY <1>1, <1>2, <2>1 DEF TaskRows
<1> QED BY <1>3, <1>4

\* A task that no attempt begins or ends on: who owns it stays, what is done stays done as
\* it was judged, rows do not go away, and a running task's links are not touched.
Kept(t) ==
    /\ task'[t].owner = task[t].owner
    /\ task'[t].status = "running" <=> task[t].status = "running"
    /\ task[t].status = "done" => task'[t].status = "done" /\ task'[t].verdict = task[t].verdict
    /\ Exists(t) => task'[t].status # "absent"
    /\ task[t].status = "running" => DepsOf(deps', t) = DepsOf(deps, t)

\* The two graphs: kept or thinned, a link, a move, a new row.
SameParents == \A t \in Tasks : task'[t].parent = task[t].parent
Thinned     == deps' \subseteq deps /\ SameParents
\* One new link that closes no cycle.
Links(t, d) == MayDepend(t, d) /\ deps' = deps \cup {<<t, d>>} /\ SameParents
\* One task under another parent, not below itself.
Moves(t, p) == /\ MayMove(t, p) /\ deps' = deps /\ task'[t].parent = p
               /\ \A u \in Tasks \ {t} : task'[u].parent = task[u].parent
\* One new row with links and a parent that exist.
Makes(t, p, D) ==
    /\ ~Exists(t) /\ task'[t].status # "absent"
    /\ \A d \in D : d # t /\ Exists(d)
    /\ deps' = deps \cup ({t} \X D)
    /\ p = NoParent \/ (p \in Tasks /\ Exists(p))
    /\ task'[t].parent = p
    /\ \A u \in Tasks \ {t} : task'[u].parent = task[u].parent

\* All a step may do to the graphs.
GraphStep == \/ Thinned
             \/ \E t, d \in Tasks : Links(t, d)
             \/ \E t \in Tasks, p \in Parents : Moves(t, p)
             \/ \E t \in Tasks, p \in Parents, D \in SUBSET Tasks : Makes(t, p, D)

\* A step in which no attempt begins or ends.
Edits == /\ \A r \in Runs : run'[r].state = run[r].state
         /\ \A t \in Tasks : Kept(t)
         /\ GraphStep

\* A step that leaves tasks, links and attempts alone.
LEMMA StillEdits ==
    ASSUME TypeOK, UNCHANGED <<task, deps, run>>
    PROVE  Edits
BY DEF Edits, Kept, Exists, GraphStep, Thinned, SameParents

\* A row that is not running is replaced by one that is not, and eligibility recomputed.
LEMMA SettledRow ==
    ASSUME TypeOK, OwnerAgreement, NEW t \in Tasks, NEW row \in TaskRows, NEW S,
           Recomputed([task EXCEPT ![t] = row], deps', S),
           task[t].status \notin {"running", "done"}, row.status \notin {"running", "absent"},
           row.owner = 0, \A u \in Tasks \ {t} : DepsOf(deps', u) = DepsOf(deps, u)
    PROVE  /\ \A u \in Tasks : Kept(u)
           /\ task'[t].parent = row.parent /\ task'[t].status # "absent"
           /\ \A u \in Tasks \ {t} : task'[u].parent = task[u].parent
<1> DEFINE T == [task EXCEPT ![t] = row]
<1>1. T \in [Tasks -> TaskRows] /\ task \in [Tasks -> TaskRows]
  BY DEF TypeOK, RowsOK
<1>2. task' = Settle(T, deps', board, live, S)
  BY DEF Recomputed
<1>3. task[t].owner = 0
  BY DEF OwnerAgreement
<1>4. ASSUME NEW u \in Tasks
      PROVE  /\ task'[u].owner = T[u].owner /\ task'[u].verdict = T[u].verdict
             /\ task'[u].parent = T[u].parent
             /\ task'[u].status = T[u].status \/ {T[u].status, task'[u].status} \subseteq {"todo", "ready"}
  <2> HIDE DEF T
  <2> QED BY <1>1, <1>2, SettleKeeps
<1>5. T[t] = row /\ \A u \in Tasks \ {t} : T[u] = task[u]
  BY <1>1
<1> HIDE DEF T
<1>6. ASSUME NEW u \in Tasks PROVE Kept(u)
  BY <1>3, <1>4, <1>5 DEF Kept, Exists
<1> QED BY <1>4, <1>5, <1>6

\* Requests about a board begin and end nothing.
LEMMA BoardRequestsEdit ==
    ASSUME TypeOK, BoardRequests
    PROVE  Edits
<1>1. ASSUME NEW b \in Boards, NEW yes \in BOOLEAN, ArchiveBoard(b, yes)
      PROVE  Edits
  <2> DEFINE S == {t \in Tasks : BoardOf[t] = b}
  <2>1. task' = Settle(task, deps, board', live, S) /\ UNCHANGED <<run, deps>>
    BY <1>1 DEF ArchiveBoard, Rest
  <2>2. task \in [Tasks -> TaskRows]
    BY DEF TypeOK, RowsOK
  <2> HIDE DEF S
  <2>3. ASSUME NEW t \in Tasks
        PROVE  Kept(t) /\ task'[t].parent = task[t].parent
    BY <2>1, <2>2, SettleKeeps DEF Kept, Exists
  <2> QED BY <2>1, <2>3 DEF Edits, GraphStep, Thinned, SameParents
<1>2. ASSUME NEW b \in Boards, NEW yes \in BOOLEAN, SetDispatchEnabled(b, yes)
      PROVE  Edits
  BY <1>2, StillEdits DEF SetDispatchEnabled, Rest
<1> QED BY <1>1, <1>2 DEF BoardRequests

\* A created task is a new row of the graphs.
LEMMA CreateEdits ==
    ASSUME TypeOK, OwnerAgreement, NEW t \in Tasks, NEW st \in {"triage", "todo"}, NEW p \in Parents,
           NEW a \in Assignees, NEW D \in SUBSET Tasks, NEW m \in Runs \cup {NoRun},
           Create(t, st, p, a, D, m), UNCHANGED run
    PROVE  Edits
<1> DEFINE row == [NewTask EXCEPT !.status = st, !.parent = p, !.agent = a, !.maker = m]
<1>1. row \in TaskRows /\ row.status \notin {"running", "absent"} /\ row.owner = 0 /\ row.parent = p
  BY DEF NewTask, TaskRows, Statuses, Verdicts
<1>2. Recomputed([task EXCEPT ![t] = row], deps', {t})
  BY DEF Create
<1> HIDE DEF row
<1>3. deps' = deps \cup ({t} \X D) /\ task[t].status = "absent"
  BY DEF Create, Exists
<1>4. \A u \in Tasks \ {t} : DepsOf(deps', u) = DepsOf(deps, u)
  BY <1>3 DEF DepsOf
<1>5. /\ \A u \in Tasks : Kept(u)
      /\ task'[t].parent = p /\ task'[t].status # "absent"
      /\ \A u \in Tasks \ {t} : task'[u].parent = task[u].parent
  BY <1>1, <1>2, <1>3, <1>4, SettledRow
<1>6. Makes(t, p, D)
  BY <1>3, <1>5 DEF Create, Makes, MayAdopt
<1> QED BY <1>5, <1>6 DEF Edits, GraphStep

\* A link is refused on a running task.
LEMMA LinkedEdits ==
    ASSUME TypeOK, NEW t \in Tasks, NEW d \in Tasks, Linked(t, d), UNCHANGED run
    PROVE  Edits
<1>1. task[t].status \in {"triage", "todo", "ready", "blocked"} /\ MayDepend(t, d)
  BY DEF Linked, Editable
<1>2. \A u \in Tasks : /\ u # t => task'[u] = task[u] /\ DepsOf(deps', u) = DepsOf(deps, u)
                       /\ task'[u].owner = task[u].owner /\ task'[u].parent = task[u].parent
  BY DEF Linked, DepsOf, TypeOK, RowsOK, TaskRows
<1>3. task'[t].status \in {"triage", "todo", "ready", "blocked"}
  BY <1>1 DEF Linked, TypeOK, RowsOK, TaskRows
<1>4. \A u \in Tasks : Kept(u)
  BY <1>1, <1>2, <1>3 DEF Kept, Exists
<1>5. Links(t, d)
  BY <1>1, <1>2 DEF Links, Linked, SameParents
<1> QED BY <1>4, <1>5 DEF Edits, GraphStep

\* A row changed in place, without its parent, by a status that is not running.
LEMMA StatusEdits ==
    ASSUME TypeOK, OwnerAgreement, NEW t \in Tasks,
           NEW st \in {"triage", "todo", "ready", "blocked", "done", "cancelled"}, NEW S,
           task[t].status \notin {"running", "done"},
           \/ Recomputed([task EXCEPT ![t].status = st], deps, S)
           \/ task' = [task EXCEPT ![t].status = st],
           UNCHANGED <<deps, run>>
    PROVE  Edits
<1> DEFINE T == [task EXCEPT ![t].status = st]
<1>1. T \in [Tasks -> TaskRows] /\ task \in [Tasks -> TaskRows]
  BY DEF TypeOK, RowsOK, TaskRows, Statuses
<1>2. task' = Settle(T, deps, board, live, S) \/ task' = T
  BY DEF Recomputed
<1>3. ASSUME NEW u \in Tasks
      PROVE  /\ task'[u].owner = T[u].owner /\ task'[u].verdict = T[u].verdict
             /\ task'[u].parent = T[u].parent
             /\ task'[u].status = T[u].status \/ {T[u].status, task'[u].status} \subseteq {"todo", "ready"}
  <2> HIDE DEF T
  <2> QED BY <1>1, <1>2, SettleKeeps
<1>4. ASSUME NEW u \in Tasks
      PROVE  /\ T[u].owner = task[u].owner /\ T[u].verdict = task[u].verdict
             /\ T[u].parent = task[u].parent
             /\ T[u].status = IF u = t THEN st ELSE task[u].status
  BY <1>1 DEF TaskRows
<1> HIDE DEF T
<1>5. ASSUME NEW u \in Tasks PROVE Kept(u) /\ task'[u].parent = task[u].parent
  BY <1>3, <1>4 DEF Kept, Exists
<1> QED BY <1>5 DEF Edits, GraphStep, Thinned, SameParents

\* Requests about a task begin and end nothing.
LEMMA TaskRequestsEdit ==
    ASSUME TypeOK, OwnerAgreement, TaskRequests
    PROVE  Edits
<1>r. task \in [Tasks -> TaskRows]
  BY DEF TypeOK, RowsOK
<1>1. ASSUME NEW t \in Tasks, NEW st \in {"triage", "todo"}, NEW p \in Parents,
             NEW a \in Assignees, NEW D \in SUBSET Tasks, CreateTask(t, st, p, a, D)
      PROVE  Edits
  BY <1>1, CreateEdits DEF CreateTask, Rest
<1>2. ASSUME NEW t \in Tasks, NEW p \in Parents, NEW late \in BOOLEAN, UpdateTask(t, p, late)
      PROVE  Edits
  <2> DEFINE row == [task[t] EXCEPT !.parent = p, !.later = late]
  <2>1. row \in TaskRows /\ row.parent = p /\ row.status = task[t].status /\ row.owner = task[t].owner
    <3>1. task[t] \in TaskRows
      BY <1>r
    <3>2. row \in TaskRows
      BY <3>1, EditedRow
    <3> QED BY <3>1, <3>2 DEF TaskRows
  <2>2. [task EXCEPT ![t].parent = p, ![t].later = late] = [task EXCEPT ![t] = row]
    BY <1>r DEF TaskRows
  <2> HIDE DEF row
  <2>3. Recomputed([task EXCEPT ![t] = row], deps', {t}) /\ UNCHANGED <<deps, run>>
    BY <1>2, <2>2 DEF UpdateTask, Recomputed, Rest
  <2>4. task[t].status \in {"triage", "todo", "ready", "blocked"} /\ MayMove(t, p)
    BY <1>2 DEF UpdateTask, Editable
  <2>5. /\ \A u \in Tasks : Kept(u)
        /\ task'[t].parent = p
        /\ \A u \in Tasks \ {t} : task'[u].parent = task[u].parent
    BY <2>1, <2>3, <2>4, SettledRow DEF OwnerAgreement
  <2>6. Moves(t, p)
    BY <2>3, <2>4, <2>5 DEF Moves
  <2> QED BY <2>3, <2>5, <2>6 DEF Edits, GraphStep
<1>3. ASSUME NEW t \in Tasks, NEW a \in Assignees, AssignTask(t, a)
      PROVE  Edits
  <2> DEFINE row == [task[t] EXCEPT !.agent = a]
  <2>1. row \in TaskRows /\ row.parent = task[t].parent /\ row.status = task[t].status
        /\ row.owner = task[t].owner
    BY <1>r, AssignedRow DEF TaskRows
  <2>2. [task EXCEPT ![t].agent = a] = [task EXCEPT ![t] = row]
    BY <1>r DEF TaskRows
  <2> HIDE DEF row
  <2>3. Recomputed([task EXCEPT ![t] = row], deps', {t}) /\ UNCHANGED <<deps, run>>
    BY <1>3, <2>2 DEF AssignTask, Recomputed, Rest
  <2>4. task[t].status \in {"triage", "todo", "ready", "blocked"}
    BY <1>3 DEF AssignTask, Editable
  <2>5. /\ \A u \in Tasks : Kept(u)
        /\ task'[t].parent = task[t].parent
        /\ \A u \in Tasks \ {t} : task'[u].parent = task[u].parent
    BY <2>1, <2>3, <2>4, SettledRow DEF OwnerAgreement
  <2> QED BY <2>3, <2>5 DEF Edits, GraphStep, Thinned, SameParents
<1>4. ASSUME NEW t \in Tasks, NEW d \in Tasks, AddDependency(t, d)
      PROVE  Edits
  BY <1>4, LinkedEdits DEF AddDependency, Rest
<1>5. ASSUME NEW t \in Tasks, NEW d \in Tasks, RemoveDependency(t, d)
      PROVE  Edits
  <2>1. Recomputed(task, deps', {t}) /\ deps' = deps \ {<<t, d>>} /\ UNCHANGED run
    BY <1>5 DEF RemoveDependency, Rest
  <2>2. task[t].status \in {"triage", "todo", "ready", "blocked"}
    BY <1>5 DEF RemoveDependency, Editable
  <2>3. \A u \in Tasks \ {t} : DepsOf(deps', u) = DepsOf(deps, u)
    BY <2>1 DEF DepsOf
  <2>4. ASSUME NEW u \in Tasks
        PROVE  Kept(u) /\ task'[u].parent = task[u].parent
    <3>1. task' = Settle(task, deps', board, live, {t})
      BY <2>1 DEF Recomputed
    <3>2. /\ task'[u].owner = task[u].owner /\ task'[u].verdict = task[u].verdict
          /\ task'[u].parent = task[u].parent
          /\ task'[u].status = task[u].status \/ {task[u].status, task'[u].status} \subseteq {"todo", "ready"}
      BY <1>r, <3>1, SettleKeeps
    <3>3. task[u].status = "running" => DepsOf(deps', u) = DepsOf(deps, u)
      BY <2>2, <2>3
    <3> QED BY <3>2, <3>3 DEF Kept, Exists
  <2> QED BY <2>1, <2>4 DEF Edits, GraphStep, Thinned, SameParents
<1> QED BY <1>1, <1>2, <1>3, <1>4, <1>5 DEF TaskRequests

\* An attempt of some task ends as one of the five.
Finishes == \E r \in Runs, o \in Ends, v \in Verdicts : Finish(r, o, v) /\ UNCHANGED deps

\* Requests about the life of a task edit rows or end one attempt.
LEMMA LifecycleRequestsEdit ==
    ASSUME TypeOK, OwnerAgreement, LifecycleRequests
    PROVE  Edits \/ Finishes
<1> SUFFICES ASSUME NEW t \in Tasks,
                    \/ TriageTask(t) \/ SpecifyTask(t) \/ ReadyTask(t) \/ UnblockTask(t)
                    \/ BlockActiveTask(t) \/ CancelRunning(t) \/ CancelIdle(t)
             PROVE  Edits \/ Finishes
  BY DEF LifecycleRequests
<1>1. CASE TriageTask(t)
  BY <1>1, StatusEdits DEF TriageTask, Rest
<1>2. CASE SpecifyTask(t)
  BY <1>2, StatusEdits DEF SpecifyTask, Rest
<1>3. CASE ReadyTask(t)
  BY <1>3, StatusEdits DEF ReadyTask, Rest
<1>4. CASE UnblockTask(t)
  BY <1>4, StatusEdits DEF UnblockTask, Rest
<1>5. CASE CancelIdle(t)
  BY <1>5, StatusEdits DEF CancelIdle, Cancelled, Editable, Rest
<1>6. CASE BlockActiveTask(t)
  BY <1>6 DEF BlockActiveTask, Finishes, Ends, Verdicts, SameBoard
<1>7. CASE CancelRunning(t)
  BY <1>7 DEF CancelRunning, Finishes, Ends, Verdicts, SameBoard
<1> QED BY <1>1, <1>2, <1>3, <1>4, <1>5, <1>6, <1>7

\* Closing and archiving edit rows.
LEMMA ClosingRequestsEdit ==
    ASSUME TypeOK, OwnerAgreement, ClosingRequests
    PROVE  Edits
<1>1. ASSUME NEW t \in Tasks, CloseTask(t)
      PROVE  Edits
  <2>1. task[t].status \notin {"running", "done"}
    BY <1>1 DEF CloseTask, Terminal, OwnerAgreement
  <2> QED BY <1>1, <2>1, StatusEdits DEF CloseTask, Rest
<1>2. ASSUME NEW t \in Tasks, NEW yes \in BOOLEAN, ArchiveTask(t, yes)
      PROVE  Edits
  <2>1. \A u \in Tasks : /\ task'[u].status = task[u].status /\ task'[u].owner = task[u].owner
                         /\ task'[u].verdict = task[u].verdict /\ task'[u].parent = task[u].parent
    BY <1>2 DEF ArchiveTask, TypeOK, RowsOK, TaskRows
  <2> QED BY <1>2, <2>1 DEF ArchiveTask, Rest, Edits, Kept, Exists, GraphStep, Thinned, SameParents
<1> QED BY <1>1, <1>2 DEF ClosingRequests

\* A worker edits rows or ends one attempt.
LEMMA WorkerRequestsEdit ==
    ASSUME TypeOK, OwnerAgreement, WorkerRequests
    PROVE  Edits \/ Finishes
<1>1. ASSUME NEW r \in Runs, BlockWorker(r)
      PROVE  Finishes
  BY <1>1 DEF BlockWorker, Finishes, Ends, Verdicts, SameBoard
<1>2. ASSUME NEW r \in Runs, SubmitRetrospective(r)
      PROVE  Edits
  BY <1>2, StillEdits DEF SubmitRetrospective
<1>3. ASSUME NEW r \in Runs, CompleteCommit(r)
      PROVE  Edits \/ Finishes
  <2>1. call[r] \in Verdicts
    BY DEF TypeOK, MemoryOK
  <2> QED BY <1>3, <2>1, StillEdits DEF CompleteCommit, Finishes, Ends, SameBoard
<1>4. ASSUME NEW r \in Runs, NEW v \in {"pass", "fail"}, CompleteBegin(r, v)
      PROVE  Edits
  BY <1>4, StillEdits DEF CompleteBegin, db
<1>5. ASSUME NEW r \in Runs, NEW t \in Tasks, NEW st \in {"triage", "todo"}, NEW p \in Tasks,
             NEW a \in Assignees, NEW D \in SUBSET Tasks, WorkerCreates(r, t, st, p, a, D)
      PROVE  Edits
  <2>1. p \in Parents
    BY DEF Parents
  <2> QED BY <1>5, <2>1, CreateEdits DEF WorkerCreates, Rest
<1>6. ASSUME NEW r \in Runs, NEW t \in Tasks, NEW d \in Tasks, WorkerLinks(r, t, d)
      PROVE  Edits
  BY <1>6, LinkedEdits DEF WorkerLinks, Rest
<1> QED BY <1>1, <1>2, <1>3, <1>4, <1>5, <1>6 DEF WorkerRequests

\* What happens outside begins and ends nothing.
LEMMA OutsideEdits ==
    ASSUME TypeOK, Outside \/ ResumeAfterDeploy
    PROVE  Edits
<1>1. ASSUME NEW t \in Tasks, ComesDue(t)
      PROVE  Edits
  <2>1. \A u \in Tasks : /\ task'[u].status = task[u].status /\ task'[u].owner = task[u].owner
                         /\ task'[u].verdict = task[u].verdict /\ task'[u].parent = task[u].parent
    BY <1>1 DEF ComesDue, TypeOK, RowsOK, TaskRows
  <2> QED BY <1>1, <2>1 DEF ComesDue, Rest, Edits, Kept, Exists, GraphStep, Thinned, SameParents
<1>2. CASE UNCHANGED <<task, deps, run>>
  BY <1>2, StillEdits
<1> QED BY <1>1, <1>2 DEF Outside, DeleteOrigin, PauseForDeploy, ArchiveAgent, ResumeAfterDeploy, Rest, db

\* An attempt begins.
Claims(t) ==
    /\ Cardinality(Attempted(t)) < Attempts[t]
    /\ CanClaim(t)
    /\ run'  = [run EXCEPT ![NextRun(t)].state = "running"]
    /\ task' = [task EXCEPT ![t].status = "running", ![t].owner = NextRun(t)[2]]
    /\ UNCHANGED deps

\* The dispatcher claims, ends one attempt, or recomputes.
LEMMA DispatcherEdits ==
    ASSUME TypeOK, Dispatcher
    PROVE  Edits \/ Finishes \/ \E t \in Tasks : Claims(t)
<1>1. CASE DispatcherPass
  <2>1. task' = Settle(task, deps, board, live, Tasks) /\ UNCHANGED <<run, deps>>
    BY <1>1 DEF DispatcherPass, SameBoard
  <2>2. task \in [Tasks -> TaskRows]
    BY DEF TypeOK, RowsOK
  <2>3. ASSUME NEW t \in Tasks
        PROVE  Kept(t) /\ task'[t].parent = task[t].parent
    BY <2>1, <2>2, SettleKeeps DEF Kept, Exists
  <2> QED BY <2>1, <2>3 DEF Edits, GraphStep, Thinned, SameParents
<1>2. CASE ExpireRun
  <2>1. disp.run \in Runs
    BY <1>2 DEF ExpireRun, TypeOK, MemoryOK
  <2> QED BY <1>2, <2>1, StillEdits DEF ExpireRun, SameBoard, Finishes, Ends, Verdicts
<1>3. CASE AttachRunSession
  <2>1. \A r \in Runs : run'[r].state = run[r].state
    BY <1>3 DEF AttachRunSession, TypeOK, RowsOK
  <2>2. UNCHANGED <<task, deps>>
    BY <1>3 DEF AttachRunSession, SameBoard
  <2> QED BY <2>1, <2>2 DEF Edits, Kept, Exists, GraphStep, Thinned, SameParents
<1>4. CASE SetupFails
  <2>1. disp.run \in Runs
    BY <1>4 DEF SetupFails, WorkspaceFails, TypeOK, MemoryOK
  <2> QED BY <1>4, <2>1, StillEdits DEF SetupFails, SameBoard, Finishes, Ends, Verdicts
<1>5. ASSUME NEW t \in Tasks, ClaimReady(t)
      PROVE  Edits \/ Claims(t)
  BY <1>5, StillEdits DEF ClaimReady, Claims, SameBoard
<1>6. CASE UNCHANGED db
  BY <1>6, StillEdits DEF db
<1> QED BY <1>1, <1>2, <1>3, <1>4, <1>5, <1>6
        DEF Dispatcher, RenewRead, Renewed, ServedAll, SkipExhausted, StartWorker

\* A turn, an idle check or a terminal path ends one attempt or edits rows.
LEMMA RunnerEdits ==
    ASSUME TypeOK, OwnerAgreement, NEW r \in Runs, Worker(r) \/ IdleCheck(r) \/ TailStep(r)
    PROVE  Edits \/ Finishes
<1>1. ASSUME NEW o \in Ends, TurnFails(r, o)
      PROVE  Edits \/ Finishes
  BY <1>1, StillEdits DEF TurnFails, SameBoard, Finishes, Verdicts
<1>2. CASE IdleCheckFail(r)
  BY <1>2, StillEdits DEF IdleCheckFail, SameBoard, Finishes, Ends, Verdicts
<1>3. CASE CancelAfterRun(r)
  <2>1. r[1] \in Tasks
    BY RunParts
  <2>2. CASE Editable(r[1])
    BY <1>3, <2>1, <2>2, StatusEdits DEF CancelAfterRun, Cancelled, Editable, SameBoard
  <2>3. CASE ~Editable(r[1])
    BY <1>3, <2>3, StillEdits DEF CancelAfterRun, SameBoard
  <2> QED BY <2>2, <2>3
<1>4. CASE NotifyTerminal(r)
  BY <1>4, StillEdits DEF NotifyTerminal, SameBoard
<1>5. CASE UNCHANGED db
  BY <1>5, StillEdits DEF db
<1> QED BY <1>1, <1>2, <1>3, <1>4, <1>5
        DEF Worker, IdleCheck, TailStep, TurnWaits, TurnResumes, UserMessage, TurnEnds, HookEnds,
            IdleCheckRead, InterruptWorker, ArchiveWorker

\* A teardown ends attempts one by one, a boot all at once.
LEMMA RestartEdits ==
    ASSUME TypeOK, ShutdownBegin \/ Teardown \/ Crash \/ Boot
    PROVE  Edits \/ Finishes \/ RecoverPhase1
<1>1. ASSUME NEW r \in Runs, ShutdownRun(r)
      PROVE  Finishes
  BY <1>1 DEF ShutdownRun, SameBoard, Finishes, Ends, Verdicts
<1>2. ASSUME NEW r \in Runs, RepairReport(r)
      PROVE  Edits
  BY <1>2, StillEdits DEF RepairReport
<1>3. CASE UNCHANGED db
  BY <1>3, StillEdits DEF db
<1> QED BY <1>1, <1>2, <1>3
        DEF ShutdownBegin, Teardown, ShutdownEnd, Crash, Boot, RecoverPhase2End

\* Whatever the action, an attempt begins, ends, is cut off by a boot, or rows are edited.
LEMMA StepCases ==
    ASSUME TypeOK, OwnerAgreement, [Next]_vars
    PROVE  Edits \/ Finishes \/ RecoverPhase1 \/ \E t \in Tasks : Claims(t)
<1>1. CASE UNCHANGED vars
  BY <1>1, StillEdits DEF vars, db
<1> QED BY <1>1, BoardRequestsEdit, TaskRequestsEdit, LifecycleRequestsEdit, ClosingRequestsEdit,
           WorkerRequestsEdit, OutsideEdits, DispatcherEdits, RunnerEdits, RestartEdits
        DEF Next

--------------------------------------------------------------------------------
(* Attempts are made in order, and a task and its attempts agree *)

\* The attempt a claim makes has never been made, and follows the last one.
LEMMA NextRunIsNew ==
    ASSUME AttemptsInOrder, NEW t \in Tasks, Cardinality(Attempted(t)) < Attempts[t]
    PROVE  /\ NextRun(t) \in Runs /\ run[NextRun(t)].state = "none"
           /\ NextRun(t)[1] = t /\ NextRun(t)[2] \in Nat \ {0}
           /\ Attempted(t) = 1..(NextRun(t)[2] - 1)
<1>1. PICK n \in Nat : Attempted(t) = 1..n
  BY DEF AttemptsInOrder
<1>2. Cardinality(Attempted(t)) = n
  BY <1>1, FS_Interval
<1>3. n + 1 \in 1..Attempts[t] /\ n + 1 \notin Attempted(t)
  BY <1>1, <1>2, LimitAssumption
<1>4. NextRun(t) = <<t, n + 1>>
  BY <1>2 DEF NextRun
<1>5. run[<<t, n + 1>>].state = "none"
  BY <1>3 DEF Attempted
<1> QED BY <1>1, <1>3, <1>4, <1>5, NextRunType, <1>2

\* What the compare-and-set writes: the task is given up, other tasks at most recomputed.
LEMMA FinishedTasks ==
    ASSUME TypeOK, NEW r \in Runs, NEW o \in Ends, NEW v \in Verdicts, Finish(r, o, v),
           NEW t \in Tasks
    PROVE  /\ task'[t].owner = IF t = r[1] THEN 0 ELSE task[t].owner
           /\ task'[t].status = "running" <=> (t # r[1] /\ task[t].status = "running")
           /\ task'[t].parent = task[t].parent
           /\ task[t].status = "done" => task'[t].status = "done" /\ task'[t].verdict = task[t].verdict
           /\ Exists(t) => task'[t].status # "absent"
<1> DEFINE st  == IF o = "completed" THEN "done" ELSE "blocked"
           old == task[r[1]]
           row == [old EXCEPT !.status = st, !.owner = 0, !.verdict = v]
           T   == [task EXCEPT ![r[1]] = row]
<1>1. r[1] \in Tasks /\ task[r[1]].status = "running"
  BY RunParts DEF Finish, Owns
<1>2. row \in TaskRows /\ row.status \in {"done", "blocked"} /\ row.owner = 0
      /\ row.parent = old.parent
  <2>1. old \in TaskRows
    BY <1>1 DEF TypeOK, RowsOK
  <2>2. st \in {"done", "blocked"}
    OBVIOUS
  <2> HIDE DEF st, old
  <2>3. row \in TaskRows
    BY <2>1, <2>2, FinishedRow
  <2>4. row.status = st /\ row.owner = 0 /\ row.parent = old.parent
    BY <2>1 DEF TaskRows
  <2> QED BY <2>2, <2>3, <2>4
<1>3. task' = Settle(T, deps, board, live, IF o = "completed" THEN Dependents(r[1]) ELSE {})
  BY <1>1 DEF Finish, Recomputed, TypeOK, RowsOK
<1> HIDE DEF row
<1>4. T \in [Tasks -> TaskRows] /\ T[t] = IF t = r[1] THEN row ELSE task[t]
  BY <1>2 DEF TypeOK, RowsOK
<1> HIDE DEF T
<1>5. /\ task'[t].owner = T[t].owner /\ task'[t].verdict = T[t].verdict
      /\ task'[t].parent = T[t].parent
      /\ task'[t].status = T[t].status \/ {T[t].status, task'[t].status} \subseteq {"todo", "ready"}
  BY <1>3, <1>4, SettleKeeps
<1> QED BY <1>1, <1>2, <1>4, <1>5 DEF Exists

\* Only a claim makes an attempt.
LEMMA AttemptsInOrderStep ==
    ASSUME TypeOK, OwnerAgreement, AttemptsInOrder, [Next]_vars
    PROVE  AttemptsInOrder'
<1>1. ASSUME \A r \in Runs : run'[r].state = "none" <=> run[r].state = "none"
      PROVE  AttemptsInOrder'
  <2>1. \A t \in Tasks : Attempted(t)' = Attempted(t)
    BY <1>1, RunParts, LimitAssumption DEF Attempted
  <2> QED BY <2>1 DEF AttemptsInOrder
<1>2. CASE Edits
  BY <1>1, <1>2 DEF Edits
<1>3. CASE Finishes
  BY <1>1, <1>3 DEF Finishes, Finish, Owns, Running, Ends, TypeOK, RowsOK
<1>4. CASE RecoverPhase1
  BY <1>1, <1>4 DEF RecoverPhase1, Owns, Running, TypeOK, RowsOK
<1>5. ASSUME NEW t \in Tasks, Claims(t)
      PROVE  AttemptsInOrder'
  <2> DEFINE n == NextRun(t)
  <2>1. /\ n \in Runs /\ n[1] = t /\ n[2] \in Nat \ {0} /\ n = <<t, n[2]>>
        /\ Attempted(t) = 1..(n[2] - 1) /\ n[2] \in 1..Attempts[t]
    BY <1>5, NextRunIsNew, RunParts DEF Claims
  <2>2. \A r \in Runs : run'[r].state = IF r = n THEN "running" ELSE run[r].state
    BY <1>5, <2>1 DEF Claims, TypeOK, RowsOK
  <2> HIDE DEF n
  <2>3. \A u \in Tasks \ {t} : Attempted(u)' = Attempted(u)
    BY <2>1, <2>2, RunParts, LimitAssumption DEF Attempted
  <2>4. Attempted(t)' = Attempted(t) \cup {n[2]}
    BY <2>1, <2>2, RunParts, LimitAssumption DEF Attempted
  <2>5. Attempted(t)' = 1..n[2]
    BY <2>1, <2>4
  <2> QED BY <2>1, <2>3, <2>5 DEF AttemptsInOrder
<1> QED BY <1>2, <1>3, <1>4, <1>5, StepCases

\* After a boot no attempt runs and no task names one.
LEMMA BootEndsAll ==
    ASSUME TypeOK, OwnerAgreement, OwnersAreAttempts, RecoverPhase1
    PROVE  /\ \A r \in Runs : run'[r].state = IF Running(r) THEN "interrupted" ELSE run[r].state
           /\ \A t \in Tasks : task'[t] = IF task[t].status = "running"
                                          THEN [task[t] EXCEPT !.status = "blocked", !.owner = 0]
                                          ELSE task[t]
<1>1. \A r \in Runs : Owns(r) <=> Running(r)
  BY RunParts, LimitAssumption DEF Owns, OwnerAgreement
<1>2. \A t \in Tasks : (\E r \in Runs : r[1] = t /\ Owns(r)) <=> task[t].status = "running"
  <2>1. ASSUME NEW t \in Tasks, task[t].status = "running"
        PROVE  \E r \in Runs : r[1] = t /\ Owns(r)
    <3>1. <<t, task[t].owner>> \in Runs
      BY <2>1 DEF OwnerAgreement, OwnersAreAttempts
    <3>2. Running(<<t, task[t].owner>>)
      BY <3>1 DEF OwnerAgreement
    <3> QED BY <1>1, <3>1, <3>2
  <2> QED BY <2>1 DEF Owns
<1>3. ASSUME NEW r \in Runs
      PROVE  run'[r].state = IF Running(r) THEN "interrupted" ELSE run[r].state
  <2>1. run'[r] = IF Running(r) THEN [run[r] EXCEPT !.state = "interrupted"] ELSE run[r]
    BY <1>1 DEF RecoverPhase1
  <2> QED BY <2>1 DEF TypeOK, RowsOK
<1> QED BY <1>2, <1>3 DEF RecoverPhase1

\* A claim gives the task its attempt, an end and a boot take it away.
LEMMA OwnerAgreementStep ==
    ASSUME TypeOK, OwnerAgreement, OwnersAreAttempts, AttemptsInOrder, [Next]_vars
    PROVE  OwnerAgreement'
<1>1. CASE Edits
  BY <1>1, RunParts DEF Edits, Kept, OwnerAgreement, Running
<1>2. ASSUME NEW r \in Runs, NEW o \in Ends, NEW v \in Verdicts, Finish(r, o, v)
      PROVE  OwnerAgreement'
  <2>1. r[1] \in Tasks /\ r[2] # 0
    BY RunParts, LimitAssumption
  <2>2. task[r[1]].owner = r[2] /\ Running(r)
    BY <1>2 DEF Finish, Owns
  <2>3. \A t \in Tasks : /\ task'[t].owner = IF t = r[1] THEN 0 ELSE task[t].owner
                         /\ task'[t].status = "running" <=> (t # r[1] /\ task[t].status = "running")
    BY <1>2, FinishedTasks
  <2>4. \A q \in Runs : run'[q].state = IF q = r THEN o ELSE run[q].state
    BY <1>2 DEF Finish, TypeOK, RowsOK
  <2>5. \A q \in Runs : q[1] = r[1] /\ q # r => q[2] # r[2]
    BY RunParts
  <2> QED BY <2>1, <2>2, <2>3, <2>4, <2>5, RunParts, LimitAssumption DEF OwnerAgreement, Running, Ends
<1>3. CASE RecoverPhase1
  <2>1. \A t \in Tasks : task[t].status # "running" => task[t].owner = 0
    BY DEF OwnerAgreement
  <2>2. \A t \in Tasks : task'[t].owner = 0 /\ task'[t].status # "running"
    <3> SUFFICES ASSUME NEW t \in Tasks
                 PROVE  task'[t].owner = 0 /\ task'[t].status # "running"
      OBVIOUS
    <3>1. CASE task[t].status = "running"
      <4>1. task[t] \in TaskRows
        BY DEF TypeOK, RowsOK
      <4>2. task'[t] = [task[t] EXCEPT !.status = "blocked", !.owner = 0]
        BY <1>3, <3>1, BootEndsAll
      <4> QED BY <4>1, <4>2, InterruptedRow
    <3>2. CASE task[t].status # "running"
      BY <1>3, <2>1, <3>2, BootEndsAll
    <3> QED BY <3>1, <3>2
  <2>3. \A r \in Runs : run'[r].state # "running"
    BY <1>3, BootEndsAll DEF Running
  <2> QED BY <2>2, <2>3, RunParts, LimitAssumption DEF OwnerAgreement, Running
<1>4. ASSUME NEW t \in Tasks, Claims(t)
      PROVE  OwnerAgreement'
  <2> DEFINE n == NextRun(t)
  <2>1. n \in Runs /\ run[n].state = "none" /\ n[1] = t /\ n[2] \in Nat \ {0}
    BY <1>4, NextRunIsNew DEF Claims
  <2>2. \A r \in Runs : run'[r].state = IF r = n THEN "running" ELSE run[r].state
    BY <1>4, <2>1 DEF Claims, TypeOK, RowsOK
  <2>3. \A u \in Tasks : /\ task'[u].owner = IF u = t THEN n[2] ELSE task[u].owner
                         /\ task'[u].status = IF u = t THEN "running" ELSE task[u].status
    BY <1>4, <2>1 DEF Claims, TypeOK, RowsOK, TaskRows
  <2>4. task[t].owner = 0
    BY <1>4 DEF Claims, CanClaim
  <2> HIDE DEF n
  <2>5. \A q \in Runs : q[1] = t /\ q # n => q[2] # n[2]
    BY <2>1, RunParts
  <2> QED BY <2>1, <2>2, <2>3, <2>4, <2>5, RunParts, LimitAssumption DEF OwnerAgreement, Running
<1> QED BY <1>1, <1>2, <1>3, <1>4, StepCases DEF Finishes

\* Only a claim names an attempt.
LEMMA OwnersAreAttemptsStep ==
    ASSUME TypeOK, OwnerAgreement, OwnersAreAttempts, AttemptsInOrder, [Next]_vars
    PROVE  OwnersAreAttempts'
<1>1. CASE Edits
  BY <1>1 DEF Edits, Kept, OwnersAreAttempts
<1>2. ASSUME NEW r \in Runs, NEW o \in Ends, NEW v \in Verdicts, Finish(r, o, v)
      PROVE  OwnersAreAttempts'
  BY <1>2, FinishedTasks DEF OwnersAreAttempts
<1>3. CASE RecoverPhase1
  <2> SUFFICES ASSUME NEW t \in Tasks, task'[t].owner # 0
               PROVE  <<t, task'[t].owner>> \in Runs
    BY DEF OwnersAreAttempts
  <2>1. CASE task[t].status = "running"
    <3>1. task[t] \in TaskRows
      BY DEF TypeOK, RowsOK
    <3>2. task'[t] = [task[t] EXCEPT !.status = "blocked", !.owner = 0]
      BY <1>3, <2>1, BootEndsAll
    <3> QED BY <3>1, <3>2, InterruptedRow
  <2>2. CASE task[t].status # "running"
    BY <1>3, <2>2, BootEndsAll DEF OwnersAreAttempts
  <2> QED BY <2>1, <2>2
<1>4. ASSUME NEW t \in Tasks, Claims(t)
      PROVE  OwnersAreAttempts'
  <2>1. NextRun(t) \in Runs /\ NextRun(t)[1] = t
    BY <1>4, NextRunIsNew DEF Claims
  <2>2. \A u \in Tasks : task'[u].owner = IF u = t THEN NextRun(t)[2] ELSE task[u].owner
    BY <1>4 DEF Claims, TypeOK, RowsOK, TaskRows
  <2>3. NextRun(t) = <<t, NextRun(t)[2]>>
    BY <2>1, RunParts
  <2> QED BY <2>1, <2>2, <2>3 DEF OwnersAreAttempts
<1> QED BY <1>1, <1>2, <1>3, <1>4, StepCases DEF Finishes

--------------------------------------------------------------------------------
(* What is still to be done for an attempt is to be done after its end *)

\* An attempt that has ended stays as it ended.
LEMMA EndedStays ==
    ASSUME TypeOK, OwnerAgreement, OwnersAreAttempts, AttemptsInOrder, [Next]_vars,
           NEW r \in Runs, Ended(r)
    PROVE  run'[r].state = run[r].state
<1>1. ~Running(r)
  BY DEF Ended, Running, Ends
<1>2. CASE Edits
  BY <1>2 DEF Edits
<1>3. CASE Finishes
  BY <1>1, <1>3 DEF Finishes, Finish, Owns, TypeOK, RowsOK
<1>4. CASE RecoverPhase1
  BY <1>1, <1>4, BootEndsAll
<1>5. ASSUME NEW t \in Tasks, Claims(t)
      PROVE  run'[r].state = run[r].state
  <2>1. NextRun(t) # r
    BY <1>5, NextRunIsNew DEF Claims, Ended, Ends
  <2> QED BY <1>5, <2>1 DEF Claims, TypeOK, RowsOK
<1> QED BY <1>2, <1>3, <1>4, <1>5, StepCases

\* What is left to do for an attempt was left before, or the attempt ends in this step.
Follows == \A r \in Runs : tail'[r].left # <<>> => tail[r].left # <<>> \/ run'[r].state \in Ends

\* An end leaves something to do for the attempt it ends.
LEMMA ThenFollows ==
    ASSUME TypeOK, NEW r \in Runs, NEW o \in Ends, NEW v, Finish(r, o, v),
           NEW by, NEW left, Then(r, by, left)
    PROVE  Follows
BY DEF Follows, Finish, Then, TypeOK, RowsOK, MemoryOK

\* A step of a terminal path leaves less to do.
LEMMA AdvanceFollows ==
    ASSUME TypeOK, NEW r \in Runs, NEW step, At(r, step), Advance(r)
    PROVE  Follows
BY DEF Follows, At, Advance, TypeOK, MemoryOK

\* A new idle check drops what the old one had left.
LEMMA SpawnFollows ==
    ASSUME TypeOK, NEW r \in Runs, IdleCheckSpawned(r)
    PROVE  Follows
BY DEF Follows, IdleCheckSpawned, NoTail, TypeOK, MemoryOK

\* Nothing else gives an attempt something to be done.
LEMMA StepFollows ==
    ASSUME TypeOK, [Next]_vars
    PROVE  Follows
<1>0. CASE UNCHANGED tail
  BY <1>0 DEF Follows
<1>1. CASE BoardRequests \/ TaskRequests \/ ClosingRequests \/ Outside
  BY <1>0, <1>1 DEF BoardRequests, ArchiveBoard, SetDispatchEnabled, TaskRequests, CreateTask,
       UpdateTask, AssignTask, AddDependency, RemoveDependency, ClosingRequests, CloseTask,
       ArchiveTask, Outside, DeleteOrigin, PauseForDeploy, ArchiveAgent, ComesDue, Quiet, mem
<1>2. CASE LifecycleRequests
  BY <1>0, <1>2, ThenFollows
     DEF LifecycleRequests, TriageTask, SpecifyTask, ReadyTask, UnblockTask, BlockActiveTask,
         CancelRunning, CancelIdle, Quiet, mem, Ends
<1>3. CASE WorkerRequests
  BY <1>0, <1>3, ThenFollows
     DEF WorkerRequests, BlockWorker, SubmitRetrospective, CompleteCommit, CompleteBegin,
         WorkerCreates, WorkerLinks, Quiet, mem, Ends
<1>4. CASE Dispatcher \/ ResumeAfterDeploy
  <2>1. disp.pc = "expire" => disp.run \in Runs
    BY DEF TypeOK, MemoryOK
  <2>2. disp.pc \in {"raised", "setup", "attached"} => disp.run \in Runs
    BY DEF TypeOK, MemoryOK
  <2>3. ExpireRun => Follows
    BY <1>0, <2>1, ThenFollows DEF ExpireRun, Ends
  <2>4. SetupFails => Follows
    BY <1>0, <2>2, ThenFollows DEF SetupFails, WorkspaceFails, Ends
  <2> QED
    BY <1>0, <1>4, <2>3, <2>4
       DEF Dispatcher, ResumeAfterDeploy, DispatcherPass, Renewed, ServedAll, AttachRunSession,
           StartWorker, RenewRead, ClaimReady, SkipExhausted
<1>5. ASSUME NEW r \in Runs, Worker(r) \/ IdleCheck(r)
      PROVE  Follows
  BY <1>0, <1>5, ThenFollows, SpawnFollows
     DEF Worker, IdleCheck, TurnWaits, TurnResumes, UserMessage, TurnEnds, HookEnds, TurnFails,
         IdleCheckRead, IdleCheckFail, Ends
<1>6. ASSUME NEW r \in Runs, TailStep(r)
      PROVE  Follows
  BY <1>6, AdvanceFollows DEF TailStep, NotifyTerminal, InterruptWorker, CancelAfterRun, ArchiveWorker
<1>7. CASE ShutdownBegin \/ Crash \/ ShutdownEnd
  BY <1>7 DEF ShutdownBegin, Crash, ShutdownEnd, Dead, Follows, NoTail
<1>8. ASSUME NEW r \in Runs, ShutdownRun(r)
      PROVE  Follows
  BY <1>8, ThenFollows DEF ShutdownRun, Ends
<1>9. CASE Boot
  BY <1>0, <1>9 DEF Boot, RecoverPhase1, RepairReport, RecoverPhase2End, Quiet, mem
<1>10. CASE UNCHANGED vars
  BY <1>0, <1>10 DEF vars, mem
<1> QED BY <1>1, <1>2, <1>3, <1>4, <1>5, <1>6, <1>7, <1>8, <1>9, <1>10 DEF Next, Teardown

\* So what is left to do is left after an end.
LEMMA EndedFirstStep ==
    ASSUME TypeOK, OwnerAgreement, OwnersAreAttempts, AttemptsInOrder, EndedFirst, [Next]_vars
    PROVE  EndedFirst'
<1> SUFFICES ASSUME NEW r \in Runs, tail'[r].left # <<>>
             PROVE  run'[r].state \in Ends
  BY DEF EndedFirst, Ended
<1>1. CASE Ended(r)
  BY <1>1, EndedStays DEF Ended
<1>2. CASE ~Ended(r)
  BY <1>2, StepFollows DEF Follows, EndedFirst
<1> QED BY <1>1, <1>2

--------------------------------------------------------------------------------
(* What a claim checked stays true *)

\* Rows do not go away, and what is done stays done as it was judged.
LEMMA DoneIsFinal ==
    ASSUME TypeOK, OwnerAgreement, OwnersAreAttempts, [Next]_vars, NEW t \in Tasks
    PROVE  /\ task[t].status = "done" => task'[t].status = "done" /\ task'[t].verdict = task[t].verdict
           /\ Exists(t) => task'[t].status # "absent"
<1>1. CASE Edits
  BY <1>1 DEF Edits, Kept
<1>2. CASE Finishes
  BY <1>2, FinishedTasks DEF Finishes
<1>3. CASE RecoverPhase1
  <2>1. CASE task[t].status = "running"
    <3>1. task[t] \in TaskRows
      BY DEF TypeOK, RowsOK
    <3>2. task'[t].status = "blocked"
      BY <1>3, <2>1, <3>1, BootEndsAll, InterruptedRow
    <3> QED BY <2>1, <3>2
  <2>2. CASE task[t].status # "running"
    <3>1. task'[t] = task[t]
      BY <1>3, <2>2, BootEndsAll
    <3> QED BY <3>1 DEF Exists
  <2> QED BY <2>1, <2>2
<1>4. ASSUME NEW u \in Tasks, Claims(u)
      PROVE  /\ task[t].status = "done" => task'[t].status = "done" /\ task'[t].verdict = task[t].verdict
             /\ Exists(t) => task'[t].status # "absent"
  BY <1>4 DEF Claims, CanClaim, Exists, TypeOK, RowsOK, TaskRows
<1> QED BY <1>1, <1>2, <1>3, <1>4, StepCases

\* A claim checks what a task waits for, and no later step takes it back.
LEMMA RunningDepsDoneStep ==
    ASSUME TypeOK, OwnerAgreement, OwnersAreAttempts, RunningDepsDone, [Next]_vars
    PROVE  RunningDepsDone'
<1>0. ASSUME NEW t \in Tasks, Met(task, deps, t), DepsOf(deps', t) = DepsOf(deps, t)
      PROVE  \A d \in DepsOf(deps', t) : task'[d].status = "done" /\ task'[d].verdict # "fail"
  <2>1. DepsOf(deps, t) \subseteq Tasks
    BY DEF TypeOK, RowsOK, DepsOf
  <2> QED BY <1>0, <2>1, DoneIsFinal DEF Met
<1>1. \A t \in Tasks : task[t].status = "running" => Met(task, deps, t)
  BY DEF RunningDepsDone, Met
<1>2. CASE Edits
  BY <1>0, <1>1, <1>2 DEF Edits, Kept, RunningDepsDone
<1>3. CASE Finishes
  BY <1>0, <1>1, <1>3, FinishedTasks DEF Finishes, RunningDepsDone
<1>4. CASE RecoverPhase1
  <2>1. ASSUME NEW t \in Tasks PROVE task'[t].status # "running"
    <3>1. task[t] \in TaskRows
      BY DEF TypeOK, RowsOK
    <3> QED BY <1>4, <3>1, BootEndsAll, InterruptedRow
  <2> QED BY <2>1 DEF RunningDepsDone
<1>5. ASSUME NEW u \in Tasks, Claims(u)
      PROVE  RunningDepsDone'
  <2>1. Met(task, deps, u) /\ UNCHANGED deps
    BY <1>5 DEF Claims, CanClaim, Eligible
  <2>2. \A t \in Tasks \ {u} : task'[t] = task[t]
    BY <1>5 DEF Claims, TypeOK, RowsOK
  <2> QED BY <1>0, <1>1, <2>1, <2>2 DEF RunningDepsDone
<1> QED BY <1>2, <1>3, <1>4, <1>5, StepCases

\* A claim checks the directory against every running attempt.
LEMMA SharedDirExclusiveStep ==
    ASSUME TypeOK, OwnerAgreement, OwnersAreAttempts, AttemptsInOrder, SharedDirExclusive, [Next]_vars
    PROVE  SharedDirExclusive'
<1>1. ASSUME \A r \in Runs : run'[r].state = "running" => Running(r)
      PROVE  SharedDirExclusive'
  BY <1>1 DEF SharedDirExclusive, Running
<1>2. CASE Edits
  BY <1>1, <1>2 DEF Edits, Running
<1>3. CASE Finishes
  BY <1>1, <1>3 DEF Finishes, Finish, Ends, Running, TypeOK, RowsOK
<1>4. CASE RecoverPhase1
  BY <1>1, <1>4, BootEndsAll DEF Running
<1>5. ASSUME NEW t \in Tasks, Claims(t)
      PROVE  SharedDirExclusive'
  <2>1. NextRun(t) \in Runs /\ NextRun(t)[1] = t
    BY <1>5, NextRunIsNew DEF Claims
  <2>2. \A r \in Runs : run'[r].state = "running" => r = NextRun(t) \/ Running(r)
    BY <1>5, <2>1 DEF Claims, Running, TypeOK, RowsOK
  <2>3. Dir[t] # "own" => \A r \in Runs : Running(r) => Dir[r[1]] # Dir[t]
    BY <1>5 DEF Claims, CanClaim, DirTaken
  <2> QED BY <2>1, <2>2, <2>3 DEF SharedDirExclusive, Running
<1> QED BY <1>2, <1>3, <1>4, <1>5, StepCases

--------------------------------------------------------------------------------
(* The graphs *)

\* What any step does to the two graphs.
LEMMA GraphCases ==
    ASSUME TypeOK, OwnerAgreement, OwnersAreAttempts, [Next]_vars
    PROVE  GraphStep
<1>1. CASE Edits
  BY <1>1 DEF Edits
<1>2. CASE Finishes
  BY <1>2, FinishedTasks DEF Finishes, GraphStep, Thinned, SameParents
<1>3. CASE RecoverPhase1
  <2>1. ASSUME NEW t \in Tasks PROVE task'[t].parent = task[t].parent
    <3>1. task[t] \in TaskRows
      BY DEF TypeOK, RowsOK
    <3>2. [task[t] EXCEPT !.status = "blocked", !.owner = 0].parent = task[t].parent
      BY <3>1 DEF TaskRows
    <3> QED BY <1>3, <3>2, BootEndsAll
  <2> QED BY <1>3, <2>1 DEF RecoverPhase1, SameBoard, GraphStep, Thinned, SameParents
<1>4. ASSUME NEW t \in Tasks, Claims(t)
      PROVE  GraphStep
  BY <1>4 DEF Claims, GraphStep, Thinned, SameParents, TypeOK, RowsOK, TaskRows
<1> QED BY <1>1, <1>2, <1>3, <1>4, StepCases

\* Nothing points at a row that is not there.
LEMMA LinkedRowsExistStep ==
    ASSUME TypeOK, OwnerAgreement, OwnersAreAttempts, LinkedRowsExist, [Next]_vars
    PROVE  LinkedRowsExist'
<1>0. \A t \in Tasks : Exists(t) => task'[t].status # "absent"
  BY DoneIsFinal
<1>1. deps \subseteq Tasks \X Tasks /\ \A t \in Tasks : task[t].parent \in Tasks \cup {NoParent}
  BY DEF TypeOK, RowsOK, TaskRows, Parents
<1> USE DEF Exists
<1>2. CASE Thinned
  BY <1>0, <1>1, <1>2 DEF Thinned, SameParents, LinkedRowsExist
<1>3. ASSUME NEW t \in Tasks, NEW d \in Tasks, Links(t, d)
      PROVE  LinkedRowsExist'
  BY <1>0, <1>1, <1>3 DEF Links, MayDepend, SameParents, LinkedRowsExist
<1>4. ASSUME NEW t \in Tasks, NEW p \in Parents, Moves(t, p)
      PROVE  LinkedRowsExist'
  BY <1>0, <1>1, <1>4 DEF Moves, MayMove, LinkedRowsExist
<1>5. ASSUME NEW t \in Tasks, NEW p \in Parents, NEW D \in SUBSET Tasks, Makes(t, p, D)
      PROVE  LinkedRowsExist'
  BY <1>0, <1>1, <1>5 DEF Makes, LinkedRowsExist
<1> QED BY <1>2, <1>3, <1>4, <1>5, GraphCases DEF GraphStep

\* What is not reached stays outside of some set that the edges do not leave.
LEMMA NotReached ==
    ASSUME NEW E, NEW x, NEW y \in Tasks, y \notin Reach(E, x)
    PROVE  \E C \in SUBSET Tasks : y \notin C /\ \A e \in E : e[1] \in C \cup {x} => e[2] \in C
BY DEF Reach

\* A refused cycle: a link from t to d where t is not reached from d.
LEMMA LinksLeadOutStep ==
    ASSUME TypeOK, OwnerAgreement, OwnersAreAttempts, LinkedRowsExist, LinksLeadOut, [Next]_vars
    PROVE  LinksLeadOut'
<1>0. deps \subseteq Tasks \X Tasks
  BY DEF TypeOK, RowsOK
<1>1. ASSUME deps' \subseteq deps
      PROVE  LinksLeadOut'
  BY <1>1 DEF LinksLeadOut, DepsOf
<1>2. ASSUME NEW t \in Tasks, NEW d \in Tasks, Links(t, d)
      PROVE  LinksLeadOut'
  <2> SUFFICES ASSUME NEW S \in SUBSET Tasks, S # {},
                      \A x \in S : DepsOf(deps', x) \cap S # {}
               PROVE  FALSE
    BY DEF LinksLeadOut
  <2>1. t # d /\ t \notin Reach(deps, d) /\ deps' = deps \cup {<<t, d>>}
    BY <1>2 DEF Links, MayDepend
  <2>2. PICK C \in SUBSET Tasks : t \notin C /\ \A e \in deps : e[1] \in C \cup {d} => e[2] \in C
    BY <2>1, NotReached
  <2> DEFINE R == S \cap (C \cup {d})
  <2>3. ASSUME NEW x \in S \ {t} PROVE \E y \in S : <<x, y>> \in deps
    <3>1. PICK y \in S : y \in DepsOf(deps', x)
      OBVIOUS
    <3>2. PICK e \in deps' : e[1] = x /\ e[2] = y
      BY <3>1 DEF DepsOf
    <3>3. e \in deps /\ e = <<x, y>>
      BY <1>0, <2>1, <3>2
    <3> QED BY <3>3
  <2>4. t \in S /\ d \in S
    <3>1. PICK x \in S : DepsOf(deps, x) \cap S = {}
      BY DEF LinksLeadOut
    <3>2. PICK e \in deps' : e[1] = x /\ e[2] \in S
      BY DEF DepsOf
    <3> QED BY <2>1, <3>1, <3>2 DEF DepsOf
  <2>5. \A x \in R : \E y \in R : <<x, y>> \in deps
    BY <2>1, <2>2, <2>3
  <2>6. PICK x \in R : DepsOf(deps, x) \cap R = {}
    BY <2>4 DEF LinksLeadOut
  <2>7. PICK y \in R : <<x, y>> \in deps
    BY <2>5, <2>6
  <2> HIDE DEF R
  <2>8. y \in DepsOf(deps, x)
    BY <2>7 DEF DepsOf
  <2> QED BY <2>6, <2>7, <2>8
<1>3. ASSUME NEW t \in Tasks, NEW p \in Parents, NEW D \in SUBSET Tasks, Makes(t, p, D)
      PROVE  LinksLeadOut'
  <2> SUFFICES ASSUME NEW S \in SUBSET Tasks, S # {},
                      \A x \in S : DepsOf(deps', x) \cap S # {}
               PROVE  FALSE
    BY DEF LinksLeadOut
  <2>1. deps' = deps \cup ({t} \X D) /\ t \notin D /\ \A e \in deps : e[2] # t
    BY <1>3 DEF Makes, LinkedRowsExist
  <2> DEFINE R == S \ {t}
  <2>2. \A x \in S : \E y \in R : <<x, y>> \in deps'
    BY <1>0, <2>1 DEF DepsOf
  <2>3. PICK x \in R : DepsOf(deps, x) \cap R = {}
    BY <2>2 DEF LinksLeadOut
  <2> QED BY <2>1, <2>2, <2>3 DEF DepsOf
<1> QED BY <1>1, <1>2, <1>3, GraphCases DEF GraphStep, Thinned, Moves

\* The same for a move of t under p, where t is not above p.
LEMMA ParentsLeadOutStep ==
    ASSUME TypeOK, OwnerAgreement, OwnersAreAttempts, LinkedRowsExist, ParentsLeadOut, [Next]_vars
    PROVE  ParentsLeadOut'
<1>0. "none" \notin Tasks
  BY NamesAssumption
<1>1. ASSUME SameParents
      PROVE  ParentsLeadOut'
  BY <1>1 DEF ParentsLeadOut, SameParents
<1>2. ASSUME NEW t \in Tasks, NEW p \in Parents, Moves(t, p)
      PROVE  ParentsLeadOut'
  <2> SUFFICES ASSUME NEW S \in SUBSET Tasks, S # {},
                      \A x \in S : task'[x].parent \in S
               PROVE  FALSE
    BY DEF ParentsLeadOut
  <2>1. \A x \in S \ {t} : task[x].parent \in S
    BY <1>2 DEF Moves
  <2>2. t \in S /\ p \in S
    <3>1. PICK x \in S : task[x].parent \notin S
      BY DEF ParentsLeadOut
    <3> QED BY <1>2, <2>1, <3>1 DEF Moves
  <2>3. p \in Tasks \ {t} /\ t \notin Reach(ParentLinks(task), p)
    BY <1>0, <1>2, <2>2 DEF Moves, MayMove, Below, Above, NoParent
  <2>4. PICK C \in SUBSET Tasks :
          t \notin C /\ \A e \in ParentLinks(task) : e[1] \in C \cup {p} => e[2] \in C
    BY <2>3, NotReached
  <2> DEFINE R == S \cap (C \cup {p})
  <2>5. ASSUME NEW x \in R PROVE task[x].parent \in R
    <3>1. x \in S /\ x \in C \cup {p} /\ x # t /\ task[x].parent \in S
      BY <2>1, <2>3, <2>4
    <3>2. <<x, task[x].parent>> \in ParentLinks(task)
      BY <3>1 DEF ParentLinks
    <3>3. task[x].parent \in C
      BY <2>4, <3>1, <3>2
    <3> QED BY <3>1, <3>3
  <2>6. PICK x \in R : task[x].parent \notin R
    BY <2>2 DEF ParentsLeadOut
  <2> QED BY <2>5, <2>6
<1>3. ASSUME NEW t \in Tasks, NEW p \in Parents, NEW D \in SUBSET Tasks, Makes(t, p, D)
      PROVE  ParentsLeadOut'
  <2> SUFFICES ASSUME NEW S \in SUBSET Tasks, S # {},
                      \A x \in S : task'[x].parent \in S
               PROVE  FALSE
    BY DEF ParentsLeadOut
  <2>1. /\ \A x \in Tasks : task[x].parent # t
        /\ p # t /\ task'[t].parent = p
        /\ \A x \in Tasks \ {t} : task'[x].parent = task[x].parent
    BY <1>0, <1>3 DEF Makes, LinkedRowsExist, NoParent
  <2> DEFINE R == S \ {t}
  <2>2. \A x \in S : task'[x].parent \in R
    BY <2>1
  <2>3. PICK x \in R : task[x].parent \notin R
    BY <2>2 DEF ParentsLeadOut
  <2> QED BY <2>1, <2>2, <2>3
<1> QED BY <1>1, <1>2, <1>3, GraphCases DEF GraphStep, Thinned, Links

--------------------------------------------------------------------------------
(* What the origin is told, and what a boot repairs *)

\* A step leaves the reports alone, reports one attempt that has ended, or forgets the origin.
ReportStep == \/ UNCHANGED <<report, origin>>
              \/ \E r \in Runs : /\ Ended(r) /\ report' = ReportOf(r)
                                 /\ UNCHANGED <<run, origin, before, up>>
              \/ DeleteOrigin

\* Only a terminal path, a repair at boot and the end of the origin touch the reports.
LEMMA ReportCases ==
    ASSUME TypeOK, EndedFirst, [Next]_vars
    PROVE  ReportStep
<1>0. CASE UNCHANGED <<report, origin>>
  BY <1>0 DEF ReportStep
<1>1. CASE BoardRequests \/ TaskRequests \/ ClosingRequests \/ LifecycleRequests
  BY <1>0, <1>1
     DEF BoardRequests, ArchiveBoard, SetDispatchEnabled, TaskRequests, CreateTask, UpdateTask,
         AssignTask, AddDependency, RemoveDependency, ClosingRequests, CloseTask, ArchiveTask,
         LifecycleRequests, TriageTask, SpecifyTask, ReadyTask, UnblockTask, BlockActiveTask,
         CancelRunning, CancelIdle, Rest, SameAccount
<1>2. CASE Outside
  BY <1>0, <1>2 DEF Outside, DeleteOrigin, PauseForDeploy, ArchiveAgent, ComesDue, Rest, db, ReportStep
<1>3. CASE WorkerRequests
  BY <1>0, <1>3
     DEF WorkerRequests, BlockWorker, SubmitRetrospective, CompleteCommit, CompleteBegin,
         WorkerCreates, WorkerLinks, Rest, SameAccount, db
<1>4. CASE Dispatcher \/ ResumeAfterDeploy
  BY <1>0, <1>4
     DEF Dispatcher, ResumeAfterDeploy, DispatcherPass, ExpireRun, Renewed, ServedAll,
         AttachRunSession, StartWorker, SetupFails, RenewRead, ClaimReady, SkipExhausted,
         SameAccount, db
<1>5. ASSUME NEW r \in Runs, Worker(r) \/ IdleCheck(r)
      PROVE  ReportStep
  BY <1>0, <1>5
     DEF Worker, IdleCheck, TurnWaits, TurnResumes, UserMessage, TurnEnds, HookEnds, TurnFails,
         IdleCheckRead, IdleCheckFail, SameAccount, db
<1>6. ASSUME NEW r \in Runs, TailStep(r)
      PROVE  ReportStep
  BY <1>0, <1>6
     DEF TailStep, NotifyTerminal, InterruptWorker, CancelAfterRun, ArchiveWorker, At, TailStill,
         Unbudgeted, SameAccount, EndedFirst, ReportStep, db
<1>7. CASE ShutdownBegin \/ Teardown \/ Crash
  BY <1>0, <1>7 DEF ShutdownBegin, Teardown, ShutdownEnd, ShutdownRun, Crash, SameAccount, db
<1>8. CASE Boot
  BY <1>0, <1>8
     DEF Boot, RecoverPhase1, RecoverPhase2End, RepairReport, Unreported, Unbudgeted, SameAccount,
         ReportStep, db
<1>9. CASE UNCHANGED vars
  BY <1>0, <1>9 DEF vars, db
<1> QED BY <1>1, <1>2, <1>3, <1>4, <1>5, <1>6, <1>7, <1>8, <1>9 DEF Next

\* The history is taken when the process dies, and it serves again after the second phase only.
ProcessStep ==
    /\ before' = before \/ (before' = {r \in Runs : Ended(r)} /\ UNCHANGED run)
    /\ up' = "serving" => (up = "serving" /\ before' = before) \/ RecoverPhase2End

\* Only the death of the process takes the history, only the second phase ends the boot.
LEMMA ProcessCases ==
    ASSUME [Next]_vars
    PROVE  ProcessStep
<1>0. CASE UNCHANGED <<up, before>>
  BY <1>0 DEF ProcessStep
<1>1. CASE BoardRequests \/ TaskRequests \/ ClosingRequests \/ LifecycleRequests
  BY <1>0, <1>1
     DEF BoardRequests, ArchiveBoard, SetDispatchEnabled, TaskRequests, CreateTask, UpdateTask,
         AssignTask, AddDependency, RemoveDependency, ClosingRequests, CloseTask, ArchiveTask,
         LifecycleRequests, TriageTask, SpecifyTask, ReadyTask, UnblockTask, BlockActiveTask,
         CancelRunning, CancelIdle, Rest
<1>2. CASE Outside
  BY <1>0, <1>2 DEF Outside, DeleteOrigin, PauseForDeploy, ArchiveAgent, ComesDue, Rest
<1>3. CASE WorkerRequests
  BY <1>0, <1>3
     DEF WorkerRequests, BlockWorker, SubmitRetrospective, CompleteCommit, CompleteBegin,
         WorkerCreates, WorkerLinks, Rest, Unbudgeted
<1>4. CASE Dispatcher \/ ResumeAfterDeploy
  BY <1>0, <1>4
     DEF Dispatcher, ResumeAfterDeploy, DispatcherPass, ExpireRun, Renewed, ServedAll,
         AttachRunSession, StartWorker, SetupFails, RenewRead, ClaimReady, SkipExhausted, Unbudgeted
<1>5. ASSUME NEW r \in Runs, Worker(r) \/ IdleCheck(r) \/ TailStep(r)
      PROVE  ProcessStep
  BY <1>0, <1>5
     DEF Worker, IdleCheck, TurnWaits, TurnResumes, UserMessage, TurnEnds, HookEnds, TurnFails,
         IdleCheckRead, IdleCheckFail, TailStep, NotifyTerminal, InterruptWorker, CancelAfterRun,
         ArchiveWorker, TailStill, Unbudgeted
<1>6. CASE ShutdownBegin \/ Teardown \/ Crash
  BY <1>6 DEF ShutdownBegin, Teardown, ShutdownEnd, ShutdownRun, Crash, Dead, Unbudgeted, db, ProcessStep
<1>7. CASE Boot
  BY <1>0, <1>7 DEF Boot, RecoverPhase1, RecoverPhase2End, RepairReport, Unbudgeted, ProcessStep
<1>8. CASE UNCHANGED vars
  BY <1>0, <1>8 DEF vars
<1> QED BY <1>1, <1>2, <1>3, <1>4, <1>5, <1>6, <1>7, <1>8 DEF Next

\* What had ended stays ended.
LEMMA BeforeEndedStep ==
    ASSUME TypeOK, OwnerAgreement, OwnersAreAttempts, AttemptsInOrder, BeforeEnded, [Next]_vars
    PROVE  BeforeEnded'
<1>1. before \subseteq Runs
  BY DEF TypeOK, RowsOK
<1> QED BY <1>1, ProcessCases, EndedStays DEF ProcessStep, BeforeEnded, Ended

\* One attempt's entry after a report: what it ended as, unless it is known already.
LEMMA Reported ==
    ASSUME TypeOK, NEW r \in Runs, NEW q \in Runs
    PROVE  ReportOf(r)[q] = IF q # r \/ r[1] \notin HasOrigin THEN report[q]
                            ELSE IF ~origin THEN "unavailable"
                            ELSE IF report[q] = "none" THEN run[q].state ELSE report[q]
BY DEF ReportOf, TypeOK, RowsOK

\* Without the origin nothing is told any more.
LEMMA ErasedWithOriginStep ==
    ASSUME TypeOK, EndedFirst, ErasedWithOrigin, [Next]_vars
    PROVE  ErasedWithOrigin'
<1>1. CASE UNCHANGED <<report, origin>>
  BY <1>1 DEF ErasedWithOrigin
<1>2. CASE DeleteOrigin
  BY <1>2 DEF DeleteOrigin, ErasedWithOrigin, Ends
<1>3. ASSUME NEW r \in Runs, report' = ReportOf(r), UNCHANGED origin
      PROVE  ErasedWithOrigin'
  BY <1>3, Reported DEF ErasedWithOrigin, Ends
<1> QED BY <1>1, <1>2, <1>3, ReportCases DEF ReportStep

\* The second phase waits for the repairs, and no later step takes a report back.
LEMMA RecoveredStep ==
    ASSUME TypeOK, EndedFirst, BeforeEnded, RecoveredRunsAreReported, [Next]_vars
    PROVE  RecoveredRunsAreReported'
<1> SUFFICES ASSUME up' = "serving", NEW r \in before', r[1] \in HasOrigin, origin'
             PROVE  report'[r] # "none"
  BY DEF RecoveredRunsAreReported
<1>1. CASE RecoverPhase2End
  <2>1. r \in Runs /\ Ended(r) /\ ~Unreported(r) /\ report' = report
    BY <1>1 DEF RecoverPhase2End, BeforeEnded, db, TypeOK, RowsOK
  <2> QED BY <2>1 DEF Unreported
<1>2. CASE up = "serving" /\ before' = before
  <2>1. r \in Runs /\ (origin => report[r] # "none")
    BY <1>2 DEF RecoveredRunsAreReported, TypeOK, RowsOK
  <2>2. CASE UNCHANGED <<report, origin>>
    BY <2>1, <2>2
  <2>3. CASE DeleteOrigin
    BY <2>3 DEF DeleteOrigin
  <2>4. ASSUME NEW q \in Runs, Ended(q), report' = ReportOf(q), UNCHANGED origin
        PROVE  report'[r] # "none"
    BY <2>1, <2>4, Reported
  <2> QED BY <2>2, <2>3, <2>4, ReportCases DEF ReportStep
<1> QED BY <1>1, <1>2, ProcessCases DEF ProcessStep

--------------------------------------------------------------------------------
(* The inductive invariant and the theorems *)

\* A seed row is one nobody has attempted.
LEMMA SeedRow ==
    ASSUME NEW t \in Tasks
    PROVE  /\ Seed[t] \in TaskRows /\ Seed[t].owner = 0
           /\ Seed[t].status \in {"absent", "triage", "todo"}
<1>1. PICK st \in {"absent", "triage", "todo"}, a \in Agents \cup {NoAgent},
           p \in Tasks \cup {NoParent}, l \in BOOLEAN :
             Seed[t] = [NewTask EXCEPT !.status = st, !.agent = a, !.parent = p, !.later = l]
  BY SeedAssumption
<1>2. Seed[t] = [status |-> st, verdict |-> "none", owner |-> 0, parent |-> p, agent |-> a,
                 archived |-> FALSE, later |-> l, maker |-> NoRun]
  BY <1>1 DEF NewTask
<1> QED BY <1>2 DEF TaskRows, Statuses, Verdicts, Parents, Assignees

\* The seed is a table of rows.
LEMMA SeedTable == Seed \in [Tasks -> TaskRows]
BY SeedRow, SeedAssumption

\* The first row of a task is its seed, eligibility computed.
LEMMA FirstRow ==
    ASSUME Init, NEW t \in Tasks
    PROVE  /\ task[t].owner = 0 /\ task[t].parent = Seed[t].parent
           /\ task[t].status \in {"absent", "triage", "todo", "ready"}
           /\ Seed[t].status # "absent" => Exists(t)
<1>1. task = Settle(Seed, SeedDeps, board, live, Tasks)
  BY DEF Init
<1>2. /\ task[t].owner = Seed[t].owner /\ task[t].parent = Seed[t].parent
      /\ \/ task[t].status = Seed[t].status
         \/ {Seed[t].status, task[t].status} \subseteq {"todo", "ready"}
  BY <1>1, SeedTable, SettleKeeps
<1> QED BY <1>2, SeedRow DEF Exists

\* The first state has its types.
LEMMA InitType == Init => TypeOK
<1> SUFFICES ASSUME Init
             PROVE  RowsOK /\ MemoryOK
  BY DEF TypeOK
<1>1. task \in [Tasks -> TaskRows]
  BY SeedTable, SettleType DEF Init
<1>2. RowsOK
  BY <1>1, SeedAssumption DEF Init, RowsOK
<1>3. <<>> \in Seq(TailSteps)
  OBVIOUS
<1>4. MemoryOK
  BY <1>3 DEF Init, MemoryOK, Idle, NoTail, Paths, Verdicts, SessStates
<1> QED BY <1>2, <1>4

\* At first nobody has attempted anything.
LEMMA InitAttempts ==
    ASSUME Init
    PROVE  /\ AttemptsInOrder /\ OwnerAgreement /\ OwnersAreAttempts
           /\ RunningDepsDone /\ SharedDirExclusive
<1>1. \A t \in Tasks : task[t].owner = 0 /\ task[t].status # "running"
  BY FirstRow
<1>2. \A r \in Runs : run[r].state = "none"
  BY DEF Init
<1>3. ASSUME NEW t \in Tasks
      PROVE  Attempted(t) = 1..0
  BY <1>2, RunParts, LimitAssumption DEF Attempted
<1>4. AttemptsInOrder
  BY <1>3 DEF AttemptsInOrder
<1>5. OwnerAgreement
  BY <1>1, <1>2, RunParts, LimitAssumption DEF OwnerAgreement, Running
<1> QED BY <1>1, <1>2, <1>4, <1>5 DEF OwnersAreAttempts, RunningDepsDone, SharedDirExclusive, Running

\* The seed has no chain, so it has no cycle.
LEMMA InitGraphs ==
    ASSUME Init
    PROVE  LinkedRowsExist /\ LinksLeadOut /\ ParentsLeadOut
<1>0. "none" \notin Tasks
  BY NamesAssumption
<1>1. deps = SeedDeps /\ SeedDeps \subseteq Tasks \X Tasks
  BY SeedAssumption DEF Init
<1>2. \A t \in Tasks : task[t].parent \in Tasks \cup {NoParent}
  BY InitType DEF TypeOK, RowsOK, TaskRows, Parents
<1>3. LinkedRowsExist
  BY <1>1, <1>2, FirstRow, SeedAssumption DEF LinkedRowsExist
<1>4. LinksLeadOut
  <2> SUFFICES ASSUME NEW S \in (SUBSET Tasks) \ {{}}
               PROVE  \E x \in S : DepsOf(deps, x) \cap S = {}
    BY DEF LinksLeadOut
  <2> SUFFICES ASSUME \A x \in S : DepsOf(deps, x) \cap S # {}
               PROVE  FALSE
    OBVIOUS
  <2>1. PICK x \in S : TRUE
    OBVIOUS
  <2>2. PICK d \in SeedDeps : d[1] = x /\ d[2] \in S
    BY <1>1, <2>1 DEF DepsOf
  <2>3. PICK e \in SeedDeps : e[1] = d[2]
    BY <1>1, <2>2 DEF DepsOf
  <2> QED BY <2>2, <2>3, SeedAssumption
<1>5. ParentsLeadOut
  <2> SUFFICES ASSUME NEW S \in (SUBSET Tasks) \ {{}}
               PROVE  \E x \in S : task[x].parent \notin S
    BY DEF ParentsLeadOut
  <2> SUFFICES ASSUME \A x \in S : Seed[x].parent \in S
               PROVE  FALSE
    BY FirstRow
  <2>1. PICK x \in S : TRUE
    OBVIOUS
  <2>2. Seed[x].parent # NoParent /\ Seed[Seed[x].parent].parent # NoParent
    BY <1>0, <2>1 DEF NoParent
  <2> QED BY <2>1, <2>2, SeedAssumption
<1> QED BY <1>3, <1>4, <1>5

\* The first state satisfies the invariant.
LEMMA InitInvariant == Init => Invariant
<1> SUFFICES ASSUME Init
             PROVE  Invariant
  OBVIOUS
<1>1. EndedFirst /\ BeforeEnded /\ ErasedWithOrigin /\ RecoveredRunsAreReported
  BY DEF Init, EndedFirst, NoTail, BeforeEnded, ErasedWithOrigin, RecoveredRunsAreReported
<1> QED BY <1>1, InitType, InitAttempts, InitGraphs DEF Invariant

\* Every step keeps it, conjunct by conjunct.
LEMMA Inductive == Invariant /\ [Next]_vars => Invariant'
<1> SUFFICES ASSUME Invariant, [Next]_vars
             PROVE  Invariant'
  OBVIOUS
<1>1. TypeOK' /\ EndedFirst'
  BY StepType, EndedFirstStep DEF Invariant
<1>2. AttemptsInOrder' /\ OwnerAgreement' /\ OwnersAreAttempts'
  BY AttemptsInOrderStep, OwnerAgreementStep, OwnersAreAttemptsStep DEF Invariant
<1>3. RunningDepsDone' /\ SharedDirExclusive'
  BY RunningDepsDoneStep, SharedDirExclusiveStep DEF Invariant
<1>4. LinkedRowsExist' /\ LinksLeadOut' /\ ParentsLeadOut'
  BY LinkedRowsExistStep, LinksLeadOutStep, ParentsLeadOutStep DEF Invariant
<1>5. BeforeEnded' /\ ErasedWithOrigin' /\ RecoveredRunsAreReported'
  BY BeforeEndedStep, ErasedWithOriginStep, RecoveredStep DEF Invariant
<1> QED BY <1>1, <1>2, <1>3, <1>4, <1>5 DEF Invariant

\* So it holds in every reachable state.
LEMMA Always == Spec => []Invariant
BY InitInvariant, Inductive, PTL DEF Spec

\* Rows, sessions and what is left to do keep their types.
THEOREM TypeCorrect == Spec => []TypeOK
<1>1. Invariant => TypeOK
  BY DEF Invariant
<1> QED BY <1>1, Always, PTL

\* A task is running exactly when it names the attempt that runs.
THEOREM Owned == Spec => []OwnerAgreement
<1>1. Invariant => OwnerAgreement
  BY DEF Invariant
<1> QED BY <1>1, Always, PTL

\* What a claim checked holds until the attempt ends, and neither graph closes a cycle.
THEOREM Claimed == Spec => []ClaimsHold
<1>1. LinksLeadOut /\ ParentsLeadOut => Acyclic
  BY DEF LinksLeadOut, ParentsLeadOut, Acyclic
<1>2. Invariant => ClaimsHold
  BY <1>1 DEF Invariant, ClaimsHold
<1> QED BY <1>2, Always, PTL

\* After a boot no attempt of the previous process is left unreported.
THEOREM Recovered == Spec => []RecoveredRunsAreReported
<1>1. Invariant => RecoveredRunsAreReported
  BY DEF Invariant
<1> QED BY <1>1, Always, PTL

--------------------------------------------------------------------------------
(* Refinement: the board as an account of attempts that end once and are reported once *)

\* A report tells the end of the attempt, gives it up, or finds it reported.
LEMMA ReportImplements ==
    ASSUME TypeOK, ErasedWithOrigin, NEW r \in Runs, Ended(r), report' = ReportOf(r), UNCHANGED run
    PROVE  [Reports!Next]_Reports!reportVars
<1> DEFINE told == [report EXCEPT ![r] = run[r].state]
           lost == [report EXCEPT ![r] = "unavailable"]
<1>0. [q \in Runs |-> run[q].state][r] = run[r].state
  OBVIOUS
<1>1. CASE report' = report
  BY <1>1 DEF Reports!reportVars
<1>2. CASE report[r] = "none" /\ report' = told
  <2>1. Reports!Tell(r)
    BY <1>0, <1>2 DEF Reports!Tell, Ended
  <2> QED BY <2>1 DEF Reports!Next
<1>3. CASE report[r] \in {"none", "erased"} /\ report' = lost
  <2>1. Reports!GiveUp(r)
    BY <1>0, <1>3 DEF Reports!GiveUp, Ended
  <2> QED BY <2>1 DEF Reports!Next
<1>4. report[r] \in Ends \cup {"none", "erased", "unavailable"}
  BY DEF TypeOK, RowsOK
<1>5. ASSUME report' # report PROVE r[1] \in HasOrigin
  BY <1>5 DEF ReportOf
<1>6. CASE ~origin /\ r[1] \in HasOrigin
  <2>1. report' = lost /\ report[r] \notin Ends
    BY <1>6 DEF ReportOf, ErasedWithOrigin
  <2>2. CASE report[r] = "unavailable"
    <3>1. report' = report
      BY <2>1, <2>2 DEF TypeOK, RowsOK
    <3> QED BY <1>1, <3>1
  <2> QED BY <1>3, <1>4, <2>1, <2>2
<1>7. CASE origin /\ r[1] \in HasOrigin
  <2>1. CASE report[r] = "none"
    <3>1. report' = told
      BY <1>7, <2>1 DEF ReportOf
    <3> QED BY <1>2, <2>1, <3>1
  <2>2. CASE report[r] # "none"
    <3>1. report' = report
      BY <1>7, <2>2 DEF ReportOf, TypeOK, RowsOK
    <3> QED BY <1>1, <3>1
  <2> QED BY <2>1, <2>2
<1> QED BY <1>1, <1>5, <1>6, <1>7

\* A claim begins an attempt; an end, or the boot for all that ran, ends it.
LEMMA AttemptImplements ==
    ASSUME TypeOK, OwnerAgreement, OwnersAreAttempts, AttemptsInOrder, [Next]_vars,
           UNCHANGED report
    PROVE  [Reports!Next]_Reports!reportVars
<1> DEFINE outcome == [r \in Runs |-> run[r].state]
<1>1. CASE Edits
  BY <1>1 DEF Edits, Reports!reportVars
<1>2. ASSUME NEW r \in Runs, NEW o \in Ends, NEW v \in Verdicts, Finish(r, o, v)
      PROVE  [Reports!Next]_Reports!reportVars
  <2>1. \A q \in Runs : run'[q].state = IF q \in {r} THEN o ELSE run[q].state
    BY <1>2 DEF Finish, TypeOK, RowsOK
  <2>2. outcome' = [q \in Runs |-> IF q \in {r} THEN o ELSE outcome[q]]
    BY <2>1
  <2>3. Reports!End({r}, o)
    BY <1>2, <2>2 DEF Reports!End, Finish, Owns, Running
  <2> QED BY <2>3 DEF Reports!Next
<1>3. CASE RecoverPhase1
  <2> DEFINE R == {r \in Runs : Running(r)}
  <2>1. \A q \in Runs : run'[q].state = IF q \in R THEN "interrupted" ELSE run[q].state
    BY <1>3, BootEndsAll
  <2>2. outcome' = [q \in Runs |-> IF q \in R THEN "interrupted" ELSE outcome[q]]
    BY <2>1
  <2>3. CASE R = {}
    BY <2>2, <2>3 DEF Reports!reportVars
  <2>4. CASE R # {}
    <3>1. Reports!End(R, "interrupted")
      BY <2>2, <2>4 DEF Reports!End, Running
    <3> QED BY <3>1 DEF Reports!Next, Ends
  <2> QED BY <2>3, <2>4
<1>4. ASSUME NEW t \in Tasks, Claims(t)
      PROVE  [Reports!Next]_Reports!reportVars
  <2>1. PICK n \in Runs : n = NextRun(t) /\ run[n].state = "none"
    BY <1>4, NextRunIsNew DEF Claims
  <2>2. \A q \in Runs : run'[q].state = IF q = n THEN "running" ELSE run[q].state
    BY <1>4, <2>1 DEF Claims, TypeOK, RowsOK
  <2>3. outcome' = [outcome EXCEPT ![n] = "running"]
    BY <2>2
  <2>4. Reports!Begin(n)
    BY <2>1, <2>3 DEF Reports!Begin
  <2> QED BY <2>4 DEF Reports!Next
<1> QED BY <1>1, <1>2, <1>3, <1>4, StepCases DEF Finishes

\* Every attempt ends once and is reported once, as what it was, whoever ends it, however
\* often a notification is repaired, and whenever the session that asked is deleted.
THEOREM Refinement == Spec => ImplementsRunReports
<1>1. Init => Reports!Init
  BY DEF Init, Reports!Init
<1>2. Invariant /\ [Next]_vars => [Reports!Next]_Reports!reportVars
  <2> SUFFICES ASSUME Invariant, [Next]_vars
               PROVE  [Reports!Next]_Reports!reportVars
    OBVIOUS
  <2>1. CASE UNCHANGED report
    BY <2>1, AttemptImplements DEF Invariant
  <2>2. CASE DeleteOrigin
    <3>1. Reports!Erase
      BY <2>2 DEF DeleteOrigin, Reports!Erase
    <3> QED BY <3>1 DEF Reports!Next
  <2>3. ASSUME NEW r \in Runs, Ended(r), report' = ReportOf(r), UNCHANGED run
        PROVE  [Reports!Next]_Reports!reportVars
    BY <2>3, ReportImplements DEF Invariant
  <2> QED BY <2>1, <2>2, <2>3, ReportCases DEF Invariant, ReportStep
<1> QED BY <1>1, <1>2, Always, PTL DEF Spec, ImplementsRunReports, Reports!Spec
===============================================================================
