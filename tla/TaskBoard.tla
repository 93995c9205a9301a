------------------------------ MODULE TaskBoard ------------------------------
(***************************************************************************)
(* The task board: tasks with a dependency graph and a tree, attempts      *)
(* (runs) claimed by one dispatcher, the worker session of each attempt,   *)
(* and everything that may end an attempt (server/task_board/repository.py *)
(* and manager.py, with the endpoints of server/routers/task_boards.py).   *)
(*                                                                         *)
(* A repository operation is one BEGIN IMMEDIATE transaction under one     *)
(* lock, so it is one action.  The manager awaits between transactions:    *)
(* what it still has to do after ending an attempt is tail[r], what the    *)
(* dispatcher holds across awaits is disp.  A REST request that does       *)
(* nothing (a refusal, a hit on an idempotency key) is a stuttering step.  *)
(***************************************************************************)
EXTENDS Integers, Sequences, FiniteSets

CONSTANTS
    Tasks, Boards, Agents,
    BoardOf,        \* the board a task is created on; it never moves
    Dir,            \* the canonical path of its shared workspace, or "own"
    Seed, SeedDeps, \* tasks and links of the first state
    HasOrigin,      \* tasks created by a session, which hears of their ends
    Attempts,       \* model bound: attempts of each task
    MaxRunning, MaxPerAgent, MaxDepth, MaxOpen, MaxChildren,  \* board limits
    Faulty,         \* model bound: attempts that set-up, lease or turn may ever fail
    Reflective,     \* model bound: attempts whose worker ever files a retrospective
    Budget, Cost    \* model bound: how often each kind of disturbance may happen,
                    \* and what one of it takes from the total

\* create a task; its links; parents, assignees and times; its lifecycle; boards,
\* agents and the origin; waits of a worker and messages to it; ends of the process.
Kinds == {"make", "link", "edit", "life", "toggle", "wait", "stop", "total"}

ASSUME BoardOfAssumption == BoardOf \in [Tasks -> Boards]
ASSUME DirAssumption     == DOMAIN Dir = Tasks
ASSUME OriginAssumption  == HasOrigin \subseteq Tasks
ASSUME ReflectiveAssumption == Reflective \subseteq Tasks \X Nat /\ Faulty \subseteq Tasks \X Nat
ASSUME LimitAssumption   ==
    /\ Attempts \in [Tasks -> Nat] /\ MaxRunning \in Nat \ {0} /\ MaxPerAgent \in Nat \ {0}
    /\ MaxDepth \in Nat \ {0} /\ MaxOpen \in Nat \ {0} /\ MaxChildren \in Nat \ {0}
    /\ Budget \in [Kinds -> Nat] /\ Cost \in [Kinds -> Nat]

VARIABLES
    task,        \* rows of tasks
    deps,        \* rows of task_dependencies: <<task, depends_on>>
    board,       \* rows of task_boards
    live,        \* agents that are not archived
    run,         \* rows of task_runs, one per task and attempt
    retro,       \* attempts with a row in task_retrospectives
    origin,      \* the originating session still exists
    report,      \* terminal notification of an attempt
    up,          \* the process: serving, stopping, down, phase2
    disp,        \* the dispatcher coroutine
    paused,      \* TaskBoardManager._deploy_paused
    sess,        \* the worker session of an attempt
    archReq,     \* its _auto_archive_requested
    check,       \* _idle_checks
    call,        \* a completion the manager has validated but not yet committed
    tail,        \* what a terminal path still has to do for an attempt
    before,      \* history: the attempts that had ended when the process last died
    spent        \* how much of the budget is used

db   == <<task, deps, board, live, run, retro, origin, report>>
mem  == <<disp, paused, sess, archReq, check, call, tail>>
vars == <<db, mem, up, before, spent>>

Runs     == UNION {{t} \X (1..Attempts[t]) : t \in Tasks}
\* complete_run, block_run, fail_run, cancel_run and interrupt_run end an attempt as:
Ends     == {"completed", "blocked", "failed", "cancelled", "interrupted"}
Statuses == {"absent", "triage", "todo", "ready", "running", "blocked", "done", "cancelled"}
Terminal == {"done", "cancelled"}
Verdicts == {"none", "pass", "fail"}     \* a completion without a verdict counts as a pass
NoRun    == <<"none", 0>>
NoParent == "none"
NoAgent  == "none"
Idle     == [pc |-> "sleep", left |-> {}, run |-> NoRun]
Off      == [Idle EXCEPT !.pc = "off"]
NoTail   == [by |-> "none", left |-> <<>>]

ASSUME NamesAssumption == /\ "none" \notin Tasks \cup Agents
                          /\ \A t \in Tasks : <<t, 0>> # NoRun

NewTask  == [status |-> "absent", verdict |-> "none", owner |-> 0, parent |-> NoParent,
             agent |-> NoAgent, archived |-> FALSE, later |-> FALSE, maker |-> NoRun]

DepsOf(D, t)    == {e[2] : e \in {d \in D : d[1] = t}}

\* The first state: tasks nobody has attempted, links and parents between rows that exist
\* (foreign keys), without a chain.
ASSUME SeedAssumption ==
    /\ \A t \in Tasks :
         /\ \E st \in {"absent", "triage", "todo"}, a \in Agents \cup {NoAgent},
               p \in Tasks \cup {NoParent}, l \in BOOLEAN :
                 Seed[t] = [NewTask EXCEPT !.status = st, !.agent = a, !.parent = p, !.later = l]
         /\ Seed[t].parent # NoParent =>
              /\ Seed[Seed[t].parent].parent = NoParent /\ BoardOf[Seed[t].parent] = BoardOf[t]
              /\ Seed[Seed[t].parent].status # "absent"
    /\ Seed = [t \in Tasks |-> Seed[t]]
    /\ SeedDeps \subseteq {e \in Tasks \X Tasks : BoardOf[e[1]] = BoardOf[e[2]]}
    /\ \A d, e \in SeedDeps : d[2] # e[1] /\ Seed[d[2]].status # "absent"

(***************************************************************************)
(* Eligibility and the two graphs.                                         *)
(***************************************************************************)
Dependents(t)   == {e[1] : e \in {d \in deps : d[2] = t}}
Met(T, D, t)    == \A d \in DepsOf(D, t) : T[d].status = "done" /\ T[d].verdict # "fail"

Eligible(T, D, B, A, t) ==
    /\ ~T[t].archived
    /\ T[t].agent \in A
    /\ ~B[BoardOf[t]].archived
    /\ ~T[t].later
    /\ Met(T, D, t)

\* _recompute_one for every task of S: only todo and ready ever change.
Settle(T, D, B, A, S) ==
    [t \in Tasks |->
        IF t \in S /\ T[t].status \in {"todo", "ready"}
        THEN [T[t] EXCEPT !.status = IF Eligible(T, D, B, A, t) THEN "ready" ELSE "todo"]
        ELSE T[t]]

Init ==
    /\ board   = [b \in Boards |-> [dispatch |-> TRUE, archived |-> FALSE]]
    /\ live    = Agents
    /\ task    = Settle(Seed, SeedDeps, board, live, Tasks)
    /\ deps    = SeedDeps
    /\ run     = [r \in Runs |-> [state |-> "none", attached |-> FALSE]]
    /\ retro   = {}
    /\ origin  = TRUE
    /\ report  = [r \in Runs |-> "none"]
    /\ up      = "serving"
    /\ disp    = Idle
    /\ paused  = FALSE
    /\ sess    = [r \in Runs |-> "none"]
    /\ archReq = {}
    /\ check   = [r \in Runs |-> "none"]
    /\ call    = [r \in Runs |-> "none"]
    /\ tail    = [r \in Runs |-> NoTail]
    /\ before  = {}
    /\ spent   = [k \in Kinds |-> 0]


\* What the recursive queries reach from x along E: the least closed set.
Reach(E, x) ==
    {y \in Tasks : \A S \in SUBSET Tasks :
        (\A e \in E : e[1] \in S \cup {x} => e[2] \in S) => y \in S}

ParentLinks(T)  == {e \in Tasks \X Tasks : T[e[1]].parent = e[2]}
Above(t)        == Reach(ParentLinks(task), t)
Below(t)        == {u \in Tasks : t \in Above(u)}
Depth(t)        == Cardinality(Above(t)) + 1
Height(t)       == CHOOSE h \in 1..Cardinality(Tasks) :
                     /\ \A u \in Below(t) : Depth(u) - Depth(t) < h
                     /\ h = 1 \/ \E u \in Below(t) : Depth(u) - Depth(t) = h - 1

Exists(t) == task[t].status # "absent"

MayAdopt(p, b) ==     \* a new task under p
    p = NoParent \/ (p \in Tasks /\ Exists(p) /\ BoardOf[p] = b /\ Depth(p) + 1 <= MaxDepth)
MayMove(t, p) ==      \* an existing task t under p
    p = NoParent \/ ( /\ p \in Tasks \ {t} /\ Exists(p) /\ BoardOf[p] = BoardOf[t]
                      /\ p \notin Below(t)
                      /\ Depth(p) + Height(t) <= MaxDepth )

MayDependOnWaiting(t, d) == t # d /\ Exists(d) /\ BoardOf[t] = BoardOf[d] /\ <<t, d>> \notin deps
MayDepend(t, d) == /\ t # d /\ Exists(d) /\ BoardOf[t] = BoardOf[d]
                   /\ <<t, d>> \notin deps
                   /\ t \notin Reach(deps, d)
Editable(t) == task[t].status \in {"triage", "todo", "ready", "blocked"}
(***************************************************************************)
(* Requests of people and agents that change the board (REST).             *)
(***************************************************************************)
Spend(k) == /\ spent[k] < Budget[k] /\ spent["total"] + Cost[k] <= Budget["total"]
            /\ spent' = [spent EXCEPT ![k] = @ + 1, !["total"] = @ + Cost[k]]
Request(k) == up = "serving" /\ Spend(k)
Edit(changes) == Request("edit") /\ changes     \* one that changes nothing only settles
Rest    == UNCHANGED <<up, before, retro, origin, report, run>>
Quiet   == UNCHANGED mem

Recomputed(T, D, S) == task' = Settle(T, D, board, live, S)

ArchiveBoard(b, yes) ==
    /\ Request("toggle") /\ Rest /\ Quiet
    /\ yes => \A t \in Tasks : BoardOf[t] = b => task[t].status # "running"
    /\ board' = [board EXCEPT ![b].archived = yes]
    /\ task' = Settle(task, deps, board', live, {t \in Tasks : BoardOf[t] = b})
    /\ UNCHANGED <<deps, live>>

SetDispatchEnabled(b, yes) ==
    /\ Request("toggle") /\ Rest /\ Quiet
    /\ board[b].dispatch # yes
    /\ board' = [board EXCEPT ![b].dispatch = yes]
    /\ UNCHANGED <<task, deps, live>>

\* The agent's row; the board hears of it at its next reconciliation.
ArchiveAgent(a) ==
    /\ Request("toggle") /\ Rest /\ Quiet
    /\ live' = IF a \in live THEN live \ {a} ELSE live \cup {a}
    /\ UNCHANGED <<task, deps, board>>

Open(b) == {t \in Tasks : BoardOf[t] = b /\ ~task[t].archived
                          /\ task[t].status \notin Terminal \cup {"absent"}}

\* create_task: checks, the row, its links, the eligibility of a specified task
\* (a time it is scheduled at is left to update_task).
Create(t, st, p, a, D, m) ==
    /\ ~Exists(t)
    /\ ~board[BoardOf[t]].archived
    /\ Cardinality(Open(BoardOf[t])) < MaxOpen
    /\ MayAdopt(p, BoardOf[t])
    /\ \A d \in D : d # t /\ Exists(d) /\ BoardOf[d] = BoardOf[t]
    /\ a = NoAgent \/ a \in live
    /\ m # NoRun => /\ run[m].state = "running" /\ BoardOf[m[1]] = BoardOf[t]
                    /\ Cardinality({u \in Tasks : task[u].maker = m}) < MaxChildren
    /\ deps' = deps \cup ({t} \X D)
    /\ Recomputed([task EXCEPT ![t] = [NewTask EXCEPT !.status = st, !.parent = p, !.agent = a,
                                                      !.maker = m]], deps', {t})
    /\ UNCHANGED <<board, live>>

CreateTask(t, st, p, a, D) ==
    Request("make") /\ Rest /\ Quiet /\ Create(t, st, p, a, D, NoRun)

\* update_task: of the fields it writes, those the properties tell apart.
UpdateTask(t, p, late) ==
    /\ Edit(<<p, late>> # <<task[t].parent, task[t].later>>) /\ Rest /\ Quiet
    /\ p = task[t].parent \/ late = task[t].later      \* one field at a time
    /\ Editable(t) /\ MayMove(t, p)
    /\ Recomputed([task EXCEPT ![t].parent = p, ![t].later = late], deps, {t})
    /\ UNCHANGED <<deps, board, live>>

TriageTask(t) ==
    /\ Request("life") /\ Rest /\ Quiet
    /\ task[t].status \in {"todo", "ready"}
    /\ task' = [task EXCEPT ![t].status = "triage"]
    /\ UNCHANGED <<deps, board, live>>

SpecifyTask(t) ==
    /\ up = "serving" /\ Rest /\ Quiet
    /\ task[t].status = "triage"
    /\ Recomputed([task EXCEPT ![t].status = "todo"], deps, {t})
    /\ UNCHANGED <<deps, board, live, spent>>

ReadyTask(t) ==
    /\ up = "serving" /\ Rest /\ Quiet
    /\ task[t].status = "todo"
    /\ Eligible(task, deps, board, live, t)
    /\ task' = [task EXCEPT ![t].status = "ready"]
    /\ UNCHANGED <<deps, board, live, spent>>

AssignTask(t, a) ==
    /\ Edit(a # task[t].agent) /\ Rest /\ Quiet
    /\ Editable(t) /\ (a = NoAgent \/ a \in live)
    /\ Recomputed([task EXCEPT ![t].agent = a], deps, {t})
    /\ UNCHANGED <<deps, board, live>>

UnblockTask(t) ==
    /\ Request("life") /\ Rest /\ Quiet
    /\ task[t].status = "blocked" /\ task[t].owner = 0
    /\ Recomputed([task EXCEPT ![t].status = "todo"], deps, {t})
    /\ UNCHANGED <<deps, board, live>>

\* The repository's cancel_task: nothing that waits for this task is told.
Cancelled(t) == [task EXCEPT ![t].status = "cancelled"]
CancelIdle(t) ==
    /\ Request("life") /\ Rest /\ Quiet
    /\ Editable(t)
    /\ task' = Cancelled(t)
    /\ UNCHANGED <<deps, board, live>>

HasHistory(t) == \E r \in Runs : r[1] = t /\ run[r].state # "none"

\* close_task: an orchestrator ends a container without an attempt of its own.
CloseTask(t) ==
    /\ Request("life") /\ Rest /\ Quiet
    /\ Exists(t) /\ task[t].status \notin Terminal /\ task[t].owner = 0
    /\ ~HasHistory(t)
    /\ \A u \in Tasks : task[u].parent = t => task[u].status \in Terminal
    /\ Recomputed([task EXCEPT ![t].status = "done"], deps, Dependents(t))
    /\ UNCHANGED <<deps, board, live>>

ArchiveTask(t, yes) ==
    /\ Request("life") /\ Rest /\ Quiet
    /\ Exists(t) /\ task[t].status # "running" /\ task[t].archived # yes
    /\ task' = [task EXCEPT ![t].archived = yes]
    /\ UNCHANGED <<deps, board, live>>

\* add_dependency sends a ready task back to todo whatever it now waits for.
Linked(t, d) ==
    /\ Editable(t) /\ MayDepend(t, d)
    /\ deps' = deps \cup {<<t, d>>}
    /\ task' = [task EXCEPT ![t].status = IF @ = "ready" THEN "todo" ELSE @]

AddDependency(t, d) == Request("link") /\ Rest /\ Quiet /\ Linked(t, d) /\ UNCHANGED <<board, live>>

RemoveDependency(t, d) ==
    /\ Request("link") /\ Rest /\ Quiet
    /\ Editable(t) /\ <<t, d>> \in deps
    /\ deps' = deps \ {<<t, d>>}
    /\ Recomputed(task, deps', {t})
    /\ UNCHANGED <<board, live>>

\* The session that asked is deleted: its intents go with it.
DeleteOrigin ==
    /\ Request("toggle") /\ Quiet
    /\ origin /\ origin' = FALSE
    /\ report' = [r \in Runs |-> IF report[r] \in Ends THEN "erased" ELSE report[r]]
    /\ UNCHANGED <<task, deps, board, live, run, retro, up, before>>

\* scheduled_at passes; the board hears of it at its next reconciliation.
ComesDue(t) ==
    /\ task[t].later
    /\ task' = [task EXCEPT ![t].later = FALSE]
    /\ Rest /\ Quiet /\ UNCHANGED <<deps, board, live, spent>>

(***************************************************************************)
(* The life of an attempt.                                                 *)
(***************************************************************************)
Running(r) == run[r].state = "running"
Ended(r)   == run[r].state \in Ends
Owns(r)    == task[r[1]].status = "running" /\ task[r[1]].owner = r[2] /\ Running(r)
Alive      == up \in {"serving", "stopping"}

\* _finish_run: the compare-and-set of all five terminal states.
FinishAnyway(r, o, v) ==
    /\ run' = [run EXCEPT ![r].state = o]
    /\ Recomputed([task EXCEPT ![r[1]] =
                     [@ EXCEPT !.status = IF o = "completed" THEN "done" ELSE "blocked",
                               !.owner = 0, !.verdict = v]],
                  deps, IF o = "completed" THEN Dependents(r[1]) ELSE {})

Finish(r, o, v) ==
    /\ Owns(r)
    /\ run' = [run EXCEPT ![r].state = o]
    /\ Recomputed([task EXCEPT ![r[1]] =
                     [@ EXCEPT !.status = IF o = "completed" THEN "done" ELSE "blocked",
                               !.owner = 0, !.verdict = v]],
                  deps, IF o = "completed" THEN Dependents(r[1]) ELSE {})

Then(r, by, left)    == tail' = [tail EXCEPT ![r] = [by |-> by, left |-> left]]
SameBoard            == UNCHANGED <<deps, board, live>>
SameAccount          == UNCHANGED <<retro, origin, report>>
Unbudgeted           == UNCHANGED <<up, before, spent>>
PendingAlways(r)     == TRUE
\* worker_has_pending_work: a driver, a wait, or a prompt left in the queue.
Pending(r)           == sess[r] \in {"turn", "parked", "hook", "late", "stranded"}
\* Who else runs on this board, for this agent, in this directory.
Load(b)      == {t \in Tasks : BoardOf[t] = b /\ task[t].status = "running"}
AgentLoad(b, a) == {t \in Load(b) : task[t].agent = a}
DirTaken(t)  == Dir[t] # "own" /\ \E r \in Runs : Running(r) /\ Dir[r[1]] = Dir[t]
CanClaim(t) ==
    /\ task[t].status = "ready" /\ task[t].owner = 0
    /\ Eligible(task, deps, board, live, t)
    /\ board[BoardOf[t]].dispatch
    /\ Cardinality(Load(BoardOf[t])) < MaxRunning
    /\ Cardinality(AgentLoad(BoardOf[t], task[t].agent)) < MaxPerAgent
    /\ ~DirTaken(t)

Attempted(t) == {k \in 1..Attempts[t] : run[<<t, k>>].state # "none"}
NextRunAgain(t) == <<t, Cardinality(Attempted(t))>>
NextRun(t)   == <<t, Cardinality(Attempted(t)) + 1>>

(***************************************************************************)
(* The dispatcher: reconcile, renew the leases, claim what is ready.       *)
(***************************************************************************)
DispatcherStill == UNCHANGED <<paused, archReq, check, call>>

\* With nothing to renew, or nothing to serve, that part of a pass is empty.
Serve(T) == LET ready == {t \in Tasks : T[t].status = "ready"}
            IN  IF ready = {} THEN Idle ELSE [pc |-> "serve", left |-> ready, run |-> NoRun]

\* A pass begins: eligibility of everything, then a list of running attempts.
DispatcherPass ==
    /\ up = "serving" /\ disp.pc = "sleep" /\ ~paused
    /\ task' = Settle(task, deps, board, live, Tasks)
    /\ LET running == {r \in Runs : Running(r)}
       IN  disp' = IF running = {} THEN Serve(task')
                   ELSE [pc |-> "renew", left |-> running, run |-> NoRun]
    /\ SameBoard /\ SameAccount /\ DispatcherStill /\ Unbudgeted
    /\ UNCHANGED <<run, sess, tail>>

\* _refresh_liveness looks at one attempt: it renews the lease of one with pending
\* work, and acts on an expired one an await later.  A lost compare-and-set raises
\* through the pass: the loop sleeps again.
RenewRead(r) ==
    /\ disp.pc = "renew" /\ r \in disp.left
    /\ disp.run \in Runs => tail[disp.run].left = <<>>
    /\ IF Pending(r)
       THEN disp' = IF Owns(r) THEN [disp EXCEPT !.left = @ \ {r}] ELSE Idle
       ELSE \E expired \in {FALSE, (r \in Faulty)} :
              disp' = [disp EXCEPT !.left = @ \ {r}, !.run = r,
                                   !.pc = IF expired THEN "expire" ELSE "renew"]
    /\ UNCHANGED <<db, paused, sess, archReq, check, call, tail>> /\ Unbudgeted

ExpireRun ==
    /\ disp.pc = "expire"
    /\ \/ /\ Finish(disp.run, "interrupted", "none")
          /\ Then(disp.run, "disp", IF run[disp.run].attached THEN <<"notify", "interrupt">>
                                                              ELSE <<"notify">>)
          /\ disp' = [disp EXCEPT !.pc = "renew"]
       \/ ~Owns(disp.run) /\ disp' = Idle /\ UNCHANGED <<task, run, tail>>
    /\ SameBoard /\ SameAccount /\ DispatcherStill /\ Unbudgeted /\ UNCHANGED sess

Renewed ==
    /\ disp.pc = "renew" /\ disp.left = {}
    /\ disp.run \in Runs => tail[disp.run].left = <<>>
    /\ disp' = Serve(task)
    /\ UNCHANGED <<db, paused, sess, archReq, check, call, tail>> /\ Unbudgeted

ServedAll ==
    /\ disp.pc = "serve" /\ disp.left = {}
    /\ disp.run \in Runs => tail[disp.run].left = <<>>
    /\ disp' = Idle
    /\ UNCHANGED <<db, paused, sess, archReq, check, call, tail>> /\ Unbudgeted

Next1(pc, r) == disp' = [disp EXCEPT !.pc = pc, !.run = r]

\* claim_ready under the admission gate; a closed gate or a lost race: next task.
ClaimReady(t) ==
    /\ disp.pc = "serve" /\ t \in disp.left
    /\ disp.run \in Runs => tail[disp.run].left = <<>>
    /\ Cardinality(Attempted(t)) < Attempts[t]
    /\ \/ /\ CanClaim(t)
          /\ run'  = [run EXCEPT ![NextRun(t)].state = "running"]
          /\ task' = [task EXCEPT ![t].status = "running", ![t].owner = NextRun(t)[2]]
          /\ disp' = [pc |-> "setup", left |-> disp.left \ {t}, run |-> NextRun(t)]
       \/ /\ ~CanClaim(t) \/ paused
          /\ disp' = [disp EXCEPT !.left = @ \ {t}]
          /\ UNCHANGED <<run, task>>
    /\ SameBoard /\ SameAccount /\ DispatcherStill /\ Unbudgeted /\ UNCHANGED <<sess, tail>>

SkipExhausted(t) ==      \* model bound
    /\ disp.pc = "serve" /\ t \in disp.left
    /\ Cardinality(Attempted(t)) = Attempts[t]
    /\ disp' = [disp EXCEPT !.left = @ \ {t}]
    /\ UNCHANGED <<db, paused, sess, archReq, check, call, tail>> /\ Unbudgeted

\* prepare_workspace, create_session, attach_run_session: when the attempt has
\* ended meanwhile the last one raises and the new session is left behind.
AttachRunSession ==
    /\ disp.pc = "setup"
    /\ sess' = [sess EXCEPT ![disp.run] = "idle"]
    /\ \/ Owns(disp.run) /\ run' = [run EXCEPT ![disp.run].attached = TRUE]
                         /\ Next1("attached", disp.run)
       \/ ~Owns(disp.run) /\ Next1("raised", disp.run) /\ UNCHANGED run
    /\ SameBoard /\ SameAccount /\ DispatcherStill /\ Unbudgeted /\ UNCHANGED <<task, tail>>

\* start_message.  With no driver a new one runs the prompt and what was left in the
\* queue; behind a turn or a wait the prompt is queued and will be run; behind a driver
\* that awaits its idle hook it is queued too, but that driver has looked for the last time.
Started(s) == CASE s \in {"idle", "stranded"} -> "turn"
                [] s \in {"hook", "late"} -> "late"
                [] OTHER -> s

\* It does not look at the run (admission_claimed).  Then the dispatcher publishes the
\* start, which may raise.
StartWorker ==
    /\ disp.pc = "attached" /\ sess[disp.run] \notin {"none", "gone"}
    /\ sess' = [sess EXCEPT ![disp.run] = Started(@)]
    /\ Next1("serve", NoRun) \/ (disp.run \in Faulty /\ Next1("raised", disp.run))
    /\ DispatcherStill /\ Unbudgeted /\ UNCHANGED <<db, tail>>

\* prepare_workspace: no clean source, no base to fetch, a copy that breaks off.
WorkspaceFails == disp.pc = "setup" /\ disp.run \in Faulty

\* Anything raises between the claim and the publication: fail_run, or nothing
\* when the attempt has ended meanwhile (the session, if any, stays).
SetupFails ==
    /\ \/ disp.pc = "raised" \/ WorkspaceFails
       \/ disp.pc = "attached" /\ (sess[disp.run] \in {"none", "gone"} \/ disp.run \in Faulty)
    /\ \/ Finish(disp.run, "failed", "none") /\ Then(disp.run, "disp", <<"notify">>)
       \/ ~Owns(disp.run) /\ UNCHANGED <<task, run, tail>>
    /\ Next1("serve", disp.run)
    /\ SameBoard /\ SameAccount /\ DispatcherStill /\ Unbudgeted /\ UNCHANGED sess

\* A deploy drain pauses the dispatcher, and an aborted one resumes it.
PauseForDeploy ==
    /\ Request("toggle") /\ ~paused /\ paused' = TRUE
    /\ UNCHANGED <<db, up, before, disp, sess, archReq, check, call, tail>>
ResumeAfterDeploy ==
    /\ paused /\ paused' = FALSE
    /\ UNCHANGED <<db, disp, sess, archReq, check, call, tail>> /\ Unbudgeted

(***************************************************************************)
(* The worker: its turn, its calls, and how its session ends an attempt.   *)
(***************************************************************************)
Validated(r) == run[r].attached /\ Owns(r)      \* _validate_worker

\* complete_worker up to the retrospective gate; artifacts are captured next.
NonCleanPass(r, v) == v = "fail" \/ r[2] > 1
CompleteBegin(r, v) ==
    /\ up = "serving" /\ sess[r] = "turn" /\ call[r] = "none" /\ Validated(r)
    /\ NonCleanPass(r, v) => r \in retro
    /\ call' = [call EXCEPT ![r] = v]
    /\ UNCHANGED <<db, disp, paused, sess, archReq, check, tail>> /\ Unbudgeted

CompleteCommit(r) ==
    /\ up = "serving" /\ call[r] # "none"
    /\ \/ Finish(r, "completed", call[r]) /\ Then(r, "call", <<"conclude">>)
       \/ ~Owns(r) /\ UNCHANGED <<task, run, tail>>
    /\ call' = [call EXCEPT ![r] = "none"]
    /\ SameBoard /\ SameAccount /\ Unbudgeted /\ UNCHANGED <<disp, paused, sess, archReq, check>>

BlockWorker(r) ==
    /\ up = "serving" /\ sess[r] = "turn" /\ Validated(r)
    /\ Finish(r, "blocked", "none") /\ Then(r, "call", <<"conclude">>)
    /\ SameBoard /\ SameAccount /\ Unbudgeted
    /\ UNCHANGED <<disp, paused, sess, archReq, check, call>>

\* create_retrospective: one row for each run.
Reflected(r) == r \notin retro /\ retro' = retro \cup {r}

SubmitRetrospective(r) ==
    /\ up = "serving" /\ sess[r] = "turn" /\ Validated(r) /\ r \in Reflective
    /\ Reflected(r)
    /\ Unbudgeted /\ Quiet /\ UNCHANGED <<task, deps, board, live, run, origin, report>>

\* A worker's task is a child of its own unless it names another parent.
WorkerCreates(r, t, st, p, a, D) ==
    /\ sess[r] = "turn" /\ Validated(r)
    /\ Request("make") /\ Rest /\ Quiet
    /\ Create(t, st, p, a, D, r)

WorkerLinks(r, t, d) ==
    /\ sess[r] = "turn" /\ Validated(r) /\ BoardOf[t] = BoardOf[r[1]]
    /\ Request("link") /\ Rest /\ Quiet /\ Linked(t, d) /\ UNCHANGED <<board, live>>

\* A new idle check replaces and cancels the old one, wherever that is: if it has
\* already ended the attempt, what it still had to do is lost.
IdleCheckSpawned(r) ==
    /\ check' = [check EXCEPT ![r] = "read"]
    /\ tail'  = IF tail[r].by = "check" THEN [tail EXCEPT ![r] = NoTail] ELSE tail

\* The queue is empty: the driver awaits the notifiers of an idle session.
BackToIdle(r) == sess' = [sess EXCEPT ![r] = "hook"]

\* A turn ends: the idle broadcast, then the hook.
TurnEnds(r) ==
    /\ Alive /\ sess[r] = "turn"
    /\ BackToIdle(r)
    /\ IdleCheckSpawned(r)
    /\ Unbudgeted /\ UNCHANGED <<db, disp, paused, archReq, call>>

\* The driver's last step: the archive a finished attempt asked for.  It does not look at
\* the queue again: a prompt that came during the hook waits there for another message.
HookEnds(r) ==
    /\ Alive /\ sess[r] \in {"hook", "late"}
    /\ sess' = [sess EXCEPT ![r] = IF r \in archReq THEN "gone"
                                   ELSE IF @ = "late" THEN "stranded" ELSE "idle"]
    /\ archReq' = archReq \ {r}
    /\ Unbudgeted /\ UNCHANGED <<db, disp, paused, check, call, tail>>

\* It waits for something instead: a park, a background task, a delegation.
TurnWaits(r) ==
    /\ Request("wait") /\ sess[r] = "turn"
    /\ sess' = [sess EXCEPT ![r] = "parked"]
    /\ IdleCheckSpawned(r)
    /\ UNCHANGED <<db, up, before, disp, paused, archReq, call>>

TurnResumes(r) ==
    /\ up = "serving" /\ sess[r] = "parked"
    /\ sess' = [sess EXCEPT ![r] = "turn"]
    /\ Unbudgeted /\ UNCHANGED <<db, disp, paused, archReq, check, call, tail>>

\* A message of a person, or one the server writes to the session.
UserMessage(r) ==
    /\ Request("wait") /\ sess[r] \in {"idle", "stranded", "hook"}
    /\ sess' = [sess EXCEPT ![r] = Started(@)]
    /\ UNCHANGED <<db, up, before, disp, paused, archReq, check, call, tail>>

\* An error of the turn, or its interruption by the user: the broadcast of either
\* ends the attempt in the broadcaster's own step; then the session is idle.
TurnFails(r, o) ==
    /\ Alive /\ sess[r] = "turn"
    /\ \/ o = "failed" /\ r \in Faulty /\ UNCHANGED spent
       \/ o = "interrupted" /\ Spend("wait")
    /\ BackToIdle(r)
    /\ \/ /\ Finish(r, o, "none") /\ Then(r, "call", <<"conclude">>)
          /\ check' = [check EXCEPT ![r] = "read"]
       \/ ~Owns(r) /\ IdleCheckSpawned(r) /\ UNCHANGED <<task, run>>
    /\ SameBoard /\ SameAccount /\ UNCHANGED <<up, before, disp, paused, archReq, call>>

\* _check_idle_protocol waits for the driver, asks for pending work, then acts.
IdleCheckRead(r) ==
    /\ Alive /\ check[r] = "read" /\ sess[r] \notin {"hook", "late"}
    /\ check' = [check EXCEPT ![r] = IF Pending(r) THEN "none" ELSE "fail"]
    /\ Unbudgeted /\ UNCHANGED <<db, disp, paused, sess, archReq, call, tail>>

IdleCheckFail(r) ==
    /\ Alive /\ check[r] = "fail"
    /\ \/ Finish(r, "failed", "none") /\ Then(r, "check", <<"notify", "archive">>)
       \/ ~Owns(r) /\ UNCHANGED <<task, run, tail>>
    /\ check' = [check EXCEPT ![r] = "none"]
    /\ SameBoard /\ SameAccount /\ Unbudgeted /\ UNCHANGED <<disp, paused, sess, archReq, call>>

\* manager.cancel_task on a running task: end the attempt, then the task.
CancelRunning(t) ==
    /\ Request("life")
    /\ \E r \in Runs : /\ r[1] = t /\ Finish(r, "cancelled", "none")
                       /\ Then(r, "call", IF run[r].attached
                                          THEN <<"notify", "interrupt", "cancel">>
                                          ELSE <<"notify", "cancel">>)
    /\ SameBoard /\ SameAccount
    /\ UNCHANGED <<up, before, disp, paused, sess, archReq, check, call>>

BlockActiveTask(t) ==
    /\ Request("life")
    /\ \E r \in Runs : /\ r[1] = t /\ Finish(r, "blocked", "none")
                       /\ Then(r, "call", IF run[r].attached
                                          THEN <<"notify", "interrupt">> ELSE <<"notify">>)
    /\ SameBoard /\ SameAccount
    /\ UNCHANGED <<up, before, disp, paused, sess, archReq, check, call>>

(***************************************************************************)
(* What a terminal path does after the compare-and-set, await by await.    *)
(***************************************************************************)
At(r, step) == tail[r].left # <<>> /\ Head(tail[r].left) = step
Advance(r)  == tail' = [tail EXCEPT ![r] = IF Len(@.left) = 1 THEN NoTail
                                           ELSE [by |-> @.by, left |-> Tail(@.left)]]
TailStill   == Unbudgeted /\ UNCHANGED <<disp, paused, check, call>>

\* _notify_terminal: an intent for the origin, or the record that it is gone.
ReportOfTask(r) ==
    IF r[1] \notin HasOrigin THEN report
    ELSE [report EXCEPT ![r] = IF ~origin THEN "unavailable"
                               ELSE IF @ # "none" THEN @
                               ELSE IF task[r[1]].status = "done" THEN "completed"
                                                                  ELSE "blocked"]

ReportOf(r) ==
    IF r[1] \notin HasOrigin THEN report
    ELSE [report EXCEPT ![r] = IF ~origin THEN "unavailable"
                               ELSE IF @ = "none" THEN run[r].state ELSE @]

Mark(r) == archReq' = IF sess[r] \in {"none", "gone"} THEN archReq ELSE archReq \cup {r}

NotifyTerminal(r) ==
    /\ \/ At(r, "notify") /\ UNCHANGED archReq
       \/ At(r, "conclude") /\ Mark(r)       \* _auto_archive_requested, next statement
    /\ Advance(r)
    /\ report' = ReportOf(r)
    /\ TailStill /\ SameBoard /\ UNCHANGED <<task, run, retro, origin, sess>>

InterruptWorker(r) ==
    /\ At(r, "interrupt") /\ Advance(r)
    /\ IF sess[r] \in {"turn", "parked"} THEN BackToIdle(r) ELSE UNCHANGED sess
    /\ IF tail[r].by = "stop" THEN Mark(r) ELSE UNCHANGED archReq
    /\ TailStill /\ UNCHANGED db

\* The second transaction of cancel_task: by now the task may have moved on.
CancelAfterRun(r) ==
    /\ At(r, "cancel") /\ Advance(r)
    /\ task' = IF Editable(r[1]) THEN Cancelled(r[1]) ELSE task
    /\ TailStill /\ SameBoard /\ SameAccount /\ UNCHANGED <<run, sess, archReq>>

ArchiveWorker(r) ==
    /\ At(r, "archive") /\ Advance(r)
    /\ IF sess[r] \in {"turn", "hook", "late"} THEN Mark(r) ELSE UNCHANGED archReq
    /\ sess' = [sess EXCEPT ![r] = IF @ \in {"idle", "stranded"} THEN "gone" ELSE @]
    /\ TailStill /\ UNCHANGED db

(***************************************************************************)
(* Teardown, crash, boot.                                                  *)
(***************************************************************************)
\* shutdown cancels the dispatcher and the idle checks at their current await.
ShutdownBegin ==
    /\ up = "serving" /\ Spend("stop")
    /\ up' = "stopping"
    /\ disp' = Off
    /\ check' = [r \in Runs |-> "none"]
    /\ tail' = [r \in Runs |-> IF tail[r].by \in {"disp", "check"} THEN NoTail ELSE tail[r]]
    /\ UNCHANGED <<db, paused, sess, archReq, call, before>>

ShutdownRun(r) ==
    /\ up = "stopping" /\ Finish(r, "interrupted", "none")
    /\ \A q \in Runs : tail[q].by # "stop"
    /\ Then(r, "stop", IF run[r].attached THEN <<"notify", "interrupt">> ELSE <<"notify">>)
    /\ SameBoard /\ SameAccount /\ Unbudgeted
    /\ UNCHANGED <<disp, paused, sess, archReq, check, call>>

\* Memory is lost.  Parks are rows, but those of interrupted attempts are
\* cancelled by the boot before anything else runs.
Dead == /\ up' = "down" /\ disp' = Off /\ paused' = FALSE /\ archReq' = {}
        /\ sess'  = [r \in Runs |-> IF sess[r] \in {"none", "gone"} THEN sess[r] ELSE "idle"]
        /\ check' = [r \in Runs |-> "none"]
        /\ call'  = [r \in Runs |-> "none"]
        /\ tail'  = [r \in Runs |-> NoTail]
        /\ before' = {r \in Runs : Ended(r)}

ShutdownEnd ==
    /\ up = "stopping"
    /\ \A r \in Runs : ~Running(r) /\ tail[r].left = <<>>
    /\ Dead /\ UNCHANGED <<db, spent>>

Crash == /\ up # "down" /\ Spend("stop")
         /\ Dead /\ UNCHANGED db

\* recover_phase1: one transaction interrupts whatever still runs.
RecoverPhase1 ==
    /\ up = "down" /\ up' = "phase2"
    /\ run'  = [r \in Runs |-> IF Owns(r) THEN [run[r] EXCEPT !.state = "interrupted"] ELSE run[r]]
    /\ task' = [t \in Tasks |-> IF \E r \in Runs : r[1] = t /\ Owns(r)
                                THEN [task[t] EXCEPT !.status = "blocked", !.owner = 0]
                                ELSE task[t]]
    /\ SameBoard /\ SameAccount /\ Quiet /\ UNCHANGED <<before, spent>>

\* recover_phase2, attempt by attempt.
Unreported(r) == Ended(r) /\ r[1] \in HasOrigin /\ report[r] \in {"none", "erased"}
RepairReport(r) ==
    /\ up = "phase2" /\ Unreported(r)
    /\ report' = ReportOf(r)
    /\ UNCHANGED <<task, deps, board, live, run, retro, origin>> /\ Quiet /\ Unbudgeted

\* The rest of the boot: worker sessions are archived, the dispatcher starts.
RecoverPhase2Early ==
    /\ up = "phase2"
    /\ up' = "serving" /\ disp' = Idle
    /\ UNCHANGED <<db, paused, sess, archReq, check, call, tail, before, spent>>

RecoverPhase2End ==
    /\ up = "phase2" /\ \A r \in Runs : ~Unreported(r)
    /\ up' = "serving" /\ disp' = Idle
    /\ sess' = [r \in Runs |-> IF Ended(r) /\ run[r].attached /\ sess[r] = "idle" THEN "gone"
                                                                              ELSE sess[r]]
    /\ UNCHANGED <<db, paused, archReq, check, call, tail, before, spent>>
(***************************************************************************)
(* The specification.                                                      *)
(***************************************************************************)
Parents == Tasks \cup {NoParent}
Assignees == Agents \cup {NoAgent}

BoardRequests == \E b \in Boards, yes \in BOOLEAN : ArchiveBoard(b, yes) \/ SetDispatchEnabled(b, yes)

TaskRequests ==
    \/ \E t \in Tasks, st \in {"triage", "todo"}, p \in Parents, a \in Assignees,
          D \in SUBSET Tasks : CreateTask(t, st, p, a, D)
    \/ \E t \in Tasks, p \in Parents, late \in BOOLEAN : UpdateTask(t, p, late)
    \/ \E t \in Tasks, a \in Assignees : AssignTask(t, a)
    \/ \E t, d \in Tasks : AddDependency(t, d) \/ RemoveDependency(t, d)

LifecycleRequests == \E t \in Tasks :
    \/ TriageTask(t) \/ SpecifyTask(t) \/ ReadyTask(t) \/ UnblockTask(t) \/ BlockActiveTask(t)
    \/ IF task[t].status = "running" THEN CancelRunning(t) ELSE CancelIdle(t)

ClosingRequests == \E t \in Tasks :
    \/ CloseTask(t)
    \/ \E yes \in BOOLEAN : ArchiveTask(t, yes)

WorkerRequests == \E r \in Runs :
    \/ BlockWorker(r) \/ SubmitRetrospective(r) \/ CompleteCommit(r)
    \/ \E v \in {"pass", "fail"} : CompleteBegin(r, v)
    \/ \E t \in Tasks, st \in {"triage", "todo"}, p \in Tasks, a \in Assignees,
          D \in SUBSET Tasks : WorkerCreates(r, t, st, p, a, D)
    \/ \E t, d \in Tasks : WorkerLinks(r, t, d)

Outside == DeleteOrigin \/ PauseForDeploy \/ (\E a \in Agents : ArchiveAgent(a))
           \/ (\E t \in Tasks : ComesDue(t))

Dispatcher ==
    \/ DispatcherPass \/ ExpireRun \/ Renewed \/ ServedAll
    \/ AttachRunSession \/ StartWorker \/ SetupFails
    \/ \E r \in Runs : RenewRead(r)
    \/ \E t \in Tasks : ClaimReady(t) \/ SkipExhausted(t)

Worker(r) == TurnWaits(r) \/ TurnResumes(r) \/ UserMessage(r) \/ TurnEnds(r) \/ HookEnds(r)
             \/ \E o \in Ends : TurnFails(r, o)
IdleCheck(r) == IdleCheckRead(r) \/ IdleCheckFail(r)
TailStep(r) == NotifyTerminal(r) \/ InterruptWorker(r) \/ CancelAfterRun(r)
               \/ ArchiveWorker(r)

Boot == RecoverPhase1 \/ RecoverPhase2End \/ \E r \in Runs : RepairReport(r)
Teardown == ShutdownEnd \/ \E r \in Runs : ShutdownRun(r)

Next == \/ BoardRequests \/ TaskRequests \/ LifecycleRequests \/ ClosingRequests
        \/ WorkerRequests \/ Outside
        \/ Dispatcher \/ ResumeAfterDeploy
        \/ \E r \in Runs : Worker(r) \/ IdleCheck(r) \/ TailStep(r)
        \/ ShutdownBegin \/ Teardown \/ Crash \/ Boot

\* The event loop runs what is ready, a turn and the notifiers' requests end, a process
\* is started again.  Nothing is assumed of what a worker waits for.
Fairness == /\ WF_vars(Dispatcher) /\ WF_vars(ResumeAfterDeploy)
            /\ WF_vars(Teardown) /\ WF_vars(Boot)
            /\ \A r \in Runs : /\ WF_vars(IdleCheck(r)) /\ WF_vars(TailStep(r))
                               /\ WF_vars(TurnEnds(r)) /\ WF_vars(HookEnds(r))

Spec == Init /\ [][Next]_vars /\ Fairness

(***************************************************************************)
(* Properties.                                                             *)
(***************************************************************************)
TaskRows == [status : Statuses, verdict : Verdicts, owner : Nat, parent : Parents,
             agent : Assignees, archived : BOOLEAN, later : BOOLEAN, maker : Runs \cup {NoRun}]

\* A driver that awaits its hook, the same with a prompt in the queue, and that prompt
\* after the driver has gone: "hook", "late", "stranded".
SessStates == {"none", "idle", "turn", "parked", "hook", "late", "stranded", "gone"}
Paths     == {"none", "disp", "call", "check", "stop"}
TailSteps == {"notify", "conclude", "interrupt", "cancel", "archive"}

RowsOK ==
    /\ task \in [Tasks -> TaskRows]
    /\ deps \subseteq Tasks \X Tasks
    /\ board \in [Boards -> [dispatch : BOOLEAN, archived : BOOLEAN]]
    /\ live \subseteq Agents
    /\ run \in [Runs -> [state : Ends \cup {"none", "running"}, attached : BOOLEAN]]
    /\ retro \subseteq Runs
    /\ origin \in BOOLEAN
    /\ report \in [Runs -> Ends \cup {"none", "erased", "unavailable"}]
    /\ before \subseteq Runs

MemoryOK ==
    /\ up \in {"serving", "stopping", "down", "phase2"}
    /\ disp \in [pc : {"off", "sleep", "renew", "expire", "serve", "setup", "attached", "raised"},
                 left : SUBSET (Runs \cup Tasks), run : Runs \cup {NoRun}]
    /\ disp.pc \in {"expire", "setup", "attached", "raised"} => disp.run \in Runs
    /\ paused \in BOOLEAN
    /\ sess \in [Runs -> SessStates]
    /\ archReq \subseteq Runs
    /\ check \in [Runs -> {"none", "read", "fail"}]
    /\ call \in [Runs -> Verdicts]
    /\ tail \in [Runs -> [by : Paths, left : Seq(TailSteps)]]

\* Every variable holds a value the rows and the objects of the code can hold.
TypeOK == RowsOK /\ MemoryOK

\* A task and its attempts agree: it is running exactly when it names an attempt,
\* and an attempt is running exactly when its task names it.  Claim, five ends,
\* a crash and a boot all have to keep it.
OwnerAgreement ==
    /\ \A t \in Tasks : task[t].status = "running" <=> task[t].owner # 0
    /\ \A r \in Runs : Running(r) <=> task[r[1]].owner = r[2]

\* A worker never works on top of a result that is missing or was judged 'fail',
\* although links, verdicts and states change between the claim and its end.
RunningDepsDone ==
    \A t \in Tasks : task[t].status = "running" =>
        \A d \in DepsOf(deps, t) : task[d].status = "done" /\ task[d].verdict # "fail"

\* Neither the links nor the tree ever close a cycle, whatever is linked, moved
\* and created: a task on a cycle would wait for itself forever.
Acyclic == \A S \in (SUBSET Tasks) \ {{}} : /\ \E t \in S : DepsOf(deps, t) \cap S = {}
                                         /\ \E t \in S : task[t].parent \notin S

\* One shared directory belongs to one running attempt, across all boards.
SharedDirExclusive ==
    \A q, r \in Runs : q # r /\ Running(q) /\ Running(r) /\ Dir[q[1]] # "own"
                       => Dir[q[1]] # Dir[r[1]]

\* What a claim checked stays true while the attempt runs, and nothing is unclaimable for
\* ever by its links.
ClaimsHold == RunningDepsDone /\ SharedDirExclusive /\ Acyclic

\* Once a boot is over, every attempt that had ended when the previous process
\* died, even one whose notification died with it, is reported or undeliverable.
RecoveredRunsAreReported ==
    up = "serving" => \A r \in before : r[1] \in HasOrigin /\ origin => report[r] # "none"

\* An attempt ends once and is reported once, as what it was.
Reports == INSTANCE RunReports WITH Outcomes <- Ends,
                                    outcome  <- [r \in Runs |-> run[r].state]
ImplementsRunReports == Reports!Spec

\* An attempt stays 'running' for ever only if its worker waits for an answer that does
\* not come, or if a prompt was left in its queue by the idle hook, where it counts as
\* pending work and nothing looks at it: a worker that falls silent, a session that
\* breaks, a dispatcher that stops half way and a dead process all end the attempt.
EveryRunEnds == \A r \in Runs :
    <>[]Running(r) => <>[](sess[r] \in {"parked", "stranded"})
================================================================================
