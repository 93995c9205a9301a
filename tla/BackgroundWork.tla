---------------------------- MODULE BackgroundWork ----------------------------
(***************************************************************************)
(* Work that outlives the turn that asked for it: shell commands           *)
(* (server/bg_tasks.py) and deep research jobs (server/research/           *)
(* manager.py).  Each has a row, a coroutine in this process that drives   *)
(* it, and a result that is injected into the session it belongs to.       *)
(***************************************************************************)
EXTENDS WorkSessions

CONSTANT MaxJobs   \* research_max_concurrent_jobs

ASSUME MaxJobsAssumption == MaxJobs \in Nat \ {0}

VARIABLES
    home,     \* the session a command or a job belongs to
    bg,       \* bg_tasks: status of the row
    proc,     \* the process of a command: none, alive, or how it ended
    task,     \* its entry in _running and how far _run_task is
    wish,     \* cancel_requested
    late,     \* timed_out
    job,      \* research_jobs: status of the row
    stage,    \* how far _run_job is
    verdict,  \* the status _finalize_failed is about to write
    quit      \* how far a cancel of the job is

workVars == <<home, bg, proc, task, wish, late, job, stage, verdict, quit>>

RowStates == {"none", "running", "completed", "failed", "cancelled", "interrupted"}
Ended(st) == st \notin {"none", "running"}

WorkOK ==
    /\ home \in [Commands \cup Jobs -> Sessions]
    /\ bg \in [Commands -> RowStates]
    /\ proc \in [Commands -> {"none", "alive", "clean", "bad", "signal"}]
    /\ task \in [Commands -> {"none", "spawned", "running", "drained", "recorded"}]
    /\ wish \in [Commands -> BOOLEAN] /\ late \in [Commands -> BOOLEAN]
    /\ job \in [Jobs -> RowStates]
    /\ stage \in [Jobs -> {"none", "queued", "run", "report", "failing", "final"}]
    /\ verdict \in [Jobs -> {"none", "failed", "cancelled", "interrupted"}]
    /\ quit \in [Jobs -> {"none", "write", "kill"}]

WorkInit ==
    /\ home = [w \in Commands \cup Jobs |-> Root]
    /\ bg = [b \in Commands |-> "none"] /\ proc = [b \in Commands |-> "none"]
    /\ task = [b \in Commands |-> "none"] /\ wish = [b \in Commands |-> FALSE]
    /\ late = [b \in Commands |-> FALSE]
    /\ job = [j \in Jobs |-> "none"] /\ stage = [j \in Jobs |-> "none"]
    /\ verdict = [j \in Jobs |-> "none"] /\ quit = [j \in Jobs |-> "none"]

outsideOutbox == <<phase, sess, parent, drv, queue, hide, parked, asked, claimed, spent>>
jobVars     == <<job, stage, verdict, quit>>
commandVars == <<bg, proc, task, wish, late>>

-------------------------------------------------------------------------------
(* Background commands *)

\* start_task: the process is spawned and registered before its row is written.
StartCommand(b, s) ==
    /\ SpendWork /\ sess[s] = "live" /\ bg[b] = "none" /\ proc[b] = "none"
    /\ home' = [home EXCEPT ![b] = s]
    /\ proc' = [proc EXCEPT ![b] = "alive"] /\ task' = [task EXCEPT ![b] = "spawned"]
    /\ UNCHANGED <<phase, sess, parent, drv, queue, hide, parked, asked, outbox, claimed,
                   bg, wish, late, jobVars>>

CommandRow(b) ==
    /\ Up /\ task[b] = "spawned"
    /\ bg' = [bg EXCEPT ![b] = "running"] /\ task' = [task EXCEPT ![b] = "running"]
    /\ UNCHANGED <<worldVars, home, proc, wish, late, jobVars>>

\* The process ends by itself, or by a signal: of a cancel, of the timeout, of the
\* watchdog that waits for its output, or from outside; nobody asks an orphan how.
CommandExits(b, how) ==
    /\ proc[b] = "alive" /\ proc' = [proc EXCEPT ![b] = IF task[b] = "none" THEN "none" ELSE how]
    /\ UNCHANGED <<worldVars, home, bg, task, wish, late, jobVars>>

\* cancel_task: anything still in _running can be cancelled, also a process that has
\* ended and whose output is being read.
CancelCommand(b) ==
    /\ SpendWork /\ task[b] \in {"spawned", "running", "drained"}
    /\ wish' = [wish EXCEPT ![b] = TRUE]
    /\ UNCHANGED <<phase, sess, parent, drv, queue, hide, parked, asked, outbox, claimed,
                   home, bg, proc, task, late, jobVars>>

\* The timeout takes back an earlier request to cancel.
CommandTimesOut(b) ==
    /\ SpendWork /\ task[b] = "running" /\ proc[b] = "alive" /\ ~late[b]
    /\ late' = [late EXCEPT ![b] = TRUE] /\ wish' = [wish EXCEPT ![b] = FALSE]
    /\ UNCHANGED <<phase, sess, parent, drv, queue, hide, parked, asked, outbox, claimed,
                   home, bg, proc, task, jobVars>>

\* After the process, or five seconds after a timeout even if it survives.
CommandDrains(b) ==
    /\ Up /\ task[b] = "running" /\ (proc[b] # "alive" \/ late[b])
    /\ task' = [task EXCEPT ![b] = "drained"]
    /\ UNCHANGED <<worldVars, home, bg, proc, wish, late, jobVars>>

\* Mutant: the way the process ended is stored as it is.
CommandStatusRaw(b) ==
    CASE wish[b]             -> "cancelled"
      [] late[b]             -> "failed"
      [] proc[b] = "clean"   -> "completed"
      [] proc[b] = "signal"  -> "interrupted"
      [] OTHER               -> proc[b]

CommandStatus(b) ==
    CASE wish[b]             -> "cancelled"
      [] late[b]             -> "failed"
      [] proc[b] = "clean"   -> "completed"
      [] proc[b] = "signal"  -> "interrupted"
      [] OTHER               -> "failed"

\* The row is updated, then the command is forgotten.
CommandRecords(b) ==
    /\ Up /\ task[b] = "drained"
    /\ bg' = [bg EXCEPT ![b] = CommandStatus(b)] /\ task' = [task EXCEPT ![b] = "recorded"]
    /\ UNCHANGED <<worldVars, home, proc, wish, late, jobVars>>

\* deliver_bg_result, for a session in memory or in the database.
CommandDelivers(b) ==
    /\ Up /\ task[b] = "recorded"
    /\ Enqueue(Result(b), home[b], "other") /\ task' = [task EXCEPT ![b] = "none"]
    /\ proc' = [proc EXCEPT ![b] = IF @ = "alive" THEN @ ELSE "none"]
    /\ wish' = [wish EXCEPT ![b] = FALSE] /\ late' = [late EXCEPT ![b] = FALSE]
    /\ UNCHANGED <<outsideOutbox, home, bg, jobVars>>

\* shutdown of the manager: every command still in _running is cancelled.
StopCommands ==
    /\ phase = "stopping" /\ \E b \in Commands : task[b] # "none" /\ ~wish[b]
    /\ wish' = [b \in Commands |-> task[b] # "none" \/ wish[b]]
    /\ UNCHANGED <<worldVars, home, bg, proc, task, late, jobVars>>

\* list_bg_tasks_missing_delivery
UntoldCommands == {b \in Commands : Ended(bg[b]) /\ outbox[Result(b)].status = "none"}

\* Boot: what ran is interrupted, by one update, and then told with the rest.
MarkedCommands == [b \in Commands |-> IF bg[b] = "running" THEN "interrupted" ELSE bg[b]]

RecoverCommand(b) ==
    /\ phase = "bg" /\ b \in UntoldCommands
    /\ Enqueue(Result(b), home[b], "other")
    /\ UNCHANGED <<outsideOutbox, workVars>>

-------------------------------------------------------------------------------
(* Deep research *)

StartJob(j, s) ==
    /\ SpendWork /\ sess[s] = "live" /\ job[j] = "none"
    /\ home' = [home EXCEPT ![j] = s]
    /\ job' = [job EXCEPT ![j] = "running"] /\ stage' = [stage EXCEPT ![j] = "queued"]
    /\ UNCHANGED <<phase, sess, parent, drv, queue, hide, parked, asked, outbox, claimed,
                   commandVars, verdict, quit>>

InStage(j, st) == Up /\ stage[j] = st
ToStage(j, st) == stage' = [stage EXCEPT ![j] = st]
Fail(j, st)    == ToStage(j, "failing") /\ verdict' = [verdict EXCEPT ![j] = st]

\* The semaphore; a job whose session has gone meanwhile fails.
JobRuns(j) ==
    /\ InStage(j, "queued") /\ Cardinality({i \in Jobs : stage[i] = "run"}) < MaxJobs
    /\ IF sess[home[j]] = "live" THEN ToStage(j, "run") /\ UNCHANGED verdict ELSE Fail(j, "failed")
    /\ UNCHANGED <<worldVars, home, commandVars, job, quit>>

\* The report is on disk; the row is completed whatever it says by now.
JobCompletes(j) ==
    /\ InStage(j, "run")
    /\ job' = [job EXCEPT ![j] = "completed"] /\ ToStage(j, "report")
    /\ UNCHANGED <<worldVars, home, commandVars, verdict, quit>>

JobFails(j) ==
    /\ InStage(j, "run") /\ Fail(j, "failed")
    /\ UNCHANGED <<worldVars, home, commandVars, job, quit>>

\* _enqueue_report
JobReports(j) ==
    /\ InStage(j, "report")
    /\ Enqueue(Report(j), home[j], "other") /\ ToStage(j, "none")
    /\ UNCHANGED <<outsideOutbox, home, commandVars, job, verdict, quit>>

\* _finalize_failed reads the row and leaves one alone that has ended, then writes it.
JobFinalReads(j) ==
    /\ InStage(j, "failing")
    /\ ToStage(j, IF job[j] = "running" THEN "final" ELSE "none")
    /\ UNCHANGED <<worldVars, home, commandVars, job, verdict, quit>>

JobFinalWrites(j) ==
    /\ InStage(j, "final")
    /\ job' = [job EXCEPT ![j] = verdict[j]] /\ ToStage(j, "none")
    /\ verdict' = [verdict EXCEPT ![j] = "none"]
    /\ UNCHANGED <<worldVars, home, commandVars, quit>>

\* cancel reads the row, writes one it saw running, and then cancels the coroutine,
\* wherever that is by now.
CancelJob(j) ==
    /\ SpendWork /\ job[j] # "none" /\ quit[j] = "none"
    /\ quit' = [quit EXCEPT ![j] = IF job[j] = "running" THEN "write" ELSE "kill"]
    /\ UNCHANGED <<phase, sess, parent, drv, queue, hide, parked, asked, outbox, claimed,
                   home, commandVars, job, stage, verdict>>

CancelWrites(j) ==
    /\ Up /\ quit[j] = "write"
    /\ job' = [job EXCEPT ![j] = "cancelled"] /\ quit' = [quit EXCEPT ![j] = "kill"]
    /\ UNCHANGED <<worldVars, home, commandVars, stage, verdict>>

CancelKills(j) ==
    /\ Up /\ quit[j] = "kill" /\ quit' = [quit EXCEPT ![j] = "none"]
    /\ CASE stage[j] \in {"queued", "run", "report"} -> Fail(j, "cancelled")
         [] stage[j] \in {"failing", "final"}        -> ToStage(j, "none") /\ UNCHANGED verdict
         [] OTHER                                    -> UNCHANGED <<stage, verdict>>
    /\ UNCHANGED <<worldVars, home, commandVars, job>>

\* shutdown of the manager: the coroutines are cancelled and awaited.
StopJob(j) ==
    /\ phase = "stopping" /\ stage[j] \in {"queued", "run", "report"} /\ Fail(j, "interrupted")
    /\ UNCHANGED <<worldVars, home, commandVars, job, quit>>

\* list_pending_research_deliveries, without a row in the outbox.
UntoldJobs == {j \in Jobs : job[j] = "completed" /\ outbox[Report(j)].status = "none"}

MarkedJobs == [j \in Jobs |-> IF job[j] = "running" THEN "interrupted" ELSE job[j]]

RecoverReport(j) ==
    /\ phase = "research" /\ j \in UntoldJobs
    /\ Enqueue(Report(j), home[j], "other")
    /\ UNCHANGED <<outsideOutbox, workVars>>

-------------------------------------------------------------------------------
WorkNext ==
    \/ StopCommands
    \/ \E b \in Commands :
         \/ \E s \in Sessions : StartCommand(b, s)
         \/ \E how \in {"clean", "bad", "signal"} : CommandExits(b, how)
         \/ CommandRow(b) \/ CancelCommand(b) \/ CommandTimesOut(b) \/ CommandDrains(b)
         \/ CommandRecords(b) \/ CommandDelivers(b) \/ RecoverCommand(b)
    \/ \E j \in Jobs :
         \/ \E s \in Sessions : StartJob(j, s)
         \/ JobRuns(j) \/ JobCompletes(j) \/ JobFails(j) \/ JobReports(j)
         \/ JobFinalReads(j) \/ JobFinalWrites(j)
         \/ CancelJob(j) \/ CancelWrites(j) \/ CancelKills(j) \/ StopJob(j) \/ RecoverReport(j)
===============================================================================
