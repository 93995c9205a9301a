# A TLA+ verification project for Owlery

Owlery is a server that runs coding-agent sessions: a user, a bridge, a
schedule, a task board or another session gives a session a prompt, the server
runs a turn of an external agent program for it and keeps the transcript in
SQLite. All of it is one Python process with one asyncio loop, so no two lines
ever run at once, and yet almost everything is concurrent: every `await` lets
any other task run, the process is restarted by its own deploys, and results of
work that outlives a turn (shell jobs, research, delegations) must reach a
transcript exactly once.

This directory holds specifications of that code, the TLC configurations that
check them on small instances and proofs about them that TLAPS checks for every
instance. File and line references are relative to `src/`.

* [The system](#the-system)
* [The modules](#the-modules)
* [What the model abstracts](#what-the-model-abstracts)
* [Properties](#properties)
* [Runs and bounds](#runs-and-bounds)
* [Fairness](#fairness)
* [Where code and documentation disagree](#where-code-and-documentation-disagree)
* [Proofs](#proofs)
* [Not modelled, and the plan](#not-modelled-and-the-plan)
* [Running it](#running-it)

## The system

| part | state it keeps | operations | talks to |
|---|---|---|---|
| Session turns, prompt queue (`server/session_manager.py`) | per session: `_lock`, `_pending_queue`, `_active_task`, `_inner_task`, `_forking`, `_auto_archive_requested`, the row in `sessions` | `start_message`, the driver `_drive_messages`, the turn `send_message`, `interrupt`, `reset_session`, `archive_session`, `delete_session`, `fork_session`, `auto_archive_scheduled_session` | everything below calls `start_message` |
| Durable injection outbox (`server/database.py`, `session_manager.py`) | `session_injections`, `messages.injection_id`, two triggers, a unique index; `_dispatched_injection_ids`, `_injection_retry_tasks`, `_injection_dispatch_enabled` | enqueue, dispatch, retry, recover, materialise, fail, pause, shutdown | producers: background tasks, research, delegations, task delivery |
| Deploy admission gate (`server/deploy_admission.py`) | one lock, `_closed`, the owner of a reentrant `admit` | `admit`, `close`, `open` | every way of starting work |
| Deploy quiescence (`server/task_board/deploy_quiesce.py`, `delivery.py`) | none of its own: a census over the others | census, pause, drain wait, resume | all managers |
| Usage-limit parks (`server/parked_turns.py`) | `parked_turns` rows, a timer per park | park, wake, cancel, release the queue | the turn parks itself, the wake resumes it |
| Backend run loop (`session_manager.py`, `harness/`) | attempt counters, resume id, event queue of a subprocess | run, retry a transient failure, respawn, watchdog, park | external agent programs |
| Delegations (`server/delegations.py`) | `delegations`, `delegation_runs`, in-memory rounds | start, follow up, reply, fail, cancel with cascade, recover the tree | sessions on both sides, outbox |
| Background tasks (`server/bg_tasks.py`) | `bg_tasks` rows, `_running`, subprocesses | start, finish, kill, recover | outbox |
| Deep research (`server/research/`) | jobs, their tasks, `report_delivered` | start, run, cancel, recover, deliver | outbox |
| Task board (`server/task_board/`) | tasks, runs with leases, dependencies | claim and dispatch, renew, complete, block, error, cancel, expire | sessions of workers |
| Release delivery and local deploy (`delivery.py`, `deploy.py`, `switcher.py`) | releases, deployments, the switch journal, the `current` link, a database snapshot | stage, switch, roll back, reconcile at boot, probation | quiescence, gate, an external switcher process |
| Questions and approvals (`session_manager.py`, `routers/questions.py`) | pending questions, waiters, timers | ask, long poll, answer, answer automatically | sessions, web clients |
| Credentials and connectors (`connector_manager.py`, `oauth_login.py`, `auth.py`, ...) | encrypted bundles, login attempts | log in, refresh, mark for reconnection | providers |
| Forks and file snapshots (`fork_helpers.py`, `harness/fork.py`) | fork journal, git worktrees | saga of a fork, compensation, recovery | sessions |
| Skills (`server/skill_registry.py`) | candidate rows, landing branches, plugin directories | propose, approve, reject, land, materialise, load | turns load what was landed |
| Bridges, notifiers, schedules | routes, next firing times | forward a message, notify, fire | sessions |
| Process lifespan (`server/main.py`) | order of boot and of teardown | recover each manager, release producers, stop | all |
| Routers, MCP servers, CLI, tunnel, importers, web | none that decides | thin calls | managers |

### Interactions

Every prompt goes through `start_message`. It asks the gate for admission,
queues the prompt if the session is busy or parked, otherwise takes the session
lock, asks for admission again, and claims the session by creating its driver.
The driver runs the prompt in an inner task, then takes prompts off the queue
until it is empty, then awaits the idle notification. A turn takes the session
lock for itself, writes the user row and runs the backend. A result that must
not be lost is first committed to the outbox; the trigger on the transcript's
INSERT acknowledges it in the same statement, so the row, not the queue, is the
delivery. A deploy pauses dispatch, waits until the instance is idle, closes
the gate, takes a last census and hands over to the switcher.

### What is hard, and what makes each part correct

The complete list, each item at its line, is under `hazards` in
`PROJECT.json`. By component:

* *Turns.* A prompt is appended behind a turn that is ending; fork and prompt
  race for an idle session; interrupt and reset free a lock they did not take; a
  cancelled task runs none of its handlers before its first step. Correct: each
  accepted prompt has a driver, one turn at a time, none inside a fork.
* *Outbox.* Producer, retry and recovery dispatch the same row at once, from
  snapshots that may be stale; a cancel hits a statement in flight; the process
  dies anywhere. Correct: at most one transcript row per event, with its
  acknowledgement; a settled event keeps its fate; nothing pending is forgotten.
* *Gate and quiescence.* Two locks taken in both orders; work that neither the
  census nor the gate sees. Correct: no deadlock; nothing starts after the
  census that committed a deploy.
* *Parks.* The record is consumed before the turn is resumed; wakes are spaced
  by reading every other wake-up. Correct: a parked turn resumes once or is
  cancelled; prompts behind it keep their order.
* *Delegations, background tasks, research, task runs.* Several actors end the
  same round, task, job or run. Correct: one terminal transition wins and one
  report reaches the parent.
* *Local deploy.* The switcher may die after any step. Correct: the journal
  tells the next boot what happened, and the release is finalised once.
* *Run loop, questions, credentials.* Retries share counters with the attempt
  they replace; two answers race; two refreshes spend one token.

## The modules

| module | what it is |
|---|---|
| `InjectionOutbox` | abstract: what the outbox promises its producers (`Intend`, `Deliver`, `Fail`, `Erase`) |
| `SessionTurns` | turns, queue, locks, outbox, gate, parks, a deploy switch, teardown, crash and boot |
| `MCSessionTurns` | one session, a prompt of each kind, the budgets of its runs |
| `SessionTurns_proofs`, `SessionTurns_safety` | types, the refinement of `InjectionOutbox` and what follows; the exclusions, the queue and the gate |
| `RunReports` | abstract: a run begins, ends once, is told or given up |
| `TaskBoard`, `MCTaskBoard`, `TaskBoard_proofs` | boards, tasks, links, the dispatcher, the workers of attempts, recovery; instances; proofs with the refinement of `RunReports` |
| `Deliveries`, `MCDeliveries`, `Deliveries_proofs` | the delivery of one task's worktree: operations, Git, teardown, reports, reconciliation |
| `DeploySwitch`, `MCDeploySwitch`, `DeploySwitch_proofs` | releases, slots, the switcher and its journal, snapshots, boot recovery and probation |
| `WorkSessions` | the part of a session that delegations and background work touch, and the outbox |
| `Delegations` | rounds of delegated sessions, the cascade of a cancel, recovery in phases |
| `BackgroundWork` | background commands and research jobs |
| `Background`, `MCBackground`, `Background_proofs` | the three above composed under one process with crash and boot |
| `SessionRows` | the session row and the conversation that turns, forks and questions share |
| `TurnAttempts` | one logical turn: its credential, its attempts, its parks |
| `ForkSagas` | rewind and duplicate as sagas, the sweep at boot |
| `SkillReviews` | proposals of skills, their review, landing and loading |
| `Questions` | a tool that waits for an answer, and everybody who may give one |
| `TurnInputs`, `MCTurnInputs`, `TurnInputs_proofs` | the five above composed; instances; proofs |

A component is split into modules where its parts meet only through a few
variables (`Background`, `TurnInputs`: each part has its actions and its
`UNCHANGED`, the composition says which steps are joint) and kept whole where
they share locks or rows (`SessionTurns`, `TaskBoard`, `Deliveries`,
`DeploySwitch`). An action is the code between two awaits that matter. `map` in
`PROJECT.json` gives for every definition the lines it stands for.

### Session turns

| group | actions | code |
|---|---|---|
| `start_message` | `Submit`, `Admit1`, `EnqueueIfBusy`, `AcquireSessionLock`, `Admit2`, `ClaimIdleTurn` | one call per prompt; `pc` is the await it is at |
| driver | `DriverStart`, `DriverLoop`, `DriverNext` (an operator), `DriverEnd`, `DriverCancelled` | `_drive_messages` |
| turn | `ConsumeMessage`, `TurnLock`, `TurnLockTimeout`, `PersistUserMessage`, `TurnEnd`, `TurnParked`, `TurnCancelled` | `_consume_message`, `send_message`, the inner task |
| session | `Interrupt`, `ResetSession`, `ResetFinish`, `ArchiveBegin`, `ArchiveDrop`, `ArchiveEnd`, `AutoArchive`, `DeleteBegin`, `DeleteEnd`, `ForkClaim`, `ForkFail`, `ForkDone` | the operations of the same names |
| parks | `Wake`, `ResumeParkedTurn`, `CancelPark`, `ReleaseParkedQueue` | `parked_turns._wake`, `resume_parked_turn`, the router's cancel, `release_parked_queue` |
| outbox | `EnqueueInjection`, `EnqueueDispatch`, `RetryInjection`, `RecoverInjection`, `MaterializeInjection`, `Dispatch` (an operator) | `enqueue_session_injection`, the retry loop, recovery, boot materialisation |
| deploy | `DeployBegin`, `DeployDrained`, `DeployClose`, `DeployCensus`, `DeployOpen`, `DeployResume` | `delivery.py` with `DeployQuiesce` |
| process | `Shutdown`, `ShutdownInjections`, `Restart`, `ReleaseProducers` | the lifespan in `main.py` |

How the variables read:

* `pc[p]` and `via[i]`: the call of `start_message` for a prompt, and for an
  injection whether its producer, a retry task or the recovery awaits it.
* `gate`, `closed`, `lock`: who holds the admission gate, whether it is closed,
  who holds `Session._lock` (a call, the turn, nobody).
* `driver[s]`: `none` when `_active_task` is absent or done; `start` before its
  first step; `created`, `lockwait`, `anchor`, `running` are the places of the
  inner task (not started, waiting for the lock, writing the user row, running
  the backend); `deq` broadcasts a dequeued prompt; `hook` is the awaited idle
  notification. `cur[s]` is its prompt; `cancelling[s]` is a `task.cancel()` not
  yet delivered.
* `sess[s]`: `open`, `archiving` and `dropping` are in memory; `archived`;
  `deleting` (forgotten, the rows still there); `deleted`.
* `outbox`, `rows`: the status of an event and its number of transcript rows.
* `claimed`, `retry`, `recovering`, `enabled`: the in-memory side of the outbox.
* `phase`, `deploy`: the process and a deploy switch.

### Task board

`task`, `deps`, `board`, `run`, `retro` are the tables of
`task_board/repository.py`; `disp` is the place of the dispatcher coroutine in
its pass (renew, claim, serve), `paused` the deploy's pause, `sess`, `archReq`,
`check` the worker session of an attempt and its idle check (`turn` is a driver at
work, `hook` one that awaits its idle hook, `late` the same with a prompt that came
too late, `stranded` that prompt when the driver is gone), `call` a completion
that `complete_worker` has validated and not committed, `tail` what a terminal
path has still to do (tell, interrupt, archive). The actions are the repository's
transactions (`ClaimReady`, `AttachRunSession`, `CompleteCommit`, `BlockWorker`,
`Finish`, `CancelRunning`, `ExpireRun`, `AddDependency`, `CreateTask`,
`UpdateTask`, ...), the steps of `_dispatch_task` and `_dispatcher_pass`, the
steps of the idle check, and teardown, `RecoverPhase1`, `RepairReport`,
`RecoverPhase2End`. `Settle` is `_recompute_one`, part of every action that ends
in it. `RunReports` sees of all this the outcome and the report of a run.

### Deliveries

`del` and `ops` are the rows; `calls` are requests in progress at the place of
`delivery.py` where they await (`execute` outside, `settle`, `tell`); `git` is
the worktree, the branch, its remote, the base and the pull request; `notes` is
what was told under which source key. `Accept`, `CaptureBaseline`, `DeliverOp`
with `Commit`, `Push`, `OpenPR`, `Merge`, `Teardown` with `RemoveWorktree` and
`DeleteBranch`, `FinishOp`, `Supersede`, `Publish`; the boot as `RecoverRows`,
`InterruptedPRs`, `RebuildNotices` and, after it serves, `ReconcileList`,
`RecordPR`, `ReconcileNotify`. `Escapes` is an exception that is not a
`WorkspaceError` and leaves the operation running.

### Deploy switch

A row stands for a release with its deployment (born together; `rel` is `none`
for a deployment from before releases); `op` is a switch or rollback operation,
`stg` and `swc` the calls of `release_stage`, `release_switch` and
`release_rollback` at their awaits. `jr` is the journal's handoff and last step,
`current` the link, `content` what is checked out in a slot, `sw` the detached
switcher, which survives the server. `given` and `db.work` are the turns users
asked for and those the database knows: a restored snapshot may lose one. The
boot settles the switch operations one transaction each (`Reconcile`), then
interrupts the stage operations, then fails orphaned rows and serves
(`Recover`); a crash may hit between any two. `past` orders deployments by when
they were superseded, which is all `get_rollback_target` reads of `updated_at`.

### Delegations and background work

`WorkSessions` has sessions with a driver, a queue, a park, questions and the
outbox. `Delegations` has the ledger (`delegation_runs`), the record in memory
(`rec`, `latest`), `call` (a start or follow-up under way), `fin` (what ended a
round, as what, and what of it is still to do: interrupt, ledger, tell, hide),
`stop` (an interrupt that has cancelled and not yet broadcast) and the history
`fate` (what kept a round from a turn of its own: `start_message` raised, the idle
hook stranded its request, a person cancelled the park). `BackgroundWork` has
for a command its row, its process and the place of `_run_task`; for a job its
row, the place of `_run_job` and of a `cancel`. The stages of the boot
(`phase`) are commands, jobs, rounds, intents, materialising, archiving.

### Turn inputs

`TurnAttempts`: `turn[s]` holds the locals of `send_message` and `_run_backend`
and the stage (`auth`, `store`, `ready`, `stream`, ...); a conversation is how
often it holds the request, whether it has an id and work, how often it holds the
copied history. `token` is the shared OAuth bundle, `lost` the history of how a
rotated one was lost. `ForkSagas`: `saga[f]` is the place
of `fork_session` or `duplicate_session`; directory, transcript, stash and the
row that remembers them are separate variables because they are written at
separate moments. `SkillReviews`: candidate rows, landing branches, the plugin
directories, the locals of approvals. `Questions`: the tool call, pending
questions, timers, answers, transcript rows and what the model heard.

Some definitions are followed or preceded by a near copy that nothing uses
(`GateLeftOwnerless`, `FlipBackForgotten`, `BeginStagingKeepsCandidate`, ...).
Each is a plausible mistake in its neighbour, listed under `mutants` in
`PROJECT.json`: put in the neighbour's place, it makes TLC find the named
property violated. They show that every property can fail for a mistake in the
code.

## What the model abstracts

Everywhere:

* A prompt, a name, a revision or a payload is a model value. Awaits at which
  nothing the model tells apart can change are merged.
* A write to SQLite is one transaction as the code brackets it. A cancelled
  writer's statement may or may not have committed (`TurnCancelled`).
* A crash keeps rows, files and detached processes and loses memory. It may
  happen at every step, during a boot too.
* Database and file errors are left out but for those the code compensates.

Per module:

* *Session turns.* asyncio locks have no waiter queue: any waiter may be next.
  This adds orders and removes none. A forced `release()` leaves the lock free
  under its holder, who then fails with `RuntimeError` when it leaves its
  `async with` (`AfterUnlock`, `TurnEnd`). `deploy` is one switch at a time, to a
  reopened gate or to the hand-over. An injection has one call of `start_message`
  at a time; what several share in the code is the claim, taken before the first
  await. Unarchiving, creating sessions, budgets and attachments are left out.
* *Task board.* One agent kind; projects, comments, usage and the text of skills
  are left out. A seed of tasks satisfies the foreign keys the code has. A driver
  with its queue is one `turn`, up to the last look at the queue; what a worker
  waits for (`parked`) is a park, a question, an approval, a command or a
  delegation, and a prompt queued behind it is part of what resumes it.
* *Deliveries.* One delivery, and a second one only as what supersedes it. Git is
  counts of commits. Connector failures are one nondeterministic outcome.
* *Deploy switch.* The census is one Boolean: a turn runs, a stage runs or
  another switch operation does. `resolve` and INSERT of a candidate are one
  step. `deploy_init` and one successful switch are behind `Init`. What a user did
  (`given`) is turns: REST requests that write rows during probation do not pass
  the gate and are not counted, so `RestoreLosesNothing` says nothing of them.
* *Background.* Two follow-ups of the same round at once are not modelled; a
  cancel's cascade marks running children at once; a prompt taken is committed.
* *Turn inputs.* A conversation is identified with its id: a resumed run keeps the
  id (`docs/cli-protocol-notes.md:159`), so putting the id of the turn's start
  back drops a conversation that the turn itself began and changes nothing in one
  it resumed (`RetryFrom`, `Rewound`). A failed write of a refreshed token ends the
  turn as an interrupt at that place does. The init event precedes output; a client
  addresses a fork only once it is announced; `_wake` and `resume_parked_turn` are
  one step; the harness
  is the one with premature-exit recovery (Codex opts out); auto-answer is
  enabled; approvals read both stores at once; both skill stores are written
  together.

## Properties

Safety, each with the line of thought behind it. `TypeOK` in each root module:
every variable keeps its shape.

*Session turns*

* `DeliveredOnce`: an event has exactly one transcript row when its outbox row
  says delivered and none otherwise. It is threatened by double dispatch, stale
  recovery lists, and cancelled writers; what upholds it is the trigger.
* `TerminalStays`: a delivered or failed event changes only by being erased with
  its session, although four callers fail rows from snapshots.
* `ImplementsOutbox`: the machinery implements `InjectionOutbox`.
* `PendingIsHeld`: while dispatch is on, a pending event of an open session is in
  somebody's hands: queued, running, being dispatched, awaiting a retry or a
  recovery visit.
* `QueuedOnce`: a pending event waits at one place only and not behind an attempt
  of its own that has still to run.
* `QueueIsDriven`: a queued prompt of an open session has a driver that will look
  at the queue again, or a park or a release that stands for it.
* `NoTurnWhileForking`, `TurnHoldsLock`, `CommittedIsQuiet`, `NoGateCycle`: the
  mutual exclusions, and the absence of the gate/session lock cycle.
* `FailedMeansClosed`: an event is given up only when its session is closing or
  closed.

*Task board*

* `EveryRunEnds` (liveness): an attempt stays running for ever only while its worker
  waits for an answer, or behind a prompt that its idle hook left in the queue.
* `OwnerAgreement`: a task is running exactly when it names an attempt, and an
  attempt runs exactly when its task names it, whoever ends it.
* `ClaimsHold`: while an attempt runs its dependencies stay done, its shared
  directory is its own, and neither links nor parents ever close a cycle.
* `RecoveredRunsAreReported`: once a boot is over, every attempt that had ended
  when the last process died is reported, if anybody can be told.
* `ImplementsRunReports`: a run ends once and is reported once, as what it was.

*Deliveries*

* `StatusIsHonest`: at most one operation runs and a request works on it; what
  the row says of pushes, merges and pull requests is so outside.
* `SettleIsTold`: with nothing on the way and no report failed, a settled delivery
  was told under the key of what settled it, or cannot be.
* `WorkIsKept`: uncommitted changes, and commits that are nowhere else, go only
  with the consent of the request that takes them, also when they came after its
  checks.

*Deploy switch*

* `ReleaseRowsAgree`: one row holds the lock, one is live, a switching row has its
  operation and a staging one its call, and what a switch is to make live is what
  its slot holds.
* `LiveIsServed`: where no switch is in doubt, the live row names the slot and the
  revision that serve, after a switch, a rollback with its restored database, or
  any crash.
* `RestoreLosesNothing`: a rollback within the health window takes nothing a user
  did.

*Background*

* `ReplyIsTrue`: a caller reads a reply only for a round whose row is completed,
  and an error for one that is only if its own `start_message` raised after the
  result of an older prompt had ended it.
* `RunningIsHeld`: a round the manager believes running in a live session has
  something left that will end it: a call, a turn, a park, a queue its driver has
  still to look at, or an interrupt. The two exceptions are named in it: its
  request lies in the queue since an idle hook, or a person cancelled its park.
* `EndsAreTold`: an end in the ledger or in a command's row has its prompt or
  somebody on the way to store it.
* `RecoveryIsComplete`: once a boot serves, no row runs, every end has its prompt,
  and the children of the last process are archived with nothing pending that a
  model would be woken for.

*Turn inputs*

* `AskedOnce`: however a turn was retried, continued, parked and woken, the
  conversation has its request, "continue" continues work, and the request is there
  twice only after a retry or a wake-up in a conversation that the turn resumed.
* `ParkingEnds`: the two counters bound the parks of one turn by
  `(MaxParks + 1) * (MaxProbes + 1) - 1`.
* `TokensRotate`: the stored refresh token is the one the provider takes next,
  unless a turn is about to store it or was cut off right there, or the answer was
  lost after the provider rotated it and the credential asks for a new login.
* `ForksAreWhole`: no transcript or stash without a row that remembers it, a ready
  fork is whole, a parent is archived only for one that is.
* `HistoryIsHandedOver`: the flag that prefixes a fork's history is cleared only
  when the conversation holds the history or the attempt about to run carries it.
* `SkillsAreLanded`: what is approved or loaded is on its landing branch.
* `QuestionsAreAnswered`: a waiting tool has its answer or a question with a live
  timer, and what the model heard is or is about to be in the transcript.

Liveness: `EveryIntentSettles` (a pending event of an open session is settled or
its session closes), `EveryRunEnds` (above),
`SpawnedSettles` (a spawned switcher ends and its operation stays settled, also
after a restored database has brought it back to life).

## Runs and bounds

Deadlock is not checked (`CHECK_DEADLOCK FALSE`), because every model may stop
with its requests answered and its budget spent; waiting in a cycle is what
`NoGateCycle` and the liveness properties look for.

| run | instance | checks | distinct states |
|---|---|---|---|
| `turns_wide` | a message, an injection, a park's resume; a transient session; a notifier; every disturbance once, three together | `TypeOK`, `DeliveredOnce`, `TerminalStays`, `ImplementsOutbox` | 141,320 |
| `turns_quiet` | a message, a worker, an injection; close, fork, deploy, lock timeout, shutdown, crash once and two enqueues, three together | `PendingIsHeld`, `QueuedOnce`, `QueueIsDriven`, `NoTurnWhileForking`, `TurnHoldsLock`, `CommittedIsQuiet`, `NoGateCycle` | 482,913 |
| `turns_live` | a message and an injection enqueued up to twice; interrupt, fork, lock timeout, crash once, three in all; fairness | `FailedMeansClosed`, `EveryIntentSettles` | 8,537 |
| `turns_idle_hook` | two messages and a notifier, no disturbance | `QueueIsDriven` is violated | |
| `turns_follow_up` | a message and a follow-up, no disturbance | `NoGateCycle` is violated | |
| `turns_deploy_refusal` | an injection and a deploy | `FailedMeansClosed` is violated | |
| `board_race` | one task, two attempts, one task that may be created beside it; one request, wait or pause with one teardown or crash; fairness | `TypeOK`, `OwnerAgreement`, `RecoveredRunsAreReported`, `ImplementsRunReports`, `EveryRunEnds` | 245,498 |
| `board_graph` | a task, its child that waits for it, a third one, one shared directory; one link, move or edit | `ClaimsHold` | 126,067 |
| `deliveries` | a dirty worktree or one from before bases were recorded; four requests, two at once, three operations, one edit, one fault | `TypeOK`, `StatusIsHonest`, `SettleIsTold`, `WorkIsKept` | 1,299,528 |
| `deploy_switch` | two boards, two revisions, three releases, two switches, one turn of a user, one fault; fairness | `TypeOK`, `ReleaseRowsAgree`, `LiveIsServed`, `RestoreLosesNothing`, `SpawnedSettles` | 526,785 |
| `background` | a user's session, two children with two rounds each, a command, a job; requests, work and faults share a budget | `TypeOK`, `ReplyIsTrue`, `RunningIsHeld`, `EndsAreTold`, `RecoveryIsComplete` | 1,052,781 |
| `turn_inputs` | two sessions with one credential, a fork, two candidates, two reviewers, two questions, two requests, one crash, one of each counter | `AskedOnce`, `ParkingEnds`, `TokensRotate`, `ForksAreWhole`, `SkillsAreLanded`, `QuestionsAreAnswered`, `HistoryIsHandedOver` | 607,099 |

Why the bounds are enough, and where they are not:

* *Session turns.* One session: sessions share only the gate and the process, and
  the calls of others on the gate are what other prompts of the same session do
  to it. Disturbances (`Kinds`) are drawn from `Budget`. Three in one behaviour
  cover the histories the hazards speak of: an enqueue, the cancel that hits it
  and the crash after it; a deploy, a shutdown and the boot. `turns_quiet` grants
  no interrupt, no reset and no park. That is a statement about the code (below),
  not an economy. `turns_wide` has all of them, and the promise of the outbox
  survives them. `turns_live` grants no deploy, which fails an event for good.
* *Task board.* Two attempts show the hand-over from one to the next; a third
  task is what a cycle needs.
* *Deliveries.* Two requests at once are what the code's checks across an await
  are about; the third operation is what settles differently from the second.
* *Deploy switch.* The second switch rolls back or replaces the first, and the
  third release is what a second stage into the same slot needs.
* *Task board, messages.* One message in a behaviour reaches both ways to strand a
  prompt: the message itself during the hook, and the dispatcher's own prompt
  during the hook of a turn that the message started before it.
* *Background.* `Budget` is spent by requests (4), work (5) and faults (3), so a
  behaviour has about three of them in any mix.
* *Turn inputs.* The constraint `Apart` is a bound and is named so in
  `MCTurnInputs`: reviews are combined with forks, questions with a first turn
  and a rewind, two turns only until their backends both run, a repeated request
  with no other, a lost token without forks and parks. Turns, reviews and
  questions meet nowhere else than in what `Apart` leaves together.

The theorems below have none of these bounds.

## Fairness

* `turns_live`: weak fairness for each task the loop owns: a call of
  `start_message`, a driver with its inner task, a reset, a saga, an archive, a
  delete, the dispatch by a producer, a retry loop, the recovery, a wake, a deploy,
  the teardown and the boot. asyncio runs every ready task; a lock passes to its
  waiters in order; the watchdog of the run loop bounds a turn, and the drain has
  a timeout. Nothing is assumed of users, managers or timers.
* `board_race`: the dispatcher's loop, the resumption after a pause (a drain ends
  by its time-out), teardown and boot, idle checks, what a terminal path has still
  to do; that a turn of a worker ends (`TurnEnds`: the watchdog bounds it) and that
  its idle hook does (`HookEnds`: the notifiers' requests have time-outs). Nothing
  is assumed of workers otherwise, one may fall silent, nor of what a worker waits
  for: a park, a question, an approval, a command or a delegation may stay open for
  ever, which `EveryRunEnds` allows for by name.
* `deploy_switch`: stages, calls and the switcher go on, the health window
  passes, a process that is told to stop stops, and `run.sh` starts and boots the
  server again. Nothing is assumed of users.

Weak fairness is enough, because a task that waits for a lock competes with
finitely many others and every repetition spends a counter.

## Where code and documentation disagree

Three runs end in a violation by design; the quotations are in `PROJECT.json`
under `findings`.

1. `turns_idle_hook`. The comment at `server/session_manager.py:2119` says the
   idle notification is detached. The driver awaits it after leaving its drain
   loop; a prompt accepted meanwhile is queued behind a driver that never looks
   at the queue again.
2. `turns_follow_up`. The comment at `:2011` says that acquiring the session lock
   in `start_message` never blocks. `follow_up_delegation` holds the gate around
   the whole call, every other caller takes the session lock and then the gate; the
   two wait for each other and all later admissions wait behind them.
3. `turns_deploy_refusal`. The comment at `:2169` says a result survives unless
   its session is unavailable. A refusal by a gate that is closed for a deploy is
   a `ValueError`, which the dispatcher takes for a session that is gone: it fails
   the row of an open session for good.

### Seen while modelling and proving, without a run of their own

The models contain these behaviours; the properties are stated so that they say
what does hold beside them.

*Session turns.* `TurnHoldsLock` and `QueuedOnce` break only after an interrupt or
a reset (a forced release of a lock in use), `PendingIsHeld` only after a reset,
`NoTurnWhileForking` after a forced release or a park (`release_parked_queue`
looks at neither `_forking` nor the gate), `CommittedIsQuiet` after a park,
`QueueIsDriven` after a reset or park or with the idle hook, `FailedMeansClosed`
by a deploy's refusal or a restart in the middle of an archive or delete. The
hypotheses of the theorems say exactly this.

*Deploy switch.*
- A request accepted between another call's final census and its snapshot is in
  the snapshot as a second running operation; after a restore it is settled as
  interrupted. The inductive invariant had to allow for it.
- `release_switch` and `release_rollback` do not claim the admission gate, and an
  abort of one call reopens it for another's.
- `TaskConflictError` from `begin_release_switching` escapes
  `except DeploySwitchAbort`: the operation stays running until a restart.
- A rollback target may be a superseded row whose slot was overwritten
  (`WasRollbackTarget` is the exception in `ReleaseRowsAgree`).
- `switcher.py:351` says probation guarantees that a new server holds no user
  work. Probation's deadline counts from the journal's `flip_done`, the switcher's
  window starts later, so a late hard kill and restore can lose work:
  `RestoreLosesNothing` is claimed up to the end of the window (`aged`).
- A probation that times out while `switched_ok` is written leaves the live row
  stale; `old_wont_die` and `switch_error` leave nothing serving.
- Boot interrupts stage operations in one transaction and fails orphaned rows in
  a later one (`manager.py:1159-1176`): a crash between leaves a staging row
  without a running operation until the next boot.
- The row `rolled_back(reason)` of `local-deploy.md:388` is practically
  unreachable.

*Deliveries.*
- A commit asked while `ready` and begun after a push and pull request made the
  row `delivered` sets it back to ready; if a later operation is cut off, the boot
  makes it `delivered` again (`repository.py:3560`) and attributes it to the
  commit's key, which `_pick_terminal_settle_op_id` says it never does.
- A failed push publishes while a commit runs: the status it re-reads is not
  terminal, nothing is told; a teardown then tells `failed` under the unscoped key.
- `_published` may tell a newer status under an older operation's key; an
  interruption after an earlier failure reuses a key and is never reported;
  `reconcile_interrupted_prs` may notify a foreign status under the unscoped key.
- Time-outs of the platform client are not `WorkspaceError`s: the operation stays
  running until a reboot. A teardown cut off by a crash turns a delivered row into
  `blocked`. `remove_all` removes the worktree before it refuses the branch.

*Task board.* A prompt that arrives while the driver of a worker awaits its idle
hook (`session_manager.py:2107-2121`, the comment of `turns_idle_hook`) stays in
`_pending_queue`, `worker_has_pending_work` (`manager.py:424`) answers True for
ever, and the lease is renewed at every pass although nothing works on the
attempt, against `_refresh_liveness`'s "interrupt only truly abandoned attempts";
it can be the worker's own first prompt. `EveryRunEnds` fails without the exception
for it. An idle check cancelled after it ended the run loses the report
until the next boot; a cancel between attach and `start_message` starts a worker
on an ended run; an exception after `start_message` fails the run while its worker
runs; a finished worker may still work in a directory another attempt has; a
cancelled dependency blocks its dependents for ever; `create_task` adds an open
child to a closed parent; a conflict in a heartbeat aborts the dispatcher's pass.

*Delegations and background work.* The turn of an older prompt may end a
follow-up's round while its `start_message` is still under way; if that then
raises, the record is failed and `_inject_terminal` tells `[agent-error]` for a row
that is completed (`delegations.py:1016`, `:651`, `:660`), against "The database is
authoritative" (`:131`). A follow-up accepted during its child's idle hook is stranded as
above: its round runs until it is cancelled or another prompt comes. A person who
cancels the park of a delegated turn leaves its round running, since
`release_parked_queue` broadcasts nothing that ends it. A delegated session that delegates itself is
finalised by its first result; `cancel` beside `follow_up` may settle the second
round with the first one's late result; an interrupt or archive during the turn's
own result handler cuts the handler off, told at the next boot only; two
follow-ups at once end in an `IntegrityError`; a failed start overwrites a
cancelled round's state; a cancel of a research job that has just completed
delays its report to the next boot, and a failed one is never told; a command
cancelled after its exit reads `cancelled`.

*Turn inputs.*
- The comments at `session_manager.py:2625` and `:3002` call a retry without output
  "side-effect-free" because the id of the turn's start is put back. A resumed run
  keeps its id (`docs/cli-protocol-notes.md:159`), so in a session that has a
  conversation the restore, and that of a woken park (`:3881`), does nothing: the
  request is asked a second time in the same conversation. `AskedOnce` says where
  it is asked once.
- After "continue" without output a transient retry or a park re-runs the
  original request although an earlier attempt ran tools.
- The refresh of a model credential has no lock: the loser of a race marks a
  healthy token as needing a login; a crash between the provider's answer and the
  store loses the rotated one, and so does an answer that is lost or cannot be read
  (`:3437`), where at least the credential asks for a login.
- `_limit_attempts` outlives a turn that gave up. The prompt of a parked first turn
  of a fork is the wrapped one, and is wrapped again on wake (against the comment
  at `session_manager.py:2328`).
- The stronger reading of `HistoryIsHandedOver` (the conversation holds it) fails:
  an error result clears the flag and a retry rewinds the conversation.
- A boot that fails to clean up a fork leaves it `initializing` as a normal
  session; a copied directory is made before its row.
- After a crash between landing and the row an approval can never be retried;
  approve and reject overwrite each other; superseding a repository's skill may
  remove the global one's directory.
- Two answers to one question can both be accepted and both be shown
  (`_deliver_question_answer` forgets the question only after two awaits), against
  "first to drain wins" (`delegations.py:1067`).

## Proofs

Seven modules hold theorems. They are for every value of the constants (any sets
of sessions, tasks, boards, any number of attempts, operations, switches, rounds,
faults and crashes) and rest on the named `ASSUME`s of the modules only, which
TLC evaluates in the runs: names that mark "nothing" are not names of things,
functions have the domains they are used on, bounds are natural numbers.

All 37 safety and action properties that the passing runs check, the two
refinements among them, are stated by a theorem. Three of the
runs' properties are model-checked only, because liveness under fairness is out
of the prover's reach: `EveryIntentSettles`, `EveryRunEnds`, `SpawnedSettles`.

| module | theorem: property | under |
|---|---|---|
| `SessionTurns_proofs` | `TypeCorrect`, `Refinement`: `ImplementsOutbox`, `Once`: `DeliveredOnce`, `FateIsFinal`: `TerminalStays` | |
| `SessionTurns_safety` | `LockIsKept`: `TurnHoldsLock`; `ClaimedOnce`: `QueuedOnce` | no interrupt, no reset |
| | `NobodyStrands`: `PendingIsHeld` | no reset |
| | `ForkKeepsTurnsOut`: `NoTurnWhileForking` | no interrupt, reset or park |
| | `CensusHolds`: `CommittedIsQuiet` | no park |
| | `GateWaitsForNobody`: `NoGateCycle` | no follow-up |
| | `QueueHasDriver`: `QueueIsDriven` | no notifier, no transient session, no reset or park |
| | `FailureIsClosure`: `FailedMeansClosed` | no deploy, and no close or no stop of the process |
| `TaskBoard_proofs` | `TypeCorrect`; `Owned`: `OwnerAgreement`; `Claimed`: `ClaimsHold`; `Recovered`: `RecoveredRunsAreReported`; `Refinement`: `ImplementsRunReports` | |
| `Deliveries_proofs` | `TypeCorrect`; `Honest`: `StatusIsHonest`; `SettlesTold`: `SettleIsTold`; `KeptWork`: `WorkIsKept` | |
| `DeploySwitch_proofs` | `TypeCorrect`; `RowsAgree`: `ReleaseRowsAgree`; `LiveServes`: `LiveIsServed`; `WorkIsKept`: `RestoreLosesNothing`; `InvariantAlways` | |
| `Background_proofs` | `TypeCorrect`; `Truthful`: `ReplyIsTrue`; `Held`: `RunningIsHeld`; `AllTold`: `EndsAreTold`; `BootSettles`: `RecoveryIsComplete`; `InvariantAlways` | |
| `TurnInputs_proofs` | `RequestsOnce`: `AskedOnce`; `ParksEnd`: `ParkingEnds`; `TokensRotated`: `TokensRotate`; `WholeForks`: `ForksAreWhole`; `SkillsLanded`: `SkillsAreLanded`; `QuestionsAnswered`: `QuestionsAreAnswered`; `HistoryHandedOver`: `HistoryIsHandedOver`; `TurnsAndForks` | |

The column "under" names the disturbances of `SessionTurns` up to which a property
is claimed: it holds in every state before the first of them (`Fresh`,
`Unforced`, `Unstopped`), or for systems without them. Each of them breaks the
property in the code (above), and TLC has the counterexample. Nothing else is
assumed.

The layout is the same everywhere: types first; one lemma per operator that
several actions share; the inductive invariant as a conjunction of named parts;
one lemma per part and group of actions, with a step per action; the theorems at
the end. Every invariant was first checked by TLC on the instances of the runs,
and on larger budgets where they fit.

* *`SessionTurns_proofs`.* `TypeOK` is inductive. `OutboxStep` says that a step is
  a step of `InjectionOutbox` or leaves its variables alone; the two places that
  write a transcript row do so under `MayPersist` or while the row is pending,
  which is where the trigger enters and the only reason the step is a `Deliver`.
  `Once` is the invariant of the abstract outbox carried through the refinement.
  Nothing about queues, claims or locks is needed: the in-memory machinery may
  lose or repeat anything without a duplicate.
* *`SessionTurns_safety`.* The invariant is `Spent /\ Locking /\ Gating /\
  Unparked /\ Forks /\ Committed /\ Driving /\ Addressed /\ Written /\ Holding /\
  Piped /\ Driven /\ Fates /\ Held`; the parts that a disturbance breaks are
  implications from its being unspent, so one induction serves all the theorems.
  `Locking` and `Gating` tie a lock's holder to a program counter; `Piped` and
  `Held` say in whose hands a claimed event is.
* *`TaskBoard_proofs`.* The properties and what their steps need of each other:
  `EndedFirst` (what a terminal path has still to do is done for an ended
  attempt), `AttemptsInOrder`, `OwnersAreAttempts`, `LinkedRowsExist` (foreign
  keys), `LinksLeadOut` and `ParentsLeadOut`, `BeforeEnded`, `ErasedWithOrigin`.
  A cycle is a set of tasks none of which leads out of it; in that form acyclicity
  is inductive without an induction over paths, from what the code's recursive
  query (`Reach`) returns. The seed assumption had to be strengthened to the
  foreign keys: with dangling ones a cycle can be closed.
* *`Deliveries_proofs`.* `RowShapes /\ OtherShapes /\ OneRuns /\ Evidence /\
  Workers /\ Capturers /\ Telling`. `Evidence` relates each operation's record to
  Git and the platform, `Workers` each running operation to its one request,
  `Telling` each settled status to a key. Two candidates for `Telling` were false,
  with the first two findings on deliveries above as their counterexamples.
* *`DeploySwitch_proofs`.* `TypeOK /\ Sound(db) /\ Built(db) /\ Stages /\ CallsOK
  /\ Switchers /\ Journals /\ Probation /\ Snapshots /\ Served /\ WorkKept`. A
  snapshot can come back at any time while its switcher may still fail, so what
  holds of the database (`Sound`, `Built`) is a predicate of a database and is
  kept for every snapshot too (`Snapshots`), with what has moved on since: the
  journal, the slots, the calls. `Journals` says which operation each journal's
  tail excuses, `Switchers` where link, server and switcher can be relative to
  each other, `Served` that outside a switch in doubt the live row, the link and
  the server name one slot; `WorkKept` that from the census to the verdict no turn
  is admitted. The boot recovery is modelled as the transactions it consists of,
  so the invariant holds in the middle of one.
* *`Background_proofs`.* `Forgotten /\ RowsInOrder /\ RecordsAgree /\
  EndsAreCarried /\ Addressed /\ RowsBehindQueues /\ Waits /\ Booted /\ Spawned /\
  ReplyIsTrue /\ RunningIsHeld /\ CommandIsTold`. The memory may run ahead of the
  ledger and not behind it, and a record disagrees with an ended row only where a
  refused start failed it afterwards (`RecordsAgree`: what an end was heard as is
  kept with it, `fin.as`, and written to the ledger); whoever is past the ledger carries an
  end that is stored (`EndsAreCarried`); what a stage of the boot has settled,
  later ones leave alone (`Booted`), which gives `RecoveryIsComplete`.
* *`TurnInputs_proofs`.* `Core == TurnsOK /\ ForksOK` is proved jointly, because a
  fork's conversation and a turn's restore points read each other; `SkillsOK` and
  `QuestionsOK` are inductive given `Core`. `TurnsOK` says of each stage which
  conversation the attempt works in, whether the turn began or resumed it, and what
  it asks there; that a restore drops only a conversation the turn began is what
  bounds the repeated request.

What the prover cannot do here: liveness and `ENABLED`; induction over data with
the library's operator-parameter theorems. No model uses a `RECURSIVE` operator;
where the code iterates (the reconciliation of several operations, the cycle
query) the model has a step per transaction or a relation.

## Not modelled, and the plan

* Hazards without a property: the probation window against the switcher's, the
  release of a parked queue inside a fork, the forced release of a lock. The code
  goes wrong there; the models have the behaviour, and the properties state what
  holds up to it.
* Worth adding next, in this order: creating release lines and first-time deploy;
  per-run `deploy_switch` operations beside release lines (they share the lock and
  the journal); delegation chains of three; the spacing and caps of wake-ups; two
  deliveries that supersede each other in a cycle; session import and unarchiving.
* Left out for good: parsing, formatting and importing of transcripts, attachments
  and viewers (pure data); routers, MCP servers, CLI, tunnel and the web client
  (thin clients); agents, memory, budgets and model routing (row edits and pure
  selection); bridges, notifiers and schedules, which to a session are a prompt and
  an awaited notification and are present as such; harness adapters, of which the
  models have how a run starts, emits and dies; one-off migrations.

## Running it

    tlc -workers 2 -config turns_wide.cfg MCSessionTurns.tla
    tlapm DeploySwitch_proofs.tla

Each run takes seconds to under five minutes with two workers; the violations are
found at once. The proof modules take from one to ten minutes from nothing, the
long ones being `DeploySwitch_proofs` and `SessionTurns_safety`.
