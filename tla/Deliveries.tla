----------------------------- MODULE Deliveries -----------------------------
(***************************************************************************)
(* The delivery of one completed Git worktree run: accepting it, its       *)
(* commit, push, pull request, merge and teardown operations, their        *)
(* notifications, and what a boot makes of them                            *)
(* (server/task_board/delivery.py, workspaces.py, the delivery half of     *)
(* repository.py and manager.py).                                          *)
(*                                                                         *)
(* del and ops are rows of the database; git is the repository, its        *)
(* remote and the hosting platform, which change outside any transaction;  *)
(* notes are the outbox rows by source key (an operation's, or Unscoped).  *)
(* An operator defined just before another and used nowhere is a plausible *)
(* mistake in it.                                                          *)
(***************************************************************************)
EXTENDS Integers, Sequences, FiniteSets

CONSTANTS
    Starts,     \* what a completed run may have left: a tree, clean or not, with commits of its
                \* own or without; an older version recorded no base
    MaxCalls,   \* model bound: requests of people and agents, in the order they are made
    Width,      \* model bound: how many of them are in progress at once
    MaxOps,     \* model bound: rows of task_delivery_ops
    MaxCommits, \* model bound: commits of the attempt branch
    Faults      \* model bound: crashes, failing steps, changes of the worktree meanwhile

ASSUME StartsAssumption == Starts \subseteq [base : BOOLEAN, tree : {"clean", "dirty"}, commits : 0..1]
ASSUME BoundsAssumption == MaxCalls \in Nat /\ Width \in Nat /\ MaxOps \in Nat /\ MaxCommits \in Nat
                           /\ Faults \in Nat

VARIABLES
    del,      \* the row of task_deliveries
    ops,      \* its task_delivery_ops, in the order of created_at
    last,     \* the goal operation that succeeded, and that failed, last (finished_at)
    calls,    \* requests in progress
    git,      \* worktree, attempt branch, remote branch, base branch, pull request
    notes,    \* the status each source key was reported with
    gone,     \* the origin session was deleted
    unavail,  \* the event delivery_notification_unavailable is there
    phase,    \* of the server process
    rec,      \* reconcile_interrupted_prs, once per boot
    missed,   \* a report failed since the outbox was last rebuilt
    faults

rows == <<del, ops, last>>
told == <<notes, unavail, missed>>
vars == <<rows, calls, git, told, gone, phase, rec, faults>>

Calls       == 1..MaxCalls
OpIds       == 1..MaxOps
Unscoped    == 0
GoalKinds   == {"commit", "push", "pull_request", "merge"}      \* _DELIVERY_TERMINAL_OP_KINDS
External    == {"push", "pull_request", "merge"}                \* DELIVERED_OP_KINDS
Teardowns   == {"worktree_remove", "branch_delete"}
Retentions  == {"keep", "remove_worktree_keep_branch", "remove_all"}
GoalStart   == {"ready", "delivered", "blocked", "conflicted"}
TeardownStart == GoalStart \cup {"failed"}
Terminal    == {"delivered", "conflicted", "blocked", "failed"}
Statuses    == Terminal \cup {"none", "pending", "preparing", "ready", "delivering"}
OpStates    == {"planned", "running", "succeeded", "failed", "interrupted"}
NoBranch    == -1

Idle == [pc |-> "idle", kind |-> "none", op |-> 0, pushed |-> FALSE, policy |-> "keep",
         dirtyOk |-> FALSE, loseOk |-> FALSE, res |-> "none", status |-> "none"]

Init ==
    /\ \E s \in Starts :
         /\ del = [status |-> "none", reason |-> "none", base |-> s.base, dirty |-> FALSE,
                   ahead |-> FALSE, pushed |-> FALSE, pr |-> FALSE]
         /\ git = [tree |-> s.tree, branch |-> s.commits, remote |-> NoBranch, merged |-> 0, pr |-> FALSE]
    /\ ops     = <<>>
    /\ last    = [succeeded |-> Unscoped, failed |-> Unscoped]
    /\ calls   = [c \in Calls |-> Idle]
    /\ notes   = [k \in OpIds \cup {Unscoped} |-> "none"]
    /\ gone    = FALSE
    /\ unavail = FALSE
    /\ missed  = FALSE
    /\ phase   = "up"
    /\ rec     = [pc |-> "done", op |-> 0, status |-> "none"]
    /\ faults  = 0

Up      == phase = "up"
Fault   == faults < Faults /\ faults' = faults + 1
At(c, pc)   == Up /\ calls[c].pc = pc
Go(c, pc)   == calls' = [calls EXCEPT ![c].pc = pc]
Done        == [Idle EXCEPT !.pc = "done"]
End(c)      == calls' = [calls EXCEPT ![c] = Done]
Running(D)  == {o \in DOMAIN D : D[o].state = "running"}

(***************************************************************************)
(* accept: create_delivery, resolve_base, start_accept, record_baseline.   *)
(***************************************************************************)
\* base says that the caller names a base branch.  A delivery that is preparing, in flight
\* or settled is returned as it is.
Accept(c, base) ==
    /\ Up /\ calls[c].pc = "idle"
    /\ \/ del.status \in {"none", "pending", "ready", "failed"} /\ Go(c, "start")
       \/ del.status = "blocked" /\ del.reason = "base_ambiguous" /\ base /\ Go(c, "resolve")
    /\ del' = [del EXCEPT !.status = IF @ = "none" THEN "pending" ELSE @]
    /\ UNCHANGED <<ops, last, git, told, gone, phase, rec, faults>>

ResolveBase(c) ==        \* _verify_base came first
    /\ At(c, "resolve")
    /\ IF del.status = "blocked" /\ del.reason = "base_ambiguous"
       THEN del' = [del EXCEPT !.status = "pending", !.reason = "none", !.base = TRUE] /\ Go(c, "start")
       ELSE End(c) /\ UNCHANGED del
    /\ UNCHANGED <<ops, last, git, told, gone, phase, rec, faults>>

StartAccept(c) ==
    /\ At(c, "start")
    /\ IF del.status \in {"pending", "ready", "failed"}
       THEN del' = [del EXCEPT !.status = "preparing", !.reason = "none"] /\ Go(c, "capture")
       ELSE End(c) /\ UNCHANGED del
    /\ UNCHANGED <<ops, last, git, told, gone, phase, rec, faults>>

Baseline ==
    CASE ~del.base -> [del EXCEPT !.status = "blocked", !.reason = "base_ambiguous"]
      [] del.base /\ git.tree = "none" /\ del.pushed -> [del EXCEPT !.status = "ready", !.reason = "none"]
      [] del.base /\ git.tree = "none" /\ ~del.pushed ->
           [del EXCEPT !.status = "failed", !.reason = "workspace_gone_no_effect"]
      [] OTHER -> [del EXCEPT !.status = "ready", !.reason = "none",
                              !.dirty = git.tree = "dirty", !.ahead = git.branch > 0]

CaptureBaseline(c) ==
    /\ At(c, "capture") /\ del.status = "preparing"
    /\ del' = Baseline
    /\ calls' = [calls EXCEPT ![c].pc = "settled", ![c].op = Unscoped, ![c].status = Baseline.status]
    /\ UNCHANGED <<ops, last, git, told, gone, phase, rec, faults>>

CaptureFails(c) ==       \* a git error leaves it preparing until the next boot
    /\ At(c, "capture") /\ del.base /\ git.tree # "none" /\ Fault
    /\ End(c)
    /\ UNCHANGED <<rows, git, told, gone, phase, rec>>

(***************************************************************************)
(* deliver_op: a check of a row that was read, then _begin.                *)
(***************************************************************************)
Succeeded(k) == \E o \in DOMAIN ops : ops[o].kind = k /\ ops[o].state = "succeeded"

\* What each kind asks of the row; that the base repository is clean and on its branch is
\* taken for granted.
Asked(k) ==
    /\ del.status \in GoalStart /\ del.base
    /\ k \in External => ~Succeeded(k)
    /\ CASE k = "commit"       -> del.status = "ready" /\ del.dirty
         [] k = "push"         -> del.ahead
         [] k = "pull_request" -> ~del.pr /\ del.pushed
         [] k = "merge"        -> TRUE

DeliverOp(c, k) ==
    /\ Up /\ calls[c].pc = "idle" /\ Asked(k) /\ Len(ops) < MaxOps
    /\ calls' = [calls EXCEPT ![c].pc = "begin", ![c].kind = k]
    /\ UNCHANGED <<rows, git, told, gone, phase, rec, faults>>

\* plan_op and start_op, inside one admission of the deploy gate.  A planned row that could
\* not be started stays planned.
CanStart(allowed) == Running(ops) = {} /\ del.status \in allowed
Planned(k)        == [kind |-> k, state |-> "planned"]
Started(k)        == [kind |-> k, state |-> "running"]

Begin(c) ==
    /\ At(c, "begin") /\ Len(ops) < MaxOps
    /\ IF CanStart(GoalStart)
       THEN /\ ops' = Append(ops, Started(calls[c].kind))
            /\ del' = [del EXCEPT !.status = "delivering"]
            /\ calls' = [calls EXCEPT ![c].pc = "execute", ![c].op = Len(ops) + 1]
       ELSE /\ ops' = Append(ops, Planned(calls[c].kind))
            /\ End(c) /\ UNCHANGED del
    /\ UNCHANGED <<last, git, told, gone, phase, rec, faults>>

(***************************************************************************)
(* The effects, by Git and the hosting platform.                           *)
(***************************************************************************)
Did(c, res) == calls' = [calls EXCEPT ![c].pc = "finish", ![c].res = res]
Doing(c, k) == At(c, "execute") /\ calls[c].kind = k
Effect      == UNCHANGED <<rows, told, gone, phase, rec>>

Commit(c) ==             \* commit_all: nothing to do if the tree is clean by now
    /\ Doing(c, "commit")
    /\ IF git.tree = "none" THEN Did(c, "error") /\ UNCHANGED git
       ELSE /\ git' = [git EXCEPT !.tree = "clean", !.branch = IF git.tree = "dirty" THEN @ + 1 ELSE @]
            /\ Did(c, "ok")
    /\ UNCHANGED faults /\ Effect

Push(c) ==
    /\ Doing(c, "push")
    /\ IF git.branch = NoBranch THEN Did(c, "error") /\ UNCHANGED git
       ELSE git' = [git EXCEPT !.remote = git.branch] /\ Did(c, "ok")
    /\ UNCHANGED faults /\ Effect

\* A pull request that is already there is found again, never a second one made.
OpenPR(c) ==
    /\ Doing(c, "pull_request")
    /\ IF git.remote = NoBranch THEN Did(c, "error") /\ UNCHANGED git
       ELSE git' = [git EXCEPT !.pr = TRUE] /\ Did(c, "ok")
    /\ UNCHANGED faults /\ Effect

Merge(c) ==              \* a branch that cannot be merged is a conflict, not an error
    /\ Doing(c, "merge")
    /\ \/ git.branch # NoBranch /\ git' = [git EXCEPT !.merged = git.branch]
                                /\ Did(c, "ok") /\ UNCHANGED faults
       \/ git.branch = NoBranch /\ Did(c, "conflict") /\ UNCHANGED <<git, faults>>
       \/ Fault /\ Did(c, "conflict") /\ UNCHANGED git
    /\ Effect

\* No remote, no connector, a refusal, a timeout: before the effect or after it.
Fails(c) ==
    /\ At(c, "execute") /\ calls[c].kind \in GoalKinds \cup Teardowns /\ Fault
    /\ Did(c, "error")
    /\ \/ UNCHANGED git
       \/ calls[c].kind = "commit" /\ git.tree = "dirty"
          /\ git' = [git EXCEPT !.tree = "clean", !.branch = @ + 1]
       \/ calls[c].kind = "push" /\ git.branch # NoBranch /\ git' = [git EXCEPT !.remote = git.branch]
    /\ Effect

\* An HTTP timeout or a token that cannot be refreshed is no WorkspaceError: nobody settles
\* the operation before the next boot.
Escapes(c) ==
    /\ Doing(c, "pull_request") /\ Fault
    /\ End(c)
    /\ \/ UNCHANGED git
       \/ git.remote # NoBranch /\ git' = [git EXCEPT !.pr = TRUE]
    /\ Effect

RemoveWorktreeForced(c) ==       \* `git worktree remove --force` always
    /\ Doing(c, "worktree_remove")
    /\ git' = [git EXCEPT !.tree = "none"] /\ Did(c, "ok")
    /\ UNCHANGED faults /\ Effect

\* Git refuses a dirty tree without --force, whatever was checked before.
RemoveWorktree(c) ==
    /\ Doing(c, "worktree_remove")
    /\ IF git.tree = "dirty" /\ ~calls[c].dirtyOk THEN Did(c, "error") /\ UNCHANGED git
       ELSE git' = [git EXCEPT !.tree = "none"] /\ Did(c, "ok")
    /\ UNCHANGED faults /\ Effect

\* Git refuses a branch that is checked out, and without force one that its upstream lacks.
DeleteBranch(c) ==
    /\ Doing(c, "branch_delete")
    /\ IF git.branch # NoBranch /\ (git.tree # "none" \/ (~calls[c].loseOk /\ git.remote < git.branch))
       THEN Did(c, "error") /\ UNCHANGED git
       ELSE git' = [git EXCEPT !.branch = NoBranch] /\ Did(c, "ok")
    /\ UNCHANGED faults /\ Effect

(***************************************************************************)
(* finish_op: the row of the operation and of the delivery together.       *)
(***************************************************************************)
Ended(o, state) ==
    /\ ops' = [ops EXCEPT ![o].state = state]
    /\ last' = IF ops[o].kind \in GoalKinds THEN [last EXCEPT ![state] = o] ELSE last

SettledWithError(k, res) ==      \* the error itself as the reason
    IF res = "ok" THEN [del EXCEPT !.status = IF k = "commit" THEN "ready" ELSE "delivered",
                                   !.reason = "none"]
    ELSE [del EXCEPT !.status = "blocked", !.reason = res]

Settled(k, res) ==       \* what a goal operation folds into the delivery
    CASE res = "conflict" -> [del EXCEPT !.status = "conflicted", !.reason = "conflict"]
      [] res = "error" -> [del EXCEPT !.status = "blocked", !.reason = "op_failed"]
      [] OTHER -> [del EXCEPT !.status = IF k = "commit" THEN "ready" ELSE "delivered",
                              !.reason = "none",
                              !.dirty  = IF k = "commit" THEN FALSE ELSE @,
                              !.ahead  = IF k = "commit" THEN git.branch > 0 ELSE @,
                              !.pushed = @ \/ k = "push",
                              !.pr     = @ \/ k = "pull_request"]

FinishOp(c) ==
    /\ At(c, "finish") /\ calls[c].kind \in GoalKinds /\ ops[calls[c].op].state = "running"
    /\ Ended(calls[c].op, IF calls[c].res = "ok" THEN "succeeded" ELSE "failed")
    /\ del' = Settled(calls[c].kind, calls[c].res)
    /\ calls' = [calls EXCEPT ![c].pc = "settled", ![c].status = del'.status]
    /\ UNCHANGED <<git, told, gone, phase, rec, faults>>

\* A teardown operation leaves the status alone, not the reason.
FinishTeardownOp(c) ==
    /\ At(c, "finish") /\ calls[c].kind \in Teardowns /\ ops[calls[c].op].state = "running"
    /\ Ended(calls[c].op, IF calls[c].res = "ok" THEN "succeeded" ELSE "failed")
    /\ del' = [del EXCEPT !.reason = "none"]
    /\ Go(c, IF calls[c].kind = "worktree_remove" THEN "branch" ELSE "snapshot")
    /\ UNCHANGED <<git, told, gone, phase, rec, faults>>

(***************************************************************************)
(* teardown.                                                               *)
(***************************************************************************)
Teardown(c, policy, dirtyOk, loseOk) ==
    /\ Up /\ calls[c].pc = "idle" /\ del.status \in TeardownStart
    /\ calls' = [calls EXCEPT ![c] = [Idle EXCEPT !.pc = "retain", !.policy = policy,
                                                  !.dirtyOk = dirtyOk, !.loseOk = loseOk]]
    /\ UNCHANGED <<rows, git, told, gone, phase, rec, faults>>

BeginTeardownOp(c, k) ==
    /\ Len(ops) < MaxOps
    /\ IF CanStart(TeardownStart)
       THEN /\ ops' = Append(ops, Started(k))
            /\ calls' = [calls EXCEPT ![c].pc = "execute", ![c].kind = k, ![c].op = Len(ops) + 1,
                                      ![c].pushed = IF k = "worktree_remove" THEN del.pushed ELSE @]
       ELSE ops' = Append(ops, Planned(k)) /\ End(c)

\* Under one admission: the retention, the live check of the tree, the operation.
Retain(c) ==
    /\ At(c, "retain")
    /\ IF calls[c].policy = "keep" \/ git.tree = "none"
       THEN calls' = [calls EXCEPT ![c].pc = "branch", ![c].pushed = del.pushed] /\ UNCHANGED ops
       ELSE IF git.tree = "dirty" /\ ~calls[c].dirtyOk THEN End(c) /\ UNCHANGED ops
       ELSE BeginTeardownOp(c, "worktree_remove")
    /\ UNCHANGED <<del, last, git, told, gone, phase, rec, faults>>

BranchRetention(c) ==
    /\ At(c, "branch")
    /\ IF calls[c].policy # "remove_all" THEN Go(c, "snapshot") /\ UNCHANGED ops
       ELSE IF ~calls[c].pushed /\ ~calls[c].loseOk THEN End(c) /\ UNCHANGED ops
       ELSE BeginTeardownOp(c, "branch_delete")
    /\ UNCHANGED <<del, last, git, told, gone, phase, rec, faults>>

\* _pick_terminal_settle_op_id: the operation that the status is told with.
Picked == IF del.status = "delivered" THEN last.succeeded ELSE last.failed

\* A teardown reports again what the delivery had come to: row and key from one snapshot.
TerminalSnapshot(c) ==
    /\ At(c, "snapshot")
    /\ calls' = [calls EXCEPT ![c].pc = "settled", ![c].status = del.status,
                              ![c].op = Picked]
    /\ UNCHANGED <<rows, git, told, gone, phase, rec, faults>>

(***************************************************************************)
(* _published: the pointer to a delivery that contains this one is         *)
(* derived again, which reads the row again when the pointer moves, and    *)
(* the origin is told.  A source key that was used is not used again.      *)
(***************************************************************************)
Tell(k, s) == UNCHANGED missed /\
              (IF gone THEN unavail' = TRUE /\ UNCHANGED notes
               ELSE /\ notes' = [notes EXCEPT ![k] = IF @ = "none" THEN s ELSE @]
                    /\ UNCHANGED unavail)

Supersede(c) ==
    /\ At(c, "settled") /\ calls[c].status # del.status
    /\ calls' = [calls EXCEPT ![c].pc = "publish", ![c].status = del.status]
    /\ UNCHANGED <<rows, git, told, gone, phase, rec, faults>>

Publish(c) ==
    /\ calls[c].pc \in {"settled", "publish"} /\ Up
    /\ IF calls[c].status \in Terminal THEN Tell(calls[c].op, calls[c].status) ELSE UNCHANGED told
    /\ End(c)
    /\ UNCHANGED <<rows, git, gone, phase, rec, faults>>

PublishFails(c) ==       \* the exception is logged, the operation stands
    /\ calls[c].pc \in {"settled", "publish"} /\ Up /\ calls[c].status \in Terminal /\ Fault
    /\ End(c) /\ missed' = TRUE
    /\ UNCHANGED <<rows, git, notes, unavail, gone, phase, rec>>

GateClosed(c) ==         \* a deploy has closed admission: the request is refused here
    /\ Up /\ calls[c].pc \in {"begin", "retain", "branch"} /\ Fault
    /\ End(c)
    /\ UNCHANGED <<rows, git, told, gone, phase, rec>>

(***************************************************************************)
(* recover_deliveries, and the reconciliation that follows a boot.         *)
(***************************************************************************)
Crash ==
    /\ phase # "down" /\ Fault /\ phase' = "down"
    /\ calls' = [c \in Calls |-> IF calls[c].pc = "idle" THEN calls[c] ELSE Done]
    /\ rec' = [pc |-> "done", op |-> 0, status |-> "none"]
    /\ UNCHANGED <<rows, git, told, gone>>

\* interrupt_running_delivery_ops (teardown operations too), reset_preparing_deliveries,
\* reconcile_blocked_deliveries_with_pr.
RecoverRows ==
    /\ phase = "down" /\ phase' = "boot"
    /\ ops' = [o \in DOMAIN ops |-> [ops[o] EXCEPT !.state = IF @ = "running" THEN "interrupted" ELSE @]]
    /\ LET cut == IF Running(ops) = {} THEN del
                  ELSE [del EXCEPT !.status = "blocked", !.reason = "interrupted"]
           reset == [cut EXCEPT !.status = IF @ = "preparing" THEN "pending" ELSE @]
       IN del' = IF reset.status = "blocked" /\ reset.pr
                 THEN [reset EXCEPT !.status = "delivered", !.reason = "none"] ELSE reset
    /\ UNCHANGED <<last, git, calls, told, gone, rec, faults>>

InterruptedPRs == {o \in DOMAIN ops : ops[o].kind = "pull_request" /\ ops[o].state = "interrupted"}
Unreconciled   == del.status = "blocked" /\ del.reason = "interrupted" /\ ~del.pr

RebuildNoticesUnscoped ==        \* looks for the key of before operations had keys
    /\ phase = "boot" /\ phase' = "up" /\ missed' = FALSE
    /\ IF del.status \in Terminal /\ notes[Unscoped] \in {"none", "erased"}
       THEN IF gone THEN unavail' = TRUE /\ UNCHANGED notes
                    ELSE notes' = [notes EXCEPT ![Unscoped] = del.status] /\ UNCHANGED unavail
       ELSE UNCHANGED <<notes, unavail>>
    /\ UNCHANGED <<rows, git, calls, gone, rec, faults>>

\* The outbox is rebuilt for a terminal delivery; one that fails is logged.
RebuildNotices ==
    /\ phase = "boot" /\ phase' = "up"
    /\ LET k == Picked IN
       \/ /\ missed' = FALSE /\ UNCHANGED faults
          /\ IF del.status \in Terminal /\ notes[k] \in {"none", "erased"}
             THEN IF gone THEN unavail' = TRUE /\ UNCHANGED notes
                          ELSE notes' = [notes EXCEPT ![k] = del.status] /\ UNCHANGED unavail
             ELSE UNCHANGED <<notes, unavail>>
       \/ del.status \in Terminal /\ Fault /\ missed' = TRUE /\ UNCHANGED <<notes, unavail>>
    /\ rec' = [rec EXCEPT !.pc = IF Unreconciled /\ InterruptedPRs # {} THEN "list" ELSE "done"]
    /\ UNCHANGED <<rows, git, calls, gone>>

ReconcileList ==         \* and the search of the pull request on the platform
    /\ Up /\ rec.pc = "list"
    /\ \/ /\ Unreconciled /\ git.pr
          /\ \E o \in InterruptedPRs : /\ \A p \in InterruptedPRs : p <= o
                                      /\ rec' = [rec EXCEPT !.pc = "record", !.op = o]
       \/ /\ ~(Unreconciled /\ InterruptedPRs # {} /\ git.pr)
          /\ rec' = [rec EXCEPT !.pc = "done"]
    /\ UNCHANGED <<rows, calls, git, told, gone, phase, faults>>

RecordPRRowOnly ==       \* the delivery without its operation
    /\ Up /\ rec.pc = "record"
    /\ IF Unreconciled /\ rec.op \in InterruptedPRs
       THEN /\ del' = [del EXCEPT !.status = "delivered", !.reason = "none", !.pr = TRUE]
            /\ rec' = [rec EXCEPT !.pc = "notify", !.status = "delivered"]
       ELSE rec' = [rec EXCEPT !.pc = "done"] /\ UNCHANGED del
    /\ UNCHANGED <<ops, last, calls, git, told, gone, phase, faults>>

\* record_pr_reconcile: the operation and the delivery move together, or neither.
RecordPR ==
    /\ Up /\ rec.pc = "record"
    /\ IF Unreconciled /\ rec.op \in InterruptedPRs
       THEN /\ ops' = [ops EXCEPT ![rec.op].state = "succeeded"]
            /\ last' = [last EXCEPT !.succeeded = rec.op]
            /\ del' = [del EXCEPT !.status = "delivered", !.reason = "none", !.pr = TRUE]
            /\ rec' = [rec EXCEPT !.pc = "notify", !.status = "delivered"]
       ELSE /\ rec' = [rec EXCEPT !.pc = IF del.status # "blocked" THEN "notify" ELSE "done",
                                  !.op = Unscoped, !.status = del.status]
            /\ UNCHANGED rows
    /\ UNCHANGED <<calls, git, told, gone, phase, faults>>

\* Whatever the row says by now, settled or not.
ReconcileNotify ==
    /\ Up /\ rec.pc = "notify"
    /\ Tell(rec.op, rec.status)
    /\ rec' = [rec EXCEPT !.pc = "done"]
    /\ UNCHANGED <<rows, calls, git, gone, phase, faults>>

(***************************************************************************)
(* Everybody else.                                                         *)
(***************************************************************************)
EditWorktree ==          \* a worker that is asked a follow-up edits, or commits
    /\ Fault /\ git.tree # "none"
    /\ \/ git.tree = "clean" /\ git' = [git EXCEPT !.tree = "dirty"]
       \/ git.branch < MaxCommits /\ git' = [git EXCEPT !.branch = @ + 1]
    /\ UNCHANGED <<rows, calls, told, gone, phase, rec>>

DeleteOrigin ==
    /\ Up /\ ~gone /\ gone' = TRUE
    /\ notes' = [k \in DOMAIN notes |-> IF notes[k] = "none" THEN "none" ELSE "erased"]
    /\ UNCHANGED <<rows, calls, git, unavail, missed, phase, rec, faults>>

Request(c) ==
    /\ \A d \in Calls : d < c => calls[d].pc # "idle"
    /\ Cardinality({d \in Calls : calls[d].pc \notin {"idle", "done"}}) < Width
    /\ \/ \E base \in BOOLEAN : Accept(c, base)
       \/ \E k \in GoalKinds : DeliverOp(c, k)
       \/ \E p \in Retentions, d, l \in BOOLEAN :
            /\ (p = "keep" => ~d) /\ (p # "remove_all" => ~l)      \* else of no effect
            /\ Teardown(c, p, d, l)
Accepting(c) == ResolveBase(c) \/ StartAccept(c) \/ CaptureBaseline(c) \/ CaptureFails(c)
Working(c)   == \/ Commit(c) \/ Push(c) \/ OpenPR(c) \/ Merge(c) \/ Fails(c) \/ Escapes(c)
                \/ RemoveWorktree(c) \/ DeleteBranch(c)
Settling(c)  == FinishOp(c) \/ FinishTeardownOp(c) \/ TerminalSnapshot(c)
                \/ Supersede(c) \/ Publish(c) \/ PublishFails(c)
Serve(c)     == \/ Accepting(c) \/ Begin(c) \/ Working(c) \/ Settling(c)
                \/ Retain(c) \/ BranchRetention(c) \/ GateClosed(c)
Boot         == RecoverRows \/ RebuildNotices
Reconcile    == ReconcileList \/ RecordPR \/ ReconcileNotify

Next == \/ \E c \in Calls : Request(c) \/ Serve(c)
        \/ Crash \/ Boot \/ Reconcile
        \/ EditWorktree \/ DeleteOrigin

Spec == Init /\ [][Next]_vars

(***************************************************************************)
(* Properties.                                                             *)
(***************************************************************************)
TypeOK ==
    /\ del.status \in Statuses /\ {del.base, del.dirty, del.ahead, del.pushed, del.pr} \subseteq BOOLEAN
    /\ del.reason \in {"none", "base_ambiguous", "workspace_gone_no_effect", "op_failed", "conflict",
                       "interrupted"}
    /\ Len(ops) <= MaxOps
    /\ \A o \in DOMAIN ops : ops[o].kind \in GoalKinds \cup Teardowns /\ ops[o].state \in OpStates
    /\ {last.succeeded, last.failed} \subseteq {Unscoped} \cup DOMAIN ops
    /\ git.tree \in {"none", "clean", "dirty"} /\ {git.branch, git.remote} \subseteq Nat \cup {NoBranch}
    /\ git.merged \in Nat /\ git.pr \in BOOLEAN
    /\ \A k \in DOMAIN notes : notes[k] \in Statuses \cup {"erased"}
    /\ \A c \in Calls : calls[c].op \in 0..MaxOps /\ calls[c].status \in Statuses
    /\ {gone, unavail, missed} \subseteq BOOLEAN /\ phase \in {"up", "down", "boot"}

\* The row says "delivering" exactly while one goal operation runs, "preparing" only while a
\* request captures the baseline or one failed to, and no two operations run at once,
\* whatever requests overlap, wherever the server died.
DeliveringIsOwned ==
    /\ \A o, p \in Running(ops) : o = p
    /\ del.status = "delivering" <=> \E o \in Running(ops) : ops[o].kind \in GoalKinds
    /\ \A c \in Calls : calls[c].pc = "capture" =>
         del.status = "preparing" /\ \A d \in Calls : calls[d].pc = "capture" => c = d
    /\ phase = "up" /\ del.status = "preparing" =>
         (\E c \in Calls : calls[c].pc = "capture") \/ faults > 0

\* An operation that runs in a server that is up has a request that will settle it, a
\* teardown's too, and however the server died before: otherwise no other operation of this
\* delivery starts again, and no deploy.  Only the pull request whose error nobody catches
\* stays so until the next boot.
RunningIsServed ==
    \A o \in Running(ops) : Up =>
        \/ \E c \in Calls : calls[c].op = o /\ calls[c].pc \in {"execute", "finish"}
        \/ ops[o].kind = "pull_request"

\* What the row claims has happened outside: a branch that was pushed, a pull request that
\* exists, a delivery that ended in one of the three, and an operation to tell it with that says
\* so, or that succeeded before a boot found the pull request on a blocked row.
DeliveredIsReal ==
    /\ del.pushed => git.remote # NoBranch /\ Succeeded("push")
    /\ del.pr => git.pr /\ Succeeded("pull_request")
    /\ del.status = "delivered" =>
         /\ Picked \in DOMAIN ops /\ ops[Picked].state = "succeeded"
         /\ ops[Picked].kind \in External \/ del.pr
         /\ \E k \in External : Succeeded(k)

\* The status of a delivery is honest: about who works on it, and about what happened.
StatusIsHonest == DeliveringIsOwned /\ RunningIsServed /\ DeliveredIsReal

\* Uncommitted changes go, and commits nobody else has go, only when the request of the
\* teardown that takes them confirmed it, also when they came after its checks.
WorkIsKept ==
    [][/\ git.tree = "dirty" /\ git'.tree = "none" =>
            \E c \in Calls : calls[c].pc = "execute" /\ calls[c].dirtyOk
       /\ git.branch # NoBranch /\ git'.branch = NoBranch /\ git.branch > git.remote =>
            \E c \in Calls : calls[c].pc = "execute" /\ calls[c].loseOk]_vars

\* With no request in progress and no step failed since, a settled delivery has been told to
\* its origin under the key of what settled it, the unscoped one where no operation did, or is
\* recorded as impossible to tell.
Quiet == Up /\ rec.pc = "done" /\ \A c \in Calls : calls[c].pc \in {"idle", "done"}
SettleIsTold ==
    Quiet /\ ~missed /\ del.status \in Terminal =>
        \/ notes[Picked] # "none" \/ unavail
        \/ del.status = "failed" /\ notes[Unscoped] # "none"
=============================================================================
