---------------------------- MODULE DeploySwitch ----------------------------
(***************************************************************************)
(* The release line: staging a release into the idle slot, switching the   *)
(* running instance to it or back, and what survives of that               *)
(* (server/task_board/delivery.py release_*, repository.py, manager.py     *)
(* recover_deliveries, server/switcher.py, server/deploy.py).              *)
(*                                                                         *)
(* Three processes share the disk: the server, the detached switcher that  *)
(* outlives it, and whoever starts a server again.  db is the SQLite file, *)
(* so the switcher's snapshot and its restore are copies of db.            *)
(* An operator defined just before another and used nowhere is a plausible *)
(* mistake in it.                                                          *)
(***************************************************************************)
EXTENDS Integers, Sequences, FiniteSets

CONSTANTS
    Boards, Shas,
    Asks,       \* model bound: what the releases that are ever planned may be, in order;
                \* the first is live from the start
    Switches,   \* model bound: how many switches and rollbacks are asked for
    Works,      \* model bound: turns of users
    Broken,     \* revisions whose server exits while it boots
    Era,        \* the first row predates releases: a deployment without a release
    Faults      \* model bound: crashes, reboots and failing steps

ASSUME BoundsAssumption == Asks \in Seq(SUBSET (Boards \X Shas)) /\ Asks # <<>>
                           /\ Switches \in Nat /\ Faults \in Nat
ASSUME EraAssumption  == Era \in BOOLEAN
ASSUME ShaAssumption  == Broken \subseteq Shas /\ Shas # {} /\ Boards # {}
ASSUME NamesAssumption == "junk" \notin Shas /\ "none" \notin Boards \cup Works

VARIABLES
    db,       \* the database: rows, switch operations, what users have done
    current,  \* the slot the symlink names
    content,  \* what is checked out in a slot
    jr,       \* the switcher's journal, per operation: the handoff and the last step
    aged,     \* operations whose flip_done line is older than the health window
    snap,     \* the snapshot an operation took
    srv,      \* the server process, the slot it was started from and, while it boots, the
              \* next operation its recovery looks at
    closed,   \* DeployAdmissionGate._closed
    prob,     \* the operation this boot is on probation for
    turn,     \* a turn of a user that is running
    given,    \* turns users have asked for so far
    stg,      \* release_stage calls
    swc,      \* release_switch and release_rollback calls
    sw,       \* the switcher of an operation
    faults

proc == <<srv, closed, prob, turn, stg, swc>>
disk == <<current, content, jr, aged, snap>>
vars == <<db, disk, proc, given, sw, faults>>

Rows      == DOMAIN Asks       \* in order of creation
Ops       == 1..Switches
Slots     == {"a", "b"}
Other(s)  == IF s = "b" THEN "a" ELSE "b"
Locked    == {"staging", "switching"}
NoOp      == 0
RowStates == {"absent", "none", "planned", "staging", "staged", "switching", "live",
              "superseded", "rolled_back", "failed"}
OpStates  == {"absent", "running", "succeeded", "failed", "interrupted"}
Verdicts  == {"switched_ok", "rolled_back", "rollback_incomplete", "old_wont_die", "switch_error"}
Steps     == Verdicts \cup {"none", "handoff", "flip_done", "rollback_begin"}
Sample    == CHOOSE s \in Shas : TRUE
Home      == CHOOSE b \in Boards : TRUE

NoRow     == [rel |-> "absent", dep |-> "absent", board |-> Home, sha |-> Sample, slot |-> "a",
              bound |-> NoOp, stage |-> "absent"]
NewOp     == [kind |-> "none", of |-> 0, state |-> "absent"]
NoEntry   == [tail |-> "none", from |-> "a", to |-> "b", old |-> Sample, new |-> Sample]
NoCall    == [pc |-> "none", target |-> 0, from |-> "a"]

\* `owlery deploy init` and one successful switch are behind us: row 1 is live.
Init ==
    /\ db = [row  |-> [d \in Rows |-> IF d = 1 THEN [NoRow EXCEPT
                          !.rel = IF Era THEN "none" ELSE "live", !.dep = "live"] ELSE NoRow],
             op   |-> [o \in Ops |-> NewOp],
             past |-> {},
             work |-> {}]
    /\ current = "a"
    /\ content = [s \in Slots |-> IF s = "a" THEN Sample ELSE "junk"]
    /\ jr      = [o \in Ops |-> NoEntry]
    /\ aged    = {}
    /\ snap    = [o \in Ops |-> <<>>]
    /\ srv     = [phase |-> "up", slot |-> "a", at |-> 1]
    /\ closed  = FALSE
    /\ prob    = NoOp
    /\ turn    = "none"
    /\ given   = {}
    /\ stg     = [d \in Rows |-> "none"]
    /\ swc     = [o \in Ops |-> NoCall]
    /\ sw      = [o \in Ops |-> "none"]
    /\ faults  = 0

Fault   == faults < Faults /\ faults' = faults + 1
Serving == srv.phase = "up"

(***************************************************************************)
(* The database.  past orders deployments by when they were superseded,    *)
(* as the updated_at of get_rollback_target does: <<e, d>> is in it when d *)
(* was superseded after e.                                                 *)
(***************************************************************************)
Superseded(D, S) ==        \* deployments of S become superseded
    [D EXCEPT !.row  = [d \in Rows |-> IF d \in S THEN [@[d] EXCEPT !.dep = "superseded"] ELSE @[d]],
              !.past = {p \in @ : p[1] \notin S} \cup ((Rows \ S) \X S)]

StagedIn(D, s)  == {d \in Rows : D.row[d].dep = "staged" /\ D.row[d].slot = s}
LiveRows(D)     == {d \in Rows : D.row[d].dep = "live"}
Newest(S)       == CHOOSE d \in S : \A e \in S : e <= d
LockHeld(D, d)  == \E e \in Rows \ {d} : {D.row[e].rel, D.row[e].dep} \cap Locked # {}
OpRunning(D, d) == D.row[d].stage = "running"
                   \/ \E o \in Ops : D.op[o].of = d /\ D.op[o].state = "running"

\* get_staged_release and get_rollback_target.
StagedOf(b)       == {d \in Rows : db.row[d].board = b /\ db.row[d].rel = "staged"}
RollbackTarget(l, t) ==
    LET Fits(d) == db.row[d].dep = "superseded" /\ db.row[d].slot # db.row[l].slot
    IN Fits(t) /\ \A d \in Rows \ {t} : Fits(d) => <<d, t>> \in db.past

\* The census: a turn, a stage, another switch.
Busy(o) == \/ turn # "none"
           \/ \E d \in Rows : db.row[d].stage = "running"
           \/ \E p \in Ops \ {o} : db.op[p].state = "running"

(***************************************************************************)
(* What users do.                                                          *)
(***************************************************************************)
AdmitTurn(w) ==
    /\ Serving /\ ~closed /\ turn = "none" /\ w \notin given
    /\ turn' = w /\ given' = given \cup {w}
    /\ UNCHANGED <<db, disk, srv, closed, prob, stg, swc, sw, faults>>

FinishTurn ==
    /\ Serving /\ turn # "none"
    /\ db' = [db EXCEPT !.work = @ \cup {turn}] /\ turn' = "none"
    /\ UNCHANGED <<disk, srv, closed, prob, given, stg, swc, sw, faults>>

(***************************************************************************)
(* release_stage.                                                          *)
(***************************************************************************)
\* Model bound: nobody asks for a release between a switcher's flip and its verdict, a
\* minute at most.
Asked(b) == Serving /\ b \in Boards /\ \A o \in Ops : sw[o] \in {"none", "wait", "done"}

\* Under one admission: the candidate it replaces, the row, its running operation.
PlanRelease(d, b, s) ==
    /\ Asked(b) /\ ~closed /\ <<b, s>> \in Asks[d]
    /\ db.row[d].rel = "absent" /\ \A e \in Rows : e < d => db.row[e].rel # "absent"
    /\ db' = [db EXCEPT !.row = [e \in Rows |->
                IF e = d THEN [NoRow EXCEPT !.rel = "planned", !.board = b, !.sha = s, !.stage = "running"]
                ELSE IF @[e].board = b /\ @[e].rel \in {"planned", "staged"} /\ ~OpRunning(db, e)
                     THEN [@[e] EXCEPT !.rel = "superseded"]
                     ELSE @[e]]]
    /\ stg' = [stg EXCEPT ![d] = "admitted"]
    /\ UNCHANGED <<disk, srv, closed, prob, turn, given, swc, sw, faults>>

BeginStagingKeepsCandidate(d) ==     \* the candidate staged in the slot stays "staged"
    /\ Serving /\ stg[d] = "admitted" /\ ~LockHeld(db, d)
    /\ db' = [db EXCEPT !.row[d].rel = "staging", !.row[d].dep = "staging", !.row[d].slot = Other(current)]
    /\ stg' = [stg EXCEPT ![d] = "build"]
    /\ UNCHANGED <<disk, srv, closed, prob, turn, given, swc, sw, faults>>

\* begin_release_staging takes both locks, or the operation and the release fail.
BeginStaging(d) ==
    /\ Serving /\ stg[d] = "admitted"
    /\ IF LockHeld(db, d)
       THEN /\ db' = [db EXCEPT !.row[d].rel = "failed", !.row[d].stage = "failed"]
            /\ stg' = [stg EXCEPT ![d] = "none"]
       ELSE /\ db' = [Superseded(db, StagedIn(db, Other(current)))
                        EXCEPT !.row[d].rel = "staging", !.row[d].dep = "staging",
                               !.row[d].slot = Other(current)]
            /\ stg' = [stg EXCEPT ![d] = "build"]
    /\ UNCHANGED <<disk, srv, closed, prob, turn, given, swc, sw, faults>>

\* stage_slot, in a thread: the slot is unusable from its checkout to its probes.
StageSlot(d) ==
    /\ stg[d] = "build"
    /\ content' = [content EXCEPT ![db.row[d].slot] = "junk"]
    /\ stg' = [stg EXCEPT ![d] = "building"]
    /\ UNCHANGED <<db, current, jr, aged, snap, srv, closed, prob, turn, given, swc, sw, faults>>

StageDone(d) ==      \* mark_release_staged
    /\ Serving /\ stg[d] = "building"
    /\ content' = [content EXCEPT ![db.row[d].slot] = db.row[d].sha]
    /\ db' = [db EXCEPT !.row[d].rel = "staged", !.row[d].dep = "staged"]
    /\ stg' = [stg EXCEPT ![d] = "settle"]
    /\ UNCHANGED <<current, jr, aged, snap, srv, closed, prob, turn, given, swc, sw, faults>>

StageFailed(d) ==    \* mark_release_failed
    /\ Serving /\ stg[d] = "building" /\ Fault
    /\ db' = [db EXCEPT !.row[d].rel = "failed", !.row[d].dep = "failed"]
    /\ stg' = [stg EXCEPT ![d] = "settle"]
    /\ UNCHANGED <<disk, srv, closed, prob, turn, given, swc, sw>>

FinishStage(d) ==
    /\ Serving /\ stg[d] = "settle"
    /\ db' = [db EXCEPT !.row[d].stage = IF db.row[d].rel = "failed" THEN "failed" ELSE "succeeded"]
    /\ stg' = [stg EXCEPT ![d] = "none"]
    /\ UNCHANGED <<disk, srv, closed, prob, turn, given, swc, sw, faults>>

(***************************************************************************)
(* release_switch and release_rollback, up to the point of no return.      *)
(***************************************************************************)
Unused(o)    == db.op[o].kind = "none" /\ \A p \in Ops : p < o => db.op[p].kind # "none"
ViaCurrent   == srv.slot = current        \* deploy_precheck
Started(o, k, d, t) ==
    /\ db' = [db EXCEPT !.op[o] = [kind |-> k, of |-> d, state |-> "running"]]
    /\ swc' = [swc EXCEPT ![o] = [pc |-> "census", target |-> t, from |-> current]]
    /\ UNCHANGED <<disk, srv, closed, prob, turn, given, stg, sw, faults>>

\* Neither call claims the admission gate for its own operation.
RequestSwitch(o, b) ==
    /\ Asked(b) /\ Unused(o) /\ ViaCurrent
    /\ StagedOf(b) # {}
    /\ LET d == Newest(StagedOf(b)) IN
       /\ db.row[d].slot # current
       /\ ~OpRunning(db, d)
       /\ Started(o, "switch", d, d)

RequestRollback(o, b) ==
    /\ Asked(b) /\ Unused(o) /\ ViaCurrent
    /\ \E l \in LiveRows(db), t \in Rows :
         /\ RollbackTarget(l, t)
         /\ db.row[l].slot = current
         /\ db.row[l].rel # "none" /\ db.row[l].board = b
         /\ db.row[t].rel # "none" => db.row[t].board = b
         /\ ~OpRunning(db, l)
         /\ Started(o, "rollback", l, t)

Step(o, pc)    == swc' = [swc EXCEPT ![o].pc = pc]
Abort(o)       == /\ db' = [db EXCEPT !.op[o].state = "failed"]   \* _fail_release_switch
                  /\ swc' = [swc EXCEPT ![o] = NoCall]

\* A switch may have been asked to drain first.
FirstCensus(o) ==
    /\ Serving /\ swc[o].pc = "census"
    /\ \/ ~Busy(o) /\ Step(o, "close") /\ UNCHANGED db
       \/ Busy(o) /\ db.op[o].kind = "switch" /\ Step(o, "drain") /\ UNCHANGED db
       \/ Busy(o) /\ Abort(o)
    /\ UNCHANGED <<disk, srv, closed, prob, turn, given, stg, sw, faults>>

Drain(o) ==          \* until the census is empty, or the quiesce time is up
    /\ Serving /\ swc[o].pc = "drain"
    /\ IF Busy(o) THEN Abort(o) ELSE Step(o, "close") /\ UNCHANGED db
    /\ UNCHANGED <<disk, srv, closed, prob, turn, given, stg, sw, faults>>

\* CloseAdmission and the census under the closed gate.
FinalCensus(o) ==
    /\ Serving /\ swc[o].pc = "close"
    /\ IF Busy(o) THEN Abort(o) /\ closed' = FALSE
                  ELSE Step(o, "snapshot") /\ closed' = TRUE /\ UNCHANGED db
    /\ UNCHANGED <<disk, srv, prob, turn, given, stg, sw, faults>>

\* A busy checkpoint is an abort; so is, for any other error, nothing at all (Escape).
Snapshot(o) ==
    /\ Serving /\ swc[o].pc = "snapshot"
    /\ \/ snap' = [snap EXCEPT ![o] = db] /\ Step(o, "journal") /\ UNCHANGED <<db, closed, faults>>
       \/ Fault /\ Abort(o) /\ closed' = FALSE /\ UNCHANGED snap
    /\ UNCHANGED <<current, content, jr, aged, srv, prob, turn, given, stg, sw>>

\* The journal's handoff line: _current_sha is the live row's, else the slot's HEAD.
Handoff(o) ==
    /\ Serving /\ swc[o].pc = "journal"
    /\ LET t == swc[o].target
           old == IF LiveRows(db) = {} THEN content[current]
                  ELSE db.row[Newest(LiveRows(db))].sha
       IN jr' = [jr EXCEPT ![o] = [tail |-> "handoff", from |-> swc[o].from,
                                   to |-> db.row[t].slot, old |-> old, new |-> db.row[t].sha]]
    /\ Step(o, "begin")
    /\ UNCHANGED <<db, current, content, aged, snap, srv, closed, prob, turn, given, stg, sw, faults>>

\* Leaving the handoff by any error but DeploySwitchAbort: admission opens again, the
\* operation is not settled.
Escaped(o) == /\ closed' = FALSE
              /\ swc' = [swc EXCEPT ![o] = NoCall]

\* begin_release_switching: both rows by compare-and-set, under both locks.
BeginSwitching(o) ==
    /\ Serving /\ swc[o].pc = "begin"
    /\ LET t == swc[o].target
           expected == IF db.op[o].kind = "switch" THEN "staged" ELSE "superseded"
       IN IF LockHeld(db, t) THEN Abort(o) /\ closed' = FALSE
          ELSE IF db.row[t].dep # expected \/ db.row[t].rel \notin {expected, "none"}
          THEN Escaped(o) /\ UNCHANGED db
          ELSE /\ db' = [db EXCEPT !.row[t].dep = "switching", !.row[t].bound = o,
                                   !.row[t].rel = IF db.row[t].rel = "none" THEN "none" ELSE "switching"]
               /\ Step(o, "spawn") /\ UNCHANGED closed
    /\ UNCHANGED <<disk, srv, prob, turn, given, stg, sw, faults>>

Escape(o) ==
    /\ Serving /\ swc[o].pc \in {"snapshot", "journal", "begin", "spawn"} /\ Fault
    /\ Escaped(o)
    /\ UNCHANGED <<db, disk, srv, prob, turn, given, stg, sw>>

\* broadcast_restarting follows, then the same SIGTERM an operator would send.
SpawnSwitcher(o) ==
    /\ Serving /\ swc[o].pc = "spawn"
    /\ sw' = [sw EXCEPT ![o] = "wait"]
    /\ srv' = [srv EXCEPT !.phase = "stopping"]
    /\ swc' = [swc EXCEPT ![o] = NoCall]
    /\ UNCHANGED <<db, disk, closed, prob, turn, given, stg, faults>>

(***************************************************************************)
(* The server process.                                                     *)
(***************************************************************************)
Gone == /\ srv' = [srv EXCEPT !.phase = "down", !.at = 1]
        /\ closed' = FALSE /\ prob' = NoOp /\ turn' = "none"
        /\ stg' = [d \in Rows |-> "none"]
        /\ swc' = [o \in Ops |-> NoCall]

Exit == /\ srv.phase = "stopping" /\ Gone
        /\ UNCHANGED <<db, disk, given, sw, faults>>

Crash == /\ srv.phase \in {"boot", "up", "stopping"} /\ Fault /\ Gone
         /\ UNCHANGED <<db, disk, given, sw>>

Reboot == /\ Fault /\ Gone       \* of the machine: the switcher goes too
          /\ sw' = [o \in Ops |-> IF sw[o] = "none" THEN "none" ELSE "done"]
          /\ UNCHANGED <<db, disk, given>>

\* _serve_command and _spawn_detached:
Start == srv' = [phase |-> "boot", slot |-> current, at |-> 1]   \* run.sh execs current's slot

\* Nobody starts a second server while a switcher is at work.
Restart == /\ srv.phase = "down" /\ \A o \in Ops : sw[o] \in {"none", "done"}
           /\ Start
           /\ UNCHANGED <<db, disk, closed, prob, turn, given, stg, swc, sw, faults>>

BootFails == /\ srv.phase = "boot" /\ content[srv.slot] \in Broken \cup {"junk"} /\ Gone
             /\ UNCHANGED <<db, disk, given, sw, faults>>

(***************************************************************************)
(* What a boot makes of an operation that is still running.                *)
(***************************************************************************)
\* The row bound to it, or the newest for the same slot and revision.
BoundTo(D, o) == {d \in Rows : D.row[d].bound = o}
Located(D, o) ==
    IF BoundTo(D, o) # {} THEN BoundTo(D, o)
    ELSE {d \in Rows : /\ jr[o].tail # "none"
                       /\ D.row[d].slot = jr[o].to /\ D.row[d].sha = jr[o].new
                       /\ D.row[d].dep \in {"staged", "switching", "superseded"}}

Made(r, o, dep) ==         \* a row from before releases has none to set
    [r EXCEPT !.dep = dep, !.bound = o, !.rel = IF r.rel = "none" THEN "none" ELSE dep]

\* _finalize_release_switch: operation, deployment and release in one transaction.
Finalized(D, o, state, dep) ==
    LET found      == Located(D, o)
        d          == Newest(found)
        E          == [D EXCEPT !.op[o].state = state]
        Retired(X) == [X EXCEPT !.row = [e \in Rows |-> IF @[e].rel = "live"
                                           THEN [@[e] EXCEPT !.rel = "superseded"] ELSE @[e]]]
    IN IF found = {} THEN IF dep = "live" THEN Retired(E) ELSE E
       ELSE [(IF dep = "live" THEN Retired(Superseded(E, LiveRows(E) \ {d})) ELSE E)
               EXCEPT !.row[d] = Made(@, o, dep)]

\* The finalize_release_* that belongs to the last line of the journal: what becomes of the
\* operation and of the row it was to make live.
Outcome(o) ==
    CASE jr[o].tail = "switched_ok"         -> [op |-> "succeeded",   row |-> "live"]
      [] jr[o].tail = "rolled_back"         -> [op |-> "failed",      row |-> "rolled_back"]
      [] jr[o].tail = "rollback_incomplete" -> [op |-> "failed",      row |-> "failed"]
      [] jr[o].tail = "old_wont_die"        -> [op |-> "failed",      row |-> "staged"]
      [] OTHER                              -> [op |-> "interrupted", row |-> "failed"]

AppliedAsIs(D, o) ==       \* the operation's outcome written to the row
    Finalized(D, o, "interrupted", "interrupted")

\* _apply_switch_terminal: the verdict of the switcher settles the operation.
Applied(D, o) == Finalized(D, o, Outcome(o).op, Outcome(o).row)

OnProbation(o) == jr[o].tail = "flip_done" /\ o \notin aged

Boots == srv.phase = "boot" /\ content[srv.slot] \notin Broken \cup {"junk"}

\* reconcile_release_switch_ops, in the order of creation, each in a transaction of its own:
\* the last one it finds on probation is the one this boot is on probation for.
Reconcile(o) ==
    /\ Boots /\ srv.at = o
    /\ LET running == db.op[o].state = "running" IN
       /\ db'   = IF running /\ ~OnProbation(o) THEN Applied(db, o) ELSE db
       /\ prob' = IF running /\ OnProbation(o) THEN o ELSE prob
    /\ srv' = [srv EXCEPT !.at = o + 1]
    /\ UNCHANGED <<disk, closed, turn, given, stg, swc, sw, faults>>

InterruptStages ==         \* interrupt_running_release_stage_ops
    /\ Boots /\ srv.at = Switches + 1
    /\ db' = [db EXCEPT !.row = [d \in Rows |-> IF db.row[d].stage = "running"
                THEN [db.row[d] EXCEPT !.stage = "interrupted"] ELSE db.row[d]]]
    /\ srv' = [srv EXCEPT !.at = Switches + 2]
    /\ UNCHANGED <<disk, closed, prob, turn, given, stg, swc, sw, faults>>

OrphansFailed ==           \* fail_orphan_staging_releases
    LET Dead(x) == IF x = "staging" THEN "failed" ELSE x
    IN [db EXCEPT !.row = [d \in Rows |->
          [db.row[d] EXCEPT !.rel = Dead(db.row[d].rel), !.dep = Dead(db.row[d].dep)]]]

RecoverAdmits ==           \* the gate is left open on probation
    /\ Boots /\ srv.at = Switches + 2
    /\ db' = OrphansFailed
    /\ srv' = [srv EXCEPT !.phase = "up", !.at = 1]
    /\ UNCHANGED <<disk, closed, prob, turn, given, stg, swc, sw, faults>>

\* The end of the lifespan's recovery; /health answers only after it.
Recover ==
    /\ Boots /\ srv.at = Switches + 2
    /\ db' = OrphansFailed
    /\ closed' = (prob # NoOp)
    /\ srv' = [srv EXCEPT !.phase = "up", !.at = 1]
    /\ UNCHANGED <<disk, prob, turn, given, stg, swc, sw, faults>>

ProbationWaits ==          \* no end of the window
    /\ Serving /\ prob # NoOp /\ jr[prob].tail \in Verdicts
    /\ db' = Applied(db, prob)
    /\ prob' = NoOp /\ closed' = FALSE
    /\ UNCHANGED <<disk, srv, turn, given, stg, swc, sw, faults>>

\* run_deploy_probation: a verdict, or the end of the window the flip_done line began.
ProbationEnds ==
    /\ Serving /\ prob # NoOp
    /\ jr[prob].tail \in Verdicts \/ prob \in aged
    /\ db' = Applied(db, prob)
    /\ prob' = NoOp /\ closed' = FALSE
    /\ UNCHANGED <<disk, srv, turn, given, stg, swc, sw, faults>>

HealthWindowPasses(o) ==
    /\ jr[o].tail = "flip_done" /\ o \notin aged
    /\ aged' = aged \cup {o}
    /\ UNCHANGED <<db, current, content, jr, snap, proc, given, sw, faults>>

(***************************************************************************)
(* The switcher: every step is journaled before it is taken.               *)
(***************************************************************************)
Journal(o, step) == jr' = [jr EXCEPT ![o].tail = step]
At(o, pc, next)  == sw[o] = pc /\ sw' = [sw EXCEPT ![o] = next]

SwitchError(o) ==    \* the handoff or the slots do not check out
    /\ At(o, "wait", "done") /\ Fault /\ Journal(o, "switch_error")
    /\ UNCHANGED <<db, current, content, aged, snap, proc, given>>

OldWontDie(o) ==
    /\ srv.phase # "down" /\ At(o, "wait", "done") /\ Journal(o, "old_wont_die")
    /\ UNCHANGED <<db, current, content, aged, snap, proc, given, faults>>

FlipDone(o) ==
    /\ srv.phase = "down" /\ At(o, "wait", "flip") /\ Journal(o, "flip_done")
    /\ UNCHANGED <<db, current, content, aged, snap, proc, given, faults>>

Flip(o) ==           \* and start the new server
    /\ At(o, "flip", "poll") /\ current' = jr[o].to
    /\ srv' = [phase |-> "boot", slot |-> jr[o].to, at |-> 1]
    /\ UNCHANGED <<db, content, jr, aged, snap, closed, prob, turn, given, stg, swc, faults>>

\* /health reports the revision of the slot the symlink names.
Healthy(sha) == Serving /\ content[current] = sha

SwitchedOk(o) ==
    /\ At(o, "poll", "done") /\ Healthy(jr[o].new) /\ Journal(o, "switched_ok")
    /\ UNCHANGED <<db, current, content, aged, snap, proc, given, faults>>

\* The switcher's window opens after the flip_done line, so it closes after probation's.
RollbackBegin(o) ==
    /\ At(o, "poll", "kill") /\ (srv.phase = "down" \/ o \in aged)
    /\ Journal(o, "rollback_begin")
    /\ UNCHANGED <<db, current, content, aged, snap, proc, given, faults>>

TerminateNew(o) ==
    /\ At(o, "kill", "flip_back") /\ Gone
    /\ UNCHANGED <<db, disk, given, faults>>

PortHeld(o) ==
    /\ At(o, "flip_back", "done") /\ Fault /\ Journal(o, "rollback_incomplete")
    /\ UNCHANGED <<db, current, content, aged, snap, proc, given>>

FlipBackForgotten(o) ==
    At(o, "flip_back", "restore") /\ UNCHANGED <<db, disk, proc, given, faults>>

FlipBack(o) ==
    /\ At(o, "flip_back", "restore") /\ current' = jr[o].from
    /\ UNCHANGED <<db, content, jr, aged, snap, proc, given, faults>>

RestoreSnapshot(o) ==      \* and restart the old server
    /\ At(o, "restore", "poll_old") /\ db' = snap[o] /\ Start
    /\ UNCHANGED <<disk, closed, prob, turn, given, stg, swc, faults>>

RolledBack(o) ==
    /\ At(o, "poll_old", "done") /\ Healthy(jr[o].old) /\ Journal(o, "rolled_back")
    /\ UNCHANGED <<db, current, content, aged, snap, proc, given, faults>>

\* The restarted server exits, or does not answer with its revision in time.
RollbackIncomplete(o) ==
    /\ At(o, "poll_old", "done") /\ ~Healthy(jr[o].old)
    /\ Journal(o, "rollback_incomplete")
    /\ UNCHANGED <<db, current, content, aged, snap, proc, given, faults>>

Staging(d)   == BeginStaging(d) \/ StageSlot(d) \/ StageDone(d) \/ StageFailed(d) \/ FinishStage(d)
Calling(o)   == \/ FirstCensus(o) \/ Drain(o) \/ FinalCensus(o)
                \/ Snapshot(o) \/ Handoff(o) \/ BeginSwitching(o) \/ SpawnSwitcher(o) \/ Escape(o)
Switcher(o)  == \/ OldWontDie(o) \/ FlipDone(o) \/ Flip(o) \/ SwitchedOk(o)
                \/ RollbackBegin(o) \/ TerminateNew(o) \/ FlipBack(o) \/ RestoreSnapshot(o)
                \/ RolledBack(o) \/ RollbackIncomplete(o)
                \/ SwitchError(o) \/ PortHeld(o)
Boot         == \/ BootFails \/ (\E o \in Ops : Reconcile(o)) \/ InterruptStages \/ Recover
                \/ ProbationEnds

Next ==
    \/ \E w \in Works : AdmitTurn(w)
    \/ FinishTurn
    \/ \E d \in Rows, b \in Boards, s \in Shas : PlanRelease(d, b, s)
    \/ \E d \in Rows : Staging(d)
    \/ \E o \in Ops, b \in Boards : RequestRollback(o, b) \/ RequestSwitch(o, b)
    \/ \E o \in Ops : Calling(o) \/ Switcher(o) \/ HealthWindowPasses(o)
    \/ Exit \/ Crash \/ Reboot \/ Restart \/ Boot

\* Calls in progress, the switcher and the server run on; a clock runs; somebody starts a
\* server that is down.  Nobody has to ask for a stage, a switch or a turn.
Fairness ==
    /\ WF_vars(\E d \in Rows : Staging(d))
    /\ WF_vars(\E o \in Ops : Calling(o))
    /\ WF_vars(\E o \in Ops : Switcher(o))
    /\ WF_vars(\E o \in Ops : HealthWindowPasses(o))
    /\ WF_vars(Exit \/ Restart) /\ WF_vars(Boot)

Spec == Init /\ [][Next]_vars /\ Fairness

(***************************************************************************)
(* Properties.                                                             *)
(***************************************************************************)
Releases   == [rel : RowStates, dep : RowStates \ {"none", "planned"}, board : Boards, sha : Shas,
               slot : Slots, bound : Ops \cup {NoOp}, stage : OpStates]
Operations == [kind : {"none", "switch", "rollback"}, of : Rows \cup {0}, state : OpStates]
Databases  == [row : [Rows -> Releases], op : [Ops -> Operations], past : SUBSET (Rows \X Rows),
               work : SUBSET Works]
Entries    == [tail : Steps, from : Slots, to : Slots, old : Shas \cup {"junk"}, new : Shas]
Calls      == [pc : {"none", "census", "drain", "close", "snapshot", "journal", "begin", "spawn"},
               target : Rows \cup {0}, from : Slots]
Servers    == [phase : {"down", "boot", "up", "stopping"}, slot : Slots, at : 1..Switches + 2]

TypeOK ==
    /\ db \in Databases /\ db.work \subseteq given /\ given \subseteq Works
    /\ current \in Slots /\ content \in [Slots -> Shas \cup {"junk"}]
    /\ jr \in [Ops -> Entries] /\ aged \subseteq Ops
    /\ snap \in [Ops -> Databases \cup {<<>>}]
    /\ srv \in Servers /\ closed \in BOOLEAN /\ prob \in Ops \cup {NoOp}
    /\ turn \in given \cup {"none"}
    /\ stg \in [Rows -> {"none", "admitted", "build", "building", "settle"}]
    /\ swc \in [Ops -> Calls]
    /\ sw \in [Ops -> {"none", "wait", "flip", "poll", "kill", "flip_back", "restore", "poll_old",
                       "done"}]
    /\ faults \in 0..Faults

\* A release and its deployment agree with each other, with the operation that holds them and
\* with the disk, whatever a crash, a restored snapshot or a boot makes of them.  The two locks
\* are taken and given back together, by one release at a time, and only while the operation
\* that took them runs; what a switch is about to make live is what its slot holds, however
\* many stages of this and other boards ran since (a release that was rolled back to before is
\* another matter: see RollbackTarget).
LocksAgree ==
    /\ \A d \in Rows : db.row[d].rel # "none" =>
         \A x \in Locked : (db.row[d].rel = x) <=> (db.row[d].dep = x)
    /\ srv.phase \in {"up", "stopping"} =>
         \A d \in Rows : db.row[d].dep = "staging" => db.row[d].stage = "running"
    /\ \A d \in Rows : db.row[d].dep = "switching" => db.op[db.row[d].bound].state = "running"
    /\ \A d, e \in Rows : db.row[d].dep \in Locked /\ db.row[e].dep \in Locked => d = e
    /\ \A d, e \in LiveRows(db) : d = e

WasRollbackTarget(d) ==
    \E o \in Ops : /\ db.op[o].kind = "rollback" /\ jr[o].tail # "none"
                   /\ jr[o].to = db.row[d].slot /\ jr[o].new = db.row[d].sha
SwitchingIsBuilt ==
    \A d \in Rows : db.row[d].dep = "switching" /\ ~WasRollbackTarget(d)
        => content[db.row[d].slot] = db.row[d].sha

ReleaseRowsAgree == LocksAgree /\ SwitchingIsBuilt

\* Where no switch is in doubt, the live row names the slot and the revision that serve:
\* after a switch, after a complete rollback and its restored database, after any crash.
InDoubt(o) == \/ db.op[o].state = "running"
              \/ jr[o].tail = "rollback_incomplete"
              \/ db.op[o].state = "interrupted" /\ jr[o].tail \in {"flip_done", "rollback_begin", "switched_ok"}
LiveIsServed ==
    Serving /\ (\A o \in Ops : ~InDoubt(o)) =>
        \E d \in LiveRows(db) : db.row[d].slot = current /\ srv.slot = current
                                /\ content[current] = db.row[d].sha

\* A restored snapshot takes nothing a user did, as long as the health window is open.
RestoreLosesNothing ==
    [][\A o \in Ops : RestoreSnapshot(o) /\ o \notin aged => db.work \subseteq db'.work]_vars

\* A switcher that was spawned comes to its end and its operation is settled for good,
\* also when a rollback brings the operation back to life with the old database.
SpawnedSettles ==
    \A o \in Ops : sw[o] = "wait" ~> [](sw[o] = "done" /\ db.op[o].state # "running")
=============================================================================
