------------------------------- MODULE ForkSagas -------------------------------
(***************************************************************************)
(* /rewind (SessionManager.fork_session) and /fork (duplicate_session):    *)
(* sagas over the sessions table, the backend's transcripts and the        *)
(* working directory, undone step by step when one fails, and swept or     *)
(* finished at boot (_recover_incomplete_forks) when the process dies.     *)
(***************************************************************************)
EXTENDS TurnAttempts

VARIABLES
    saga,      \* how far the coroutine that makes a fork is
    kind,      \* rewind or copy
    from,      \* forked_from_session_id
    dir,       \* a copy's working directory
    repo,      \* whose repository a session's working_dir is in
    artifact,  \* a copy's transcript or rollout
    stash,     \* git moved the agent's edits away
    record,    \* fork_revert_record
    todo       \* forks that the boot has still to look at

forkVars == <<saga, kind, from, dir, repo, artifact, stash, record, todo>>

ForksInit ==
    /\ saga = [f \in Forks |-> "none"] /\ kind = [f \in Forks |-> "none"]
    /\ from = [f \in Forks |-> f] /\ dir = [f \in Forks |-> "none"]
    /\ artifact = [f \in Forks |-> FALSE] /\ stash = [f \in Forks |-> FALSE]
    /\ record = [f \in Forks |-> "none"] /\ todo = {}
    /\ repo = [s \in Sessions |-> s]

\* A client learns of a fork from the answer or the broadcast at the end of its saga.
Announced(s) == s \in Users \cup {f \in Forks : saga[f] = "none"}

Step(f, st)  == saga' = [saga EXCEPT ![f] = st]
Running(f, st) == Up /\ saga[f] = st
\* The finally clause.
SagaEnds(f) == Step(f, "none") /\ forking' = [forking EXCEPT ![from[f]] = FALSE]

\* The idle guard, under the parent's lock; a park is not looked at.
ForkStart(p, f, k) ==
    /\ Request /\ mem[p] /\ Announced(p) /\ ~forking[p] /\ Idle(p) /\ queue[p] = <<>>
    /\ kind[f] = "none"
    /\ forking' = [forking EXCEPT ![p] = TRUE]
    /\ kind' = [kind EXCEPT ![f] = k] /\ from' = [from EXCEPT ![f] = p]
    /\ dir' = [dir EXCEPT ![f] = IF k = "copy" THEN "part" ELSE "shared"]
    /\ Step(f, IF k = "copy" THEN "copy" ELSE "insert")
    /\ UNCHANGED <<phase, row, mem, conv, replay, crashes, turnVars, repo, artifact, stash, record, todo>>

CopyTree(f) ==
    /\ Running(f, "copy") /\ dir' = [dir EXCEPT ![f] = "whole"] /\ Step(f, "insert")
    /\ UNCHANGED <<rowVars, turnVars, kind, from, repo, artifact, stash, record, todo>>

\* The copy or the insert fails: nothing but the directory is there to take back.
Abandon(f) ==
    /\ (Running(f, "copy") \/ Running(f, "insert"))
    /\ dir' = [dir EXCEPT ![f] = "none"] /\ SagaEnds(f)
    /\ UNCHANGED <<phase, row, mem, conv, replay, requests, crashes>>
    /\ UNCHANGED <<turnVars, kind, from, repo, artifact, stash, record, todo>>

\* create_fork_session: the row with the id it is about to use, and the copied messages.  A
\* rewind works in its parent's working_dir, a copy in the directory it brought.
Insert(f) ==
    /\ Running(f, "insert") /\ Step(f, "prepare")
    /\ repo' = [repo EXCEPT ![f] = IF kind[f] = "copy" THEN f ELSE repo[from[f]]]
    /\ row' = [row EXCEPT ![f] = "initializing"] /\ mem' = [mem EXCEPT ![f] = TRUE]
    /\ conv' = [conv EXCEPT ![f] = [Nothing EXCEPT !.id = TRUE]]
    /\ UNCHANGED <<phase, replay, forking, requests, crashes>>
    /\ UNCHANGED <<turnVars, kind, from, dir, artifact, stash, record, todo>>

\* A copy gets the parent's transcript, if there is one, under its own id; a rewind, and a
\* copy of a parent without an id or a transcript, gets the history in its first prompt.
Prepare(f, native) ==
    /\ Running(f, "prepare") /\ Step(f, "promote")
    /\ native => kind[f] = "copy" /\ conv[from[f]].id
    /\ artifact' = [artifact EXCEPT ![f] = native]
    /\ conv' = [conv EXCEPT ![f] = IF native THEN Settled(conv[from[f]]) ELSE Nothing]
    /\ replay' = [replay EXCEPT ![f] = ~native]
    /\ UNCHANGED <<phase, row, mem, forking, requests, crashes>>
    /\ UNCHANGED <<turnVars, kind, from, dir, repo, stash, record, todo>>

\* The compensation: first the artifacts, and only when they are gone the row; otherwise the
\* row stays for the next boot.
PrepareFails(f, swept) ==
    /\ Running(f, "prepare") /\ kind[f] = "copy"
    /\ IF swept THEN Step(f, "drop") /\ UNCHANGED <<mem, forking>>
                ELSE SagaEnds(f) /\ mem' = [mem EXCEPT ![f] = FALSE]
    /\ artifact' = [artifact EXCEPT ![f] = ~swept]
    /\ UNCHANGED <<phase, row, conv, replay, requests, crashes>>
    /\ UNCHANGED <<turnVars, kind, from, dir, repo, stash, record, todo>>

DropRow(f) ==
    /\ Running(f, "drop") /\ SagaEnds(f)
    /\ row' = [row EXCEPT ![f] = "none"] /\ mem' = [mem EXCEPT ![f] = FALSE]
    /\ dir' = [dir EXCEPT ![f] = "none"]
    /\ UNCHANGED <<phase, conv, replay, requests, crashes>>
    /\ UNCHANGED <<turnVars, kind, from, repo, artifact, stash, record, todo>>

Promote(f, revert) ==
    /\ Running(f, "promote") /\ (revert => kind[f] = "rewind")
    /\ row' = [row EXCEPT ![f] = IF revert THEN "reverting" ELSE "ready"]
    /\ IF kind[f] = "copy" THEN SagaEnds(f)
       ELSE Step(f, IF revert THEN "revert" ELSE "archive") /\ UNCHANGED forking
    /\ UNCHANGED <<phase, mem, conv, replay, requests, crashes>>
    /\ UNCHANGED <<turnVars, kind, from, dir, repo, artifact, stash, record, todo>>

\* safe_revert_files stashes, refuses or fails.
RevertFiles(f, done) ==
    /\ Running(f, "revert") /\ stash' = [stash EXCEPT ![f] = done] /\ Step(f, "record")
    /\ UNCHANGED <<rowVars, turnVars, kind, from, dir, repo, artifact, record, todo>>

RecordRevert(f) ==
    /\ Running(f, "record") /\ Step(f, "archive")
    /\ record' = [record EXCEPT ![f] = IF stash[f] THEN "completed" ELSE "refused"]
    /\ row' = [row EXCEPT ![f] = "ready"]
    /\ UNCHANGED <<phase, mem, conv, replay, forking, requests, crashes>>
    /\ UNCHANGED <<turnVars, kind, from, dir, repo, artifact, stash, todo>>

\* _archive_forked_parent: a turn that slipped in is cut off, its queue is emptied, its park
\* stays.
ArchiveParent(f) ==
    LET p == from[f] IN
    /\ Running(f, "archive") /\ SagaEnds(f)
    /\ row' = [row EXCEPT ![p] = "archived"] /\ mem' = [mem EXCEPT ![p] = FALSE]
    /\ turn' = [turn EXCEPT ![p] = NoTurn] /\ queue' = [queue EXCEPT ![p] = <<>>]
    /\ lost' = CutOff(turn[p].stage = "store")
    /\ UNCHANGED <<phase, conv, replay, requests, crashes, park, kept, token, parks>>
    /\ UNCHANGED <<kind, from, dir, repo, artifact, stash, record, todo>>

\* Its failure is only logged: the parent lingers.
ArchiveFails(f) ==
    /\ Running(f, "archive") /\ SagaEnds(f)
    /\ UNCHANGED <<phase, row, mem, conv, replay, requests, crashes>>
    /\ UNCHANGED <<turnVars, kind, from, dir, repo, artifact, stash, record, todo>>

-------------------------------------------------------------------------------
(* Crash and boot *)

RowsCrash ==
    /\ phase # "down" /\ crashes < MaxCrashes /\ crashes' = crashes + 1
    /\ phase' = "down" /\ mem' = [s \in Sessions |-> FALSE]
    /\ forking' = [s \in Sessions |-> FALSE]
    /\ saga' = [f \in Forks |-> "none"] /\ todo' = {}
    /\ UNCHANGED <<row, conv, replay, requests, kind, from, dir, repo, artifact, stash, record>>

\* initialize: every row that is not archived is a session, an incomplete fork too.
Boot ==
    /\ phase = "down" /\ phase' = "recover"
    /\ mem' = [s \in Sessions |-> row[s] \notin {"none", "archived"}]
    /\ todo' = {f \in Forks : row[f] \in {"initializing", "reverting"}}
    /\ UNCHANGED <<row, conv, replay, forking, requests, crashes, turnVars>>
    /\ UNCHANGED <<saga, kind, from, dir, repo, artifact, stash, record>>

\* Mutant: the row goes whether or not the artifacts could be removed.
SweptBlindly(f, swept) == row[f] = "initializing"
\* The cleanup went through, so nothing is left that only the row remembers.
Swept(f, swept) == row[f] = "initializing" /\ swept

RecoverFork(f, swept) ==
    /\ phase = "recover" /\ f \in todo /\ todo' = todo \ {f}
    /\ artifact' = [artifact EXCEPT ![f] = @ /\ ~(row[f] = "initializing" /\ swept)]
    /\ IF Swept(f, swept)
       THEN /\ row' = [row EXCEPT ![f] = "none"] /\ mem' = [mem EXCEPT ![f] = FALSE]
            /\ dir' = [dir EXCEPT ![f] = "none"] /\ UNCHANGED record
       ELSE /\ row' = [row EXCEPT ![f] = IF @ = "reverting" THEN "ready" ELSE @]
            /\ record' = [record EXCEPT ![f] = IF row[f] = "reverting" THEN "unknown" ELSE @]
            /\ UNCHANGED <<mem, dir>>
    /\ UNCHANGED <<phase, conv, replay, forking, requests, crashes, turnVars>>
    /\ UNCHANGED <<saga, kind, from, repo, stash>>

Serve ==
    /\ phase = "recover" /\ todo = {} /\ phase' = "up"
    /\ UNCHANGED <<row, mem, conv, replay, forking, requests, crashes, turnVars, forkVars>>

ForkStep(f) ==
    \/ \E p \in Sessions \ {f}, k \in {"rewind", "copy"} : ForkStart(p, f, k)
    \/ CopyTree(f) \/ Abandon(f) \/ Insert(f) \/ DropRow(f)
    \/ \E b \in BOOLEAN : Prepare(f, b) \/ PrepareFails(f, b) \/ Promote(f, b) \/ RevertFiles(f, b) \/ RecoverFork(f, b)
    \/ RecordRevert(f) \/ ArchiveParent(f) \/ ArchiveFails(f)
===============================================================================
