----------------------------- MODULE SkillReviews -----------------------------
(***************************************************************************)
(* The review of skill candidates (server/skill_registry.py): one slug of  *)
(* one agent.  Approving a candidate is a chain of awaits - worktree,      *)
(* commit, files, rows - that other reviews interleave with and a crash    *)
(* cuts anywhere.                                                          *)
(***************************************************************************)
EXTENDS ForkSagas, FiniteSetsExt

CONSTANTS
    Candidates,  \* candidates of the slug
    Reviewers,   \* bound: approvals under way at once
    NoSkill      \* nothing is materialized

VARIABLES
    cand,     \* skill_candidates rows
    branch,   \* the landing branch of a candidate: none, empty or landed
    disk,     \* the slug in the plugin directories (and their Codex twins)
    review,   \* locals of the approvals under way
    refusals  \* rejections that have read "pending" and not written yet

skillVars == <<cand, branch, disk, review, refusals>>

Global    == "_global"
NoReview  == [step |-> "none"]

SkillsInit ==
    /\ cand = [c \in Candidates |-> [status |-> "none"]]
    /\ branch = [c \in Candidates |-> "none"]
    /\ disk = [l \in Sessions \cup {Global} |-> NoSkill]
    /\ review = [r \in Reviewers |-> NoReview] /\ refusals = {}

Location(scope, home) == IF scope = "agent-global" THEN Global ELSE home

\* get_latest_approved_skill_by_slug for a repository: its own skill before the global one,
\* the last reviewed first.
Landed(home) ==
    {c \in Candidates : /\ cand[c].status = "approved" /\ ~cand[c].over
                        /\ (cand[c].repo = home \/ cand[c].scope = "agent-global")}
Preferred(home) ==
    LET own == {c \in Landed(home) : cand[c].scope = "agent+repo" /\ cand[c].repo = home}
    IN  IF own = {} THEN Landed(home) ELSE own
Latest(S) == IF S = {} THEN NoSkill ELSE CHOOSE c \in S : \A d \in S : cand[d].at <= cand[c].at

\* What a turn of a session loads (resolve_plugin_dir).
Loaded(s) == {disk[Global], disk[repo[s]]} \ {NoSkill}

ReviewTime == 1 + Max({0} \cup {cand[c].at : c \in {d \in Candidates : cand[d].status # "none"}})

-------------------------------------------------------------------------------

\* The tool an agent calls in a turn: the session must be live.
Propose(s, c, scope) ==
    /\ Request /\ mem[s] /\ cand[c].status = "none"
    /\ cand' = [cand EXCEPT ![c] = [status |-> "pending", repo |-> repo[s], scope |-> scope,
                                    over |-> FALSE, at |-> 0]]
    /\ UNCHANGED <<phase, row, mem, conv, replay, forking, crashes, turnVars, forkVars>>
    /\ UNCHANGED <<branch, disk, review, refusals>>

In(r, st) == Up /\ review[r].step = st
Goes(r, st) == review' = [review EXCEPT ![r].step = st]
Over(r)     == review' = [review EXCEPT ![r] = NoReview]

\* approve reads the status and, when the same repository moves its skill elsewhere, whom
\* it will supersede.
Approve(r, c, scope) ==
    LET prior == Latest(Preferred(cand[c].repo))
        moves == /\ prior # NoSkill /\ cand[prior].repo = cand[c].repo
                 /\ Location(cand[prior].scope, cand[prior].repo) # Location(scope, cand[c].repo)
    IN  /\ In(r, "none") /\ cand[c].status = "pending"
        /\ review' = [review EXCEPT ![r] = [step |-> "worktree", cand |-> c, scope |-> scope,
                                            prior |-> IF moves THEN prior ELSE NoSkill]]
        /\ UNCHANGED <<rowVars, turnVars, forkVars, cand, branch, disk, refusals>>

\* Mutant: a worktree that could not be added takes the branch of its name along.
TakenAway(r) == [branch EXCEPT ![review[r].cand] = "none"]
\* The branch of another approval, or of one that a crash cut off, is left alone.
Untouched(r) == branch

\* git worktree add -b: the branch of a candidate can be made once.
AddWorktree(r) ==
    /\ In(r, "worktree")
    /\ IF branch[review[r].cand] = "none"
       THEN branch' = [branch EXCEPT ![review[r].cand] = "empty"] /\ Goes(r, "commit")
       ELSE branch' = Untouched(r) /\ Over(r)
    /\ UNCHANGED <<rowVars, turnVars, forkVars, cand, disk, refusals>>

\* Nothing to commit, or git fails: the branch has to go again.
Commit(r, landed) ==
    /\ In(r, "commit") /\ Goes(r, IF landed THEN "files" ELSE "undo")
    /\ branch' = IF landed THEN [branch EXCEPT ![review[r].cand] = "landed"] ELSE branch
    /\ UNCHANGED <<rowVars, turnVars, forkVars, cand, disk, refusals>>

Undo(r, deleted) ==
    /\ In(r, "undo") /\ Over(r)
    /\ branch' = IF deleted THEN [branch EXCEPT ![review[r].cand] = "none"] ELSE branch
    /\ UNCHANGED <<rowVars, turnVars, forkVars, cand, disk, refusals>>

\* Both stores are written, and the superseded skill removed, without an await between.
Materialize(r) ==
    LET v    == review[r]
        new  == Location(v.scope, cand[v.cand].repo)
        old  == Location(cand[v.prior].scope, cand[v.prior].repo)
    IN  /\ In(r, "files")
        /\ IF v.prior = NoSkill
           THEN disk' = [disk EXCEPT ![new] = v.cand] /\ Goes(r, "write")
           ELSE disk' = [disk EXCEPT ![new] = v.cand, ![old] = NoSkill] /\ Goes(r, "mark")
        /\ UNCHANGED <<rowVars, turnVars, forkVars, cand, branch, refusals>>

MarkSuperseded(r) ==
    /\ In(r, "mark") /\ Goes(r, "write")
    /\ cand' = [cand EXCEPT ![review[r].prior].over = TRUE]
    /\ UNCHANGED <<rowVars, turnVars, forkVars, branch, disk, refusals>>

\* review_skill_candidate, whatever the row says by now.
Reviewed(c, status, scope) ==
    [status |-> status, repo |-> cand[c].repo, scope |-> scope, over |-> cand[c].over,
     at |-> ReviewTime]

Write(r) ==
    /\ In(r, "write") /\ Over(r)
    /\ cand' = [cand EXCEPT ![review[r].cand] = Reviewed(review[r].cand, "approved", review[r].scope)]
    /\ UNCHANGED <<rowVars, turnVars, forkVars, branch, disk, refusals>>

Refuse(c) ==
    /\ Up /\ c \notin refusals /\ cand[c].status = "pending" /\ refusals' = refusals \cup {c}
    /\ UNCHANGED <<rowVars, turnVars, forkVars, cand, branch, disk, review>>

Reject(c) ==
    /\ Up /\ c \in refusals /\ refusals' = refusals \ {c}
    /\ cand' = [cand EXCEPT ![c] = Reviewed(c, "rejected", cand[c].scope)]
    /\ UNCHANGED <<rowVars, turnVars, forkVars, branch, disk, review>>

SkillsCrash ==
    /\ review' = [r \in Reviewers |-> NoReview] /\ refusals' = {}
    /\ UNCHANGED <<cand, branch, disk>>

Scopes == {"agent+repo", "agent-global"}

ReviewStep(r) ==
    \/ \E c \in Candidates, scope \in Scopes : Approve(r, c, scope)
    \/ AddWorktree(r) \/ \E b \in BOOLEAN : Commit(r, b) \/ Undo(r, b)
    \/ Materialize(r) \/ MarkSuperseded(r) \/ Write(r)

SkillStep ==
    \/ \E s \in Sessions, c \in Candidates, scope \in Scopes : Announced(s) /\ Propose(s, c, scope)
    \/ \E r \in Reviewers : ReviewStep(r)
    \/ \E c \in Candidates : Refuse(c) \/ Reject(c)
===============================================================================
