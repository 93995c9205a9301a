------------------------------ MODULE TurnInputs ------------------------------
(***************************************************************************)
(* What a turn starts from, composed: the attempts and parks of the turns  *)
(* (TurnAttempts), the forks whose first turn gets the history             *)
(* (ForkSagas), the skills a turn loads (SkillReviews), the answers it     *)
(* waits for (Questions), one process that dies and boots under all of     *)
(* them.                                                                   *)
(***************************************************************************)
EXTENDS SkillReviews, Questions

vars == <<rowVars, turnVars, forkVars, skillVars, questionVars>>

Init == RowsInit /\ TurnsInit /\ ForksInit /\ SkillsInit /\ QuestionsInit

Crash == RowsCrash /\ TurnsCrash /\ SkillsCrash /\ QuestionsCrash

Turns(s) ==
    \/ (Announced(s) /\ Ask(s)) /\ UNCHANGED questionVars
    \/ TurnStep(s) /\ ToolsEnd /\ UNCHANGED <<pending, timer>>
    \/ Interrupt(s) /\ ToolsEnd /\ Withdrawn(s)

Next ==
    \/ (\E s \in Sessions : Turns(s)) /\ UNCHANGED <<forkVars, skillVars>>
    \/ ((\E f \in Forks : ForkStep(f)) \/ Boot \/ Serve) /\ Evicted /\ UNCHANGED skillVars
    \/ SkillStep /\ UNCHANGED questionVars
    \/ QuestionStep /\ UNCHANGED <<rowVars, turnVars, forkVars, skillVars>>
    \/ Crash

Spec == Init /\ [][Next]_vars

-------------------------------------------------------------------------------
(* Properties *)

\* However a turn was retried, continued, parked and woken, the conversation that an attempt
\* works in has its request, an attempt told to "continue" continues work that is there, and
\* the request is there twice only where putting an id back cannot take it out: in a
\* conversation that the turn resumed, after a retry or a wake-up.  What a turn without an id
\* asks is asked once (session_manager.py, the restores of claude_session_id around line 3029
\* and in resume_parked_turn).
AskedOnce ==
    \A s \in Sessions :
        turn[s].stage = "stream" /\ turn[s].init =>
            /\ conv[s].ask >= 1
            /\ turn[s].now.ask = 0 => conv[s].work
            /\ conv[s].ask > 1 => turn[s].start /\ (turn[s].tries > 0 \/ ~turn[s].prompt.fresh)

\* The two kinds of usage limit, the counters that a wake-up carries over and the reset of the
\* probes by a dated limit bound the parks of one turn together.
ParkingEnds ==
    \A s \in Sessions : parks[s] <= (MaxParks + 1) * (MaxProbes + 1) - 1

\* A fork stops prefixing the copied history only when its backend conversation holds it or the
\* attempt about to run carries it, whatever failed, was interrupted, parked or restarted before
\* (_clear_fork_first_turn_state).
HistoryIsHandedOver ==
    [][\A f \in Forks :
          replay[f] /\ ~replay'[f] /\ row'[f] # "none" =>
              \/ conv'[f].past >= 1
              \/ turn'[f].stage = "ready" /\ turn'[f].now.past >= 1]_vars

\* The stored refresh token is the one the provider will take, unless a turn is about to store
\* the rotated one or was cut off right there, or the provider's answer was lost and the
\* credential says that it must be connected anew; concurrent refreshes by turns that share
\* the credential, and the flag a failure leaves, do not bring back a used token, nor is that
\* flag cleared while the token is used up.
TokensRotate ==
    ~token.current =>
        \/ "cut off" \in lost
        \/ "no answer" \in lost /\ token.needs
        \/ \E s \in Sessions : turn[s].stage = "store"

\* The sagas of the forks, at any interleaving with turns, crashes and boots: a transcript or a
\* stash that was made is remembered by a row, a fork that is ready is whole, and a parent is
\* archived only for a fork that is.
ForksAreWhole ==
    /\ \A f \in Forks :
          /\ artifact[f] => row[f] # "none"
          /\ row[f] = "ready" =>
                /\ kind[f] = "copy" => dir[f] = "whole"
                /\ stash[f] => record[f] # "none"
    /\ \A p \in Sessions :
          row[p] = "archived" => \E f \in Forks : from[f] = p /\ row[f] \in {"ready", "archived"}

\* What a turn loads, and what the review queue calls approved, is on a landing branch with its
\* commit, in spite of concurrent reviews, failures to land and crashes.
SkillsAreLanded ==
    /\ \A c \in Candidates : cand[c].status = "approved" => branch[c] = "landed"
    /\ \A s \in Sessions : \A c \in Loaded(s) : branch[c] = "landed"

\* A tool call that waits for its answer can be answered by a person and will be answered by
\* the clock, whatever other questions, interrupts and answers of other sources come between;
\* and what the model was told is what the transcript shows or is about to show.
QuestionsAreAnswered ==
    \A q \in Asking :
        /\ tool[q] = "waits" => answer[q] # "none" \/ (IsPending(q) /\ q \in timer)
        /\ heard[q] # "none" => <<q, heard[q]>> \in recording \cup shown
===============================================================================
