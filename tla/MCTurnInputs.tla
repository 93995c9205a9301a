----------------------------- MODULE MCTurnInputs -----------------------------
(* Two sessions, a fork, two candidates, two reviewers and two questions.  The *)
(* elements of Users, Candidates and Reviewers are interchangeable.            *)
EXTENDS TurnInputs, TLC

Symmetry == Permutations(Users) \cup Permutations(Reviewers) \cup Permutations(Candidates)

\* Bound: turns and reviews share the process, the sessions and their repositories only, and
\* two turns their credential only, so a state in which a review joins other requests than
\* forks, two turns have their backends, a repeated request meets another one or a lost token
\* meets a fork or a park is checked and not continued; questions are followed in a first turn
\* that no other request joins and, once it is over, under the rewind of its session, to two
\* answers in all and up to a crash.
Apart ==
    /\ (\E c \in Candidates : cand[c].status # "none") =>
          requests = Cardinality({c \in Candidates : cand[c].status # "none"})
                     + Cardinality({f \in Forks : kind[f] # "none"})
    /\ Cardinality({s \in Sessions : Parked(s) \/ turn[s].stage = "stream"}) <= 1
    /\ (\E s \in Sessions : conv[s].ask > 1) => requests = 1
    /\ lost # {} => \A x \in Sessions : parks[x] = 0 /\ ~Parked(x) /\ (x \in Forks => kind[x] = "none")
    /\ (\E q \in Asking : tool[q] # "none") =>
          /\ token.current /\ ~token.needs /\ crashes = 0 /\ \A f \in Forks : kind[f] # "copy"
          /\ \A c \in Candidates : cand[c].status = "none"
          /\ Cardinality(recording \cup shown) <= 2
          /\ \A s \in Sessions :
                /\ Idle(s) \/ (requests = 1 /\ turn[s].tries = 0 /\ turn[s].bundle = "none")
                /\ ~Parked(s) /\ parks[s] = 0
===============================================================================
