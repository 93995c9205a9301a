----------------------------- MODULE MCBackground -----------------------------
(***************************************************************************)
(* An instance of Background for TLC: a user's session and two delegated   *)
(* ones, each of an agent of its own.                                      *)
(***************************************************************************)
EXTENDS Background, TLC

CONSTANTS root, k1, k2

\* The agents differ, so the two children can be exchanged.
MCAgentOf  == root :> "owner" @@ k1 :> "first" @@ k2 :> "second"
MCSymmetry == Permutations({k1, k2})
===============================================================================
