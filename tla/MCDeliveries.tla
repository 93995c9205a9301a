---------------------------- MODULE MCDeliveries ----------------------------
(* A small instance of Deliveries for TLC. *)
EXTENDS Deliveries

\* Work that is not committed yet, and a run of before the bases were recorded.
DirtyOrLegacy == {[base |-> TRUE, tree |-> "dirty", commits |-> 0],
                  [base |-> FALSE, tree |-> "clean", commits |-> 1]}
=============================================================================
