---------------------------- MODULE MCPlacement ----------------------------
(* A small instance of Placement: three brokers on two addresses. *)
EXTENDS Placement, TLC

\* No definition distinguishes the members of these sets.
Symmetry == Permutations(Brokers) \cup Permutations(Threads) \cup Permutations(Runtimes)
              \cup Permutations(Addresses)
=============================================================================
