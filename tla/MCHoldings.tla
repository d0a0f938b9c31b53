----------------------------- MODULE MCHoldings -----------------------------
(* Holdings on small instances, and the symmetry of its requests. *)
EXTENDS Holdings, TLC

RequestSymmetry == Permutations(Requests)

=============================================================================
