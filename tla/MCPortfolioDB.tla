--------------------------- MODULE MCPortfolioDB ---------------------------
(* PortfolioDB on small instances, and the symmetry of its sessions. *)
EXTENDS PortfolioDB, TLC

RequestSymmetry == Permutations(Requests)

=============================================================================
