------------------------ MODULE MCEmailVerification ------------------------
(* EmailVerification on small instances. *)
EXTENDS EmailVerification, TLC

=============================================================================
