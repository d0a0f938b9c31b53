--------------------------- MODULE MCCandleEngine ---------------------------
(* CandleEngine on small instances. *)
EXTENDS CandleEngine, TLC

=============================================================================
