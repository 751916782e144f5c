---------------------------- MODULE MCTurnWorkers ----------------------------
(* Bounded instances of TurnWorkers for TLC. *)
EXTENDS TurnWorkers, TLC

NoBatches == {}

MCSymmetry == Permutations(Posts)
=============================================================================
