--------------------------- MODULE MCRecoverySweep ---------------------------
(* Bounded instances of RecoverySweep for TLC. *)
EXTENDS RecoverySweep, TLC

MCRuns == 1 .. 3
MCTimes == (1 :> {1, 2}) @@ (2 :> {1}) @@ (3 :> {1})
=============================================================================
