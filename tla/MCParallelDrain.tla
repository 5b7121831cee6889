-------------------------- MODULE MCParallelDrain --------------------------
(* Instances of ParallelDrain for TLC: a pool of two workers.              *)
EXTENDS ParallelDrain, TLC

CONSTANTS e1, w1, w2

OnePool == (w1 :> e1) @@ (w2 :> e1)
=============================================================================
