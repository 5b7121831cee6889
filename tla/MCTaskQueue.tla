---------------------------- MODULE MCTaskQueue ----------------------------
(* Instances of TaskQueue for TLC.                                         *)
EXTENDS TaskQueue, TLC

CONSTANTS e1, e2, w1, w2

OneProcess == (w1 :> e1) @@ (w2 :> e1)
TwoProcesses == (w1 :> e1) @@ (w2 :> e2)

WorkerSymmetry == Permutations({w1, w2})
=============================================================================
