---------------------------- MODULE MCOrderWorker ----------------------------
(* Instances of OrderWorker for TLC. *)
EXTENDS OrderWorker, TLC

CONSTANTS t1, t2

OneTask == (t1 :> 2)
SmallTasks == (t1 :> 1) @@ (t2 :> 1)

OrderSymmetry == Permutations(OrderIds) \cup Permutations(Workers)
=============================================================================
