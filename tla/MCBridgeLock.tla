----------------------------- MODULE MCBridgeLock -----------------------------
(* Instances of BridgeLock for TLC. *)
EXTENDS BridgeLock, TLC

CONSTANTS t1, t2

WorkerSymmetry == Permutations(Workers)
TriggerSymmetry == Permutations(Workers) \cup Permutations(Automated)
=============================================================================
