----------------------------- MODULE MCBcClient -----------------------------
(* Instances of BcClient for TLC. *)
EXTENDS BcClient

CONSTANTS c1, c2
=============================================================================
