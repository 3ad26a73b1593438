---------------------------- MODULE MCCatalogSync ----------------------------
(* Instances of CatalogSync for TLC. *)
EXTENDS CatalogSync, TLC

CONSTANTS i1, l1, f1

SameFamily == [i \in Items |-> f1]
OneList == l1 :> {i1}
OneRank == l1 :> 1
=============================================================================
