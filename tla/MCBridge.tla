-------------------------------- MODULE MCBridge --------------------------------
(* Instances of Bridge for TLC. *)
EXTENDS Bridge, TLC

CONSTANTS r1, r2, h, g, a, b

\* h is a header of a company BC knows, g one of another company: for the same PO,
\* or for one without details.
OneRef == (h :> r1) @@ (g :> r1) @@ (a :> r1)
DuoRef == (h :> r1) @@ (g :> r2) @@ (a :> r1) @@ (b :> r1)
OneRank == (h :> 2) @@ (g :> 1)

TinyRef == (h :> r1) @@ (a :> r1)
LoneRank == (h :> 2)
=============================================================================
