----------------------------- MODULE MCSoWorker -----------------------------
(* Instances of SoWorker for TLC. *)
EXTENDS SoWorker, TLC

CONSTANTS p1, p2, a, b, c, x, d1, d2, m1, m2, r, s, f, t

\* p1 has two lines, p2 has one; every line has an item of its own unless the
\* instance is about equal items on different orders.
LonePoOf == (a :> p1)
OnePoOf == (a :> p1) @@ (b :> p1)
PairPoOf == (a :> p1) @@ (c :> p2)
SameItemOf == (a :> x) @@ (c :> x)
OwnItemOf == [l \in Lines |-> l]
OwnDocs == (p1 :> d1) @@ (p2 :> d2)
OneDoc == (p1 :> d1)

\* m1 and m2 each carry every line of the orders they name; r reprocesses the
\* buffer, s syncs, f backfills, t retriggers.
BatchOf == [m \in Messages |-> IF m \in {m1, m2} THEN Lines ELSE {}]
RefsOf == [m \in Requests |-> POs]
\* m1 brings p1 only, which s syncs; p2 is left to f and t.
HalfBatchOf == [m \in Messages |-> IF m = m1 THEN {a} ELSE {}]
HalfRefsOf == [m \in Requests |-> IF m = s THEN {p1} ELSE {p2}]

OrderNoSymmetry == Permutations(OrderNos)
LineSymmetry == Permutations(OrderNos) \cup Permutations(Lines)
AllSymmetry == LineSymmetry \cup Permutations(Workers)
=============================================================================
