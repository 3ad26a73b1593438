------------------------------- MODULE SoLedger -------------------------------
(***************************************************************************)
(* What the sales-order import promises about a line, whatever order its   *)
(* messages, retries and maintenance requests come in: a line goes onto an *)
(* order of its purchase order, an order and an entered line stay, and a   *)
(* line is let go of (no message and no buffer document names it any more) *)
(* only once it is entered or closed for a stated reason.                  *)
(***************************************************************************)
EXTENDS Naturals

CONSTANTS POs, Lines, PoOf

VARIABLES
  opened,   \* purchase orders with a sales order
  entered,  \* lines on a sales order
  kept,     \* lines a message or a buffer document still names
  closed    \* lines given up: blocked in BC, or inactive

ledger == <<opened, entered, kept, closed>>

LedgerInit ==
  /\ opened = {} /\ entered = {} /\ closed = {}
  /\ kept \in SUBSET Lines

\* A sales order for p, that may come with some of its lines.
Open(p) ==
  /\ p \notin opened
  /\ opened' = opened \cup {p}
  /\ \E ls \in SUBSET {l \in Lines : PoOf[l] = p} : entered' = entered \cup ls
  /\ UNCHANGED <<kept, closed>>

\* One line goes onto the sales order of its purchase order.
Enter(l) ==
  /\ PoOf[l] \in opened
  /\ l \notin entered
  /\ entered' = entered \cup {l}
  /\ UNCHANGED <<opened, kept, closed>>

\* Lines are taken into the books, or let go of.
Settle ==
  /\ closed \subseteq closed' /\ closed' \subseteq Lines
  /\ kept' \subseteq Lines
  /\ kept \ kept' \subseteq entered \cup closed'
  /\ UNCHANGED <<opened, entered>>

LedgerNext == Settle \/ (\E p \in POs : Open(p)) \/ (\E l \in Lines : Enter(l))

LedgerSpec == LedgerInit /\ [][LedgerNext]_ledger
=============================================================================
