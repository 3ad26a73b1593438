---------------------------- MODULE SoLedgerProofs ----------------------------
(***************************************************************************)
(* What TLAPS proves about the lines of SoWorker: none is lost, "created"  *)
(* and "resolved" mean that all of them are there, and the whole           *)
(* subscription implements SoLedger.                                       *)
(*                                                                         *)
(* The argument is one about coverage.  An entry the worker holds and a    *)
(* buffer document always name every line of their purchase order that is  *)
(* not yet on an order and was not dropped as inactive: what a pass leaves *)
(* out of the document it writes, it has entered or dropped itself.  So it *)
(* does no harm that passes overlap, overwrite each other's documents and  *)
(* die anywhere.  A retrigger is the exception: between its two calls the  *)
(* detail rows are gone, so RowsInv says who may read them when.           *)
(***************************************************************************)
EXTENDS SoWorkerProofs

-----------------------------------------------------------------------------
(* The conditions.                                                          *)

\* A message brings a purchase order with all of its lines (the bridge sends
\* whole orders).
WholeBatches ==
  \A m \in Messages, p \in POs : Batch[m] \cap LinesOf(p) \in {{}, LinesOf(p)}

\* No purchase order names an item twice: a resumed order is compared by items.
DistinctItems ==
  \A k, l \in Lines : PoOf[k] = PoOf[l] /\ ItemOf[k] = ItemOf[l] => k = l

\* The details of a row are all there when they are read: no read fails, and no
\* retrigger has deleted them.  A retrigger deletes the rows of a reference and inserts
\* them again; another callback may not come between, and a sync or backfill that is
\* not its own may not come after a retrigger that died or failed between.
Steady == Retriggers = {} \/ ("crash" \notin Faults /\ "staging" \notin Lapses)
WholeReads ==
  /\ "read" \notin Lapses
  /\ Retriggers = {} \/ "overlap" \notin Faults
  /\ Syncs \cup Backfills = {} \/ Steady

Whole == DistinctDocs /\ WholeBatches /\ DistinctItems /\ WholeReads

-----------------------------------------------------------------------------
(* Coverage, given the sales orders os and the dropped lines ex.            *)

On(os, l) == \E n \in OrderNos : os[n].po = PoOf[l] /\ os[n].lines[l] > 0
Present(os, ex, l) == On(os, l) \/ l \in ex
Covers(os, ex, e) == \A l \in LinesOf(e.po) : l \in e.lines \/ Present(os, ex, l)

\* The stages at which a callback still has an order's lines in hand, and those at
\* which only the buffer and the history are left to do.
Passing == {"find", "resume", "create", "lines", "locked", "failed", "keep"}
Ending == {"drop", "clear", "history"}

\* The order of k counts as created.
Created(k) ==
  k.pc \in {"clear", "history"} \/ (k.pc \in {"keep", "report"} /\ k.status = "created")

WorkCovers(os, ex, k) ==
  /\ k.pc \in Passing => Covers(os, ex, k.cur)
  /\ k.msg \notin Requests => \A e \in k.rest : Covers(os, ex, e)
  /\ k.pc = "lines" =>
       \A l \in k.cur.lines : l \in k.todo \cup k.left \cup k.out \/ On(os, l)
  /\ k.pc = "locked" => \A l \in k.cur.lines : l \in k.left \cup k.out \/ On(os, l)
  /\ Created(k) => \A l \in LinesOf(k.cur.po) : Present(os, ex, l)

DocCovers(os, ex, d) == buffer[d].po # None => Covers(os, ex, buffer[d])

CoverInv ==
  /\ \A w \in Workers : WorkCovers(orders, excluded, work[w])
  /\ \A d \in DocIds : DocCovers(orders, excluded, d)
  /\ \A p \in POs : handoff[p] = "created" =>
       \A l \in LinesOf(p) : Present(orders, excluded, l)
  /\ \A p \in resolved : \A l \in LinesOf(p) : Present(orders, excluded, l)

\* What is on an order, or dropped, stays so.
Lasting == /\ excluded \subseteq excluded'
           /\ \A l \in Lines : On(orders, l) => On(orders', l)

LEMMA OrdersLast ==
  ASSUME TypeInv,
         \/ \E w \in Workers : CreateHeader(w)
         \/ \E w \in Workers, l \in Lines : PostLine(w, l)
         \/ \E n \in OrderNos : ChangeStatus(n)
         \/ \E p \in POs : EnterByHand(p)
  PROVE  Lasting /\ UNCHANGED <<excluded, buffer>>
<1> SUFFICES ASSUME NEW l \in Lines, NEW n \in OrderNos,
                    orders[n].po = PoOf[l], orders[n].lines[l] > 0
             PROVE  orders'[n].po = PoOf[l] /\ orders'[n].lines[l] > 0
  BY DEF Lasting, On, CreateHeader, PostLine, ChangeStatus, EnterByHand
<1>1. orders \in [OrderNos -> Order] /\ PoOf[l] # None
  BY ConstantsAssumption DEF TypeInv, TypeOK
<1>2. orders'[n].po = PoOf[l]
  BY <1>1, OrdersKept DEF Kept
<1>3. CASE \E w \in Workers : CreateHeader(w)
  <2>1. (\E p : \E ns \in SUBSET Unused : orders' = WithNew(ns, p)) \/ UNCHANGED orders
    BY <1>3 DEF CreateHeader
  <2> QED
    BY <1>1, <1>2, <2>1 DEF WithNew, Unused
<1>4. CASE \E w \in Workers, k \in Lines : PostLine(w, k)
  <2>1. (\E m, k : \E j \in Nat : orders' = WithLine(m, k, j)) \/ UNCHANGED orders
    BY <1>4 DEF PostLine
  <2> QED
    BY <1>1, <1>2, <2>1 DEF WithLine, Order
<1>5. CASE \E m \in OrderNos : ChangeStatus(m)
  BY <1>1, <1>2, <1>5 DEF ChangeStatus, Order
<1>6. CASE \E p \in POs : EnterByHand(p)
  BY <1>1, <1>2, <1>6 DEF EnterByHand, Unused
<1> QED
  BY <1>2, <1>3, <1>4, <1>5, <1>6

LEMMA CoversLast ==
  ASSUME Lasting, NEW e, Covers(orders, excluded, e)
  PROVE  Covers(orders', excluded', e)
  BY DEF Lasting, Covers, Present, LinesOf

LEMMA WorkCoversLast ==
  ASSUME Lasting, NEW k \in Work, WorkCovers(orders, excluded, k)
  PROVE  WorkCovers(orders', excluded', k)
<1>1. k.cur.lines \subseteq Lines /\ k.cur.po \in POs \cup {None}
  BY DEF Work, Entry
<1>2. \A l \in LinesOf(k.cur.po) : Present(orders, excluded, l) => Present(orders', excluded', l)
  BY DEF Lasting, Present, LinesOf
<1> QED
  BY <1>1, <1>2, CoversLast DEF WorkCovers, Lasting

\* One callback moves on with its lines covered, the others stay.
LEMMA GoesCovers ==
  ASSUME TypeInv, CoverInv, Lasting, NEW w \in Workers, NEW k, Goes(w, k),
         WorkCovers(orders', excluded', k)
  PROVE  \A v \in Workers : WorkCovers(orders', excluded', work'[v])
<1> SUFFICES ASSUME NEW v \in Workers PROVE WorkCovers(orders', excluded', work'[v])
  OBVIOUS
<1>1. CASE v = w
  BY <1>1 DEF Goes, TypeInv, TypeOK
<1>2. CASE v # w
  BY <1>2, WorkCoversLast, WorkFields DEF Goes, TypeInv, TypeOK, CoverInv
<1> QED
  BY <1>1, <1>2

\* The documents and what was reported, when a step changes none of them.
LEMMA RestCovers ==
  ASSUME TypeInv, CoverInv, Lasting
  PROVE  /\ UNCHANGED buffer => \A d \in DocIds : DocCovers(orders, excluded, d)'
         /\ \A p \in POs : handoff[p] = "created" =>
              \A l \in LinesOf(p) : Present(orders', excluded', l)
         /\ \A p \in resolved : \A l \in LinesOf(p) : Present(orders', excluded', l)
<1>1. \A l \in Lines : Present(orders, excluded, l) => Present(orders', excluded', l)
  BY DEF Lasting, Present
<1>2. UNCHANGED buffer => \A d \in DocIds : DocCovers(orders, excluded, d)'
  BY CoversLast DEF CoverInv, DocCovers
<1> QED
  BY <1>1, <1>2 DEF CoverInv, LinesOf

-----------------------------------------------------------------------------
(* The steps of _create_order and its ends, of a batch or of a request.     *)

\* The locals that Raise, EnterLines and Report lead to.
LEMMA RaiseCovers ==
  ASSUME TypeInv, CoverInv, Lasting, NEW w \in Workers, Raise(w), work[w].pc \in Passing
  PROVE  \A v \in Workers : WorkCovers(orders', excluded', work'[v])
<1> DEFINE k == [work[w] EXCEPT !.pc = "failed", !.order = None, !.todo = {},
                                !.left = {}, !.out = {}]
<1>1. WorkCovers(orders', excluded', work[w])
  BY WorkCoversLast, WorkFields DEF CoverInv
<1>2. k.cur = work[w].cur /\ k.rest = work[w].rest /\ k.msg = work[w].msg /\ k.pc = "failed"
  BY WorkFields DEF Work
<1>3. WorkCovers(orders', excluded', k)
  <2> HIDE DEF k
  <2> QED
    BY <1>1, <1>2 DEF WorkCovers, Created, Passing
<1> QED
  BY <1>3, GoesCovers DEF Raise

LEMMA EnterLinesCovers ==
  ASSUME TypeInv, CoverInv, Lasting, NEW w \in Workers, NEW n \in OrderNos, NEW seen,
         EnterLines(w, n, seen), work[w].pc \in Passing,
         \A l \in work[w].cur.lines : ItemOf[l] \in seen => On(orders', l)
  PROVE  \A v \in Workers : WorkCovers(orders', excluded', work'[v])
<1>1. PICK inactive \in SUBSET work[w].cur.lines, unresolved \in SUBSET work[w].cur.lines :
        Goes(w, [work[w] EXCEPT !.pc = "lines", !.order = n,
                  !.todo = {l \in work[w].cur.lines \ (inactive \cup unresolved) :
                              ItemOf[l] \notin seen},
                  !.left = unresolved, !.out = inactive])
  BY DEF EnterLines
<1> DEFINE todo == {l \in work[w].cur.lines \ (inactive \cup unresolved) :
                      ItemOf[l] \notin seen}
           k == [work[w] EXCEPT !.pc = "lines", !.order = n, !.todo = todo,
                                !.left = unresolved, !.out = inactive]
<1>2. WorkCovers(orders', excluded', work[w])
  BY WorkCoversLast, WorkFields DEF CoverInv
<1>3. \A l \in work[w].cur.lines : l \in todo \cup unresolved \cup inactive \/ On(orders', l)
  OBVIOUS
<1>4. Goes(w, k)
  BY <1>1
<1> HIDE DEF todo
<1>5. k.cur = work[w].cur /\ k.rest = work[w].rest /\ k.msg = work[w].msg /\ k.pc = "lines"
      /\ k.todo = todo /\ k.left = unresolved /\ k.out = inactive
  BY WorkFields DEF Work
<1>6. WorkCovers(orders', excluded', k)
  <2> HIDE DEF k
  <2> QED
    BY <1>2, <1>3, <1>5 DEF WorkCovers, Created, Passing
<1> QED
  BY <1>4, <1>6, GoesCovers

LEMMA OutcomeCovers ==
  ASSUME TypeInv, CoverInv, Lasting, NEW w \in Workers, NEW pc \in AtOutcome, NEW e, NEW s,
         Outcome(w, pc, e, s),
         pc = "keep" => Covers(orders', excluded', e),
         pc \in {"clear", "history"} \/ s = "created" =>
           \A l \in LinesOf(e.po) : Present(orders', excluded', l)
  PROVE  \A v \in Workers : WorkCovers(orders', excluded', work'[v])
<1> DEFINE k == [Idle EXCEPT !.pc = pc, !.msg = work[w].msg, !.rest = work[w].rest,
                             !.cur = e, !.status = s]
<1>1. WorkCovers(orders', excluded', work[w])
  BY WorkCoversLast, WorkFields DEF CoverInv
<1>2. k.cur = e /\ k.rest = work[w].rest /\ k.msg = work[w].msg
      /\ k.pc = pc /\ k.status = s
  BY DEF Idle
<1>3. WorkCovers(orders', excluded', k)
  <2> HIDE DEF k
  <2> QED
    BY <1>1, <1>2 DEF WorkCovers, Created, Passing, AtOutcome
<1> QED
  BY <1>3, GoesCovers DEF Outcome

\* What is left of an entry that is settled, or nearly.
LEMMA LeftOf ==
  ASSUME NEW p, NEW d
  PROVE  /\ [NoEntry EXCEPT !.po = p].po = p /\ [NoEntry EXCEPT !.po = p].buf = None
         /\ [NoEntry EXCEPT !.po = p, !.buf = d].po = p
         /\ [NoEntry EXCEPT !.po = p, !.buf = d].buf = d
  BY DEF NoEntry

LEMMA ReportCovers ==
  ASSUME TypeInv, CoverInv, Lasting, NEW w \in Workers, NEW s, Report(w, s),
         s = "created" => \A l \in LinesOf(work[w].cur.po) : Present(orders', excluded', l)
  PROVE  \A v \in Workers : WorkCovers(orders', excluded', work'[v])
<1> DEFINE e == [NoEntry EXCEPT !.po = work[w].cur.po]
<1>1. Outcome(w, "report", e, s) /\ e.po = work[w].cur.po
  BY LeftOf DEF Report
<1> HIDE DEF e
<1> QED
  BY <1>1, OutcomeCovers DEF AtOutcome

\* What is about to be saved covers what is not there yet.
LEMMA KeepsCovers ==
  ASSUME TypeInv, CoverInv, Lasting, NEW w \in Workers, NEW ls, NEW so,
         NEW s \in {"buffered", "error"}, Keeps(w, ls, so, s),
         \A l \in LinesOf(work[w].cur.po) : l \in ls \/ Present(orders', excluded', l)
  PROVE  \A v \in Workers : WorkCovers(orders', excluded', work'[v])
<1> DEFINE e == KeepEntry(w, ls, so)
<1>1. e.po = work[w].cur.po /\ e.lines = ls
  BY DEF KeepEntry
<1>2. Outcome(w, "keep", e, s)
  BY DEF Keeps, KeepEntry
<1> HIDE DEF e
<1>3. Covers(orders', excluded', e)
  BY <1>1 DEF Covers
<1> QED
  BY <1>2, <1>3, OutcomeCovers DEF AtOutcome

\* A line that is skipped because its item is on the order is on the order.
LEMMA SkippedIsOn ==
  ASSUME DistinctItems, TypeInv, HomeInv, NEW w \in Workers, work[w].pc = "resume",
         NEW l \in work[w].cur.lines, ItemOf[l] \in ItemsOn(work[w].order)
  PROVE  On(orders, l)
<1> DEFINE n == work[w].order
<1>1. n \in OrderNos /\ work[w].cur.lines \subseteq Lines
  BY WorkFields DEF Ready
<1>2. PoOf[l] = work[w].cur.po /\ orders[n].po = work[w].cur.po
  BY <1>1, ConstantsAssumption DEF HomeInv, WorkHome, EntryHome, LinesOf
<1>3. PICK k \in Lines : orders[n].lines[k] > 0 /\ ItemOf[k] = ItemOf[l]
  BY DEF ItemsOn
<1>4. orders[n].po = PoOf[k]
  BY <1>1, <1>3 DEF HomeInv, OwnLinesOnly
<1>5. k = l
  BY <1>1, <1>2, <1>3, <1>4 DEF DistinctItems
<1> QED
  BY <1>1, <1>2, <1>3, <1>5 DEF On

LEMMA PassCovers ==
  ASSUME DistinctItems, TypeInv, HomeInv, CoverInv, NEW w \in Workers,
         FindExisting(w) \/ Resume(w) \/ CreateHeader(w) \/ \E l \in Lines : PostLine(w, l)
  PROVE  /\ Lasting
         /\ \A v \in Workers : WorkCovers(orders', excluded', work'[v])
<1>1. CASE FindExisting(w)
  <2>1. Lasting
    BY <1>1 DEF FindExisting, Lasting
  <2>2. PICK k : /\ Goes(w, k)
                 /\ k.cur = work[w].cur /\ k.rest = work[w].rest /\ k.msg = work[w].msg
                 /\ k.pc \in {"resume", "create"}
    <3>1. ASSUME NEW n PROVE LET k == [work[w] EXCEPT !.pc = "resume", !.order = n]
                             IN k.cur = work[w].cur /\ k.rest = work[w].rest
                                /\ k.msg = work[w].msg /\ k.pc = "resume"
      BY WorkFields DEF Work
    <3>2. LET k == [work[w] EXCEPT !.pc = "create"]
          IN k.cur = work[w].cur /\ k.rest = work[w].rest
             /\ k.msg = work[w].msg /\ k.pc = "create"
      BY WorkFields DEF Work
    <3> QED
      BY <1>1, <3>1, <3>2, ZenonT(60) DEF FindExisting
  <2>3. WorkCovers(orders', excluded', work[w])
    BY <2>1, WorkCoversLast, WorkFields DEF CoverInv
  <2>4. WorkCovers(orders', excluded', k)
    BY <1>1, <2>2, <2>3 DEF WorkCovers, Created, Passing, FindExisting
  <2> QED
    BY <2>1, <2>2, <2>4, GoesCovers
<1>2. CASE Resume(w)
  <2>1. Lasting /\ UNCHANGED orders /\ work[w].pc \in Passing /\ work[w].order \in OrderNos
    BY <1>2, WorkFields DEF Resume, Lasting, Passing, Ready
  <2>2. \A l \in work[w].cur.lines : ItemOf[l] \in ItemsOn(work[w].order) => On(orders', l)
    BY <1>2, <2>1, SkippedIsOn DEF Resume
  <2> QED
    BY <1>2, <2>1, <2>2, RaiseCovers, EnterLinesCovers DEF Resume
<1>3. CASE CreateHeader(w)
  <2>1. Lasting
    BY <1>3, OrdersLast
  <2>2. work[w].pc \in Passing
    BY <1>3 DEF CreateHeader, Passing
  <2> QED
    BY <1>3, <2>1, <2>2, RaiseCovers, EnterLinesCovers DEF CreateHeader, Unused
<1>4. ASSUME NEW l \in Lines, PostLine(w, l)
      PROVE  Lasting /\ \A v \in Workers : WorkCovers(orders', excluded', work'[v])
  <2> DEFINE n == work[w].order
  <2>1. Lasting
    BY <1>4, OrdersLast
  <2>2. work[w].pc = "lines" /\ l \in work[w].todo /\ n \in OrderNos
    BY <1>4, WorkFields DEF PostLine, Ready
  <2>3. WorkCovers(orders', excluded', work[w])
    BY <2>1, WorkCoversLast, WorkFields DEF CoverInv
  <2>4. orders[n].po = PoOf[l]
    BY <2>2, ConstantsAssumption DEF HomeInv, WorkHome, LinesOf
  <2>5. CASE /\ \E k \in {1, 2} : orders' = WithLine(n, l, k)
             /\ Goes(w, [work[w] EXCEPT !.todo = @ \ {l}])
    <3>1. On(orders', l)
      BY <2>2, <2>4, <2>5 DEF WithLine, On, TypeInv, TypeOK, Order
    <3> DEFINE k == [work[w] EXCEPT !.todo = @ \ {l}]
    <3>2. k.cur = work[w].cur /\ k.rest = work[w].rest /\ k.msg = work[w].msg /\ k.pc = "lines"
          /\ k.todo = work[w].todo \ {l} /\ k.left = work[w].left /\ k.out = work[w].out
      BY <2>2, WorkFields DEF Work
    <3>3. WorkCovers(orders', excluded', k)
      <4> HIDE DEF k
      <4> QED
        BY <2>2, <2>3, <3>1, <3>2 DEF WorkCovers, Created, Passing
    <3> QED
      BY <2>1, <2>5, <3>3, GoesCovers
  <2>6. CASE Goes(w, [work[w] EXCEPT !.pc = "locked", !.todo = {},
                                     !.left = @ \cup work[w].todo])
    <3> DEFINE k == [work[w] EXCEPT !.pc = "locked", !.todo = {},
                                    !.left = @ \cup work[w].todo]
    <3>2. k.cur = work[w].cur /\ k.rest = work[w].rest /\ k.msg = work[w].msg /\ k.pc = "locked"
          /\ k.left = work[w].left \cup work[w].todo /\ k.out = work[w].out
      BY <2>2, WorkFields DEF Work
    <3>3. WorkCovers(orders', excluded', k)
      <4> HIDE DEF k
      <4> QED
        BY <2>2, <2>3, <3>2 DEF WorkCovers, Created, Passing
    <3> QED
      BY <2>1, <2>6, <3>3, GoesCovers
  <2>7. CASE Goes(w, [work[w] EXCEPT !.todo = @ \ {l}, !.left = @ \cup {l}])
    <3> DEFINE k == [work[w] EXCEPT !.todo = @ \ {l}, !.left = @ \cup {l}]
    <3>2. k.cur = work[w].cur /\ k.rest = work[w].rest /\ k.msg = work[w].msg /\ k.pc = "lines"
          /\ k.todo = work[w].todo \ {l} /\ k.left = work[w].left \cup {l}
          /\ k.out = work[w].out
      BY <2>2, WorkFields DEF Work
    <3>3. WorkCovers(orders', excluded', k)
      <4> HIDE DEF k
      <4> QED
        BY <2>2, <2>3, <3>2 DEF WorkCovers, Created, Passing
    <3> QED
      BY <2>1, <2>7, <3>3, GoesCovers
  <2>8. CASE Raise(w)
    BY <2>1, <2>2, <2>8, RaiseCovers DEF Passing
  <2> QED
    BY <1>4, <2>1, <2>5, <2>6, <2>7, <2>8 DEF PostLine
<1> QED
  BY <1>1, <1>2, <1>3, <1>4

\* The calls that end an order, of a batch or of a request.
Settles(w) ==
  \/ SettleOrder(w) \/ SettleLocked(w) \/ SettleFailed(w) \/ Keep(w) \/ Drop(w)
  \/ Complete(w) \/ ClearSynced(w) \/ RecordResolved(w)

\* What is saved covers, and what is deleted leaves nothing to cover.
LEMMA KeepCovers ==
  ASSUME TypeInv, CoverInv, Lasting, NEW w \in Workers, Keep(w)
  PROVE  \A d \in DocIds : DocCovers(orders, excluded, d)'
<1> SUFFICES ASSUME NEW d \in DocIds PROVE DocCovers(orders, excluded, d)'
  OBVIOUS
<1> DEFINE e == work[w].cur
<1>1. buffer \in [DocIds -> Doc]
  BY DEF TypeInv, TypeOK
<1>2. CASE buffer'[d] = buffer[d]
  BY <1>2, CoversLast DEF CoverInv, DocCovers
<1>3. CASE buffer'[d] # buffer[d]
  <2>1. buffer'[d].po = e.po /\ buffer'[d].lines = e.lines
    BY <1>1, <1>3 DEF Keep
  <2>2. Covers(orders', excluded', e)
    BY CoversLast DEF CoverInv, WorkCovers, Keep, Passing
  <2> QED
    BY <2>1, <2>2 DEF DocCovers, Covers
<1> QED
  BY <1>2, <1>3

LEMMA DeleteCovers ==
  ASSUME TypeInv, CoverInv, Lasting, NEW e, Delete(e)
  PROVE  \A d \in DocIds : DocCovers(orders, excluded, d)'
<1> SUFFICES ASSUME NEW d \in DocIds PROVE DocCovers(orders, excluded, d)'
  OBVIOUS
<1>1. buffer'[d] = buffer[d] \/ buffer'[d] = NoDoc
  BY DEF Delete, TypeInv, TypeOK
<1> QED
  BY <1>1, CoversLast DEF CoverInv, DocCovers, NoDoc

LEMMA SettleCovers ==
  ASSUME TypeInv, HomeInv, CoverInv, NEW w \in Workers, Settles(w)
  PROVE  /\ Lasting /\ UNCHANGED <<msgs, orders, handoff>>
         /\ \A v \in Workers : WorkCovers(orders', excluded', work'[v])
         /\ \A d \in DocIds : DocCovers(orders, excluded, d)'
<1> DEFINE p == work[w].cur.po
           e == [NoEntry EXCEPT !.po = p]
           f == [NoEntry EXCEPT !.po = p, !.buf = work[w].cur.buf]
<1>0. UNCHANGED <<msgs, orders, handoff>> /\ excluded \subseteq excluded'
  BY DEF Settles, SettleOrder, SettleLocked, SettleFailed, Keep, Drop, Complete, ClearSynced,
         RecordResolved
<1>1. Lasting
  BY <1>0 DEF Lasting
<1>2. WorkCovers(orders', excluded', work[w])
  BY <1>1, WorkCoversLast, WorkFields DEF CoverInv
<1>3. e.po = p /\ f.po = p
  BY LeftOf
<1>4. UNCHANGED buffer => \A d \in DocIds : DocCovers(orders, excluded, d)'
  BY <1>1, RestCovers
<1> HIDE DEF e, f
<1>5. CASE SettleOrder(w)
  <2>1. \A l \in LinesOf(p) : l \in work[w].left \/ Present(orders', excluded', l)
    BY <1>2, <1>5 DEF SettleOrder, WorkCovers, Covers, Present, Passing
  <2>2. CASE Keeps(w, work[w].left, work[w].order, "buffered") /\ UNCHANGED buffer
    BY <1>0, <1>1, <1>4, <2>1, <2>2, KeepsCovers
  <2>3. CASE work[w].left = {} /\ Delete(work[w].cur.buf) /\ Report(w, "created")
    BY <1>0, <1>1, <2>1, <2>3, DeleteCovers, ReportCovers
  <2> QED
    BY <1>5, <2>2, <2>3 DEF SettleOrder
<1>6. CASE SettleLocked(w)
  <2>1. CASE Report(w, "error")
    BY <1>0, <1>1, <1>4, <1>6, <2>1, ReportCovers DEF SettleLocked
  <2>2. CASE Outcome(w, "drop", f, "error")
    BY <1>0, <1>1, <1>4, <1>6, <2>2, OutcomeCovers DEF SettleLocked, AtOutcome
  <2> QED
    BY <1>6, <2>1, <2>2 DEF SettleLocked, f
<1>7. CASE SettleFailed(w)
  <2>1. \A l \in LinesOf(p) : l \in work[w].cur.lines \/ Present(orders', excluded', l)
    BY <1>2, <1>7 DEF SettleFailed, WorkCovers, Covers, Passing
  <2> QED
    BY <1>0, <1>1, <1>4, <1>7, <2>1, KeepsCovers DEF SettleFailed
<1>8. CASE Keep(w)
  <2>1. work[w].status = "created" => \A l \in LinesOf(p) : Present(orders', excluded', l)
    BY <1>2, <1>8 DEF Keep, WorkCovers, Created
  <2> QED
    BY <1>0, <1>1, <1>8, <2>1, KeepCovers, ReportCovers DEF Keep
<1>9. CASE Drop(w)
  BY <1>0, <1>1, <1>9, DeleteCovers, ReportCovers DEF Drop
<1>10. CASE Complete(w)
  <2>1. \A l \in LinesOf(p) : Present(orders', excluded', l)
    BY <1>2, <1>10 DEF Complete, WorkCovers, Covers, Present, Passing
  <2>2. CASE Outcome(w, "clear", f, "created")
    BY <1>0, <1>1, <1>3, <1>4, <1>10, <2>1, <2>2, OutcomeCovers DEF Complete, AtOutcome
  <2>3. CASE Report(w, "created")
    BY <1>0, <1>1, <1>4, <1>10, <2>1, <2>3, ReportCovers DEF Complete
  <2> QED
    BY <1>10, <2>2, <2>3 DEF Complete, f
<1>11. CASE ClearSynced(w)
  <2>1. \A l \in LinesOf(p) : Present(orders', excluded', l)
    BY <1>2, <1>11 DEF ClearSynced, WorkCovers, Created
  <2>2. Outcome(w, "history", e, "created") /\ Delete(work[w].cur.buf)
    BY <1>11 DEF ClearSynced, e
  <2> QED
    BY <1>0, <1>1, <1>3, <2>1, <2>2, DeleteCovers, OutcomeCovers DEF AtOutcome
<1>12. CASE RecordResolved(w)
  <2>1. \A l \in LinesOf(p) : Present(orders', excluded', l)
    BY <1>2, <1>12 DEF RecordResolved, WorkCovers, Created
  <2> QED
    BY <1>0, <1>1, <1>4, <1>12, <2>1, ReportCovers DEF RecordResolved
<1> QED
  BY <1>5, <1>6, <1>7, <1>8, <1>9, <1>10, <1>11, <1>12 DEF Settles

LEMMA SettlesAtOrder ==
  ASSUME NEW w \in Workers, Settles(w)
  PROVE  work[w].pc \in AtOrder
  BY DEF Settles, SettleOrder, SettleLocked, SettleFailed, Keep, Drop, Complete, ClearSynced,
         RecordResolved, AtOrder

-----------------------------------------------------------------------------
(* The steps outside _create_order.                                         *)

LEMMA IdleCovers == \A os, ex : WorkCovers(os, ex, Idle)
  BY DEF WorkCovers, Created, Idle, Passing

\* A step that leaves BC's orders, the buffer and the dropped lines alone.
LEMMA CoverQuiet ==
  ASSUME TypeInv, CoverInv, UNCHANGED <<orders, buffer, excluded, resolved>>,
         \A v \in Workers : WorkCovers(orders', excluded', work'[v]),
         \A p \in POs : handoff'[p] = "created" =>
           handoff[p] = "created" \/ \A l \in LinesOf(p) : Present(orders, excluded, l)
  PROVE  CoverInv'
<1>1. Lasting
  BY DEF Lasting
<1>2. \A d \in DocIds : DocCovers(orders, excluded, d)'
  BY <1>1, RestCovers
<1> QED
  BY <1>2 DEF CoverInv

\* A merged batch: whole purchase orders, and what the buffer holds.
LEMMA MergeCovers ==
  ASSUME WholeBatches, TypeInv, CoverInv, NEW w \in Workers, Merge(w)
  PROVE  \A v \in Workers : WorkCovers(orders', excluded', work'[v])
<1> DEFINE m == work[w].msg
<1>1. PICK snap \in {Snapshot, {}} :
        Goes(w, [work[w] EXCEPT !.pc = "next", !.rest = Fresh(m) \cup snap])
  BY DEF Merge
<1>2. m \in Messages
  BY WorkFields DEF Merge, Ready
<1>3. \A e \in Fresh(m) : Covers(orders, excluded, e)
  <2> SUFFICES ASSUME NEW k \in Batch[m]
               PROVE  Covers(orders, excluded,
                        [po |-> PoOf[k], lines |-> Batch[m] \cap LinesOf(PoOf[k]),
                         buf |-> None, so |-> None])
    BY DEF Fresh
  <2>1. k \in Lines /\ PoOf[k] \in POs
    BY <1>2, ConstantsAssumption
  <2>2. k \in LinesOf(PoOf[k])
    BY <2>1 DEF LinesOf
  <2>3. Batch[m] \cap LinesOf(PoOf[k]) = LinesOf(PoOf[k])
    BY <1>2, <2>1, <2>2 DEF WholeBatches
  <2> QED
    BY <2>3 DEF Covers
<1>4. \A e \in Snapshot : Covers(orders, excluded, e)
  BY DEF Snapshot, CoverInv, DocCovers, Covers
<1> DEFINE rest == Fresh(m) \cup snap
           k == [work[w] EXCEPT !.pc = "next", !.rest = rest]
<1>5. \A e \in rest : Covers(orders, excluded, e)
  BY <1>3, <1>4
<1>6. k.pc = "next" /\ k.rest = rest
  BY WorkFields DEF Work
<1>7. WorkCovers(orders', excluded', k)
  <2> HIDE DEF k, rest
  <2> QED
    BY <1>5, <1>6 DEF WorkCovers, Created, Passing, Merge
<1>8. Lasting
  BY DEF Merge, Lasting
<1> QED
  BY <1>1, <1>7, <1>8, GoesCovers

LEMMA TakeOrderCovers ==
  ASSUME TypeInv, CoverInv, NEW w \in Workers, ~Visiting(w), TakeOrder(w)
  PROVE  \A v \in Workers : WorkCovers(orders', excluded', work'[v])
<1>1. PICK e \in work[w].rest, pc \in {"find", "resume"} :
        Goes(w, [Idle EXCEPT !.pc = pc, !.msg = work[w].msg, !.rest = work[w].rest \ {e},
                             !.cur = e, !.order = e.so])
  BY DEF TakeOrder
<1> DEFINE k == [Idle EXCEPT !.pc = pc, !.msg = work[w].msg, !.rest = work[w].rest \ {e},
                             !.cur = e, !.order = e.so]
<1>2. \A f \in work[w].rest : Covers(orders, excluded, f)
  BY DEF CoverInv, WorkCovers, Visiting
<1>3. k.pc = pc /\ k.cur = e /\ k.rest = work[w].rest \ {e}
  BY DEF Idle
<1>4. WorkCovers(orders', excluded', k)
  <2> HIDE DEF k
  <2> QED
    BY <1>2, <1>3 DEF WorkCovers, Created, Passing, TakeOrder
<1>5. Lasting
  BY DEF TakeOrder, Lasting
<1> QED
  BY <1>1, <1>4, <1>5, GoesCovers

\* The end of a callback, and the surroundings.
LEMMA LeaveCovers ==
  ASSUME TypeInv, CoverInv, NEW w \in Workers, NEW m, NEW s, Leave(w, m, s),
         UNCHANGED <<orders, excluded>>
  PROVE  \A v \in Workers : WorkCovers(orders', excluded', work'[v])
  BY IdleCovers, GoesCovers DEF Leave, Lasting

LEMMA WorkQuiet ==
  ASSUME TypeInv, CoverInv, Lasting, UNCHANGED work
  PROVE  \A v \in Workers : WorkCovers(orders', excluded', work'[v])
  BY WorkCoversLast, WorkFields DEF CoverInv

-----------------------------------------------------------------------------
(* The steps of SoWorker, sorted by what they do to the lines.              *)

PassStep(w) ==
  FindExisting(w) \/ Resume(w) \/ CreateHeader(w) \/ \E l \in Lines : PostLine(w, l)

EndStep(w) ==
  \/ PrefetchTransient(w) \/ PrefetchPermanent(w) \/ BatchEscapes(w) \/ Crash(w)
  \/ FinishBatch(w)

\* What a settled order adds to what is reported.
Reports(w) ==
  /\ \/ settled' = settled
     \/ work'[w].pc = "report" /\ settled' = settled \cup {work[w].cur.po}
  /\ \/ resolved' = resolved
     \/ work[w].pc = "history" /\ resolved' = resolved \cup {work[w].cur.po}

\* The calls of a request that end an order.
RequestEnds(w) ==
  \/ SettleSynced(w) \/ SettleBackfilled(w) \/ SettleVisited(w)
  \/ ClearSynced(w) \/ RecordResolved(w)

LEMMA EndsSettle ==
  ASSUME NEW w \in Workers, RequestEnds(w)
  PROVE  Settles(w) /\ Reports(w) /\ UNCHANGED <<visit, staged>>
<1>1. CASE SettleSynced(w) \/ SettleBackfilled(w) \/ SettleVisited(w)
  <2>1. Settles(w) /\ DealtWith(w) /\ UNCHANGED <<visit, staged, resolved>>
    BY <1>1 DEF SettleSynced, SettleBackfilled, SettleVisited, Settles
  <2> QED
    BY <2>1 DEF DealtWith, Reports
<1>2. CASE ClearSynced(w)
  BY <1>2 DEF ClearSynced, Settles, Reports, cloud
<1>3. CASE RecordResolved(w)
  <2>1. DealtWith(w) /\ work[w].pc = "history" /\ UNCHANGED <<visit, staged>>
        /\ (resolved' = resolved \cup {work[w].cur.po} \/ UNCHANGED resolved)
    BY <1>3 DEF RecordResolved
  <2> QED
    BY <1>3, <2>1 DEF DealtWith, Settles, Reports
<1> QED
  BY <1>1, <1>2, <1>3 DEF RequestEnds

Quiet == UNCHANGED <<settled, resolved>>

LEMMA SoCases ==
  ASSUME SoTypeInv, [SoNext]_soVars
  PROVE  \/ UNCHANGED vars /\ Quiet
         \/ \E w \in Workers : (LoopStep(w) \/ PassStep(w) \/ EndStep(w)) /\ Quiet
         \/ \E w \in Workers : Settles(w) /\ Reports(w)
         \/ \E w \in Workers : ~Visiting(w) /\ (Merge(w) \/ TakeOrder(w) \/ ReportOrder(w)) /\ Quiet
         \/ Around /\ Quiet
<1>1. ASSUME NEW w \in Workers, BatchStep(w)
      PROVE  \/ (PassStep(w) \/ EndStep(w)) /\ Quiet
             \/ Settles(w) /\ Reports(w)
             \/ ~Visiting(w) /\ (Merge(w) \/ TakeOrder(w) \/ ReportOrder(w)) /\ Quiet
  BY <1>1 DEF BatchStep, Step, PassStep, EndStep, Settles, Reports, Quiet, cloud
<1>2. ASSUME NEW w \in Workers, RequestEscapes(w)
      PROVE  EndStep(w) /\ Quiet
  BY <1>2 DEF RequestEscapes, EndStep, Quiet
<1>3. ASSUME NEW w \in Workers, RequestEnds(w)
      PROVE  Settles(w) /\ Reports(w)
  BY <1>3, EndsSettle
<1>4. ASSUME NEW w \in Workers, RequestStep(w), ~RequestEnds(w)
      PROVE  /\ Quiet
             /\ UNCHANGED vars \/ LoopStep(w) \/ PassStep(w) \/ EndStep(w)
  <2>1. Quiet
    BY <1>4
    DEF RequestStep, RequestEnds, Quiet, cloud, BeginSync, TakeRow, SyncRaised, RetryRows, BeginBackfill,
        CheckRow, NextRow, BeginRetrigger, CleanStaging, InsertRows, RecordRetrigger, FollowUp,
        EndRequest, OrderStep
  <2>2. CASE CleanStaging(w) \/ InsertRows(w) \/ OrderStep(w) \/ EndRequest(w)
    BY <2>1, <2>2 DEF CleanStaging, InsertRows, OrderStep, EndRequest, PassStep, EndStep
  <2>3. CASE ~(CleanStaging(w) \/ InsertRows(w) \/ OrderStep(w) \/ EndRequest(w))
    BY <1>4, <2>1, <2>3, LoopSteps DEF RequestStep, RequestEnds
  <2> QED
    BY <2>1, <2>2, <2>3
<1>5. ASSUME NEW w \in Workers, RequestStep(w)
      PROVE  \/ UNCHANGED vars /\ Quiet
             \/ (LoopStep(w) \/ PassStep(w) \/ EndStep(w)) /\ Quiet
             \/ Settles(w) /\ Reports(w)
  BY <1>3, <1>4, <1>5
<1>6. CASE UNCHANGED soVars
  BY <1>6 DEF soVars, cloud, Quiet
<1>7. CASE Around
  BY <1>7 DEF Around, cloud, Quiet
<1>8. CASE \E w \in Workers : RequestStep(w) \/ RequestEscapes(w) \/ BatchStep(w)
  BY <1>1, <1>2, <1>5, <1>8
<1> QED
  BY <1>6, <1>7, <1>8 DEF SoNext

\* Where the steps of _create_order lead a callback.
LEMMA PassMoves ==
  ASSUME TypeInv, NEW w \in Workers, PassStep(w)
  PROVE  \E k : /\ Goes(w, k)
                /\ k.cur = work[w].cur /\ k.rest = work[w].rest /\ k.msg = work[w].msg
                /\ k.pc \in Passing /\ work[w].pc \in Passing
<1> USE WorkFields DEF Work, Passing
<1>1. CASE FindExisting(w)
  <2>1. \A n : LET k == [work[w] EXCEPT !.pc = "resume", !.order = n]
               IN k.cur = work[w].cur /\ k.rest = work[w].rest
                  /\ k.msg = work[w].msg /\ k.pc = "resume"
    OBVIOUS
  <2>2. LET k == [work[w] EXCEPT !.pc = "create"]
        IN k.cur = work[w].cur /\ k.rest = work[w].rest /\ k.msg = work[w].msg
           /\ k.pc = "create"
    OBVIOUS
  <2> QED
    BY <1>1, <2>1, <2>2 DEF FindExisting
<1>2. ASSUME Raise(w), work[w].pc \in Passing
      PROVE  \E k : /\ Goes(w, k)
                    /\ k.cur = work[w].cur /\ k.rest = work[w].rest /\ k.msg = work[w].msg
                    /\ k.pc \in Passing /\ work[w].pc \in Passing
  <2> DEFINE k == [work[w] EXCEPT !.pc = "failed", !.order = None, !.todo = {},
                                  !.left = {}, !.out = {}]
  <2>1. k.cur = work[w].cur /\ k.rest = work[w].rest /\ k.msg = work[w].msg /\ k.pc = "failed"
    OBVIOUS
  <2> QED
    BY <1>2, <2>1 DEF Raise
<1>3. ASSUME NEW n, NEW seen, EnterLines(w, n, seen), work[w].pc \in Passing
      PROVE  \E k : /\ Goes(w, k)
                    /\ k.cur = work[w].cur /\ k.rest = work[w].rest /\ k.msg = work[w].msg
                    /\ k.pc \in Passing /\ work[w].pc \in Passing
  <2>1. PICK t, u, i :
          Goes(w, [work[w] EXCEPT !.pc = "lines", !.order = n, !.todo = t,
                                  !.left = u, !.out = i])
    BY <1>3 DEF EnterLines
  <2> DEFINE k == [work[w] EXCEPT !.pc = "lines", !.order = n, !.todo = t,
                                  !.left = u, !.out = i]
  <2>2. k.cur = work[w].cur /\ k.rest = work[w].rest /\ k.msg = work[w].msg /\ k.pc = "lines"
    OBVIOUS
  <2> QED
    BY <1>3, <2>1, <2>2
<1>4. CASE Resume(w) \/ CreateHeader(w)
  <2>1. work[w].pc \in Passing
    BY <1>4 DEF Resume, CreateHeader
  <2>2. Raise(w) \/ \E n, seen : EnterLines(w, n, seen)
    BY <1>4 DEF Resume, CreateHeader
  <2> QED
    BY <1>2, <1>3, <2>1, <2>2
<1>5. ASSUME NEW l \in Lines, PostLine(w, l)
      PROVE  \E k : /\ Goes(w, k)
                    /\ k.cur = work[w].cur /\ k.rest = work[w].rest /\ k.msg = work[w].msg
                    /\ k.pc \in Passing /\ work[w].pc \in Passing
  <2>1. work[w].pc = "lines"
    BY <1>5 DEF PostLine
  <2>2. \/ Raise(w)
        \/ Goes(w, [work[w] EXCEPT !.pc = "locked", !.todo = {},
                                   !.left = @ \cup work[w].todo])
        \/ Goes(w, [work[w] EXCEPT !.todo = @ \ {l}])
        \/ Goes(w, [work[w] EXCEPT !.todo = @ \ {l}, !.left = @ \cup {l}])
    BY <1>5, Zenon DEF PostLine
  <2>3. ASSUME NEW k, Goes(w, k), k \in {
                 [work[w] EXCEPT !.pc = "locked", !.todo = {}, !.left = @ \cup work[w].todo],
                 [work[w] EXCEPT !.todo = @ \ {l}],
                 [work[w] EXCEPT !.todo = @ \ {l}, !.left = @ \cup {l}]}
        PROVE  /\ Goes(w, k)
               /\ k.cur = work[w].cur /\ k.rest = work[w].rest /\ k.msg = work[w].msg
               /\ k.pc \in Passing /\ work[w].pc \in Passing
    BY <2>1, <2>3
  <2>4. CASE Raise(w)
    BY <1>2, <2>1, <2>4
  <2>5. CASE \E k : Goes(w, k) /\ k \in {
                 [work[w] EXCEPT !.pc = "locked", !.todo = {}, !.left = @ \cup work[w].todo],
                 [work[w] EXCEPT !.todo = @ \ {l}],
                 [work[w] EXCEPT !.todo = @ \ {l}, !.left = @ \cup {l}]}
    BY <2>3, <2>5, Zenon
  <2> QED
    BY <2>2, <2>4, <2>5
<1> QED
  BY <1>1, <1>4, <1>5 DEF PassStep

\* Where a settled order leads a callback.
LEMMA SettleMoves ==
  ASSUME NEW w \in Workers, Settles(w)
  PROVE  \E k : /\ Goes(w, k)
                /\ k.rest = work[w].rest /\ k.msg = work[w].msg
                /\ k.cur.po = work[w].cur.po /\ k.cur.buf \in {None, work[w].cur.buf}
                /\ k.pc \in AtOutcome /\ work[w].pc \in Passing \cup Ending
                /\ k.pc = "keep" => work[w].pc \in Passing
<1> DEFINE Leads(pc) == \E e, s : /\ Outcome(w, pc, e, s)
                                 /\ e.po = work[w].cur.po
                                 /\ e.buf \in {None, work[w].cur.buf}
<1>1. ASSUME NEW s, Report(w, s) PROVE Leads("report")
  <2> DEFINE e == [NoEntry EXCEPT !.po = work[w].cur.po]
  <2>1. Outcome(w, "report", e, s) /\ e.po = work[w].cur.po /\ e.buf = None
    BY <1>1, LeftOf DEF Report
  <2> HIDE DEF e
  <2> QED
    BY <2>1
<1>2. ASSUME NEW ls, NEW so, NEW s, Keeps(w, ls, so, s) PROVE Leads("keep")
  <2>1. KeepEntry(w, ls, so).po = work[w].cur.po /\ KeepEntry(w, ls, so).buf = None
    BY DEF KeepEntry
  <2>2. Outcome(w, "keep", KeepEntry(w, ls, so), s)
    BY <1>2 DEF Keeps, KeepEntry
  <2> QED
    BY <2>1, <2>2
<1>3. ASSUME NEW pc, NEW s, NEW d \in {None, work[w].cur.buf},
             Outcome(w, pc, [NoEntry EXCEPT !.po = work[w].cur.po, !.buf = d], s)
      PROVE  Leads(pc)
  <2> DEFINE e == [NoEntry EXCEPT !.po = work[w].cur.po, !.buf = d]
  <2>1. Outcome(w, pc, e, s) /\ e.po = work[w].cur.po /\ e.buf = d
    BY <1>3, LeftOf
  <2> HIDE DEF e
  <2> QED
    BY <2>1
<1>h. ASSUME NEW s, Outcome(w, "history", [NoEntry EXCEPT !.po = work[w].cur.po], s)
      PROVE  Leads("history")
  <2> DEFINE e == [NoEntry EXCEPT !.po = work[w].cur.po]
  <2>1. Outcome(w, "history", e, s) /\ e.po = work[w].cur.po /\ e.buf = None
    BY <1>h, LeftOf
  <2> HIDE DEF e
  <2> QED
    BY <2>1
<1> HIDE DEF Leads
<1>4. /\ work[w].pc \in Passing \cup Ending
      /\ \/ \E pc \in AtOutcome \ {"keep"} : Leads(pc)
         \/ Leads("keep") /\ work[w].pc \in Passing
  <2>1. CASE SettleOrder(w) \/ SettleFailed(w)
    BY <1>1, <1>2, <2>1 DEF SettleOrder, SettleFailed, Passing, AtOutcome
  <2>2. CASE SettleLocked(w) \/ Complete(w)
    BY <1>1, <1>3, <2>2 DEF SettleLocked, Complete, Passing, AtOutcome
  <2>3. CASE Keep(w) \/ Drop(w) \/ RecordResolved(w)
    BY <1>1, <2>3 DEF Keep, Drop, RecordResolved, Passing, Ending, AtOutcome
  <2>4. CASE ClearSynced(w)
    BY <1>h, <2>4 DEF ClearSynced, Ending, AtOutcome
  <2> QED
    BY <2>1, <2>2, <2>3, <2>4 DEF Settles
<1>5. PICK pc \in AtOutcome : Leads(pc) /\ (pc = "keep" => work[w].pc \in Passing)
  BY <1>4 DEF AtOutcome
<1>6. PICK e, s : /\ Outcome(w, pc, e, s)
                  /\ e.po = work[w].cur.po /\ e.buf \in {None, work[w].cur.buf}
  BY <1>5 DEF Leads
<1> DEFINE k == [Idle EXCEPT !.pc = pc, !.msg = work[w].msg, !.rest = work[w].rest,
                             !.cur = e, !.status = s]
<1>7. Goes(w, k) /\ k.pc = pc /\ k.msg = work[w].msg /\ k.rest = work[w].rest /\ k.cur = e
  BY <1>6 DEF Outcome, Idle
<1> HIDE DEF k
<1> QED
  BY <1>4, <1>5, <1>6, <1>7

-----------------------------------------------------------------------------
(* The rows whose details a sync or a backfill reads are staged.  A row a   *)
(* retrigger has deleted is not, until it is inserted again: so nobody but  *)
(* that retrigger may be at work, and it follows up on what it inserted.    *)

\* What a callback with locals k and v relies on, given the staged rows st.
RowsKept(st, k, v) ==
  /\ k.pc = "idle" => k.msg \notin Requests
  /\ k.msg \notin Requests => v = NoVisit
  /\ k.msg \in Requests =>
       /\ k.pc = "fetch" => v = NoVisit /\ k.rest = {}
       /\ v.stage \in Early =>
            /\ k.msg \in Retriggers /\ k.pc = "next" /\ k.rest = {} /\ v.retry = {}
            /\ v.good \subseteq st \ v.todo
            /\ v.stage = "insert" => v.ref \notin v.good \cup v.todo
       /\ v.stage \notin Early => v.good \cup v.retry \subseteq st
       /\ \A e \in k.rest : e.po \in st
       /\ k.pc \in Passing => k.cur.po \in st

\* A reference is not staged only while a retrigger is between its two calls.
OnlyBetweenCalls ==
  \A p \in POs \ staged : \E w \in Workers : visit[w].stage = "insert" /\ visit[w].ref = p

RowsInv ==
  /\ Retriggers = {} \/ Serial
  /\ \A w \in Workers : RowsKept(staged, work[w], visit[w])
  /\ Steady => OnlyBetweenCalls

\* The callback moves on to other rows, or to none.
LEMMA LoopsKeep ==
  ASSUME SoTypeInv, NEW w \in Workers, Visiting(w), NEW es, Loops(w, es), NEW st, NEW v,
         \A e \in es : e.po \in st,
         v.stage \notin Early /\ v.good \cup v.retry \subseteq st
  PROVE  RowsKept(st, work'[w], v)
<1>1. work'[w] = [Idle EXCEPT !.pc = "next", !.msg = work[w].msg, !.rest = es]
  BY DEF Loops, Goes, SoTypeInv, TypeInv, TypeOK
<1>2. work'[w].pc = "next" /\ work'[w].msg = work[w].msg /\ work'[w].rest = es
  BY <1>1 DEF Idle
<1> QED
  BY <1>2 DEF RowsKept, Visiting, Passing

\* The callback is gone.
LEMMA LeaveKeeps ==
  ASSUME SoTypeInv, NEW w \in Workers, NEW m, NEW s, Leave(w, m, s), NEW st
  PROVE  RowsKept(st, work'[w], NoVisit)
<1>1. work'[w] = Idle
  BY DEF Leave, Goes, SoTypeInv, TypeInv, TypeOK
<1>2. None \notin Requests
  BY ConstantsAssumption, RequestsAssumption
<1> QED
  BY <1>1, <1>2 DEF RowsKept, Idle

\* The rows of a loop, whose order numbers were just looked up.
LEMMA RowsOf ==
  ASSUME NEW ps
  PROVE  /\ \A e \in SyncRows(ps) : e.po \in ps
         /\ \A e \in BackfillRows(ps) : e.po \in ps
  BY DEF SyncRows, BackfillRows, NoEntry

LEMMA EnteringKeeps ==
  ASSUME SoTypeInv, NEW w \in Workers, Visiting(w), visit[w].stage \notin Early,
         RowsKept(staged, work[w], visit[w]), NEW k, Entering(w, k), Goes(w, k)
  PROVE  RowsKept(staged, work'[w], visit[w])
<1>1. work'[w] = k
  BY DEF Goes, SoTypeInv, TypeInv, TypeOK
<1>2. PICK e \in work[w].rest : \E ls \in DetailsOf(e.po) :
        /\ k.cur = [e EXCEPT !.lines = ls] /\ k.rest = work[w].rest \ {e}
        /\ k.msg = work[w].msg /\ k.pc \in {"find", "resume"}
  BY DEF Entering, Idle
<1>3. e \in Entry
  BY WorkFields DEF SoTypeInv
<1>4. k.cur.po = e.po
  BY <1>2, <1>3 DEF Entry
<1> QED
  BY <1>1, <1>2, <1>4 DEF RowsKept, Visiting

\* A batch does not visit rows.
LEMMA BatchKeeps ==
  ASSUME SoTypeInv, NEW w \in Workers, BatchStep(w), RowsKept(staged, work[w], visit[w])
  PROVE  RowsKept(staged, work'[w], visit[w])
<1>1. visit[w] = NoVisit /\ work[w].msg \notin Requests
  BY DEF BatchStep, Visiting, RowsKept
<1>2. CASE \E s : Leave(w, work[w].msg, s)
  BY <1>1, <1>2, LeaveKeeps
<1>3. ASSUME NEW k, Goes(w, k), k.msg = work[w].msg
      PROVE  RowsKept(staged, work'[w], visit[w])
  <2>1. work'[w] = k
    BY <1>3 DEF Goes, SoTypeInv, TypeInv, TypeOK
  <2> QED
    BY <1>1, <1>3, <2>1 DEF RowsKept
<1> QED
  BY <1>2, <1>3, StepKeepsMessage DEF BatchStep, SoTypeInv

\* All rows a request names are staged when it begins.
LEMMA AllStaged ==
  ASSUME WholeReads, SoTypeInv, RowsInv, NEW w \in Workers, work[w].pc = "fetch",
         work[w].msg \in Syncs \cup Backfills
  PROVE  staged = POs /\ visit[w] = NoVisit
<1>1. Steady /\ OnlyBetweenCalls
  BY DEF WholeReads, RowsInv
<1>2. ASSUME NEW v \in Workers PROVE visit[v].stage # "insert"
  <2>1. RowsKept(staged, work[v], visit[v])
    BY DEF RowsInv
  <2>2. CASE Retriggers = {}
    BY <2>1, <2>2 DEF RowsKept, NoVisit, Early
  <2>3. CASE v = w
    BY <2>1, <2>3 DEF RowsKept, NoVisit, Requests
  <2>4. CASE Serial /\ v # w
    <3>1. work[v].pc = "idle"
      BY <2>4 DEF Serial
    <3> QED
      BY <2>1, <3>1 DEF RowsKept, NoVisit
  <2> QED
    BY <2>2, <2>3, <2>4 DEF RowsInv
<1>3. staged \subseteq POs
  BY DEF SoTypeInv, SoTypeOK
<1>4. RowsKept(staged, work[w], visit[w]) /\ work[w].msg \in Requests
  BY DEF RowsInv, Requests
<1> QED
  BY <1>1, <1>2, <1>3, <1>4 DEF OnlyBetweenCalls, RowsKept

\* The steps of a sync or a backfill between two orders.
LEMMA RowLoopKeeps ==
  ASSUME WholeReads, SoTypeInv, RowsInv, NEW w \in Workers,
         \/ BeginSync(w) \/ TakeRow(w) \/ SyncRaised(w) \/ RetryRows(w) \/ BeginBackfill(w)
         \/ CheckRow(w) \/ NextRow(w)
  PROVE  RowsKept(staged, work'[w], visit'[w])
<1> DEFINE v == visit[w]
<1>0. v \in Visit /\ visit \in [Workers -> Visit] /\ RowsKept(staged, work[w], v)
  BY VisitFields DEF RowsInv, SoTypeInv, SoTypeOK
<1>1. CASE BeginSync(w)
  <2>1. Visiting(w) /\ staged = POs /\ v = NoVisit
    BY <1>1, AllStaged DEF BeginSync, Visiting, Requests
  <2>2. PICK rows \in {SyncRows(Refs[work[w].msg]), {}} : Loops(w, rows)
    BY <1>1 DEF BeginSync
  <2>3. Refs[work[w].msg] \subseteq POs
    BY <2>1, RequestsAssumption DEF Visiting
  <2>4. \A e \in rows : e.po \in staged
    BY <2>1, <2>2, <2>3, RowsOf
  <2>5. /\ visit'[w].stage = "sync" /\ visit'[w].good = {} /\ visit'[w].retry = {}
    BY <1>0, <1>1, <2>1 DEF BeginSync, Visit, NoVisit
  <2> QED
    BY <2>1, <2>2, <2>4, <2>5, LoopsKeep DEF Early
<1>2. CASE TakeRow(w)
  <2>1. PICK e \in work[w].rest : LookUp(w, e)
    BY <1>2 DEF TakeRow
  <2>2. /\ Visiting(w) /\ v.stage \in {"sync", "again"} /\ v.stage \notin Early
        /\ \A f \in work[w].rest : f.po \in staged
        /\ v.good \cup v.retry \subseteq staged
    BY <1>0, <1>2 DEF TakeRow, At, Early, RowsKept, Visiting
  <2>3. CASE /\ UNCHANGED visit
             /\ \E n \in Matching(e.po), ls \in DetailsOf(e.po) :
                  Goes(w, [Idle EXCEPT !.pc = "resume", !.msg = work[w].msg,
                             !.rest = work[w].rest \ {e}, !.cur = [e EXCEPT !.lines = ls],
                             !.order = n])
    <3>1. \E k : Entering(w, k) /\ Goes(w, k)
      BY <2>3, MatchingOrders DEF Entering
    <3> QED
      BY <1>0, <2>2, <2>3, <3>1, EnteringKeeps
  <2>4. CASE UNCHANGED visit /\ Loops(w, work[w].rest \ {e})
    BY <2>2, <2>4, LoopsKeep
  <2>5. CASE /\ Loops(w, work[w].rest \ {e})
             /\ visit' = [visit EXCEPT ![w].retry = IF v.stage = "sync" THEN @ \cup {e.po} ELSE @]
    <3>1. /\ visit'[w].stage = v.stage /\ visit'[w].good = v.good
          /\ visit'[w].retry \subseteq v.retry \cup {e.po}
      BY <1>0, <2>5 DEF Visit
    <3>2. e.po \in staged /\ \A f \in work[w].rest \ {e} : f.po \in staged
      BY <2>2
    <3>3. visit'[w].stage \notin Early /\ visit'[w].good \cup visit'[w].retry \subseteq staged
      BY <2>2, <3>1, <3>2
    <3> QED
      BY <2>2, <2>5, <3>2, <3>3, LoopsKeep
  <2> QED
    BY <2>1, <2>3, <2>4, <2>5 DEF LookUp
<1>3. CASE SyncRaised(w)
  <2>1. /\ Visiting(w) /\ v.stage \notin Early /\ Loops(w, work[w].rest)
        /\ \A f \in work[w].rest : f.po \in staged
        /\ v.good \cup v.retry \cup {work[w].cur.po} \subseteq staged
    BY <1>0, <1>3 DEF SyncRaised, Syncing, Early, RowsKept, Visiting, Passing
  <2>2. /\ visit'[w].stage = v.stage /\ visit'[w].good = v.good
        /\ visit'[w].retry \subseteq v.retry \cup {work[w].cur.po}
    BY <1>0, <1>3 DEF SyncRaised, Visit
  <2> QED
    BY <2>1, <2>2, LoopsKeep
<1>4. CASE RetryRows(w)
  <2>1. Visiting(w) /\ Loops(w, SyncRows(v.retry)) /\ v.good \cup v.retry \subseteq staged
    BY <1>0, <1>4 DEF RetryRows, At, Early, RowsKept, Visiting
  <2>2. visit'[w].stage = "again" /\ visit'[w].good = v.good /\ visit'[w].retry = {}
    BY <1>0, <1>4 DEF RetryRows, Visit
  <2> QED
    BY <2>1, <2>2, RowsOf, LoopsKeep DEF Early
<1>5. CASE BeginBackfill(w)
  <2>1. /\ visit'[w].stage = "backfill" /\ visit'[w].good = {} /\ visit'[w].retry = v.retry
    BY <1>0, <1>5 DEF BeginBackfill, Visit
  <2>2. PICK ps, rows : /\ rows \in {BackfillRows(ps), {}} /\ Loops(w, rows)
                        /\ ps = IF work[w].msg \in Backfills THEN Refs[work[w].msg] ELSE v.good
    BY <1>5 DEF BeginBackfill
  <2>3. Visiting(w) /\ ps \subseteq staged /\ v.retry \subseteq staged
    <3>1. CASE work[w].pc = "fetch" /\ work[w].msg \in Backfills
      <4>1. staged = POs /\ v = NoVisit
        BY <3>1, AllStaged
      <4>2. Visiting(w)
        BY <3>1 DEF Visiting, Requests
      <4> QED
        BY <2>2, <3>1, <4>1, <4>2, RequestsAssumption DEF Visiting, NoVisit
    <3>2. CASE work[w].msg \in Retriggers /\ Synced(w)
      <4>1. Visiting(w) /\ v.stage \notin Early /\ work[w].msg \notin Backfills
        BY <3>2, RequestsAssumption DEF Synced, At, Early
      <4> QED
        BY <1>0, <2>2, <4>1 DEF RowsKept, Visiting
    <3> QED
      BY <1>5, <3>1, <3>2 DEF BeginBackfill
  <2> QED
    BY <2>1, <2>2, <2>3, RowsOf, LoopsKeep DEF Early
<1>6. CASE CheckRow(w)
  <2>1. /\ Visiting(w) /\ v.stage \notin Early
        /\ \A f \in work[w].rest : f.po \in staged
        /\ v.good \cup v.retry \subseteq staged /\ UNCHANGED visit
    BY <1>0, <1>6 DEF CheckRow, At, Early, RowsKept, Visiting, cloud
  <2>2. (\E e \in work[w].rest : Loops(w, work[w].rest \ {e})) \/ \E k : Entering(w, k) /\ Goes(w, k)
    BY <1>6 DEF CheckRow, Entering
  <2> QED
    BY <1>0, <2>1, <2>2, LoopsKeep, EnteringKeeps
<1>7. CASE NextRow(w)
  <2>1. /\ Visiting(w) /\ v.stage \notin Early /\ Loops(w, work[w].rest)
        /\ \A f \in work[w].rest : f.po \in staged
        /\ v.good \cup v.retry \subseteq staged /\ UNCHANGED visit
    BY <1>0, <1>7 DEF NextRow, RowsKept, Visiting, cloud
  <2> QED
    BY <2>1, LoopsKeep
<1> QED
  BY <1>1, <1>2, <1>3, <1>4, <1>5, <1>6, <1>7

\* The steps of a retrigger before its follow-up.
LEMMA RetriggerKeeps ==
  ASSUME SoTypeInv, RowsInv, NEW w \in Workers,
         BeginRetrigger(w) \/ CleanStaging(w) \/ InsertRows(w) \/ RecordRetrigger(w) \/ FollowUp(w)
  PROVE  RowsKept(staged', work'[w], visit'[w])
<1> DEFINE v == visit[w]
<1>0. /\ v \in Visit /\ visit \in [Workers -> Visit] /\ RowsKept(staged, work[w], v)
      /\ work \in [Workers -> Work]
  BY VisitFields DEF RowsInv, SoTypeInv, SoTypeOK, TypeInv, TypeOK
<1>1. CASE BeginRetrigger(w)
  <2>1. PICK ps : visit' = [visit EXCEPT ![w] = [NoVisit EXCEPT !.stage = "refs", !.todo = ps]]
    BY <1>1 DEF BeginRetrigger
  <2>2. /\ visit'[w].stage = "refs" /\ visit'[w].good = {} /\ visit'[w].retry = {}
    BY <1>0, <2>1 DEF NoVisit
  <2>3. work'[w] = [Idle EXCEPT !.pc = "next", !.msg = work[w].msg, !.rest = {}]
    BY <1>0, <1>1 DEF BeginRetrigger, Loops, Goes
  <2>4. work'[w].pc = "next" /\ work'[w].msg \in Retriggers /\ work'[w].rest = {}
    BY <1>1, <2>3 DEF Idle, BeginRetrigger
  <2> QED
    BY <2>2, <2>4 DEF RowsKept, Requests, Early, Passing
<1>2. ASSUME UNCHANGED work, v.stage \in Early, Visiting(w),
             visit'[w].stage \in Early, visit'[w].retry = v.retry,
             visit'[w].good \subseteq staged' \ visit'[w].todo,
             visit'[w].stage = "insert" => visit'[w].ref \notin visit'[w].good \cup visit'[w].todo
      PROVE  RowsKept(staged', work'[w], visit'[w])
  BY <1>0, <1>2 DEF RowsKept, Visiting, Passing
<1>3. CASE CleanStaging(w)
  <2>1. UNCHANGED work /\ Visiting(w) /\ v.stage = "refs"
    BY <1>3 DEF CleanStaging, At, vars
  <2>2. v.good \subseteq staged \ v.todo
    BY <1>0, <2>1 DEF RowsKept, Early, Visiting
  <2>3. PICK p \in v.todo :
          /\ staged \ {p} \subseteq staged'
          /\ \/ visit' = [visit EXCEPT ![w].stage = "insert", ![w].ref = p, ![w].todo = @ \ {p}]
             \/ visit' = [visit EXCEPT ![w].todo = @ \ {p}]
    BY <1>3 DEF CleanStaging
  <2>4. /\ visit'[w].stage \in {"refs", "insert"} /\ visit'[w].retry = v.retry
        /\ visit'[w].good = v.good /\ visit'[w].todo = v.todo \ {p}
        /\ visit'[w].stage = "insert" => visit'[w].ref = p
    BY <1>0, <2>1, <2>3 DEF Visit
  <2>5. /\ visit'[w].good \subseteq staged' \ visit'[w].todo
        /\ p \notin visit'[w].good \cup visit'[w].todo
    BY <2>2, <2>3, <2>4
  <2> QED
    BY <1>2, <2>1, <2>4, <2>5 DEF Early
<1>4. CASE InsertRows(w)
  <2>1. UNCHANGED work /\ Visiting(w) /\ v.stage = "insert"
    BY <1>4 DEF InsertRows, At, vars
  <2>2. v.good \subseteq staged \ v.todo /\ v.ref \notin v.good \cup v.todo
    BY <1>0, <2>1 DEF RowsKept, Early, Visiting
  <2>3. /\ staged \subseteq staged'
        /\ \/ /\ visit' = [visit EXCEPT ![w].stage = "record", ![w].good = @ \cup {v.ref}]
              /\ v.ref \in staged'
           \/ visit' = [visit EXCEPT ![w].stage = "refs", ![w].ref = None]
           \/ visit' = [visit EXCEPT ![w].stage = "record"]
    BY <1>4 DEF InsertRows
  <2>4. /\ visit'[w].stage \in {"refs", "record"} /\ visit'[w].retry = v.retry
        /\ visit'[w].todo = v.todo
        /\ visit'[w].good = v.good \/ (visit'[w].good = v.good \cup {v.ref} /\ v.ref \in staged')
    BY <1>0, <2>3 DEF Visit
  <2> QED
    <3>1. visit'[w].good \subseteq staged' \ visit'[w].todo
      BY <2>2, <2>3, <2>4
    <3> QED
      BY <1>2, <2>1, <2>4, <3>1 DEF Early
<1>5. CASE RecordRetrigger(w)
  <2>1. UNCHANGED <<work, staged>> /\ Visiting(w) /\ v.stage = "record"
    BY <1>5 DEF RecordRetrigger, At
  <2>2. v.good \subseteq staged \ v.todo
    BY <1>0, <2>1 DEF RowsKept, Early, Visiting
  <2>3. PICK un : visit' = [visit EXCEPT ![w].stage = "refs", ![w].ref = None, ![w].good = @ \ un]
    BY <1>5 DEF RecordRetrigger
  <2>4. /\ visit'[w].stage = "refs" /\ visit'[w].retry = v.retry
        /\ visit'[w].todo = v.todo /\ visit'[w].good = v.good \ un
    BY <1>0, <2>3 DEF Visit
  <2> QED
    BY <1>2, <2>1, <2>2, <2>4 DEF Early
<1>6. CASE FollowUp(w)
  <2>1. UNCHANGED staged /\ Visiting(w) /\ v.stage = "refs"
    BY <1>6 DEF FollowUp, At
  <2>2. v.good \subseteq staged /\ v.retry = {}
    BY <1>0, <2>1 DEF RowsKept, Early, Visiting
  <2>3. PICK rows \in {SyncRows(v.good), {}} : Loops(w, rows)
    BY <1>6 DEF FollowUp
  <2>4. visit'[w].stage = "sync" /\ visit'[w].good = v.good /\ visit'[w].retry = v.retry
    BY <1>0, <1>6 DEF FollowUp, Visit
  <2> QED
    BY <2>1, <2>2, <2>3, <2>4, RowsOf, LoopsKeep DEF Early
<1> QED
  BY <1>1, <1>3, <1>4, <1>5, <1>6

\* The steps inside an order, and the end of a request.
LEMMA OrderKeeps ==
  ASSUME SoTypeInv, RowsInv, NEW w \in Workers,
         \/ RequestEnds(w) \/ (Visiting(w) /\ OrderStep(w))
         \/ EndRequest(w) \/ RequestEscapes(w)
  PROVE  RowsKept(staged, work'[w], visit'[w])
<1>0. /\ visit \in [Workers -> Visit] /\ RowsKept(staged, work[w], visit[w])
      /\ work \in [Workers -> Work]
  BY DEF RowsInv, SoTypeInv, SoTypeOK, TypeInv, TypeOK
<1>1. CASE EndRequest(w) \/ RequestEscapes(w)
  <2>1. visit'[w] = NoVisit /\ \E m, s : Leave(w, m, s)
    BY <1>0, <1>1 DEF EndRequest, FinishBatch, RequestEscapes, BatchEscapes, Crash
  <2> QED
    BY <2>1, LeaveKeeps
<1>2. ASSUME UNCHANGED visit, work[w].pc \in Passing \cup Ending,
             NEW k, Goes(w, k), k.rest = work[w].rest, k.msg = work[w].msg,
             k.pc \in Passing \cup AtOutcome,
             k.pc \in Passing => work[w].pc \in Passing /\ k.cur.po = work[w].cur.po
      PROVE  RowsKept(staged, work'[w], visit'[w])
  <2>1. work'[w] = k
    BY <1>0, <1>2 DEF Goes
  <2>2. Visiting(w) => visit[w].stage \notin Early
    BY <1>0, <1>2 DEF RowsKept, Visiting, Passing, Ending
  <2> QED
    BY <1>0, <1>2, <2>1, <2>2 DEF RowsKept, Visiting, Passing, AtOutcome
<1>3. CASE RequestEnds(w)
  <2>1. UNCHANGED visit /\ Settles(w)
    BY <1>3, EndsSettle
  <2>2. PICK k : /\ Goes(w, k)
                 /\ k.rest = work[w].rest /\ k.msg = work[w].msg
                 /\ k.cur.po = work[w].cur.po
                 /\ k.pc \in AtOutcome /\ work[w].pc \in Passing \cup Ending
                 /\ k.pc = "keep" => work[w].pc \in Passing
    BY <2>1, SettleMoves
  <2> QED
    BY <1>2, <1>3, <2>1, <2>2 DEF AtOutcome, Passing
<1>4. CASE Visiting(w) /\ OrderStep(w)
  <2>1. UNCHANGED visit /\ PassStep(w)
    BY <1>4 DEF OrderStep, PassStep, cloud
  <2> QED
    BY <1>2, <1>4, <2>1, PassMoves DEF SoTypeInv
<1> QED
  BY <1>1, <1>3, <1>4

\* Only a retrigger touches the staged rows, and only those of its reference.
LEMMA StagedMoves ==
  ASSUME NEW w \in Workers, RequestStep(w) \/ RequestEscapes(w) \/ BatchStep(w)
  PROVE  UNCHANGED staged \/ CleanStaging(w) \/ InsertRows(w)
  BY DEF RequestStep, RequestEscapes, BatchStep, cloud, BeginSync, TakeRow, SettleSynced, ClearSynced,
         RecordResolved, SettleVisited, SyncRaised, RetryRows, BeginBackfill, CheckRow,
         SettleBackfilled, NextRow, BeginRetrigger, RecordRetrigger, FollowUp, EndRequest, OrderStep

LEMMA CallbackKeeps ==
  ASSUME WholeReads, SoTypeInv, RowsInv, NEW w \in Workers,
         RequestStep(w) \/ RequestEscapes(w) \/ BatchStep(w)
  PROVE  RowsKept(staged', work'[w], visit'[w])
<1>1. CASE BatchStep(w)
  BY <1>1, BatchKeeps DEF RowsInv, BatchStep, cloud
<1>2. CASE \/ RequestEnds(w) \/ (Visiting(w) /\ OrderStep(w))
           \/ EndRequest(w) \/ RequestEscapes(w)
  <2>1. UNCHANGED staged
    BY <1>2, EndsSettle DEF OrderStep, EndRequest, RequestEscapes, cloud
  <2> QED
    BY <1>2, <2>1, OrderKeeps
<1>3. CASE \/ BeginSync(w) \/ TakeRow(w) \/ SyncRaised(w) \/ RetryRows(w) \/ BeginBackfill(w)
           \/ CheckRow(w) \/ NextRow(w)
  <2>1. UNCHANGED staged
    BY <1>3 DEF BeginSync, TakeRow, SyncRaised, RetryRows, BeginBackfill, CheckRow, NextRow, cloud
  <2> QED
    BY <1>3, <2>1, RowLoopKeeps
<1>4. CASE BeginRetrigger(w) \/ CleanStaging(w) \/ InsertRows(w) \/ RecordRetrigger(w)
           \/ FollowUp(w)
  BY <1>4, RetriggerKeeps
<1> QED
  BY <1>1, <1>2, <1>3, <1>4 DEF RequestStep, RequestEnds

\* A step of one callback leaves the others what they rely on: without retriggers
\* nothing is deleted, and else they are idle.
LEMMA OthersRows ==
  ASSUME SoTypeInv, RowsInv, NEW w \in Workers, NEW v \in Workers, v # w,
         RequestStep(w) \/ RequestEscapes(w) \/ BatchStep(w)
  PROVE  RowsKept(staged', work'[v], visit'[v])
<1>1. work'[v] = work[v] /\ visit'[v] = visit[v] /\ work[w].pc # "idle"
  BY CallbackAlone DEF Alone
<1>2. RowsKept(staged, work[v], visit[v]) /\ RowsKept(staged, work[w], visit[w])
  BY DEF RowsInv
<1>3. CASE Serial
  <2>1. work[v].pc = "idle"
    BY <1>1, <1>3 DEF Serial
  <2> QED
    BY <1>1, <1>2, <2>1 DEF RowsKept
<1>4. CASE Retriggers = {}
  <2>1. ~CleanStaging(w) /\ ~InsertRows(w)
    BY <1>2, <1>4 DEF CleanStaging, InsertRows, At, RowsKept, Early, Visiting
  <2>2. UNCHANGED staged
    BY <2>1, StagedMoves
  <2> QED
    BY <1>1, <1>2, <2>2
<1> QED
  BY <1>3, <1>4 DEF RowsInv

\* If nothing fails between the two calls of a retrigger, the second follows.
LEMMA BetweenStep ==
  ASSUME SoTypeInv, RowsInv, Steady, NEW w \in Workers,
         RequestStep(w) \/ RequestEscapes(w) \/ BatchStep(w)
  PROVE  OnlyBetweenCalls'
<1> SUFFICES ASSUME NEW p \in POs, p \notin staged'
             PROVE  \E v \in Workers : visit'[v].stage = "insert" /\ visit'[v].ref = p
  BY DEF OnlyBetweenCalls
<1>0. /\ visit \in [Workers -> Visit] /\ OnlyBetweenCalls /\ RowsKept(staged, work[w], visit[w])
      /\ \A v \in Workers : v # w => visit'[v] = visit[v]
  BY CallbackAlone DEF RowsInv, SoTypeInv, SoTypeOK, Alone
<1>1. CASE CleanStaging(w)
  <2>1. "staging" \notin Lapses
    BY <1>0, <1>1 DEF Steady, CleanStaging, At, RowsKept, Early, Visiting
  <2>2. PICK q \in visit[w].todo :
          /\ staged' = staged \ {q}
          /\ visit' = [visit EXCEPT ![w].stage = "insert", ![w].ref = q, ![w].todo = @ \ {q}]
    BY <1>1, <2>1 DEF CleanStaging
  <2>3. visit'[w].stage = "insert" /\ visit'[w].ref = q /\ visit[w].stage = "refs"
    BY <1>0, <1>1, <2>2 DEF Visit, CleanStaging, At
  <2>4. CASE p \in staged
    BY <2>2, <2>3, <2>4
  <2>5. CASE p \notin staged
    <3>1. PICK v \in Workers : visit[v].stage = "insert" /\ visit[v].ref = p
      BY <1>0, <2>5 DEF OnlyBetweenCalls
    <3>2. v # w
      BY <2>3, <3>1
    <3> QED
      BY <1>0, <3>1, <3>2
  <2> QED
    BY <2>4, <2>5
<1>2. CASE ~CleanStaging(w)
  <2>1. p \notin staged
    BY <1>2, StagedMoves DEF InsertRows
  <2>2. PICK v \in Workers : visit[v].stage = "insert" /\ visit[v].ref = p
    BY <1>0, <2>1 DEF OnlyBetweenCalls
  <2>3. CASE v = w
    <3>1. /\ work[w].msg \in Requests /\ work[w].msg \in Retriggers /\ work[w].pc = "next"
          /\ "crash" \notin Faults /\ "staging" \notin Lapses
      BY <1>0, <2>2, <2>3 DEF RowsKept, Early, NoVisit, Steady
    <3>2. InsertRows(w)
      BY <1>2, <2>2, <2>3, <3>1
      DEF RequestStep, RequestEscapes, BatchStep, BatchEscapes, Crash, Visiting, BeginSync, TakeRow,
          SettleSynced, ClearSynced, RecordResolved, SettleVisited, SyncRaised, RetryRows,
          BeginBackfill, CheckRow, SettleBackfilled, NextRow, BeginRetrigger, RecordRetrigger,
          FollowUp, EndRequest, OrderStep, At, Synced, SettleOrder, SettleLocked, SettleFailed,
          Keep, Drop, Complete, FindExisting, Resume, CreateHeader, PostLine
    <3>3. staged' = staged \cup {p}
      BY <2>2, <2>3, <3>1, <3>2 DEF InsertRows
    <3> QED
      BY <3>3
  <2> QED
    BY <1>0, <2>2, <2>3
<1> QED
  BY <1>1, <1>2

LEMMA RowsStep ==
  ASSUME WholeReads, SoTypeInv, RowsInv, [SoNext]_soVars
  PROVE  RowsInv'
<1>0. work \in [Workers -> Work]
  BY DEF SoTypeInv, TypeInv, TypeOK
<1>1. Retriggers = {} \/ Serial'
  <2>1. CASE [Next]_vars
    BY <2>1, SerialStep DEF WholeReads, RowsInv, SoTypeInv
  <2>2. ASSUME NEW w \in Workers, LoopStep(w) \/ SyncEnd(w) PROVE Retriggers = {} \/ Serial'
    BY <2>2, AsideMoves DEF RowsInv, SoTypeInv
  <2> QED
    BY <2>1, <2>2, StepKinds
<1>2. CASE UNCHANGED <<work, cloud>>
  <2>1. UNCHANGED <<staged, visit>>
    BY <1>2 DEF cloud
  <2> QED
    BY <1>1, <1>2, <2>1 DEF RowsInv, OnlyBetweenCalls
<1>3. ASSUME NEW w \in Workers, RequestStep(w) \/ RequestEscapes(w) \/ BatchStep(w)
      PROVE  RowsInv'
  <2>1. ASSUME NEW v \in Workers PROVE RowsKept(staged', work'[v], visit'[v])
    BY <1>3, CallbackKeeps, OthersRows
  <2> QED
    BY <1>1, <1>3, <2>1, BetweenStep DEF RowsInv
<1>4. ASSUME NEW w \in Workers, NEW m \in Messages, Deliver(w, m), UNCHANGED cloud
      PROVE  RowsInv'
  <2>1. UNCHANGED <<staged, visit>> /\ \A v \in Workers : RowsKept(staged, work[v], visit[v])
    BY <1>4 DEF cloud, RowsInv
  <2>2. work' = [work EXCEPT ![w] = [Idle EXCEPT !.pc = "fetch", !.msg = m]] /\ work[w].pc = "idle"
    BY <1>4 DEF Deliver, Goes
  <2>3. work'[w].pc = "fetch" /\ work'[w].rest = {} /\ visit[w] = NoVisit
    BY <1>0, <2>1, <2>2 DEF Idle, RowsKept
  <2>4. RowsKept(staged, work'[w], visit[w])
    BY <2>3 DEF RowsKept, NoVisit, Early, Passing
  <2>5. \A v \in Workers : v # w => work'[v] = work[v]
    BY <1>0, <2>2
  <2> QED
    BY <1>1, <2>1, <2>4, <2>5 DEF RowsInv, OnlyBetweenCalls
<1>5. CASE Around
  BY <1>2, <1>4, <1>5
  DEF Around, LeaseExpires, Retrigger, RecordHandoff, EnterByHand, ChangeStatus
<1> QED
  BY <1>2, <1>3, <1>5 DEF SoNext, soVars, vars

-----------------------------------------------------------------------------
(* Coverage is kept.                                                        *)

\* The steps of a request between its orders.
LEMMA LoopCovers ==
  ASSUME WholeReads, TypeInv, RowsInv, CoverInv, NEW w \in Workers, LoopStep(w)
  PROVE  \A v \in Workers : WorkCovers(orders', excluded', work'[v])
<1>1. Lasting
  BY DEF LoopStep, Lasting
<1>2. CASE UNCHANGED work
  BY <1>1, <1>2, WorkCoversLast, WorkFields DEF CoverInv
<1>3. ASSUME NEW k, Between(w, k) \/ Entering(w, k), Goes(w, k)
      PROVE  WorkCovers(orders', excluded', k)
  <2>1. k.msg \in Requests
    BY <1>3 DEF Between, Entering, Idle, LoopStep, Visiting
  <2>2. CASE Between(w, k)
    <3>1. k.pc = "next"
      BY <2>2 DEF Between, Idle
    <3> QED
      BY <2>1, <3>1 DEF WorkCovers, Created, Passing
  <2>3. CASE Entering(w, k)
    <3>1. PICK e \in work[w].rest : \E ls \in DetailsOf(e.po) :
            k.cur = [e EXCEPT !.lines = ls] /\ k.pc \in {"find", "resume"}
      BY <2>3 DEF Entering, Idle
    <3>2. e \in Entry /\ e.po \in POs
      BY WorkFields DEF Ready
    <3>3. e.po \in staged
      BY DEF RowsInv, RowsKept, LoopStep, Visiting
    <3>4. DetailsOf(e.po) = {LinesOf(e.po)}
      BY <3>3 DEF DetailsOf, WholeReads
    <3>5. k.cur.lines = LinesOf(k.cur.po)
      BY <3>1, <3>2, <3>4 DEF Entry
    <3> QED
      BY <2>1, <3>1, <3>5 DEF WorkCovers, Created, Passing, Covers
  <2> QED
    BY <1>3, <2>2, <2>3, Zenon
<1> QED
  BY <1>1, <1>2, <1>3, GoesCovers DEF LoopStep

LineInv == SoHomeInv /\ RowsInv /\ CoverInv

\* After an order is settled, what is reported of it holds.
LEMMA SettledCovers ==
  ASSUME SoHomeInv, CoverInv, NEW w \in Workers, Settles(w), Reports(w)
  PROVE  CoverInv'
<1> USE DEF SoHomeInv, SoTypeInv
<1>1. UNCHANGED handoff
  BY SettleCovers
<1>2. \A p \in POs : handoff'[p] = "created" =>
        \A l \in LinesOf(p) : Present(orders', excluded', l)
  BY <1>1, SettleCovers, RestCovers
<1>3. \A p \in resolved' : \A l \in LinesOf(p) : Present(orders', excluded', l)
  <2>1. \A p \in resolved : \A l \in LinesOf(p) : Present(orders', excluded', l)
    BY SettleCovers, RestCovers
  <2>2. WorkCovers(orders', excluded', work[w])
    BY SettleCovers, WorkCoversLast, WorkFields DEF CoverInv
  <2> QED
    BY <2>1, <2>2 DEF Reports, WorkCovers, Created
<1> QED
  BY <1>2, <1>3, SettleCovers DEF CoverInv

LEMMA CoverStep ==
  ASSUME Whole, LineInv, [SoNext]_soVars
  PROVE  CoverInv'
<1> USE DEF LineInv, SoHomeInv, SoTypeInv
<1>u. ASSUME UNCHANGED <<work, orders, buffer, excluded, resolved>>,
             \A p \in POs : handoff'[p] = "created" => handoff[p] = "created"
      PROVE  CoverInv'
  BY <1>u, WorkQuiet, CoverQuiet DEF Lasting
<1>1. CASE UNCHANGED vars /\ Quiet
  BY <1>1, <1>u DEF vars, Quiet
<1>2. ASSUME NEW w \in Workers, LoopStep(w), Quiet PROVE CoverInv'
  <2>1. \A v \in Workers : WorkCovers(orders', excluded', work'[v])
    BY <1>2, LoopCovers DEF Whole
  <2>2. UNCHANGED <<orders, buffer, excluded, resolved>>
    BY <1>2 DEF LoopStep, Quiet
  <2>3. \A p \in POs : handoff'[p] = "created" => handoff[p] = "created"
    BY <1>2 DEF LoopStep
  <2> QED
    BY <2>1, <2>2, <2>3, CoverQuiet
<1>3. ASSUME NEW w \in Workers, PassStep(w), Quiet PROVE CoverInv'
  <2>1. Lasting /\ \A v \in Workers : WorkCovers(orders', excluded', work'[v])
    BY <1>3, PassCovers DEF PassStep, Whole
  <2>2. UNCHANGED <<buffer, handoff>>
    BY <1>3 DEF PassStep, FindExisting, Resume, CreateHeader, PostLine
  <2> QED
    BY <1>3, <2>1, <2>2, RestCovers DEF CoverInv, Quiet
<1>4. ASSUME NEW w \in Workers, EndStep(w), Quiet PROVE CoverInv'
  <2>1. /\ \E m, s : Leave(w, m, s)
        /\ UNCHANGED <<orders, buffer, excluded, handoff>>
    BY <1>4 DEF EndStep, PrefetchTransient, PrefetchPermanent, BatchEscapes, Crash, FinishBatch
  <2>2. \A v \in Workers : WorkCovers(orders', excluded', work'[v])
    BY <2>1, LeaveCovers
  <2> QED
    BY <1>4, <2>1, <2>2, CoverQuiet DEF Quiet
<1>5. ASSUME NEW w \in Workers, Settles(w), Reports(w) PROVE CoverInv'
  BY <1>5, SettledCovers
<1>6. ASSUME NEW w \in Workers, ~Visiting(w), Merge(w) \/ TakeOrder(w), Quiet PROVE CoverInv'
  <2>1. \A v \in Workers : WorkCovers(orders', excluded', work'[v])
    BY <1>6, MergeCovers, TakeOrderCovers DEF Whole
  <2> QED
    BY <1>6, <2>1, CoverQuiet DEF Merge, TakeOrder, Quiet
<1>7. ASSUME NEW w \in Workers, ~Visiting(w), ReportOrder(w), Quiet PROVE CoverInv'
  <2> DEFINE k == [Idle EXCEPT !.pc = "next", !.msg = work[w].msg, !.rest = work[w].rest]
             p == work[w].cur.po
  <2>1. WorkCovers(orders, excluded, work[w])
    BY DEF CoverInv
  <2>2. k.pc = "next" /\ k.msg = work[w].msg /\ k.rest = work[w].rest
    BY DEF Idle
  <2>3. WorkCovers(orders', excluded', k)
    <3> HIDE DEF k
    <3> QED
      BY <1>7, <2>1, <2>2 DEF WorkCovers, Created, Passing, ReportOrder
  <2>4. \A v \in Workers : WorkCovers(orders', excluded', work'[v])
    BY <1>7, <2>3, GoesCovers DEF ReportOrder, Lasting
  <2>5. \A q \in POs : handoff'[q] = "created" =>
          handoff[q] = "created" \/ \A l \in LinesOf(q) : Present(orders, excluded, l)
    <3>1. \A q \in POs : handoff'[q] = handoff[q] \/ (q = p /\ handoff'[q] = work[w].status)
      BY <1>7 DEF ReportOrder, TypeInv, TypeOK
    <3>2. work[w].status = "created" => \A l \in LinesOf(p) : Present(orders, excluded, l)
      BY <1>7, <2>1 DEF WorkCovers, Created, ReportOrder
    <3> QED
      BY <3>1, <3>2
  <2> QED
    BY <1>7, <2>4, <2>5, CoverQuiet DEF ReportOrder, Quiet
<1>8. CASE Around /\ Quiet
  <2>1. ASSUME NEW w \in Workers, NEW m \in Messages, Deliver(w, m) PROVE CoverInv'
    <3> DEFINE k == [Idle EXCEPT !.pc = "fetch", !.msg = m]
    <3>1. WorkCovers(orders', excluded', k)
      BY DEF WorkCovers, Created, Idle, Passing
    <3>2. \A v \in Workers : WorkCovers(orders', excluded', work'[v])
      BY <2>1, <3>1, GoesCovers DEF Deliver, Lasting
    <3> QED
      BY <1>8, <2>1, <3>2, CoverQuiet DEF Deliver, Quiet
  <2>2. CASE \E m \in Messages : LeaseExpires(m) \/ Retrigger(m)
    BY <1>8, <1>u, <2>2 DEF LeaseExpires, Retrigger, Quiet
  <2>3. ASSUME NEW p \in POs, RecordHandoff(p) PROVE CoverInv'
    BY <1>8, <1>u, <2>3 DEF RecordHandoff, Quiet, TypeInv, TypeOK
  <2>4. CASE (\E p \in POs : EnterByHand(p)) \/ (\E n \in OrderNos : ChangeStatus(n))
    <3>1. Lasting /\ UNCHANGED <<buffer, work, handoff>>
      BY <2>4, OrdersLast DEF EnterByHand, ChangeStatus
    <3> QED
      BY <1>8, <3>1, WorkQuiet, RestCovers DEF CoverInv, Quiet
  <2> QED
    BY <1>8, <2>1, <2>2, <2>3, <2>4 DEF Around
<1> QED
  BY <1>1, <1>2, <1>3, <1>4, <1>5, <1>6, <1>7, <1>8, SoCases

LEMMA LineInit == SoInit => LineInv
<1> SUFFICES ASSUME SoInit PROVE LineInv
  OBVIOUS
<1>1. SoHomeInv
  BY SoTypeInit, HomeInit DEF SoInit, SoHomeInv
<1>2. CoverInv
  BY IdleCovers DEF SoInit, Init, CoverInv, DocCovers, NoDoc
<1>3. RowsInv
  <2>1. None \notin Requests
    BY ConstantsAssumption, RequestsAssumption
  <2> QED
    BY <2>1 DEF SoInit, Init, RowsInv, RowsKept, OnlyBetweenCalls, Serial, Idle
<1> QED
  BY <1>1, <1>2, <1>3 DEF LineInv

LEMMA LineStep ==
  ASSUME Whole, LineInv, [SoNext]_soVars
  PROVE  LineInv'
  BY SoHomeStep, CoverStep, RowsStep DEF LineInv, Whole, SoHomeInv

\* A handoff record never says "created" of a purchase order with a line
\* outstanding, whatever fails, overlaps or is redelivered, Firestore included.
THEOREM CreatedIsComplete == ASSUME Whole PROVE SoSpec => []CreatedMeansComplete
<1>1. LineInv => CreatedMeansComplete
  BY DEF LineInv, CoverInv, Present, On, OnOrder, CreatedMeansComplete, LinesOf
<1>2. LineInv /\ [SoNext]_soVars => LineInv'
  BY LineStep
<1> QED
  BY <1>1, <1>2, LineInit, PTL DEF SoSpec

\* A sync reports a purchase order as resolved only when all of its lines are
\* there, if the detail rows it read were whole (a failed read gives none).
THEOREM ResolvedIsPresent == ASSUME Whole PROVE SoSpec => []ResolvedMeansPresent
<1>0. SoHomeInv => resolved \subseteq POs
  BY DEF SoHomeInv, SoTypeInv, SoTypeOK
<1>1. LineInv => ResolvedMeansPresent
  BY <1>0 DEF LineInv, CoverInv, Present, On, OnOrder, ResolvedMeansPresent, LinesOf
<1>2. LineInv /\ [SoNext]_soVars => LineInv'
  BY LineStep
<1> QED
  BY <1>1, <1>2, LineInit, PTL DEF SoSpec

-----------------------------------------------------------------------------
(* No line is lost.  This needs Firestore to keep what it is given, and a   *)
(* batch to be acked only when its loop is through.                         *)

Dependable == Faults \cap {"firestore", "prefetch"} = {}

Acc == {l \in Lines : Accounted(l)}

\* The lines that no document of the buffer is needed for any more.
Firm == {l \in Lines : OnOrder(l) \/ l \in blocked \/ l \in excluded}

\* The buffer document of an entry is that of its purchase order.
OwnDoc(e) == e.buf # None => e.po \in POs /\ e.buf = DocIdOf[e.po]

\* A line of the batch that is not settled yet is still to be taken up.
Owed(k, l) ==
  \/ \E e \in k.rest : e.po = PoOf[l]
  \/ k.pc \in Passing \cup Ending /\ k.cur.po = PoOf[l]

\* The locals k of a callback, given the lines acc that are accounted for and those
\* that are firm.  A document is only about to be dropped when all its lines are.
WorkAccounts(acc, firm, k) ==
  /\ OwnDoc(k.cur) /\ \A e \in k.rest : OwnDoc(e)
  /\ k.pc \notin {"idle", "fetch"} => \A l \in Batch[k.msg] : l \in acc \/ Owed(k, l)
  /\ k.pc = "drop" => LinesOf(k.cur.po) \subseteq firm

AccountInv ==
  /\ NoLostLine
  /\ SettledMeansAccounted
  /\ \A w \in Workers : WorkAccounts(Acc, Firm, work[w])

KeptInv == LineInv /\ AccountInv

\* Of an order whose lines are all in the buffer, or firm, nothing is lost with
\* whatever else happens to its document.
LEMMA OwnDocument ==
  ASSUME DistinctDocs, NEW p \in POs, UNCHANGED orders,
         blocked \subseteq blocked', excluded \subseteq excluded',
         \/ UNCHANGED buffer
         \/ /\ \A l \in LinesOf(p) : Accounted(l)'
            /\ \A e \in DocIds : e # DocIdOf[p] => buffer'[e] = buffer[e]
  PROVE  \A l \in Lines : Accounted(l) => Accounted(l)'
<1>1. \A l \in Lines : OnOrder(l)' = OnOrder(l)
  BY DEF OnOrder
<1>2. CASE UNCHANGED buffer
  BY <1>1, <1>2 DEF Accounted, Buffered
<1>3. CASE /\ \A l \in LinesOf(p) : Accounted(l)'
           /\ \A e \in DocIds : e # DocIdOf[p] => buffer'[e] = buffer[e]
  BY <1>1, <1>3, ConstantsAssumption DEF DistinctDocs, Accounted, Buffered, LinesOf
<1> QED
  BY <1>2, <1>3

\* Every end of an order accounts for all of its lines.
LEMMA SettledAccounts ==
  ASSUME Dependable, DistinctDocs, LineInv, AccountInv, NEW w \in Workers, Settles(w)
  PROVE  /\ work'[w].pc = "report" => \A l \in LinesOf(work[w].cur.po) : Accounted(l)'
         /\ work'[w].pc = "drop" => LinesOf(work[w].cur.po) \subseteq Firm'
         /\ \A l \in Lines : Accounted(l) => Accounted(l)'
<1> USE DEF LineInv, SoHomeInv, SoTypeInv
<1> DEFINE p == work[w].cur.po
           d == DocIdOf[p]
           Done == /\ work'[w].pc # "drop"
                   /\ \A l \in LinesOf(p) : Accounted(l)'
                   /\ \A e \in DocIds : e # d => buffer'[e] = buffer[e]
           Waits == work'[w].pc \notin {"report", "drop"} /\ UNCHANGED buffer
<1>1. p \in POs /\ d \in DocIds
  BY SettlesAtOrder, WorkFields, ConstantsAssumption DEF Ready
<1>2. /\ WorkCovers(orders, excluded, work[w]) /\ WorkAccounts(Acc, Firm, work[w])
      /\ work \in [Workers -> Work]
  BY DEF CoverInv, AccountInv, TypeInv, TypeOK
<1>3. UNCHANGED orders /\ blocked \subseteq blocked' /\ excluded \subseteq excluded'
  BY DEF Settles, SettleOrder, SettleLocked, SettleFailed, Keep, Drop, Complete, ClearSynced,
         RecordResolved
<1>4. \A l \in Lines : OnOrder(l)' = OnOrder(l) /\ OnOrder(l) = On(orders, l)
  BY <1>3 DEF OnOrder, On
<1>5. /\ \A l \in Lines : Present(orders, excluded', l) => l \in Firm'
      /\ Firm \subseteq Firm'
      /\ \A l \in LinesOf(p) : l \in Firm' => Accounted(l)'
  BY <1>3, <1>4 DEF Present, Accounted, Firm, LinesOf
<1>6. buffer \in [DocIds -> Doc]
  BY DEF TypeInv, TypeOK
<1>7. ASSUME Delete(work[w].cur.buf) \/ UNCHANGED buffer
      PROVE  \A e \in DocIds : e # d => buffer'[e] = buffer[e]
  BY <1>2, <1>6, <1>7 DEF Delete, OwnDoc, WorkAccounts
<1>8. \A pc, e, s : Outcome(w, pc, e, s) => work'[w].pc = pc
  BY <1>2 DEF Outcome, Goes, Idle
<1>9. /\ \A ls, so, s : Keeps(w, ls, so, s) => work'[w].pc = "keep"
      /\ \A s : Report(w, s) => work'[w].pc = "report"
  BY <1>8 DEF Keeps, Report
<1>a. ASSUME LinesOf(p) \subseteq Firm', Delete(work[w].cur.buf) \/ UNCHANGED buffer,
             work'[w].pc # "drop"
      PROVE  Done
  BY <1>5, <1>7, <1>a
<1>10. CASE SettleOrder(w)
  <2>1. \A l \in LinesOf(p) : l \in work[w].left \/ Present(orders, excluded', l)
    BY <1>1, <1>2, <1>10 DEF SettleOrder, WorkCovers, Covers, Present, Passing
  <2>2. ASSUME Keeps(w, work[w].left, work[w].order, "buffered"), UNCHANGED buffer
        PROVE  Waits
    BY <1>9, <2>2
  <2>3. ASSUME work[w].left = {}, Delete(work[w].cur.buf), Report(w, "created")
        PROVE  Done
    <3>1. LinesOf(p) \subseteq Firm' /\ work'[w].pc # "drop"
      BY <1>5, <1>9, <2>1, <2>3 DEF LinesOf
    <3> QED
      BY <1>a, <2>3, <3>1
  <2> HIDE DEF Waits, Done
  <2>4. Waits \/ Done
    BY <1>10, <2>2, <2>3 DEF SettleOrder
  <2> USE DEF Waits, Done
  <2> QED
    BY <1>1, <1>3, <2>4, OwnDocument
<1>11. CASE SettleLocked(w)
  <2>1. \A l \in LinesOf(p) : l \in work[w].left \/ Present(orders, excluded', l)
    BY <1>1, <1>2, <1>11 DEF SettleLocked, WorkCovers, Covers, Present, Passing
  <2>2. blocked' = blocked \cup work[w].left
    BY <1>11 DEF SettleLocked, Dependable
  <2>3. LinesOf(p) \subseteq Firm'
    BY <1>5, <2>1, <2>2 DEF Firm, LinesOf
  <2>4. UNCHANGED buffer
    BY <1>11 DEF SettleLocked
  <2> QED
    BY <1>1, <1>3, <1>5, <2>3, <2>4, OwnDocument
<1>12. CASE SettleFailed(w)
  <2>1. Waits
    BY <1>9, <1>12 DEF SettleFailed
  <2> QED
    BY <1>1, <1>3, <2>1, OwnDocument
<1>13. CASE Keep(w)
  <2>1. \A l \in LinesOf(p) : l \in work[w].cur.lines \/ Present(orders, excluded', l)
    BY <1>2, <1>13 DEF Keep, WorkCovers, Covers, Present, Passing
  <2>2. buffer' = [buffer EXCEPT ![d] =
                     [po |-> p, lines |-> work[w].cur.lines, so |-> work[w].cur.so]]
    BY <1>13 DEF Keep, Dependable
  <2>3. \A l \in LinesOf(p) \cap work[w].cur.lines : Buffered(l)'
    BY <1>1, <1>6, <2>2 DEF Buffered, LinesOf
  <2>4. \A l \in LinesOf(p) : Accounted(l)'
    BY <1>5, <2>1, <2>3 DEF Accounted, LinesOf
  <2>5. \A e \in DocIds : e # d => buffer'[e] = buffer[e]
    BY <1>6, <2>2
  <2>6. work'[w].pc = "report"
    BY <1>9, <1>13 DEF Keep
  <2> QED
    BY <1>1, <1>3, <2>4, <2>5, <2>6, OwnDocument
<1>14. CASE Drop(w)
  <2>1. LinesOf(p) \subseteq Firm'
    BY <1>2, <1>5, <1>14 DEF Drop, WorkAccounts
  <2>2. Done
    BY <1>9, <1>14, <1>a, <2>1 DEF Drop
  <2> QED
    BY <1>1, <1>3, <2>2, OwnDocument
<1>15. CASE Complete(w) \/ ClearSynced(w) \/ RecordResolved(w)
  <2>1. \A l \in LinesOf(p) : Present(orders, excluded', l)
    <3>1. CASE Complete(w)
      BY <1>2, <3>1 DEF Complete, WorkCovers, Covers, Present, Passing
    <3>2. CASE ClearSynced(w) \/ RecordResolved(w)
      BY <1>2, <1>3, <3>2 DEF ClearSynced, RecordResolved, WorkCovers, Created, Present
    <3> QED
      BY <1>15, <3>1, <3>2
  <2>2. LinesOf(p) \subseteq Firm'
    BY <1>5, <2>1 DEF LinesOf
  <2>3. work'[w].pc # "drop" /\ (Delete(work[w].cur.buf) \/ UNCHANGED buffer)
    BY <1>8, <1>9, <1>15 DEF Complete, ClearSynced, RecordResolved
  <2>4. Done
    BY <1>a, <2>2, <2>3
  <2> QED
    BY <1>1, <1>3, <2>4, OwnDocument
<1> QED
  BY <1>10, <1>11, <1>12, <1>13, <1>14, <1>15 DEF Settles

\* What is accounted for stays so.
LEMMA AccountedLasts ==
  ASSUME Dependable, Whole, LineInv, AccountInv, [SoNext]_soVars
  PROVE  \A l \in Lines : Accounted(l) => Accounted(l)'
<1> USE DEF LineInv, SoHomeInv, SoTypeInv
<1>1. CASE \E w \in Workers : Settles(w)
  BY <1>1, SettledAccounts DEF Whole
<1>2. ASSUME Lasting, UNCHANGED buffer, UNCHANGED blocked
      PROVE  \A l \in Lines : Accounted(l) => Accounted(l)'
  BY <1>2 DEF Lasting, Accounted, Buffered, OnOrder, On
<1>3. CASE UNCHANGED <<orders, buffer, blocked, excluded>>
  BY <1>2, <1>3 DEF Lasting
<1>4. ASSUME NEW w \in Workers, PassStep(w)
      PROVE  \A l \in Lines : Accounted(l) => Accounted(l)'
  <2>1. Lasting
    BY <1>4, PassCovers DEF PassStep, Whole
  <2> QED
    BY <1>2, <1>4, <2>1 DEF PassStep, FindExisting, Resume, CreateHeader, PostLine
<1>5. CASE (\E p \in POs : EnterByHand(p)) \/ (\E n \in OrderNos : ChangeStatus(n))
  BY <1>2, <1>5, OrdersLast DEF EnterByHand, ChangeStatus
<1>6. CASE UNCHANGED vars
  BY <1>3, <1>6 DEF vars
<1>7. CASE \E w \in Workers : LoopStep(w) \/ EndStep(w) \/ Merge(w) \/ TakeOrder(w)
                              \/ ReportOrder(w)
  BY <1>3, <1>7
  DEF LoopStep, EndStep, PrefetchTransient, PrefetchPermanent, BatchEscapes, Crash, FinishBatch,
      Merge, TakeOrder, ReportOrder
<1>8. CASE Around
  BY <1>3, <1>5, <1>8 DEF Around, Deliver, LeaseExpires, Retrigger, RecordHandoff
<1> QED
  BY <1>1, <1>4, <1>6, <1>7, <1>8, SoCases

\* Lines that are given up stay given up.
LEMMA ClosedLasts ==
  ASSUME SoTypeInv, [SoNext]_soVars
  PROVE  blocked \subseteq blocked' /\ excluded \subseteq excluded'
<1>1. ASSUME NEW w \in Workers,
             LoopStep(w) \/ PassStep(w) \/ EndStep(w) \/ Merge(w) \/ TakeOrder(w) \/ ReportOrder(w)
      PROVE  UNCHANGED <<blocked, excluded>>
  BY <1>1
  DEF LoopStep, PassStep, FindExisting, Resume, CreateHeader, PostLine, EndStep, Merge, TakeOrder,
      ReportOrder, PrefetchTransient, PrefetchPermanent, BatchEscapes, Crash, FinishBatch
<1>2. ASSUME NEW w \in Workers, Settles(w)
      PROVE  blocked \subseteq blocked' /\ excluded \subseteq excluded'
  BY <1>2
  DEF Settles, SettleOrder, SettleLocked, SettleFailed, Keep, Drop, Complete, ClearSynced,
      RecordResolved
<1>3. CASE Around
  BY <1>3
  DEF Around, Deliver, LeaseExpires, Retrigger, RecordHandoff, EnterByHand, ChangeStatus
<1> QED
  BY <1>1, <1>2, <1>3, SoCases DEF vars

LEMMA FirmLasts ==
  ASSUME Whole, LineInv, [SoNext]_soVars
  PROVE  Firm \subseteq Firm'
<1> USE DEF LineInv, SoHomeInv, SoTypeInv
<1>1. \A l \in Lines : On(orders, l) => On(orders', l)
  <2>1. CASE UNCHANGED orders
    BY <2>1
  <2>2. ASSUME NEW w \in Workers, PassStep(w) PROVE Lasting
    BY <2>2, PassCovers DEF PassStep, Whole
  <2>3. CASE (\E p \in POs : EnterByHand(p)) \/ (\E n \in OrderNos : ChangeStatus(n))
    BY <2>3, OrdersLast DEF Lasting
  <2>4. CASE Around
    BY <2>1, <2>3, <2>4 DEF Lasting, Around, Deliver, LeaseExpires, Retrigger, RecordHandoff
  <2>5. ASSUME NEW w \in Workers, LoopStep(w) \/ EndStep(w) \/ Merge(w) \/ TakeOrder(w)
                                    \/ ReportOrder(w) \/ Settles(w)
        PROVE  UNCHANGED orders
    BY <2>5, SettleCovers
    DEF LoopStep, EndStep, PrefetchTransient, PrefetchPermanent, BatchEscapes, Crash, FinishBatch,
        Merge, TakeOrder, ReportOrder
  <2> QED
    BY <2>1, <2>2, <2>3, <2>4, <2>5, SoCases DEF Lasting, vars
<1>2. blocked \subseteq blocked' /\ excluded \subseteq excluded'
  BY ClosedLasts
<1>3. \A l \in Lines : OnOrder(l) = On(orders, l) /\ OnOrder(l)' = On(orders', l)
  BY DEF OnOrder, On
<1> QED
  BY <1>1, <1>2, <1>3 DEF Firm

\* One callback moves on with its lines accounted for, the others stay.
LEMMA GoesAccounts ==
  ASSUME TypeInv, AccountInv, Acc \subseteq Acc', Firm \subseteq Firm',
         NEW w \in Workers, NEW k, Goes(w, k),
         WorkAccounts(Acc', Firm', k)
  PROVE  \A v \in Workers : WorkAccounts(Acc', Firm', work'[v])
<1> SUFFICES ASSUME NEW v \in Workers PROVE WorkAccounts(Acc', Firm', work'[v])
  OBVIOUS
<1>1. CASE v = w
  BY <1>1 DEF Goes, TypeInv, TypeOK
<1>2. CASE v # w
  <2>1. work'[v] = work[v]
    BY <1>2 DEF Goes, TypeInv, TypeOK
  <2>2. WorkAccounts(Acc, Firm, work[v])
    BY DEF AccountInv
  <2> QED
    BY <2>1, <2>2 DEF WorkAccounts
<1> QED
  BY <1>1, <1>2

\* Every step leaves the callbacks with their lines accounted for.
LEMMA AccountsStep ==
  ASSUME Dependable, Whole, LineInv, AccountInv, [SoNext]_soVars
  PROVE  \A v \in Workers : WorkAccounts(Acc', Firm', work'[v])
<1> USE DEF LineInv, SoHomeInv, SoTypeInv
<1>0. /\ Acc \subseteq Acc' /\ Firm \subseteq Firm'
      /\ \A v \in Workers : WorkAccounts(Acc, Firm, work[v])
  BY AccountedLasts, FirmLasts DEF Acc, AccountInv
<1>u. CASE UNCHANGED work
  BY <1>0, <1>u DEF WorkAccounts
<1>1. CASE UNCHANGED vars
  BY <1>1, <1>u DEF vars
<1>2. ASSUME NEW w \in Workers, LoopStep(w)
      PROVE  \A v \in Workers : WorkAccounts(Acc', Firm', work'[v])
  <2>1. ASSUME NEW k, Between(w, k) \/ Entering(w, k), Goes(w, k)
        PROVE  WorkAccounts(Acc', Firm', k)
    <3>a. \A e \in work[w].rest : OwnDoc(e) /\ e \in Entry
      BY <1>0, WorkFields DEF WorkAccounts
    <3>b. \A e \in Rows : OwnDoc(e) /\ e \in Entry
      BY DEF Rows, OwnDoc
    <3>1. \A e \in Rows \cup work[w].rest : OwnDoc(e) /\ e \in Entry
      BY <3>a, <3>b
    <3>2. k.msg = work[w].msg
      BY <2>1 DEF Between, Entering, Idle
    <3>3. Batch[k.msg] = {}
      BY <1>2, <3>2, RequestsAssumption DEF LoopStep, Visiting
    <3>c. k.rest \subseteq Rows \cup work[w].rest
      <4>1. CASE Between(w, k)
        BY <4>1 DEF Between, Idle
      <4>2. CASE Entering(w, k)
        <5>1. PICK e \in work[w].rest : \E ls :
                \/ k = [Idle EXCEPT !.pc = "find", !.msg = work[w].msg,
                          !.rest = work[w].rest \ {e}, !.cur = [e EXCEPT !.lines = ls]]
                \/ \E n : k = [Idle EXCEPT !.pc = "resume", !.msg = work[w].msg,
                                  !.rest = work[w].rest \ {e},
                                  !.cur = [e EXCEPT !.lines = ls], !.order = n]
          BY <4>2 DEF Entering
        <5>2. k.rest = work[w].rest \ {e}
          BY <5>1 DEF Idle
        <5> QED
          BY <5>2
      <4> QED
        BY <2>1, <4>1, <4>2
    <3>4. \A e \in k.rest : OwnDoc(e)
      BY <3>1, <3>c
    <3>5. OwnDoc(k.cur)
      <4>1. CASE Between(w, k)
        BY <4>1 DEF Between, Idle, NoEntry, OwnDoc
      <4>2. CASE Entering(w, k)
        <5>0. PICK e \in work[w].rest : \E ls :
                \/ k = [Idle EXCEPT !.pc = "find", !.msg = work[w].msg,
                          !.rest = work[w].rest \ {e}, !.cur = [e EXCEPT !.lines = ls]]
                \/ \E n : k = [Idle EXCEPT !.pc = "resume", !.msg = work[w].msg,
                                  !.rest = work[w].rest \ {e},
                                  !.cur = [e EXCEPT !.lines = ls], !.order = n]
          BY <4>2 DEF Entering
        <5>1. \E ls : k.cur = [e EXCEPT !.lines = ls]
          BY <5>0, ZenonT(60) DEF Idle
        <5>2. k.cur.buf = e.buf /\ k.cur.po = e.po
          BY <3>1, <5>1 DEF Entry
        <5> QED
          BY <3>1, <5>2 DEF OwnDoc
      <4> QED
        BY <2>1, <4>1, <4>2
    <3>6. k.pc # "drop"
      BY <2>1 DEF Between, Entering, Idle
    <3> QED
      BY <3>3, <3>4, <3>5, <3>6 DEF WorkAccounts
  <2> QED
    BY <1>0, <1>2, <1>u, <2>1, GoesAccounts DEF LoopStep
<1>3. ASSUME NEW w \in Workers, PassStep(w)
      PROVE  \A v \in Workers : WorkAccounts(Acc', Firm', work'[v])
  <2>1. PICK k : /\ Goes(w, k)
                 /\ k.cur = work[w].cur /\ k.rest = work[w].rest /\ k.msg = work[w].msg
                 /\ k.pc \in Passing /\ work[w].pc \in Passing
    BY <1>3, PassMoves
  <2>2. WorkAccounts(Acc', Firm', k)
    BY <1>0, <2>1 DEF WorkAccounts, Owed, Passing, Ending
  <2> QED
    BY <1>0, <2>1, <2>2, GoesAccounts
<1>4. ASSUME NEW w \in Workers, EndStep(w)
      PROVE  \A v \in Workers : WorkAccounts(Acc', Firm', work'[v])
  <2>1. Goes(w, Idle)
    BY <1>4
    DEF EndStep, PrefetchTransient, PrefetchPermanent, BatchEscapes, Crash, FinishBatch, Leave
  <2>2. WorkAccounts(Acc', Firm', Idle)
    BY DEF WorkAccounts, Idle, NoEntry, OwnDoc
  <2> QED
    BY <1>0, <2>1, <2>2, GoesAccounts
<1>5. ASSUME NEW w \in Workers, Settles(w)
      PROVE  \A v \in Workers : WorkAccounts(Acc', Firm', work'[v])
  <2>1. PICK k : /\ Goes(w, k)
                 /\ k.rest = work[w].rest /\ k.msg = work[w].msg
                 /\ k.cur.po = work[w].cur.po /\ k.cur.buf \in {None, work[w].cur.buf}
                 /\ k.pc \in AtOutcome /\ work[w].pc \in Passing \cup Ending
    BY <1>5, SettleMoves
  <2>2. work[w].msg \in Messages /\ work'[w] = k
    BY <2>1, WorkFields DEF Ready, Passing, Ending, Goes, TypeInv, TypeOK
  <2>3. ASSUME NEW l \in Batch[k.msg] PROVE l \in Acc' \/ Owed(k, l)
    <3>1. l \in Lines
      BY <2>1, <2>2, ConstantsAssumption
    <3>2. CASE work[w].cur.po = PoOf[l] /\ k.pc = "report"
      BY <1>5, <2>2, <3>1, <3>2, SettledAccounts DEF Whole, Acc, LinesOf
    <3>3. CASE work[w].cur.po = PoOf[l] /\ k.pc # "report"
      BY <2>1, <3>3 DEF Owed, Passing, Ending, AtOutcome
    <3>4. CASE work[w].cur.po # PoOf[l]
      BY <1>0, <2>1, <3>4 DEF WorkAccounts, Owed, Passing, Ending
    <3> QED
      BY <3>2, <3>3, <3>4
  <2>4. OwnDoc(k.cur) /\ \A e \in k.rest : OwnDoc(e)
    BY <1>0, <2>1 DEF WorkAccounts, OwnDoc
  <2>5. k.pc = "drop" => LinesOf(k.cur.po) \subseteq Firm'
    BY <1>5, <2>1, <2>2, SettledAccounts DEF Whole
  <2>6. WorkAccounts(Acc', Firm', k)
    BY <2>3, <2>4, <2>5 DEF WorkAccounts
  <2> QED
    BY <1>0, <2>1, <2>6, GoesAccounts
<1>6. ASSUME NEW w \in Workers, Merge(w)
      PROVE  \A v \in Workers : WorkAccounts(Acc', Firm', work'[v])
  <2> DEFINE m == work[w].msg
  <2>1. PICK snap \in {Snapshot, {}} :
          Goes(w, [work[w] EXCEPT !.pc = "next", !.rest = Fresh(m) \cup snap])
    BY <1>6 DEF Merge
  <2> DEFINE rest == Fresh(m) \cup snap
             k == [work[w] EXCEPT !.pc = "next", !.rest = rest]
  <2>2. \A e \in Snapshot : OwnDoc(e)
    <3>1. \A d \in DocIds : buffer[d].po # None => /\ DocIdOf[buffer[d].po] = d
                                                   /\ buffer[d].po \in POs
      BY DEF HomeInv, DocHome, TypeInv, TypeOK, Doc
    <3> QED
      BY <3>1 DEF Snapshot, OwnDoc
  <2>3. \A e \in Fresh(m) : OwnDoc(e)
    BY DEF Fresh, OwnDoc
  <2>4. ASSUME NEW l \in Batch[m] PROVE \E e \in Fresh(m) : e.po = PoOf[l]
    <3> DEFINE e == [po |-> PoOf[l], lines |-> Batch[m] \cap LinesOf(PoOf[l]),
                     buf |-> None, so |-> None]
    <3>1. e \in Fresh(m)
      BY DEF Fresh
    <3>2. e.po = PoOf[l]
      OBVIOUS
    <3> QED
      BY <3>1, <3>2
  <2>5. \A e \in rest : OwnDoc(e)
    BY <2>2, <2>3
  <2>6. \A l \in Batch[m] : \E e \in rest : e.po = PoOf[l]
    BY <2>4
  <2> HIDE DEF rest
  <2>7. k.cur = work[w].cur /\ k.rest = rest /\ k.msg = m /\ k.pc = "next"
    BY WorkFields DEF Work
  <2>8. WorkAccounts(Acc', Firm', k)
    <3> HIDE DEF k
    <3> QED
      BY <1>0, <2>5, <2>6, <2>7 DEF WorkAccounts, Owed
  <2> QED
    BY <1>0, <2>1, <2>8, GoesAccounts DEF rest
<1>7. ASSUME NEW w \in Workers, TakeOrder(w)
      PROVE  \A v \in Workers : WorkAccounts(Acc', Firm', work'[v])
  <2>1. PICK e \in work[w].rest, pc \in {"find", "resume"} :
          Goes(w, [Idle EXCEPT !.pc = pc, !.msg = work[w].msg, !.rest = work[w].rest \ {e},
                               !.cur = e, !.order = e.so])
    BY <1>7 DEF TakeOrder
  <2> DEFINE k == [Idle EXCEPT !.pc = pc, !.msg = work[w].msg, !.rest = work[w].rest \ {e},
                               !.cur = e, !.order = e.so]
  <2>2. k.pc = pc /\ k.cur = e /\ k.rest = work[w].rest \ {e} /\ k.msg = work[w].msg
    BY DEF Idle
  <2>3. work[w].pc = "next"
    BY <1>7 DEF TakeOrder
  <2>4. WorkAccounts(Acc', Firm', k)
    <3> HIDE DEF k
    <3> QED
      BY <1>0, <2>2, <2>3 DEF WorkAccounts, Owed, Passing, Ending
  <2> QED
    BY <1>0, <2>1, <2>4, GoesAccounts
<1>8. ASSUME NEW w \in Workers, ReportOrder(w)
      PROVE  \A v \in Workers : WorkAccounts(Acc', Firm', work'[v])
  <2> DEFINE k == [Idle EXCEPT !.pc = "next", !.msg = work[w].msg, !.rest = work[w].rest]
  <2>1. k.cur.buf = None /\ k.rest = work[w].rest /\ k.msg = work[w].msg /\ k.pc = "next"
    BY DEF Idle, NoEntry
  <2>2. Goes(w, k) /\ work[w].pc = "report"
    BY <1>8 DEF ReportOrder
  <2>3. WorkAccounts(Acc', Firm', k)
    <3> HIDE DEF k
    <3> QED
      BY <1>0, <2>1, <2>2 DEF WorkAccounts, Owed, OwnDoc, Passing, Ending
  <2> QED
    BY <1>0, <2>2, <2>3, GoesAccounts
<1>9. CASE Around
  <2>1. ASSUME NEW w \in Workers, NEW m \in Messages, Deliver(w, m)
        PROVE  \A v \in Workers : WorkAccounts(Acc', Firm', work'[v])
    <3>1. WorkAccounts(Acc', Firm', [Idle EXCEPT !.pc = "fetch", !.msg = m])
      BY DEF WorkAccounts, Idle, NoEntry, OwnDoc
    <3> QED
      BY <1>0, <2>1, <3>1, GoesAccounts DEF Deliver
  <2> QED
    BY <1>9, <1>u, <2>1
    DEF Around, LeaseExpires, Retrigger, RecordHandoff, EnterByHand, ChangeStatus
<1> QED
  BY <1>1, <1>2, <1>3, <1>4, <1>5, <1>6, <1>7, <1>8, <1>9, SoCases

\* Only the end of a batch acks its message: with nothing left to take up.
LEMMA AckedAtEnd ==
  ASSUME Dependable, SoTypeInv, [SoNext]_soVars, NEW m \in Messages,
         msgs[m] # "acked", msgs'[m] = "acked"
  PROVE  \E w \in Workers : work[w].msg = m /\ work[w].pc = "next" /\ work[w].rest = {}
<1> USE DEF SoTypeInv
<1>0. msgs \in [Messages -> {"pending", "leased", "acked"}]
  BY DEF TypeInv, TypeOK
<1>1. ASSUME NEW w \in Workers, EndStep(w)
      PROVE  work[w].msg = m /\ work[w].pc = "next" /\ work[w].rest = {}
  <2>1. CASE PrefetchTransient(w) \/ BatchEscapes(w) \/ Crash(w)
    BY <1>0, <2>1 DEF PrefetchTransient, BatchEscapes, Crash, Leave
  <2>2. ~PrefetchPermanent(w)
    BY DEF Dependable, PrefetchPermanent
  <2>3. CASE FinishBatch(w)
    <3>1. \E s : msgs' = [msgs EXCEPT ![work[w].msg] = s]
      BY <2>3 DEF FinishBatch, Leave
    <3> QED
      BY <1>0, <2>3, <3>1 DEF FinishBatch
  <2> QED
    BY <1>1, <2>1, <2>2, <2>3 DEF EndStep
<1>2. ASSUME NEW w \in Workers,
             LoopStep(w) \/ PassStep(w) \/ Settles(w) \/ Merge(w) \/ TakeOrder(w) \/ ReportOrder(w)
      PROVE  UNCHANGED msgs
  BY <1>2
  DEF LoopStep, PassStep, FindExisting, Resume, CreateHeader, PostLine, Settles, SettleOrder,
      SettleLocked, SettleFailed, Keep, Drop, Complete, ClearSynced, RecordResolved, Merge,
      TakeOrder, ReportOrder
<1>3. CASE Around
  BY <1>0, <1>3
  DEF Around, Deliver, LeaseExpires, Retrigger, RecordHandoff, EnterByHand, ChangeStatus
<1> QED
  BY <1>1, <1>2, <1>3, SoCases DEF vars

\* Only the end of an order reports a purchase order as settled.
LEMMA SettledAtEnd ==
  ASSUME SoTypeInv, [SoNext]_soVars
  PROVE  settled' = settled \/ \E w \in Workers : /\ Settles(w)
                                                  /\ work'[w].pc = "report"
                                                  /\ settled' \subseteq settled \cup {work[w].cur.po}
  BY SoCases DEF Quiet, Reports

LEMMA AccountStep ==
  ASSUME Dependable, Whole, LineInv, AccountInv, [SoNext]_soVars
  PROVE  AccountInv'
<1> USE DEF LineInv, SoHomeInv
<1>0. \A l \in Lines : Accounted(l) => Accounted(l)'
  BY AccountedLasts
<1>1. NoLostLine'
  <2> SUFFICES ASSUME NEW m \in Messages, msgs'[m] = "acked", NEW l \in Batch[m]
               PROVE  Accounted(l)'
    BY DEF NoLostLine
  <2>1. l \in Lines
    BY ConstantsAssumption
  <2>2. CASE msgs[m] = "acked"
    BY <1>0, <2>1, <2>2 DEF AccountInv, NoLostLine
  <2>3. CASE msgs[m] # "acked"
    <3>1. PICK w \in Workers : work[w].msg = m /\ work[w].pc = "next" /\ work[w].rest = {}
      BY <2>3, AckedAtEnd
    <3>2. l \in Acc \/ Owed(work[w], l)
      BY <3>1 DEF AccountInv, WorkAccounts
    <3> QED
      BY <1>0, <2>1, <3>1, <3>2 DEF Owed, Passing, Ending, Acc
  <2> QED
    BY <2>2, <2>3
<1>2. SettledMeansAccounted'
  <2>1. CASE settled' = settled
    BY <1>0, <2>1 DEF AccountInv, SettledMeansAccounted, LinesOf
  <2>2. CASE \E w \in Workers : /\ Settles(w) /\ work'[w].pc = "report"
                                /\ settled' \subseteq settled \cup {work[w].cur.po}
    <3>1. PICK w \in Workers : /\ Settles(w) /\ work'[w].pc = "report"
                               /\ settled' \subseteq settled \cup {work[w].cur.po}
      BY <2>2
    <3>2. \A l \in LinesOf(work[w].cur.po) : Accounted(l)'
      BY <3>1, SettledAccounts DEF Whole
    <3> QED
      BY <1>0, <3>1, <3>2 DEF AccountInv, SettledMeansAccounted, LinesOf
  <2> QED
    BY <2>1, <2>2, SettledAtEnd
<1>3. (\A w \in Workers : WorkAccounts(Acc, Firm, work[w]))'
  BY AccountsStep
<1> QED
  BY <1>1, <1>2, <1>3 DEF AccountInv

LEMMA KeptInit == SoInit => KeptInv
<1> SUFFICES ASSUME SoInit PROVE KeptInv
  OBVIOUS
<1>1. \A w \in Workers : WorkAccounts(Acc, Firm, work[w])
  BY DEF SoInit, Init, WorkAccounts, Idle, NoEntry, OwnDoc
<1>2. NoLostLine /\ SettledMeansAccounted
  BY DEF SoInit, Init, NoLostLine, SettledMeansAccounted
<1> QED
  BY <1>1, <1>2, LineInit DEF KeptInv, AccountInv

LEMMA KeptStep ==
  ASSUME Dependable, Whole, KeptInv, [SoNext]_soVars
  PROVE  KeptInv'
  BY LineStep, AccountStep DEF KeptInv

\* Acking a batch loses none of its lines, whatever overlaps, crashes, fails in
\* BC or is redelivered, as long as Firestore keeps what it is given and the
\* pre-fetch fails only with errors that are told to be transient.
THEOREM NoLineIsLost == ASSUME Dependable, Whole PROVE SoSpec => []NoLostLine
<1>1. KeptInv => NoLostLine
  BY DEF KeptInv, AccountInv
<1>2. KeptInv /\ [SoNext]_soVars => KeptInv'
  BY KeptStep
<1> QED
  BY <1>1, <1>2, KeptInit, PTL DEF SoSpec

\* A sync or backfill leaves every line of what it dealt with on an order, in
\* the buffer, blocked or dropped, and no later pass changes that.
THEOREM SettledIsAccounted == ASSUME Dependable, Whole PROVE SoSpec => []SettledMeansAccounted
<1>1. KeptInv => SettledMeansAccounted
  BY DEF KeptInv, AccountInv
<1>2. KeptInv /\ [SoNext]_soVars => KeptInv'
  BY KeptStep
<1> QED
  BY <1>1, <1>2, KeptInit, PTL DEF SoSpec

\* A line leaves the retry buffer only for an order, the blocked history or the
\* inactive list, whatever a later pass overwrites or deletes.
THEOREM BufferForgetsNothing == ASSUME Dependable, Whole PROVE SoSpec => BufferNeverForgets
<1>1. KeptInv /\ [SoNext]_soVars => [\A l \in Lines : Buffered(l) => Accounted(l)']_vars
  <2> SUFFICES ASSUME KeptInv, [SoNext]_soVars
               PROVE  \A l \in Lines : Buffered(l) => Accounted(l)'
    OBVIOUS
  <2>1. \A l \in Lines : Buffered(l) => Accounted(l)
    BY DEF Accounted
  <2> QED
    BY <2>1, AccountedLasts DEF KeptInv
<1>2. KeptInv /\ [SoNext]_soVars => KeptInv'
  BY KeptStep
<1> QED
  BY <1>1, <1>2, KeptInit, PTL DEF SoSpec, BufferNeverForgets

-----------------------------------------------------------------------------
(* The subscription implements SoLedger.  The books that stand for opened,  *)
(* entered, kept and closed, as in the INSTANCE of SoWorker:                *)

Opened == {orders[n].po : n \in OrderNos} \ {None}
Entered == {l \in Lines : OnOrder(l)}
Named == {l \in Lines : Buffered(l) \/ \E m \in Messages : l \in Batch[m] /\ msgs[m] # "acked"}
Closed == blocked \cup excluded

\* A new order opens its purchase order and enters no line.
LEMMA HeaderOpens ==
  ASSUME TypeInv, NEW p \in POs, NEW ns \in SUBSET Unused, orders' = WithNew(ns, p)
  PROVE  Opened' \in {Opened, Opened \cup {p}} /\ Entered' = Entered
<1>0. orders \in [OrderNos -> Order] /\ None \notin POs /\ \A l \in Lines : PoOf[l] \in POs
  BY ConstantsAssumption DEF TypeInv, TypeOK
<1>1. ns \subseteq OrderNos /\ \A n \in ns : orders[n].po = None
  BY DEF Unused
<1>2. \A n \in OrderNos : orders'[n] = IF n \in ns THEN [NoOrder EXCEPT !.po = p] ELSE orders[n]
  BY DEF WithNew
<1>3. [NoOrder EXCEPT !.po = p].po = p /\ \A l \in Lines : [NoOrder EXCEPT !.po = p].lines[l] = 0
  BY DEF NoOrder
<1>4. \A n \in OrderNos : orders'[n].po = IF n \in ns THEN p ELSE orders[n].po
  BY <1>2, <1>3
<1>5. Opened' \in {Opened, Opened \cup {p}}
  <2>1. CASE ns = {}
    BY <1>4, <2>1 DEF Opened
  <2>2. CASE ns # {}
    <3>1. \A q : q \in Opened' <=> q \in Opened \cup {p}
      <4>1. PICK n \in ns : TRUE
        BY <2>2
      <4>2. p \in Opened'
        BY <1>0, <1>1, <1>4, <4>1 DEF Opened
      <4>3. \A q \in Opened : q \in Opened'
        BY <1>1, <1>4 DEF Opened
      <4>4. \A q \in Opened' : q \in Opened \cup {p}
        BY <1>4 DEF Opened
      <4> QED
        BY <4>2, <4>3, <4>4
    <3> QED
      BY <3>1
  <2> QED
    BY <2>1, <2>2
<1>6. \A l \in Lines : OnOrder(l)' = OnOrder(l)
  <2> SUFFICES ASSUME NEW l \in Lines, NEW n \in OrderNos
               PROVE  (orders'[n].po = PoOf[l] /\ orders'[n].lines[l] > 0)
                        <=> (orders[n].po = PoOf[l] /\ orders[n].lines[l] > 0)
    BY DEF OnOrder
  <2>1. CASE n \in ns
    <3>1. orders'[n].lines[l] = 0
      BY <1>2, <1>3, <2>1
    <3>2. orders[n].po # PoOf[l]
      BY <1>0, <1>1, <2>1
    <3> QED
      BY <3>1, <3>2
  <2>2. CASE n \notin ns
    BY <1>2, <2>2
  <2> QED
    BY <2>1, <2>2
<1> QED
  BY <1>5, <1>6 DEF Entered

\* A line accepted by BC is entered.
LEMMA LineEnters ==
  ASSUME TypeInv, NEW n \in OrderNos, NEW l \in Lines, orders[n].po = PoOf[l],
         NEW k \in {1, 2}, orders' = WithLine(n, l, k)
  PROVE  Opened' = Opened /\ Entered' = Entered \cup {l} /\ PoOf[l] \in Opened
<1>0. orders \in [OrderNos -> Order] /\ None \notin POs /\ \A j \in Lines : PoOf[j] \in POs
  BY ConstantsAssumption DEF TypeInv, TypeOK
<1>1. \A m \in OrderNos : orders'[m].po = orders[m].po
  BY <1>0 DEF WithLine, Order
<1>2. \A m \in OrderNos, j \in Lines :
        orders'[m].lines[j] = IF m = n /\ j = l THEN orders[m].lines[j] + k
                                               ELSE orders[m].lines[j]
  BY <1>0 DEF WithLine, Order
<1>3. orders[n].lines[l] \in Nat
  BY <1>0 DEF Order
<1>4. OnOrder(l)'
  BY <1>1, <1>2, <1>3 DEF OnOrder
<1>5. \A j \in Lines : j # l => OnOrder(j)' = OnOrder(j)
  BY <1>1, <1>2 DEF OnOrder
<1>6. Entered' = Entered \cup {l}
  BY <1>4, <1>5 DEF Entered
<1> QED
  BY <1>0, <1>1, <1>6 DEF Opened

\* An order entered by hand opens its purchase order, with some of its lines.
LEMMA HandOpens ==
  ASSUME TypeInv, NEW p \in POs, EnterByHand(p)
  PROVE  /\ p \notin Opened /\ Opened' = Opened \cup {p}
         /\ \E ls \in SUBSET LinesOf(p) : Entered' = Entered \cup ls
<1>0. orders \in [OrderNos -> Order] /\ None \notin POs /\ \A l \in Lines : PoOf[l] \in POs
  BY ConstantsAssumption DEF TypeInv, TypeOK
<1>1. PICK n \in Unused, ls \in SUBSET LinesOf(p) :
        orders' = [orders EXCEPT ![n] =
          [po |-> p, lines |-> [l \in Lines |-> IF l \in ls THEN 1 ELSE 0], open |-> TRUE]]
  BY DEF EnterByHand
<1>2. n \in OrderNos /\ orders[n].po = None
  BY DEF Unused
<1>3. p \notin Opened
  BY DEF EnterByHand, OrdersOf, Opened
<1>4. orders'[n].po = p /\ \A l \in Lines : orders'[n].lines[l] = IF l \in ls THEN 1 ELSE 0
  BY <1>0, <1>1, <1>2
<1>5. \A m \in OrderNos : m # n => orders'[m] = orders[m]
  BY <1>0, <1>1
<1>6. Opened' = Opened \cup {p}
  <2>1. p \in Opened'
    BY <1>0, <1>2, <1>4 DEF Opened
  <2>2. \A q \in Opened : q \in Opened'
    BY <1>2, <1>5 DEF Opened
  <2>3. \A q \in Opened' : q \in Opened \cup {p}
    BY <1>4, <1>5 DEF Opened
  <2> QED
    BY <2>1, <2>2, <2>3
<1>7. \A l \in Lines : OnOrder(l)' <=> OnOrder(l) \/ l \in ls
  <2> TAKE l \in Lines
  <2>1. l \in ls => OnOrder(l)'
    BY <1>2, <1>4 DEF OnOrder, LinesOf
  <2>2. OnOrder(l) => OnOrder(l)'
    BY <1>0, <1>2, <1>5 DEF OnOrder
  <2>3. OnOrder(l)' => OnOrder(l) \/ l \in ls
    BY <1>4, <1>5 DEF OnOrder
  <2> QED
    BY <2>1, <2>2, <2>3
<1>8. Entered' = Entered \cup ls
  BY <1>7 DEF Entered, LinesOf
<1> QED
  BY <1>1, <1>3, <1>6, <1>8

\* What a step does to the sales orders.
LEMMA OrdersMove ==
  ASSUME KeptInv, [SoNext]_soVars
  PROVE  \/ Opened' = Opened /\ Entered' = Entered
         \/ /\ UNCHANGED <<msgs, buffer, blocked, excluded>>
            /\ \/ \E p \in POs : /\ p \notin Opened /\ Opened' = Opened \cup {p}
                                 /\ \E ls \in SUBSET LinesOf(p) : Entered' = Entered \cup ls
               \/ \E l \in Lines : /\ PoOf[l] \in Opened /\ Opened' = Opened
                                   /\ Entered' = Entered \cup {l}
<1> USE DEF KeptInv, LineInv, SoHomeInv, SoTypeInv
<1>u. CASE UNCHANGED orders
  BY <1>u DEF Opened, Entered, OnOrder
<1>1. ASSUME NEW w \in Workers, CreateHeader(w), orders' # orders
      PROVE  /\ UNCHANGED <<msgs, buffer, blocked, excluded>>
             /\ \E p \in POs : Opened' \in {Opened, Opened \cup {p}} /\ Entered' = Entered
  <2>1. PICK ns \in SUBSET Unused : orders' = WithNew(ns, work[w].cur.po)
    BY <1>1 DEF CreateHeader
  <2>2. work[w].cur.po \in POs
    BY <1>1, WorkFields DEF CreateHeader, Ready, AtOrder
  <2>3. UNCHANGED <<msgs, buffer, blocked, excluded>>
    BY <1>1 DEF CreateHeader
  <2> QED
    BY <2>1, <2>2, <2>3, HeaderOpens
<1>2. ASSUME NEW w \in Workers, NEW l \in Lines, PostLine(w, l), orders' # orders
      PROVE  /\ UNCHANGED <<msgs, buffer, blocked, excluded>>
             /\ PoOf[l] \in Opened /\ Opened' = Opened /\ Entered' = Entered \cup {l}
  <2> DEFINE n == work[w].order
  <2>1. \E k \in {1, 2} : orders' = WithLine(n, l, k)
    BY <1>2 DEF PostLine
  <2>2. l \in work[w].todo /\ n \in OrderNos
    BY <1>2, WorkFields DEF PostLine, Ready
  <2>3. orders[n].po = PoOf[l]
    BY <2>2, ConstantsAssumption DEF HomeInv, WorkHome, LinesOf
  <2>4. UNCHANGED <<msgs, buffer, blocked, excluded>>
    BY <1>2 DEF PostLine
  <2> QED
    BY <2>1, <2>2, <2>3, <2>4, LineEnters
<1>3. ASSUME NEW w \in Workers, PassStep(w), orders' # orders
      PROVE  \/ Opened' = Opened /\ Entered' = Entered
             \/ /\ UNCHANGED <<msgs, buffer, blocked, excluded>>
                /\ \/ \E p \in POs : /\ p \notin Opened /\ Opened' = Opened \cup {p}
                                     /\ \E ls \in SUBSET LinesOf(p) : Entered' = Entered \cup ls
                   \/ \E l \in Lines : /\ PoOf[l] \in Opened /\ Opened' = Opened
                                       /\ Entered' = Entered \cup {l}
  <2>1. CASE CreateHeader(w)
    <3>1. PICK p \in POs : Opened' \in {Opened, Opened \cup {p}} /\ Entered' = Entered
      BY <1>1, <1>3, <2>1
    <3>2. CASE p \in Opened \/ Opened' = Opened
      BY <3>1, <3>2
    <3>3. CASE p \notin Opened /\ Opened' = Opened \cup {p}
      <4>1. {} \in SUBSET LinesOf(p) /\ Entered' = Entered \cup {}
        BY <3>1
      <4> QED
        BY <1>1, <1>3, <2>1, <3>3, <4>1
    <3> QED
      BY <3>1, <3>2, <3>3
  <2>2. CASE \E l \in Lines : PostLine(w, l)
    BY <1>2, <1>3, <2>2
  <2>3. CASE FindExisting(w) \/ Resume(w)
    BY <1>3, <2>3 DEF FindExisting, Resume
  <2> QED
    BY <1>3, <2>1, <2>2, <2>3 DEF PassStep
<1>4. CASE \E p \in POs : EnterByHand(p)
  <2>1. PICK p \in POs : EnterByHand(p)
    BY <1>4
  <2>2. UNCHANGED <<msgs, buffer, blocked, excluded>>
    BY <2>1 DEF EnterByHand
  <2> QED
    BY <2>1, <2>2, HandOpens
<1>5. ASSUME NEW n \in OrderNos, ChangeStatus(n)
      PROVE  Opened' = Opened /\ Entered' = Entered
  <2>1. \A m \in OrderNos : orders'[m].po = orders[m].po /\ orders'[m].lines = orders[m].lines
    BY <1>5 DEF ChangeStatus, TypeInv, TypeOK, Order
  <2> QED
    BY <2>1 DEF Opened, Entered, OnOrder
<1>6. CASE Around
  BY <1>u, <1>4, <1>5, <1>6 DEF Around, Deliver, LeaseExpires, Retrigger, RecordHandoff
<1>7. CASE \E w \in Workers : \/ LoopStep(w) \/ EndStep(w) \/ Settles(w)
                              \/ Merge(w) \/ TakeOrder(w) \/ ReportOrder(w)
  BY <1>u, <1>7
  DEF LoopStep, EndStep, PrefetchTransient, PrefetchPermanent, BatchEscapes, Crash, FinishBatch,
      Settles, SettleOrder, SettleLocked, SettleFailed, Keep, Drop, Complete, ClearSynced,
      RecordResolved, Merge, TakeOrder, ReportOrder
<1>8. CASE UNCHANGED vars
  BY <1>u, <1>8 DEF vars
<1> QED
  BY <1>u, <1>3, <1>6, <1>7, <1>8, SoCases

\* What is no longer named has been entered or given up.
LEMMA NamedGoes ==
  ASSUME Dependable, Whole, KeptInv, [SoNext]_soVars
  PROVE  Named \ Named' \subseteq Entered' \cup Closed'
<1> SUFFICES ASSUME NEW l \in Named, l \notin Named' PROVE l \in Entered' \cup Closed'
  OBVIOUS
<1>1. l \in Lines /\ ~Buffered(l)' /\ \A m \in Messages : l \in Batch[m] => msgs'[m] = "acked"
  BY DEF Named
<1>2. Accounted(l)'
  <2>1. CASE Buffered(l)
    BY <1>1, <2>1, AccountedLasts DEF KeptInv, Accounted
  <2>2. CASE \E m \in Messages : l \in Batch[m] /\ msgs[m] # "acked"
    BY <1>1, <2>2, KeptStep DEF KeptInv, AccountInv, NoLostLine
  <2> QED
    BY <2>1, <2>2 DEF Named
<1> QED
  BY <1>1, <1>2 DEF Accounted, Entered, Closed

LEMMA LedgerStart == SoInit => Ledger!LedgerInit
<1> SUFFICES ASSUME SoInit PROVE Ledger!LedgerInit
  OBVIOUS
<1>1. \A n \in OrderNos : orders[n].po = None
  BY DEF SoInit, Init, NoOrder
<1>2. Opened = {}
  BY <1>1 DEF Opened
<1>3. Entered = {}
  BY <1>1, ConstantsAssumption DEF Entered, OnOrder
<1>4. Closed = {} /\ Named \subseteq Lines
  BY DEF SoInit, Init, Closed, Named
<1> QED
  BY <1>2, <1>3, <1>4 DEF Ledger!LedgerInit, Opened, Entered, Closed, Named

LEMMA LedgerStep ==
  ASSUME Dependable, Whole, KeptInv, [SoNext]_soVars
  PROVE  [Ledger!LedgerNext]_(Ledger!ledger)
<1>1. CASE Opened' = Opened /\ Entered' = Entered
  <2>1. Closed \subseteq Closed'
    BY ClosedLasts DEF KeptInv, LineInv, SoHomeInv, Closed
  <2>2. Closed' \subseteq Lines
    BY SoHomeStep DEF Whole, KeptInv, LineInv, SoHomeInv, SoTypeInv, TypeInv, TypeOK, Closed
  <2>3. Named' \subseteq Lines
    BY DEF Named
  <2>4. Named \ Named' \subseteq Entered \cup Closed'
    BY <1>1, NamedGoes
  <2>5. Ledger!Settle
    BY <1>1, <2>1, <2>2, <2>3, <2>4 DEF Ledger!Settle, Opened, Entered, Closed, Named
  <2> QED
    BY <2>5 DEF Ledger!LedgerNext
<1>2. CASE UNCHANGED <<msgs, buffer, blocked, excluded>>
  <2>1. Closed' = Closed
    BY <1>2 DEF Closed
  <2>2. Named' = Named
    BY <1>2 DEF Named, Buffered
  <2>3. ASSUME NEW p \in POs, p \notin Opened, Opened' = Opened \cup {p},
               NEW ls \in SUBSET LinesOf(p), Entered' = Entered \cup ls
        PROVE  Ledger!Open(p)
    BY <2>1, <2>2, <2>3 DEF Ledger!Open, LinesOf, Opened, Entered, Closed, Named
  <2>4. ASSUME NEW l \in Lines, PoOf[l] \in Opened, Opened' = Opened,
               Entered' = Entered \cup {l}, l \notin Entered
        PROVE  Ledger!Enter(l)
    BY <2>1, <2>2, <2>4 DEF Ledger!Enter, Opened, Entered, Closed, Named
  <2>5. ASSUME NEW l \in Lines, Entered' = Entered \cup {l}, l \in Entered
        PROVE  Entered' = Entered
    BY <2>5
  <2> QED
    BY <1>1, <2>3, <2>4, <2>5, OrdersMove DEF Ledger!LedgerNext
<1> QED
  BY <1>1, <1>2, OrdersMove

\* Batches, retries, syncs and backfills, with every fault but a failing
\* Firestore and a permanent pre-fetch error, implement the promise of SoLedger.
THEOREM ImplementsLedger == ASSUME Dependable, Whole PROVE SoSpec => LedgerSpec
<1>1. KeptInv /\ [SoNext]_soVars => [Ledger!LedgerNext]_(Ledger!ledger)
  BY LedgerStep
<1>2. KeptInv /\ [SoNext]_soVars => KeptInv'
  BY KeptStep
<1> QED
  BY <1>1, <1>2, KeptInit, LedgerStart, PTL DEF SoSpec, LedgerSpec, Ledger!LedgerSpec
===============================================================================
