---------------------------- MODULE SoImportProofs ----------------------------
(***************************************************************************)
(* What TLAPS proves about SoImport for every value of its constants.      *)
(*                                                                         *)
(* Each section states the strengthening that makes its property           *)
(* inductive, proves that Init establishes it and that every action keeps  *)
(* it, and draws the theorem from these two facts.                         *)
(***************************************************************************)
EXTENDS SoImport, TLAPS

-----------------------------------------------------------------------------
(* Type correctness.  TypeOK alone is not inductive: ReportOrder writes the *)
(* status of its callback into the handoff record, which is a status only   *)
(* because the callback has settled its order.  Callback adds what the      *)
(* stage of a callback says about its locals.                               *)

AtOrder == {"find", "resume", "create", "lines", "locked", "failed", "keep", "drop",
            "clear", "history", "report"}

\* The stages at which the outcome of the order is known.
AtOutcome == {"keep", "drop", "clear", "history", "report"}

Ready(k) ==
  /\ k.pc # "idle" => k.msg \in Messages
  /\ k.pc \in AtOrder => k.cur.po \in POs
  /\ k.pc \in {"resume", "lines"} => k.order \in OrderNos
  /\ k.pc \in AtOutcome => k.status \in BcStatus
  /\ \A e \in k.rest : e.po \in POs

Callback == {k \in Work : Ready(k)}

TypeInv == TypeOK /\ work \in [Workers -> Callback]

LEMMA EmptyRecords ==
  Idle \in Work /\ NoEntry \in Entry /\ NoDoc \in Doc /\ NoOrder \in Order
  BY DEF Idle, NoEntry, Work, Entry, PCs, NoDoc, NoOrder, Doc, Order

LEMMA IdleCallback == Idle \in Callback
  BY EmptyRecords DEF Callback, Ready, Idle, AtOrder, AtOutcome

\* The locals of a callback, field by field.
LEMMA WorkFields ==
  ASSUME TypeInv, NEW w \in Workers
  PROVE  /\ work[w] \in Work
         /\ Ready(work[w])
         /\ work[w].pc \in PCs
         /\ work[w].rest \subseteq Entry
         /\ work[w].cur \in Entry
         /\ work[w].cur.lines \subseteq Lines
         /\ work[w].todo \subseteq Lines
         /\ work[w].left \subseteq Lines
         /\ work[w].out \subseteq Lines
         /\ work[w].order \in OrderNos \cup {None}
         /\ work[w].cur.so \in OrderNos \cup {None}
         /\ work[w].cur.buf \in DocIds \cup {None}
         /\ work[w].cur.po \in POs \cup {None}
         /\ work[w].status \in BcStatus \cup {None}
         /\ work[w].msg \in Messages \cup {None}
  BY DEF TypeInv, TypeOK, Callback, Work, Entry

\* A callback that moves on to well-formed locals keeps work well-formed.
LEMMA GoesType ==
  ASSUME TypeInv, NEW w, NEW k \in Callback, Goes(w, k)
  PROVE  work' \in [Workers -> Work] /\ work' \in [Workers -> Callback]
  BY DEF TypeInv, TypeOK, Goes, Callback

LEMMA LeaveType ==
  ASSUME TypeInv, NEW w, NEW m, NEW s \in {"pending", "leased", "acked"}, Leave(w, m, s)
  PROVE  /\ work' \in [Workers -> Work] /\ work' \in [Workers -> Callback]
         /\ msgs' \in [Messages -> {"pending", "leased", "acked"}]
<1>1. Goes(w, Idle)
  BY DEF Leave
<1>2. msgs' \in [Messages -> {"pending", "leased", "acked"}]
  BY DEF Leave, TypeInv, TypeOK
<1> QED
  BY <1>1, <1>2, IdleCallback, GoesType

LEMMA RaiseType ==
  ASSUME TypeInv, NEW w \in Workers, work[w].pc \in AtOrder, Raise(w)
  PROVE  work' \in [Workers -> Work] /\ work' \in [Workers -> Callback]
<1> DEFINE k == [work[w] EXCEPT !.pc = "failed", !.order = None, !.todo = {},
                                !.left = {}, !.out = {}]
<1>1. k \in Work
  BY WorkFields DEF Work, PCs
<1>2. Ready(k)
  BY WorkFields DEF Ready, AtOrder, Work, AtOutcome
<1> QED
  BY <1>1, <1>2, GoesType DEF Raise, Callback

\* The locals with the lines of an order, and those with its outcome.
LEMMA EnteredWork ==
  ASSUME NEW v \in Work, NEW n \in OrderNos,
         NEW T \in SUBSET Lines, NEW L \in SUBSET Lines, NEW O \in SUBSET Lines
  PROVE  [v EXCEPT !.pc = "lines", !.order = n, !.todo = T, !.left = L, !.out = O] \in Work
  BY DEF Work, PCs

LEMMA OutcomeWork ==
  ASSUME NEW v \in Work, NEW pc \in PCs, NEW e \in Entry, NEW m \in Messages \cup {None},
         NEW R \in SUBSET Entry, NEW s \in BcStatus
  PROVE  [v EXCEPT !.pc = pc, !.msg = m, !.rest = R, !.cur = e, !.status = s] \in Work
  BY DEF Work

LEMMA EnterLinesType ==
  ASSUME TypeInv, NEW w \in Workers, NEW n \in OrderNos, NEW seen,
         work[w].pc \in AtOrder, EnterLines(w, n, seen)
  PROVE  work' \in [Workers -> Work] /\ work' \in [Workers -> Callback]
<1>1. PICK inactive, unresolved \in SUBSET work[w].cur.lines :
        Goes(w, [work[w] EXCEPT !.pc = "lines", !.order = n,
                  !.todo = {l \in work[w].cur.lines \ (inactive \cup unresolved) :
                              ItemOf[l] \notin seen},
                  !.left = unresolved, !.out = inactive])
  BY DEF EnterLines
<1> DEFINE todo == {l \in work[w].cur.lines \ (inactive \cup unresolved) :
                      ItemOf[l] \notin seen}
           k == [work[w] EXCEPT !.pc = "lines", !.order = n, !.todo = todo,
                                !.left = unresolved, !.out = inactive]
<1>2. todo \subseteq Lines /\ unresolved \subseteq Lines /\ inactive \subseteq Lines
  BY WorkFields
<1>3. Goes(w, k)
  BY <1>1
<1> HIDE DEF todo
<1>4. k \in Work
  <2>1. work[w] \in Work
    BY WorkFields
  <2> QED
    BY <1>2, <2>1, EnteredWork
<1>5. Ready(k)
  BY WorkFields DEF Ready, AtOrder, Work, AtOutcome
<1> QED
  BY <1>3, <1>4, <1>5, GoesType DEF Callback

LEMMA OutcomeType ==
  ASSUME TypeInv, NEW w \in Workers, NEW pc \in AtOutcome, NEW e \in Entry, e.po \in POs,
         NEW s \in BcStatus, work[w].pc \in AtOrder, Outcome(w, pc, e, s)
  PROVE  work' \in [Workers -> Work] /\ work' \in [Workers -> Callback]
<1> DEFINE k == [Idle EXCEPT !.pc = pc, !.msg = work[w].msg, !.rest = work[w].rest,
                             !.cur = e, !.status = s]
<1>1. k \in Work
  <2>1. work[w].msg \in Messages \cup {None} /\ work[w].rest \in SUBSET Entry
    BY WorkFields
  <2>2. pc \in PCs
    BY DEF AtOutcome, PCs
  <2> QED
    BY <2>1, <2>2, EmptyRecords, OutcomeWork
<1>2. k.pc = pc /\ k.msg = work[w].msg /\ k.rest = work[w].rest
      /\ k.cur = e /\ k.status = s
  BY DEF Idle
<1>3. Ready(k)
  <2> HIDE DEF k
  <2> QED
    BY <1>2, WorkFields DEF Ready, AtOrder, AtOutcome
<1> QED
  BY <1>1, <1>3, GoesType DEF Outcome, Callback

\* An entry of which only the purchase order and perhaps the document is left.
LEMMA LeftOfEntry ==
  ASSUME NEW p \in POs, NEW d \in DocIds \cup {None}
  PROVE  /\ [NoEntry EXCEPT !.po = p] \in Entry /\ [NoEntry EXCEPT !.po = p].po = p
         /\ [NoEntry EXCEPT !.po = p, !.buf = d] \in Entry
         /\ [NoEntry EXCEPT !.po = p, !.buf = d].po = p
  BY DEF NoEntry, Entry

LEMMA ReportType ==
  ASSUME TypeInv, NEW w \in Workers, NEW s \in BcStatus,
         work[w].pc \in AtOrder, Report(w, s)
  PROVE  work' \in [Workers -> Work] /\ work' \in [Workers -> Callback]
<1>1. work[w].cur.po \in POs
  BY WorkFields DEF Ready
<1> DEFINE e == [NoEntry EXCEPT !.po = work[w].cur.po]
<1>2. e \in Entry /\ e.po \in POs
  BY <1>1, LeftOfEntry
<1>3. Outcome(w, "report", e, s)
  BY DEF Report
<1> HIDE DEF e
<1> QED
  BY <1>2, <1>3, OutcomeType DEF AtOutcome

\* What save_failed_order is about to write.
KeepEntry(w, lines, so) ==
  LET p == work[w].cur.po IN
  [po |-> p, lines |-> lines, buf |-> None,
   so |-> IF so = None THEN buffer[DocIdOf[p]].so ELSE so]

LEMMA KeepsEntry ==
  ASSUME TypeInv, NEW w \in Workers, work[w].cur.po \in POs,
         NEW ls \in SUBSET Lines, NEW so \in OrderNos \cup {None}
  PROVE  KeepEntry(w, ls, so) \in Entry /\ KeepEntry(w, ls, so).po \in POs
<1>1. DocIdOf[work[w].cur.po] \in DocIds
  BY ConstantsAssumption
<1>2. buffer[DocIdOf[work[w].cur.po]].so \in OrderNos \cup {None}
  BY <1>1 DEF TypeInv, TypeOK, Doc
<1> QED
  BY <1>2 DEF KeepEntry, Entry

LEMMA KeepsType ==
  ASSUME TypeInv, NEW w \in Workers, NEW ls \in SUBSET Lines,
         NEW so \in OrderNos \cup {None}, NEW s \in BcStatus,
         work[w].pc \in AtOrder, Keeps(w, ls, so, s)
  PROVE  work' \in [Workers -> Work] /\ work' \in [Workers -> Callback]
<1>1. work[w].cur.po \in POs
  BY WorkFields DEF Ready
<1>2. Outcome(w, "keep", KeepEntry(w, ls, so), s)
  BY DEF Keeps, KeepEntry
<1> QED
  BY <1>1, <1>2, KeepsEntry, OutcomeType DEF AtOutcome

LEMMA SetRunType ==
  ASSUME TypeInv, NEW m, NEW s \in {"processing", "done", "error"}, SetRun(m, s)
  PROVE  run' \in [Messages -> {"none", "processing", "done", "error"}]
  BY DEF SetRun, TypeInv, TypeOK

LEMMA KeepType ==
  ASSUME TypeInv, NEW w \in Workers, Keep(w)
  PROVE  buffer' \in [DocIds -> Doc]
<1> DEFINE e == work[w].cur
           doc == [po |-> e.po, lines |-> e.lines, so |-> e.so]
<1>1. buffer' = [buffer EXCEPT ![DocIdOf[e.po]] = doc] \/ UNCHANGED buffer
  BY DEF Keep
<1>2. doc \in Doc
  BY WorkFields DEF Doc
<1> HIDE DEF doc
<1> QED
  BY <1>1, <1>2 DEF TypeInv, TypeOK

LEMMA DeleteType ==
  ASSUME TypeInv, NEW d, Delete(d)
  PROVE  buffer' \in [DocIds -> Doc]
  BY EmptyRecords DEF Delete, TypeInv, TypeOK

LEMMA MergeType ==
  ASSUME TypeInv, NEW w \in Workers, Merge(w)
  PROVE  work' \in [Workers -> Work] /\ work' \in [Workers -> Callback]
<1>1. PICK snap \in {Snapshot, {}} :
        Goes(w, [work[w] EXCEPT !.pc = "next", !.rest = Fresh(work[w].msg) \cup snap])
  BY DEF Merge
<1> DEFINE k == [work[w] EXCEPT !.pc = "next", !.rest = Fresh(work[w].msg) \cup snap]
<1>2. work[w].pc = "fetch" /\ work[w].msg \in Messages
  BY WorkFields DEF Merge, Ready
<1>3. \A e \in Fresh(work[w].msg) : e \in Entry /\ e.po \in POs
  BY <1>2, ConstantsAssumption DEF Fresh, Entry
<1>4. \A e \in snap : e \in Entry /\ e.po \in POs
  BY DEF Snapshot, Entry, TypeInv, TypeOK, Doc
<1>5. k \in Work
  BY <1>3, <1>4, WorkFields DEF Work, PCs
<1>6. Ready(k)
  BY <1>2, <1>3, <1>4, WorkFields DEF Ready, AtOrder, Work, AtOutcome
<1> QED
  BY <1>1, <1>5, <1>6, GoesType DEF Callback

LEMMA TakeOrderType ==
  ASSUME TypeInv, NEW w \in Workers, TakeOrder(w)
  PROVE  work' \in [Workers -> Work] /\ work' \in [Workers -> Callback]
<1>1. PICK e \in work[w].rest :
        Goes(w, [Idle EXCEPT !.pc = IF e.so = None THEN "find" ELSE "resume",
                             !.msg = work[w].msg, !.rest = work[w].rest \ {e},
                             !.cur = e, !.order = e.so])
  BY DEF TakeOrder
<1> DEFINE pc == IF e.so = None THEN "find" ELSE "resume"
           k == [Idle EXCEPT !.pc = pc, !.msg = work[w].msg, !.rest = work[w].rest \ {e},
                             !.cur = e, !.order = e.so]
<1>2. work[w].pc = "next" /\ work[w].msg \in Messages /\ e \in Entry /\ e.po \in POs
  BY WorkFields DEF TakeOrder, Ready
<1>3. /\ pc \in {"find", "resume"}
      /\ pc = "resume" => e.so \in OrderNos
      /\ e.so \in OrderNos \cup {None}
  BY <1>2 DEF Entry
<1>4. Goes(w, k)
  BY <1>1
<1> HIDE DEF pc
<1>5. k \in Work
  BY <1>2, <1>3, WorkFields, EmptyRecords DEF Work, PCs
<1>6. k.pc = pc /\ k.msg = work[w].msg /\ k.rest = work[w].rest \ {e}
      /\ k.cur = e /\ k.order = e.so
  BY DEF Idle
<1>7. Ready(k)
  <2> HIDE DEF k
  <2> QED
    BY <1>2, <1>3, <1>6, WorkFields DEF Ready, AtOrder, AtOutcome
<1> QED
  BY <1>4, <1>5, <1>7, GoesType DEF Callback

LEMMA FindExistingType ==
  ASSUME TypeInv, NEW w \in Workers, FindExisting(w)
  PROVE  work' \in [Workers -> Work] /\ work' \in [Workers -> Callback]
<1> USE WorkFields DEF AtOrder
<1>1. work[w].pc = "find"
  BY DEF FindExisting
<1>2. CASE \E n \in Matching(work[w].cur.po) :
             Goes(w, [work[w] EXCEPT !.pc = "resume", !.order = n])
  <2>1. PICK n \in OrderNos : Goes(w, [work[w] EXCEPT !.pc = "resume", !.order = n])
    BY <1>2 DEF Matching, OrdersOf
  <2> DEFINE k == [work[w] EXCEPT !.pc = "resume", !.order = n]
  <2>2. k \in Work
    BY DEF Work, PCs
  <2>3. Ready(k)
    BY <1>1 DEF Ready, Work, AtOutcome
  <2> QED
    BY <2>1, <2>2, <2>3, GoesType DEF Callback
<1>3. CASE Goes(w, [work[w] EXCEPT !.pc = "create"])
  <2> DEFINE k == [work[w] EXCEPT !.pc = "create"]
  <2>1. k \in Work
    BY DEF Work, PCs
  <2>2. Ready(k)
    BY <1>1 DEF Ready, Work, AtOutcome
  <2> QED
    BY <1>3, <2>1, <2>2, GoesType DEF Callback
<1> QED
  BY <1>2, <1>3 DEF FindExisting

LEMMA PostLineType ==
  ASSUME TypeInv, NEW w \in Workers, NEW l \in Lines, PostLine(w, l)
  PROVE  work' \in [Workers -> Work] /\ work' \in [Workers -> Callback]
<1> USE WorkFields DEF AtOrder
<1>1. work[w].pc = "lines"
  BY DEF PostLine
<1>2. CASE Goes(w, [work[w] EXCEPT !.todo = @ \ {l}])
  <2> DEFINE k == [work[w] EXCEPT !.todo = @ \ {l}]
  <2>1. k \in Work
    BY DEF Work
  <2>2. Ready(k)
    BY <1>1 DEF Ready, Work
  <2> QED
    BY <1>2, <2>1, <2>2, GoesType DEF Callback
<1>3. CASE Goes(w, [work[w] EXCEPT !.pc = "locked", !.todo = {},
                                   !.left = @ \cup work[w].todo])
  <2> DEFINE k == [work[w] EXCEPT !.pc = "locked", !.todo = {},
                                  !.left = @ \cup work[w].todo]
  <2>1. k \in Work
    BY DEF Work, PCs
  <2>2. Ready(k)
    BY <1>1 DEF Ready, Work, AtOutcome
  <2> QED
    BY <1>3, <2>1, <2>2, GoesType DEF Callback
<1>4. CASE Goes(w, [work[w] EXCEPT !.todo = @ \ {l}, !.left = @ \cup {l}])
  <2> DEFINE k == [work[w] EXCEPT !.todo = @ \ {l}, !.left = @ \cup {l}]
  <2>1. k \in Work
    BY DEF Work
  <2>2. Ready(k)
    BY <1>1 DEF Ready, Work
  <2> QED
    BY <1>4, <2>1, <2>2, GoesType DEF Callback
<1>5. CASE Raise(w)
  BY <1>1, <1>5, RaiseType
<1> QED
  BY <1>2, <1>3, <1>4, <1>5 DEF PostLine

LEMMA CreateHeaderType ==
  ASSUME TypeInv, NEW w \in Workers, CreateHeader(w)
  PROVE  work' \in [Workers -> Work] /\ work' \in [Workers -> Callback]
<1>1. work[w].pc \in AtOrder
  BY DEF CreateHeader, AtOrder
<1>2. (\E n \in OrderNos : EnterLines(w, n, {})) \/ Raise(w)
  BY DEF CreateHeader, Unused
<1> QED
  BY <1>1, <1>2, RaiseType, EnterLinesType

LEMMA ReportOrderType ==
  ASSUME TypeInv, NEW w \in Workers, ReportOrder(w)
  PROVE  work' \in [Workers -> Work] /\ work' \in [Workers -> Callback]
<1> DEFINE k == [Idle EXCEPT !.pc = "next", !.msg = work[w].msg, !.rest = work[w].rest]
<1>1. work[w].pc = "report" /\ Goes(w, k)
  BY DEF ReportOrder
<1>2. k \in Work
  BY WorkFields, EmptyRecords DEF Work, PCs
<1>3. k.pc = "next" /\ k.msg = work[w].msg /\ k.rest = work[w].rest
  BY DEF Idle
<1>4. Ready(k)
  <2> HIDE DEF k
  <2> QED
    BY <1>1, <1>3, WorkFields DEF Ready, AtOrder, AtOutcome
<1> QED
  BY <1>1, <1>2, <1>4, GoesType DEF Callback

LEMMA DeliverType ==
  ASSUME TypeInv, NEW w \in Workers, NEW m \in Messages, Deliver(w, m)
  PROVE  work' \in [Workers -> Work] /\ work' \in [Workers -> Callback]
<1> DEFINE k == [Idle EXCEPT !.pc = "fetch", !.msg = m]
<1>1. k \in Work /\ Ready(k)
  BY EmptyRecords DEF Idle, Work, PCs, Ready, AtOrder, AtOutcome
<1> QED
  BY <1>1, GoesType DEF Deliver, Callback

\* BC's orders keep their shape whatever the worker or a person does to them.
LEMMA OrdersType ==
  ASSUME TypeInv,
         \/ \E w \in Workers : CreateHeader(w)
         \/ \E w \in Workers, l \in Lines : PostLine(w, l)
         \/ \E n \in OrderNos : ChangeStatus(n)
         \/ \E p \in POs : EnterByHand(p)
  PROVE  orders' \in [OrderNos -> Order]
<1>1. orders \in [OrderNos -> Order]
  BY DEF TypeInv, TypeOK
<1>2. ASSUME NEW ns, NEW p \in POs PROVE WithNew(ns, p) \in [OrderNos -> Order]
  <2>1. [NoOrder EXCEPT !.po = p] \in Order
    BY DEF NoOrder, Order
  <2> QED
    BY <1>1, <2>1 DEF WithNew
<1>3. ASSUME NEW n \in OrderNos, NEW l \in Lines, NEW k \in Nat
      PROVE  WithLine(n, l, k) \in [OrderNos -> Order]
  <2> DEFINE o == [orders[n] EXCEPT !.lines = [orders[n].lines EXCEPT ![l] = @ + k]]
  <2>1. orders[n] \in Order
    BY <1>1
  <2>2. [orders[n].lines EXCEPT ![l] = @ + k] \in [Lines -> Nat]
    BY <2>1 DEF Order
  <2>3. o \in Order
    BY <2>1, <2>2 DEF Order
  <2>4. WithLine(n, l, k) = [orders EXCEPT ![n] = o]
    BY <1>1 DEF WithLine
  <2> HIDE DEF o
  <2> QED
    BY <1>1, <2>3, <2>4
<1>4. CASE \E w \in Workers : CreateHeader(w)
  <2>1. PICK w \in Workers : CreateHeader(w)
    BY <1>4
  <2>2. work[w].cur.po \in POs
    BY <2>1, WorkFields DEF CreateHeader, Ready, AtOrder
  <2>3. (\E ns : orders' = WithNew(ns, work[w].cur.po)) \/ UNCHANGED orders
    BY <2>1 DEF CreateHeader
  <2> QED
    BY <1>1, <1>2, <2>2, <2>3
<1>5. CASE \E w \in Workers, l \in Lines : PostLine(w, l)
  <2>1. PICK w \in Workers, l \in Lines : PostLine(w, l)
    BY <1>5
  <2>2. work[w].order \in OrderNos
    BY <2>1, WorkFields DEF PostLine, Ready
  <2>3. (\E k \in Nat : orders' = WithLine(work[w].order, l, k)) \/ UNCHANGED orders
    BY <2>1 DEF PostLine
  <2> QED
    BY <1>1, <1>3, <2>2, <2>3
<1>6. CASE \E n \in OrderNos : ChangeStatus(n)
  <2>1. PICK n \in OrderNos : orders' = [orders EXCEPT ![n].open = ~@]
    BY <1>6 DEF ChangeStatus
  <2>2. [orders[n] EXCEPT !.open = ~@] \in Order
    BY <1>1 DEF Order
  <2> QED
    BY <1>1, <2>1, <2>2
<1>7. CASE \E p \in POs : EnterByHand(p)
  BY <1>1, <1>7 DEF EnterByHand, Unused, Order
<1> QED
  BY <1>4, <1>5, <1>6, <1>7

LEMMA TypeInit == Init => TypeInv
  BY ConstantsAssumption, EmptyRecords, IdleCallback DEF Init, TypeInv, TypeOK

LEMMA TypeStep == TypeInv /\ [Next]_vars => TypeInv'
<1> SUFFICES ASSUME TypeInv, [Next]_vars PROVE TypeInv'
  OBVIOUS
<1> USE DEF TypeInv, TypeOK
<1>1. ASSUME NEW w \in Workers, NEW m \in Messages, Deliver(w, m) PROVE TypeInv'
  <2>1. run' \in [Messages -> {"none", "processing", "done", "error"}]
    BY <1>1, SetRunType DEF Deliver
  <2> QED
    BY <1>1, <2>1, DeliverType DEF Deliver
<1>2. ASSUME NEW m \in Messages, LeaseExpires(m) PROVE TypeInv'
  BY <1>2 DEF LeaseExpires
<1>3. ASSUME NEW w \in Workers, Crash(w) PROVE TypeInv'
  BY <1>3, LeaveType DEF Crash
<1>4. ASSUME NEW m \in Messages, Retrigger(m) PROVE TypeInv'
  BY <1>4 DEF Retrigger
<1>5. ASSUME NEW w \in Workers, Merge(w) PROVE TypeInv'
  BY <1>5, MergeType DEF Merge
<1>6. ASSUME NEW w \in Workers, PrefetchTransient(w) PROVE TypeInv'
  BY <1>6, LeaveType DEF PrefetchTransient
<1>7. ASSUME NEW w \in Workers, PrefetchPermanent(w) PROVE TypeInv'
  BY <1>7, LeaveType, SetRunType DEF PrefetchPermanent
<1>8. ASSUME NEW w \in Workers, BatchEscapes(w) PROVE TypeInv'
  BY <1>8, LeaveType, SetRunType DEF BatchEscapes
<1>9. ASSUME NEW w \in Workers, TakeOrder(w) PROVE TypeInv'
  BY <1>9, TakeOrderType DEF TakeOrder
<1>10. ASSUME NEW w \in Workers, FinishBatch(w) PROVE TypeInv'
  <2>1. work[w].msg \in Messages
    BY <1>10, WorkFields DEF FinishBatch, Ready
  <2> QED
    BY <1>10, <2>1, LeaveType, SetRunType DEF FinishBatch
<1>11. ASSUME NEW w \in Workers, FindExisting(w) PROVE TypeInv'
  BY <1>11, FindExistingType DEF FindExisting
<1>12. ASSUME NEW w \in Workers, Resume(w) PROVE TypeInv'
  <2>1. work[w].pc \in AtOrder /\ work[w].order \in OrderNos
    BY <1>12, WorkFields DEF Resume, Ready, AtOrder
  <2> QED
    BY <1>12, <2>1, RaiseType, EnterLinesType DEF Resume
<1>13. ASSUME NEW w \in Workers, CreateHeader(w) PROVE TypeInv'
  BY <1>13, CreateHeaderType, OrdersType DEF CreateHeader
<1>14. ASSUME NEW w \in Workers, NEW l \in Lines, PostLine(w, l) PROVE TypeInv'
  BY <1>14, PostLineType, OrdersType DEF PostLine
<1>15. ASSUME NEW w \in Workers, SettleOrder(w) PROVE TypeInv'
  <2>1. work[w].pc \in AtOrder /\ work[w].order \in OrderNos
    BY <1>15, WorkFields DEF SettleOrder, Ready, AtOrder
  <2>2. work' \in [Workers -> Work] /\ work' \in [Workers -> Callback]
    BY <1>15, <2>1, WorkFields, ReportType, KeepsType DEF SettleOrder, BcStatus
  <2>3. buffer' \in [DocIds -> Doc]
    BY <1>15, DeleteType DEF SettleOrder
  <2> QED
    BY <1>15, <2>2, <2>3, WorkFields DEF SettleOrder
<1>16. ASSUME NEW w \in Workers, SettleLocked(w) PROVE TypeInv'
  <2>1. work[w].pc \in AtOrder /\ work[w].cur.po \in POs
    BY <1>16, WorkFields DEF SettleLocked, AtOrder, Ready
  <2> DEFINE e == [NoEntry EXCEPT !.po = work[w].cur.po, !.buf = work[w].cur.buf]
  <2>2. e \in Entry /\ e.po \in POs
    BY <2>1, WorkFields, LeftOfEntry
  <2>3. Report(w, "error") \/ Outcome(w, "drop", e, "error")
    BY <1>16 DEF SettleLocked
  <2> HIDE DEF e
  <2>4. work' \in [Workers -> Work] /\ work' \in [Workers -> Callback]
    BY <2>1, <2>2, <2>3, ReportType, OutcomeType DEF AtOutcome, BcStatus
  <2> QED
    BY <1>16, <2>4, WorkFields DEF SettleLocked
<1>17. ASSUME NEW w \in Workers, SettleFailed(w) PROVE TypeInv'
  <2>1. work[w].pc \in AtOrder
    BY <1>17 DEF SettleFailed, AtOrder
  <2>2. work' \in [Workers -> Work] /\ work' \in [Workers -> Callback]
    BY <1>17, <2>1, WorkFields, KeepsType DEF SettleFailed, BcStatus
  <2> QED
    BY <1>17, <2>2 DEF SettleFailed
<1>23. ASSUME NEW w \in Workers, Keep(w) PROVE TypeInv'
  <2>1. work[w].pc \in AtOrder /\ work[w].status \in BcStatus
    BY <1>23, WorkFields DEF Keep, Ready, AtOrder, AtOutcome
  <2>2. work' \in [Workers -> Work] /\ work' \in [Workers -> Callback]
    BY <1>23, <2>1, ReportType DEF Keep
  <2> QED
    BY <1>23, <2>2, KeepType DEF Keep
<1>24. ASSUME NEW w \in Workers, Drop(w) PROVE TypeInv'
  <2>1. work[w].pc \in AtOrder
    BY <1>24 DEF Drop, AtOrder
  <2>2. work' \in [Workers -> Work] /\ work' \in [Workers -> Callback]
    BY <1>24, <2>1, ReportType DEF Drop, BcStatus
  <2> QED
    BY <1>24, <2>2, DeleteType DEF Drop
<1>18. ASSUME NEW w \in Workers, ReportOrder(w) PROVE TypeInv'
  <2>1. work[w].status \in BcStatus
    BY <1>18, WorkFields DEF ReportOrder, Ready, AtOutcome
  <2>2. handoff' \in [POs -> BcStatus \cup {"none", "pending", "not_attempted"}]
    BY <1>18, <2>1 DEF ReportOrder
  <2> QED
    BY <1>18, <2>2, ReportOrderType DEF ReportOrder
<1>19. ASSUME NEW p \in POs, RecordHandoff(p) PROVE TypeInv'
  BY <1>19 DEF RecordHandoff
<1>20. ASSUME NEW n \in OrderNos, ChangeStatus(n) PROVE TypeInv'
  BY <1>20, OrdersType DEF ChangeStatus
<1>21. ASSUME NEW p \in POs, EnterByHand(p) PROVE TypeInv'
  BY <1>21, OrdersType DEF EnterByHand
<1>22. CASE UNCHANGED vars
  BY <1>22 DEF vars
<1> QED
  BY <1>1, <1>2, <1>3, <1>4, <1>5, <1>6, <1>7, <1>8, <1>9, <1>10, <1>11, <1>12, <1>13,
     <1>14, <1>15, <1>16, <1>17, <1>18, <1>19, <1>20, <1>21, <1>22, <1>23, <1>24
  DEF Next, Step

\* In every behaviour of the import, under every fault it may be exposed to,
\* every variable keeps its shape.
THEOREM TypeCorrect == Spec => []TypeOK
<1>1. Spec => []TypeInv
  BY TypeInit, TypeStep, PTL DEF Spec
<1>2. TypeInv => TypeOK
  BY DEF TypeInv
<1> QED
  BY <1>1, <1>2, PTL

-----------------------------------------------------------------------------
(* Orders carry their own lines.  The order number travels from BC into the *)
(* locals of a callback, from there into the buffer document, from the      *)
(* document into the entries of later batches and back to BC: at every stop *)
(* it has to name an order of the purchase order it travels with.  That     *)
(* needs documents of their own for different purchase orders.              *)

DistinctDocs == \A p, q \in POs : DocIdOf[p] = DocIdOf[q] => p = q

\* Entry e keeps to the lines and the order of its purchase order, given the
\* sales orders os.
EntryHome(os, e) ==
  /\ e.lines \subseteq LinesOf(e.po)
  /\ e.so # None => e.po \in POs /\ os[e.so].po = e.po

WorkHome(os, k) ==
  /\ EntryHome(os, k.cur)
  /\ \A e \in k.rest : EntryHome(os, e)
  /\ k.order # None => k.cur.po \in POs /\ os[k.order].po = k.cur.po
  /\ k.todo \subseteq LinesOf(k.cur.po)
  /\ k.left \subseteq LinesOf(k.cur.po)

DocHome(os, d) ==
  /\ buffer[d].po # None => DocIdOf[buffer[d].po] = d
  /\ buffer[d].lines \subseteq LinesOf(buffer[d].po)
  /\ buffer[d].so # None => buffer[d].po \in POs /\ os[buffer[d].so].po = buffer[d].po

HomeInv ==
  /\ OwnLinesOnly
  /\ \A w \in Workers : WorkHome(orders, work[w])
  /\ \A d \in DocIds : DocHome(orders, d)

\* An order never changes hands.
Kept == \A n \in OrderNos : orders[n].po # None => orders'[n].po = orders[n].po

LEMMA OrdersKept ==
  ASSUME TypeInv,
         \/ \E w \in Workers : CreateHeader(w)
         \/ \E w \in Workers, l \in Lines : PostLine(w, l)
         \/ \E n \in OrderNos : ChangeStatus(n)
         \/ \E p \in POs : EnterByHand(p)
  PROVE  Kept
<1>1. orders \in [OrderNos -> Order]
  BY DEF TypeInv, TypeOK
<1>2. CASE \E w \in Workers : CreateHeader(w)
  <2>1. (\E p : \E ns \in SUBSET Unused : orders' = WithNew(ns, p)) \/ UNCHANGED orders
    BY <1>2 DEF CreateHeader
  <2> QED
    BY <2>1 DEF WithNew, Unused, Kept
<1>3. CASE \E w \in Workers, l \in Lines : PostLine(w, l)
  <2>1. (\E n, l, k : orders' = WithLine(n, l, k)) \/ UNCHANGED orders
    BY <1>3 DEF PostLine
  <2> QED
    BY <1>1, <2>1 DEF WithLine, Kept, Order
<1>4. CASE \E n \in OrderNos : ChangeStatus(n)
  BY <1>1, <1>4 DEF ChangeStatus, Kept, Order
<1>5. CASE \E p \in POs : EnterByHand(p)
  BY <1>1, <1>5 DEF EnterByHand, Unused, Kept
<1> QED
  BY <1>2, <1>3, <1>4, <1>5

\* What is at home stays at home while orders keep their purchase order.
LEMMA EntryStaysHome ==
  ASSUME Kept, NEW e \in Entry, EntryHome(orders, e)
  PROVE  EntryHome(orders', e)
  BY ConstantsAssumption DEF Kept, EntryHome, Entry

LEMMA WorkStaysHome ==
  ASSUME Kept, NEW k \in Work, WorkHome(orders, k)
  PROVE  WorkHome(orders', k)
<1>1. k.cur \in Entry /\ k.rest \subseteq Entry /\ k.order \in OrderNos \cup {None}
  BY DEF Work
<1>2. EntryHome(orders', k.cur) /\ \A e \in k.rest : EntryHome(orders', e)
  BY <1>1, EntryStaysHome DEF WorkHome
<1>3. k.order # None => orders'[k.order].po = k.cur.po
  BY <1>1, ConstantsAssumption DEF WorkHome, Kept
<1> QED
  BY <1>2, <1>3 DEF WorkHome

\* One callback moves on, the others stay.
LEMMA GoesHome ==
  ASSUME TypeInv, HomeInv, Kept, NEW w \in Workers, NEW k, Goes(w, k), WorkHome(orders', k)
  PROVE  \A v \in Workers : WorkHome(orders', work'[v])
<1> SUFFICES ASSUME NEW v \in Workers PROVE WorkHome(orders', work'[v])
  OBVIOUS
<1>1. CASE v = w
  BY <1>1 DEF Goes, TypeInv, TypeOK
<1>2. CASE v # w
  BY <1>2, WorkStaysHome, WorkFields DEF Goes, TypeInv, TypeOK, HomeInv
<1> QED
  BY <1>1, <1>2

LEMMA IdleHome == \A os : WorkHome(os, Idle)
  BY DEF WorkHome, EntryHome, Idle, NoEntry

LEMMA RaiseHome ==
  ASSUME TypeInv, HomeInv, Kept, NEW w \in Workers, Raise(w)
  PROVE  \A v \in Workers : WorkHome(orders', work'[v])
<1> DEFINE k == [work[w] EXCEPT !.pc = "failed", !.order = None, !.todo = {},
                                !.left = {}, !.out = {}]
<1>1. WorkHome(orders', work[w])
  BY WorkStaysHome, WorkFields DEF HomeInv
<1>2. k.cur = work[w].cur /\ k.rest = work[w].rest /\ k.order = None
      /\ k.todo = {} /\ k.left = {}
  BY WorkFields DEF Work
<1>3. WorkHome(orders', k)
  <2> HIDE DEF k
  <2> QED
    BY <1>1, <1>2 DEF WorkHome
<1> QED
  BY <1>3, GoesHome DEF Raise

LEMMA EnterLinesHome ==
  ASSUME TypeInv, HomeInv, Kept, NEW w \in Workers, NEW n \in OrderNos, NEW seen,
         EnterLines(w, n, seen), work[w].cur.po \in POs, orders'[n].po = work[w].cur.po
  PROVE  \A v \in Workers : WorkHome(orders', work'[v])
<1>1. PICK inactive, unresolved \in SUBSET work[w].cur.lines :
        Goes(w, [work[w] EXCEPT !.pc = "lines", !.order = n,
                  !.todo = {l \in work[w].cur.lines \ (inactive \cup unresolved) :
                              ItemOf[l] \notin seen},
                  !.left = unresolved, !.out = inactive])
  BY DEF EnterLines
<1> DEFINE todo == {l \in work[w].cur.lines \ (inactive \cup unresolved) :
                      ItemOf[l] \notin seen}
           k == [work[w] EXCEPT !.pc = "lines", !.order = n, !.todo = todo,
                                !.left = unresolved, !.out = inactive]
<1>2. WorkHome(orders', work[w])
  BY WorkStaysHome, WorkFields DEF HomeInv
<1>3. todo \subseteq work[w].cur.lines /\ Goes(w, k)
  BY <1>1
<1> HIDE DEF todo
<1>4. k.cur = work[w].cur /\ k.rest = work[w].rest /\ k.order = n
      /\ k.todo = todo /\ k.left = unresolved
  BY WorkFields DEF Work
<1>5. WorkHome(orders', k)
  <2> HIDE DEF k
  <2> QED
    BY <1>2, <1>3, <1>4 DEF WorkHome, EntryHome
<1> QED
  BY <1>3, <1>5, GoesHome

LEMMA OutcomeHome ==
  ASSUME TypeInv, HomeInv, Kept, NEW w \in Workers, NEW pc, NEW e, NEW s,
         EntryHome(orders', e), Outcome(w, pc, e, s)
  PROVE  \A v \in Workers : WorkHome(orders', work'[v])
<1> DEFINE k == [Idle EXCEPT !.pc = pc, !.msg = work[w].msg, !.rest = work[w].rest,
                             !.cur = e, !.status = s]
<1>1. WorkHome(orders', work[w])
  BY WorkStaysHome, WorkFields DEF HomeInv
<1>2. k.cur = e /\ k.rest = work[w].rest /\ k.order = None
      /\ k.todo = {} /\ k.left = {}
  BY DEF Idle
<1>3. WorkHome(orders', k)
  <2> HIDE DEF k
  <2> QED
    BY <1>1, <1>2 DEF WorkHome
<1> QED
  BY <1>3, GoesHome DEF Outcome

LEMMA LeftIsHome ==
  ASSUME NEW os, NEW p, NEW d
  PROVE  EntryHome(os, [NoEntry EXCEPT !.po = p])
         /\ EntryHome(os, [NoEntry EXCEPT !.po = p, !.buf = d])
  BY DEF EntryHome, NoEntry

LEMMA ReportHome ==
  ASSUME TypeInv, HomeInv, Kept, NEW w \in Workers, NEW s, Report(w, s)
  PROVE  \A v \in Workers : WorkHome(orders', work'[v])
<1> DEFINE e == [NoEntry EXCEPT !.po = work[w].cur.po]
<1>1. EntryHome(orders', e) /\ Outcome(w, "report", e, s)
  BY LeftIsHome DEF Report
<1> HIDE DEF e
<1> QED
  BY <1>1, OutcomeHome

\* The order number that survives in the document is one of the purchase order.
LEMMA KeepsHome ==
  ASSUME DistinctDocs, TypeInv, HomeInv, UNCHANGED orders, NEW w \in Workers,
         work[w].cur.po \in POs, NEW ls \in SUBSET LinesOf(work[w].cur.po),
         NEW so \in OrderNos \cup {None}, so # None => orders[so].po = work[w].cur.po,
         NEW s, Keeps(w, ls, so, s)
  PROVE  \A v \in Workers : WorkHome(orders', work'[v])
<1> DEFINE p == work[w].cur.po
           d == DocIdOf[p]
<1>1. d \in DocIds
  BY ConstantsAssumption
<1>2. buffer[d].so # None => buffer[d].po = p /\ orders[buffer[d].so].po = p
  BY <1>1, ConstantsAssumption DEF HomeInv, DocHome, DistinctDocs
<1>3. EntryHome(orders', KeepEntry(w, ls, so))
  BY <1>2 DEF KeepEntry, EntryHome
<1>4. Outcome(w, "keep", KeepEntry(w, ls, so), s) /\ Kept
  BY DEF Keeps, KeepEntry, Kept
<1> QED
  BY <1>3, <1>4, OutcomeHome

LEMMA KeepHome ==
  ASSUME TypeInv, HomeInv, NEW w \in Workers, Keep(w)
  PROVE  \A d \in DocIds : DocHome(orders, d)'
<1> SUFFICES ASSUME NEW d \in DocIds PROVE DocHome(orders, d)'
  OBVIOUS
<1> DEFINE e == work[w].cur
<1>1. buffer \in [DocIds -> Doc] /\ EntryHome(orders, e) /\ UNCHANGED orders
  BY DEF TypeInv, TypeOK, HomeInv, WorkHome, Keep
<1>2. CASE buffer'[d] = buffer[d]
  BY <1>1, <1>2 DEF DocHome, HomeInv
<1>3. CASE buffer'[d] # buffer[d]
  <2>1. d = DocIdOf[e.po] /\ buffer'[d] = [po |-> e.po, lines |-> e.lines, so |-> e.so]
    BY <1>1, <1>3 DEF Keep
  <2> QED
    BY <1>1, <2>1 DEF DocHome, EntryHome
<1> QED
  BY <1>2, <1>3

\* The documents nobody writes, and the one that is deleted.
LEMMA DeleteHome ==
  ASSUME TypeInv, HomeInv, Kept, \/ \E e : Delete(e)
                                 \/ UNCHANGED buffer
  PROVE  \A d \in DocIds : DocHome(orders, d)'
<1> SUFFICES ASSUME NEW d \in DocIds PROVE DocHome(orders, d)'
  OBVIOUS
<1>1. buffer \in [DocIds -> Doc]
  BY DEF TypeInv, TypeOK
<1>2. buffer'[d] = buffer[d] \/ buffer'[d] = NoDoc
  BY <1>1 DEF Delete
<1>3. buffer[d].so \in OrderNos \cup {None} /\ buffer[d].po \in POs \cup {None}
  BY <1>1 DEF Doc
<1>4. CASE buffer'[d] = buffer[d]
  BY <1>3, <1>4, ConstantsAssumption DEF DocHome, HomeInv, Kept
<1>5. CASE buffer'[d] = NoDoc
  BY <1>5 DEF DocHome, NoDoc
<1> QED
  BY <1>2, <1>4, <1>5

\* The lines on BC's orders stay with their purchase order.
LEMMA OwnLinesStep ==
  ASSUME TypeInv, HomeInv,
         \/ \E w \in Workers : CreateHeader(w)
         \/ \E w \in Workers, l \in Lines : PostLine(w, l)
         \/ \E n \in OrderNos : ChangeStatus(n)
         \/ \E p \in POs : EnterByHand(p)
  PROVE  OwnLinesOnly'
<1>1. orders \in [OrderNos -> Order]
  BY DEF TypeInv, TypeOK
<1>2. CASE \E w \in Workers : CreateHeader(w)
  <2>1. (\E p : \E ns \in SUBSET Unused : orders' = WithNew(ns, p)) \/ UNCHANGED orders
    BY <1>2 DEF CreateHeader
  <2> QED
    BY <2>1 DEF WithNew, OwnLinesOnly, HomeInv, NoOrder
<1>3. CASE \E w \in Workers, l \in Lines : PostLine(w, l)
  <2>1. PICK w \in Workers, l \in Lines : PostLine(w, l)
    BY <1>3
  <2>2. work[w].order \in OrderNos /\ l \in work[w].todo
    BY <2>1, WorkFields DEF PostLine, Ready
  <2>3. orders[work[w].order].po = PoOf[l]
    BY <2>2, ConstantsAssumption DEF HomeInv, WorkHome, LinesOf
  <2>4. (\E k \in Nat : orders' = WithLine(work[w].order, l, k)) \/ UNCHANGED orders
    BY <2>1 DEF PostLine
  <2>5. CASE UNCHANGED orders
    BY <2>5 DEF OwnLinesOnly, HomeInv
  <2>6. CASE \E k \in Nat : orders' = WithLine(work[w].order, l, k)
    BY <1>1, <2>2, <2>3, <2>6 DEF WithLine, OwnLinesOnly, HomeInv, Order
  <2> QED
    BY <2>4, <2>5, <2>6
<1>4. CASE \E n \in OrderNos : ChangeStatus(n)
  BY <1>1, <1>4 DEF ChangeStatus, OwnLinesOnly, HomeInv, Order
<1>5. CASE \E p \in POs : EnterByHand(p)
  BY <1>1, <1>5 DEF EnterByHand, OwnLinesOnly, HomeInv, LinesOf
<1> QED
  BY <1>2, <1>3, <1>4, <1>5

LEMMA HomeInit == Init => HomeInv
  BY IdleHome DEF Init, HomeInv, OwnLinesOnly, DocHome, NoOrder, NoDoc

\* A step that leaves BC's orders alone.
LEMMA HomeQuiet ==
  ASSUME TypeInv, HomeInv, UNCHANGED orders,
         \A w \in Workers : WorkHome(orders', work'[w]),
         \A d \in DocIds : DocHome(orders, d)'
  PROVE  HomeInv'
  BY DEF HomeInv, OwnLinesOnly

LEMMA HomeStep == DistinctDocs /\ TypeInv /\ HomeInv /\ [Next]_vars => HomeInv'
<1> SUFFICES ASSUME DistinctDocs, TypeInv, HomeInv, [Next]_vars PROVE HomeInv'
  OBVIOUS
<1>q. UNCHANGED orders => Kept
  BY DEF Kept
<1>w. ASSUME Kept, UNCHANGED work PROVE \A w \in Workers : WorkHome(orders', work'[w])
  BY <1>w, WorkStaysHome, WorkFields DEF HomeInv
<1>1. ASSUME NEW w \in Workers, NEW m \in Messages, Deliver(w, m) PROVE HomeInv'
  <2> DEFINE k == [Idle EXCEPT !.pc = "fetch", !.msg = m]
  <2>1. WorkHome(orders', k)
    BY DEF WorkHome, EntryHome, Idle, NoEntry
  <2> QED
    BY <1>1, <1>q, <2>1, GoesHome, DeleteHome, HomeQuiet DEF Deliver
<1>2. ASSUME NEW m \in Messages, LeaseExpires(m) PROVE HomeInv'
  BY <1>2, <1>q, <1>w, DeleteHome, HomeQuiet DEF LeaseExpires
<1>3. ASSUME NEW w \in Workers, Crash(w) PROVE HomeInv'
  BY <1>3, <1>q, IdleHome, GoesHome, DeleteHome, HomeQuiet DEF Crash, Leave
<1>4. ASSUME NEW m \in Messages, Retrigger(m) PROVE HomeInv'
  BY <1>4, <1>q, <1>w, DeleteHome, HomeQuiet DEF Retrigger
<1>5. ASSUME NEW w \in Workers, Merge(w) PROVE HomeInv'
  <2>1. PICK snap \in {Snapshot, {}} :
          Goes(w, [work[w] EXCEPT !.pc = "next", !.rest = Fresh(work[w].msg) \cup snap])
    BY <1>5 DEF Merge
  <2> DEFINE k == [work[w] EXCEPT !.pc = "next", !.rest = Fresh(work[w].msg) \cup snap]
  <2>2. UNCHANGED orders /\ UNCHANGED buffer
    BY <1>5 DEF Merge
  <2>3. \A e \in Fresh(work[w].msg) : EntryHome(orders', e)
    BY DEF Fresh, EntryHome
  <2>4. \A e \in snap : EntryHome(orders', e)
    BY <2>2 DEF Snapshot, EntryHome, HomeInv, DocHome
  <2>5. k.cur = work[w].cur /\ k.rest = Fresh(work[w].msg) \cup snap
        /\ k.order = work[w].order /\ k.todo = work[w].todo /\ k.left = work[w].left
    BY WorkFields DEF Work
  <2>6. WorkHome(orders', k)
    <3> HIDE DEF k
    <3> QED
      BY <2>2, <2>3, <2>4, <2>5 DEF WorkHome, HomeInv
  <2> QED
    BY <1>q, <2>1, <2>2, <2>6, GoesHome, DeleteHome, HomeQuiet
<1>6. ASSUME NEW w \in Workers, PrefetchTransient(w) PROVE HomeInv'
  BY <1>6, <1>q, IdleHome, GoesHome, DeleteHome, HomeQuiet DEF PrefetchTransient, Leave
<1>7. ASSUME NEW w \in Workers, PrefetchPermanent(w) PROVE HomeInv'
  BY <1>7, <1>q, IdleHome, GoesHome, DeleteHome, HomeQuiet DEF PrefetchPermanent, Leave
<1>8. ASSUME NEW w \in Workers, BatchEscapes(w) PROVE HomeInv'
  BY <1>8, <1>q, IdleHome, GoesHome, DeleteHome, HomeQuiet DEF BatchEscapes, Leave
<1>9. ASSUME NEW w \in Workers, TakeOrder(w) PROVE HomeInv'
  <2>1. PICK e \in work[w].rest :
          Goes(w, [Idle EXCEPT !.pc = IF e.so = None THEN "find" ELSE "resume",
                               !.msg = work[w].msg, !.rest = work[w].rest \ {e},
                               !.cur = e, !.order = e.so])
    BY <1>9 DEF TakeOrder
  <2> DEFINE k == [Idle EXCEPT !.pc = IF e.so = None THEN "find" ELSE "resume",
                               !.msg = work[w].msg, !.rest = work[w].rest \ {e},
                               !.cur = e, !.order = e.so]
  <2>2. UNCHANGED orders /\ UNCHANGED buffer
    BY <1>9 DEF TakeOrder
  <2>3. k.cur = e /\ k.rest \subseteq work[w].rest /\ k.order = e.so
        /\ k.todo = {} /\ k.left = {}
    BY DEF Idle
  <2>4. WorkHome(orders', k)
    <3> HIDE DEF k
    <3> QED
      BY <2>2, <2>3 DEF WorkHome, HomeInv, EntryHome
  <2> QED
    BY <1>q, <2>1, <2>2, <2>4, GoesHome, DeleteHome, HomeQuiet
<1>10. ASSUME NEW w \in Workers, FinishBatch(w) PROVE HomeInv'
  BY <1>10, <1>q, IdleHome, GoesHome, DeleteHome, HomeQuiet DEF FinishBatch, Leave
<1>11. ASSUME NEW w \in Workers, FindExisting(w) PROVE HomeInv'
  <2>1. UNCHANGED orders /\ UNCHANGED buffer /\ work[w].cur.po \in POs
    BY <1>11, WorkFields DEF FindExisting, Ready, AtOrder
  <2>2. CASE \E n \in Matching(work[w].cur.po) :
               Goes(w, [work[w] EXCEPT !.pc = "resume", !.order = n])
    <3>1. PICK n \in OrdersOf(work[w].cur.po) :
            Goes(w, [work[w] EXCEPT !.pc = "resume", !.order = n])
      BY <2>2 DEF Matching
    <3> DEFINE k == [work[w] EXCEPT !.pc = "resume", !.order = n]
    <3>2. k.cur = work[w].cur /\ k.rest = work[w].rest /\ k.order = n
          /\ k.todo = work[w].todo /\ k.left = work[w].left
      BY WorkFields DEF Work
    <3>3. WorkHome(orders', k)
      <4> HIDE DEF k
      <4> QED
        BY <2>1, <3>2 DEF WorkHome, HomeInv, OrdersOf
    <3> QED
      BY <1>q, <2>1, <3>1, <3>3, GoesHome, DeleteHome, HomeQuiet
  <2>3. CASE Goes(w, [work[w] EXCEPT !.pc = "create"])
    <3> DEFINE k == [work[w] EXCEPT !.pc = "create"]
    <3>1. WorkHome(orders', k)
      BY <2>1, WorkFields DEF WorkHome, HomeInv, Work
    <3> QED
      BY <1>q, <2>1, <2>3, <3>1, GoesHome, DeleteHome, HomeQuiet
  <2> QED
    BY <1>11, <2>2, <2>3 DEF FindExisting
<1>12. ASSUME NEW w \in Workers, Resume(w) PROVE HomeInv'
  <2>1. UNCHANGED orders /\ UNCHANGED buffer /\ work[w].order \in OrderNos
    BY <1>12, WorkFields DEF Resume, Ready
  <2>2. work[w].cur.po \in POs /\ orders'[work[w].order].po = work[w].cur.po
    BY <2>1, ConstantsAssumption DEF HomeInv, WorkHome
  <2>3. \A v \in Workers : WorkHome(orders', work'[v])
    BY <1>12, <1>q, <2>1, <2>2, RaiseHome, EnterLinesHome DEF Resume
  <2> QED
    BY <1>q, <2>1, <2>3, DeleteHome, HomeQuiet
<1>13. ASSUME NEW w \in Workers, CreateHeader(w) PROVE HomeInv'
  <2>1. work[w].cur.po \in POs /\ Kept /\ UNCHANGED buffer /\ OwnLinesOnly'
    BY <1>13, WorkFields, OrdersKept, OwnLinesStep DEF CreateHeader, Ready, AtOrder
  <2>2. \/ Raise(w)
        \/ \E n \in OrderNos : EnterLines(w, n, {}) /\ orders'[n].po = work[w].cur.po
    BY <1>13 DEF CreateHeader, WithNew, Unused, NoOrder
  <2>3. \A v \in Workers : WorkHome(orders', work'[v])
    BY <2>1, <2>2, RaiseHome, EnterLinesHome
  <2> QED
    BY <2>1, <2>3, DeleteHome DEF HomeInv
<1>14. ASSUME NEW w \in Workers, NEW l \in Lines, PostLine(w, l) PROVE HomeInv'
  <2>1. Kept /\ UNCHANGED buffer /\ OwnLinesOnly'
    BY <1>14, OrdersKept, OwnLinesStep DEF PostLine
  <2>2. WorkHome(orders', work[w])
    BY <2>1, WorkStaysHome, WorkFields DEF HomeInv
  <2>3. CASE Goes(w, [work[w] EXCEPT !.todo = @ \ {l}])
    <3> DEFINE k == [work[w] EXCEPT !.todo = @ \ {l}]
    <3>1. WorkHome(orders', k)
      BY <2>2, WorkFields DEF WorkHome, Work
    <3> QED
      BY <2>1, <2>3, <3>1, GoesHome, DeleteHome DEF HomeInv
  <2>4. CASE Goes(w, [work[w] EXCEPT !.pc = "locked", !.todo = {},
                                     !.left = @ \cup work[w].todo])
    <3> DEFINE k == [work[w] EXCEPT !.pc = "locked", !.todo = {},
                                    !.left = @ \cup work[w].todo]
    <3>1. WorkHome(orders', k)
      BY <2>2, WorkFields DEF WorkHome, Work
    <3> QED
      BY <2>1, <2>4, <3>1, GoesHome, DeleteHome DEF HomeInv
  <2>5. CASE l \in work[w].todo /\ Goes(w, [work[w] EXCEPT !.todo = @ \ {l}, !.left = @ \cup {l}])
    <3> DEFINE k == [work[w] EXCEPT !.todo = @ \ {l}, !.left = @ \cup {l}]
    <3>1. WorkHome(orders', k)
      BY <2>2, <2>5, WorkFields DEF WorkHome, Work
    <3> QED
      BY <2>1, <2>5, <3>1, GoesHome, DeleteHome DEF HomeInv
  <2>6. CASE Raise(w)
    BY <2>1, <2>6, RaiseHome, DeleteHome DEF HomeInv
  <2> QED
    BY <1>14, <2>3, <2>4, <2>5, <2>6 DEF PostLine
<1>15. ASSUME NEW w \in Workers, SettleOrder(w) PROVE HomeInv'
  <2>1. UNCHANGED orders /\ work[w].cur.po \in POs /\ work[w].order \in OrderNos
    BY <1>15, WorkFields DEF SettleOrder, Ready, AtOrder
  <2>2. work[w].left \subseteq LinesOf(work[w].cur.po)
        /\ orders[work[w].order].po = work[w].cur.po
    BY <2>1, ConstantsAssumption DEF HomeInv, WorkHome
  <2>3. \A d \in DocIds : DocHome(orders, d)'
    BY <1>15, <1>q, <2>1, DeleteHome DEF SettleOrder
  <2>4. \A v \in Workers : WorkHome(orders', work'[v])
    BY <1>15, <1>q, <2>1, <2>2, KeepsHome, ReportHome DEF SettleOrder
  <2> QED
    BY <2>1, <2>3, <2>4, HomeQuiet
<1>16. ASSUME NEW w \in Workers, SettleLocked(w) PROVE HomeInv'
  <2> DEFINE e == [NoEntry EXCEPT !.po = work[w].cur.po, !.buf = work[w].cur.buf]
  <2>1. Report(w, "error") \/ Outcome(w, "drop", e, "error")
    BY <1>16 DEF SettleLocked
  <2>2. EntryHome(orders', e)
    BY LeftIsHome
  <2> HIDE DEF e
  <2>3. UNCHANGED orders /\ UNCHANGED buffer
    BY <1>16 DEF SettleLocked
  <2>4. \A v \in Workers : WorkHome(orders', work'[v])
    BY <1>q, <2>1, <2>2, <2>3, ReportHome, OutcomeHome
  <2> QED
    BY <1>q, <2>3, <2>4, DeleteHome, HomeQuiet
<1>17. ASSUME NEW w \in Workers, SettleFailed(w) PROVE HomeInv'
  <2>1. /\ UNCHANGED orders /\ UNCHANGED buffer
        /\ work[w].cur.po \in POs /\ work[w].cur.so \in OrderNos \cup {None}
    BY <1>17, WorkFields DEF SettleFailed, Ready, AtOrder
  <2>2. work[w].cur.lines \subseteq LinesOf(work[w].cur.po)
        /\ (work[w].cur.so # None => orders[work[w].cur.so].po = work[w].cur.po)
    BY <2>1 DEF HomeInv, WorkHome, EntryHome
  <2>3. \A v \in Workers : WorkHome(orders', work'[v])
    BY <1>17, <2>1, <2>2, KeepsHome DEF SettleFailed
  <2> QED
    BY <1>q, <2>1, <2>3, DeleteHome, HomeQuiet
<1>23. ASSUME NEW w \in Workers, Keep(w) PROVE HomeInv'
  BY <1>23, <1>q, KeepHome, ReportHome, HomeQuiet DEF Keep
<1>24. ASSUME NEW w \in Workers, Drop(w) PROVE HomeInv'
  BY <1>24, <1>q, DeleteHome, ReportHome, HomeQuiet DEF Drop
<1>18. ASSUME NEW w \in Workers, ReportOrder(w) PROVE HomeInv'
  <2> DEFINE k == [Idle EXCEPT !.pc = "next", !.msg = work[w].msg, !.rest = work[w].rest]
  <2>1. k.cur = NoEntry /\ k.rest = work[w].rest /\ k.order = None
        /\ k.todo = {} /\ k.left = {}
    BY DEF Idle
  <2>2. UNCHANGED orders /\ UNCHANGED buffer /\ Goes(w, k)
    BY <1>18 DEF ReportOrder
  <2>3. WorkHome(orders', k)
    <3> HIDE DEF k
    <3> QED
      BY <2>1, <2>2 DEF WorkHome, HomeInv, EntryHome, NoEntry
  <2> QED
    BY <1>q, <2>2, <2>3, GoesHome, DeleteHome, HomeQuiet
<1>19. ASSUME NEW p \in POs, RecordHandoff(p) PROVE HomeInv'
  BY <1>19, <1>q, <1>w, DeleteHome, HomeQuiet DEF RecordHandoff
<1>20. ASSUME NEW n \in OrderNos, ChangeStatus(n) PROVE HomeInv'
  BY <1>20, <1>w, OrdersKept, OwnLinesStep, DeleteHome DEF ChangeStatus, HomeInv
<1>21. ASSUME NEW p \in POs, EnterByHand(p) PROVE HomeInv'
  BY <1>21, <1>w, OrdersKept, OwnLinesStep, DeleteHome DEF EnterByHand, HomeInv
<1>22. CASE UNCHANGED vars
  BY <1>22, <1>q, <1>w, DeleteHome, HomeQuiet DEF vars
<1> QED
  BY <1>1, <1>2, <1>3, <1>4, <1>5, <1>6, <1>7, <1>8, <1>9, <1>10, <1>11, <1>12, <1>13,
     <1>14, <1>15, <1>16, <1>17, <1>18, <1>19, <1>20, <1>21, <1>22, <1>23, <1>24
  DEF Next, Step

\* Whatever the environment does, sales orders only carry lines of their own
\* purchase order, provided that no two references share a buffer document.
THEOREM OrdersCarryOwnLines == ASSUME DistinctDocs PROVE Spec => []OwnLinesOnly
<1>1. Init => TypeInv /\ HomeInv
  BY TypeInit, HomeInit
<1>2. TypeInv /\ HomeInv /\ [Next]_vars => TypeInv' /\ HomeInv'
  BY TypeStep, HomeStep
<1>3. HomeInv => OwnLinesOnly
  BY DEF HomeInv
<1> QED
  BY <1>1, <1>2, <1>3, PTL DEF Spec

\* Under the same condition a buffer document always names an order of its own
\* purchase order, so a retry never resumes somebody else's header.
THEOREM DocumentsPointHome == ASSUME DistinctDocs PROVE Spec => []BufferPointsHome
<1>1. Init => TypeInv /\ HomeInv
  BY TypeInit, HomeInit
<1>2. TypeInv /\ HomeInv /\ [Next]_vars => TypeInv' /\ HomeInv'
  BY TypeStep, HomeStep
<1>3. HomeInv => BufferPointsHome
  BY ConstantsAssumption DEF HomeInv, DocHome, BufferPointsHome
<1> QED
  BY <1>1, <1>2, <1>3, PTL DEF Spec

-----------------------------------------------------------------------------
(* Nothing twice.  The worker checks before it posts, in a step of its own; *)
(* what it found still holds when it posts because only one callback runs   *)
(* at a time (no "overlap") and nobody else enters the order meanwhile.     *)

Serial ==
  \A v, w \in Workers : work[v].pc # "idle" /\ work[w].pc # "idle" => v = w

\* Where the callback is after the moves that several actions share.
LEMMA AfterMoves ==
  ASSUME TypeInv, NEW w \in Workers
  PROVE  /\ Raise(w) => work'[w].pc = "failed"
         /\ \A pc, e, s : Outcome(w, pc, e, s) => work'[w].pc = pc
         /\ \A s : Report(w, s) => work'[w].pc = "report"
         /\ \A m, s : Leave(w, m, s) => work'[w] = Idle
         /\ \A n, seen : EnterLines(w, n, seen) =>
              /\ work'[w].pc = "lines"
              /\ work'[w].order = n
              /\ \A l \in work'[w].todo : ItemOf[l] \notin seen
<1> USE WorkFields DEF Goes, TypeInv, TypeOK, Work
<1>1. Raise(w) => work'[w].pc = "failed"
  BY DEF Raise
<1>2. \A pc, e, s : Outcome(w, pc, e, s) => work'[w].pc = pc
  BY DEF Outcome, Idle
<1>5. \A s : Report(w, s) => work'[w].pc = "report"
  BY <1>2 DEF Report
<1>3. \A m, s : Leave(w, m, s) => work'[w] = Idle
  BY DEF Leave
<1>4. ASSUME NEW n, NEW seen, EnterLines(w, n, seen)
      PROVE  /\ work'[w].pc = "lines"
             /\ work'[w].order = n
             /\ \A l \in work'[w].todo : ItemOf[l] \notin seen
  BY <1>4 DEF EnterLines
<1> QED
  BY <1>1, <1>2, <1>3, <1>4, <1>5

\* A step of callback w is a step of a callback that has begun, and moves no
\* other callback.
LEMMA StepMoves ==
  ASSUME TypeInv, NEW w \in Workers, Step(w) \/ Crash(w)
  PROVE  work[w].pc # "idle" /\ \E k : Goes(w, k)
<1> USE DEF Raise, Outcome, Report, Keeps, EnterLines, Leave
<1>1. CASE Merge(w) \/ PrefetchTransient(w) \/ PrefetchPermanent(w) \/ BatchEscapes(w)
  BY <1>1 DEF Merge, PrefetchTransient, PrefetchPermanent, BatchEscapes
<1>2. CASE TakeOrder(w) \/ FinishBatch(w) \/ Crash(w)
  BY <1>2 DEF TakeOrder, FinishBatch, Crash
<1>3. CASE FindExisting(w) \/ Resume(w) \/ CreateHeader(w)
  BY <1>3 DEF FindExisting, Resume, CreateHeader
<1>4. CASE \E l \in Lines : PostLine(w, l)
  BY <1>4 DEF PostLine
<1>5. CASE SettleOrder(w) \/ SettleLocked(w) \/ SettleFailed(w)
  BY <1>5 DEF SettleOrder, SettleLocked, SettleFailed
<1>6. CASE Keep(w) \/ Drop(w) \/ ReportOrder(w)
  BY <1>6 DEF Keep, Drop, ReportOrder
<1> QED
  BY <1>1, <1>2, <1>3, <1>4, <1>5, <1>6 DEF Step

LEMMA SerialStep ==
  ASSUME "overlap" \notin Faults, TypeInv, Serial, [Next]_vars
  PROVE  Serial'
<1> USE DEF Serial
<1>1. ASSUME NEW w \in Workers, Step(w) \/ Crash(w) PROVE Serial'
  <2>1. PICK k : Goes(w, k)
    BY <1>1, StepMoves
  <2>2. \A v \in Workers : v # w => work[v].pc = "idle" /\ work'[v] = work[v]
    BY <1>1, <2>1, StepMoves DEF Goes, TypeInv, TypeOK
  <2> QED
    BY <2>2
<1>2. ASSUME NEW w \in Workers, NEW m \in Messages, Deliver(w, m) PROVE Serial'
  <2>1. \A v \in Workers : v # w => work'[v] = work[v] /\ work[v].pc = "idle"
    BY <1>2 DEF Deliver, Goes, TypeInv, TypeOK
  <2> QED
    BY <2>1
<1>3. CASE UNCHANGED work
  BY <1>3
<1> QED
  BY <1>1, <1>2, <1>3
  DEF Next, LeaseExpires, Retrigger, RecordHandoff, EnterByHand, ChangeStatus, vars

\* Outside _create_order a callback neither posts nor is about to.
LEMMA Elsewhere ==
  ASSUME TypeInv, NEW w \in Workers, Step(w) \/ Crash(w),
         ~FindExisting(w), ~Resume(w), ~CreateHeader(w), ~\E l \in Lines : PostLine(w, l)
  PROVE  /\ work'[w].pc \in {"idle", "next", "find", "resume"} \cup AtOutcome
         /\ UNCHANGED orders
<1>1. \A k : Goes(w, k) => work'[w] = k
  BY DEF Goes, TypeInv, TypeOK
<1>2. CASE Merge(w)
  <2>1. PICK rest : Goes(w, [work[w] EXCEPT !.pc = "next", !.rest = rest])
    BY <1>2 DEF Merge
  <2>2. work'[w].pc = "next"
    BY <1>1, <2>1, WorkFields DEF Work
  <2> QED
    BY <1>2, <2>2 DEF Merge
<1>3. CASE PrefetchTransient(w) \/ PrefetchPermanent(w) \/ BatchEscapes(w)
           \/ FinishBatch(w) \/ Crash(w)
  BY <1>3, AfterMoves
  DEF PrefetchTransient, PrefetchPermanent, BatchEscapes, FinishBatch, Crash, Idle
<1>4. CASE TakeOrder(w)
  <2>1. PICK pc \in {"find", "resume"}, e \in work[w].rest :
          Goes(w, [Idle EXCEPT !.pc = pc, !.msg = work[w].msg,
                               !.rest = work[w].rest \ {e}, !.cur = e,
                               !.order = e.so])
    BY <1>4 DEF TakeOrder
  <2>2. work'[w].pc = pc
    BY <1>1, <2>1 DEF Idle
  <2> QED
    BY <1>4, <2>2 DEF TakeOrder
<1>5. CASE ReportOrder(w)
  BY <1>1, <1>5 DEF ReportOrder, Idle
<1>6. CASE SettleOrder(w) \/ SettleLocked(w) \/ SettleFailed(w) \/ Keep(w) \/ Drop(w)
  BY <1>6, AfterMoves
  DEF SettleOrder, SettleLocked, SettleFailed, Keep, Drop, Keeps, AtOutcome
<1> QED
  BY <1>2, <1>3, <1>4, <1>5, <1>6 DEF Step

\* What one line POST may do to the callback and to BC, if BC applies a POST
\* at most once.
LEMMA Posting ==
  ASSUME "resend" \notin Faults, TypeInv, NEW w \in Workers, NEW l \in Lines, PostLine(w, l)
  PROVE  /\ work[w].pc = "lines" /\ l \in work[w].todo
         /\ orders' = WithLine(work[w].order, l, 1) \/ UNCHANGED orders
         /\ \/ work'[w].pc \in {"failed", "locked"}
            \/ /\ work'[w].pc = "lines"
               /\ work'[w].order = work[w].order
               /\ work'[w].todo = work[w].todo \ {l}
<1>1. \A k : Goes(w, k) => work'[w] = k
  BY DEF Goes, TypeInv, TypeOK
<1>2. /\ work[w].pc = "lines" /\ l \in work[w].todo
      /\ orders' = WithLine(work[w].order, l, 1) \/ UNCHANGED orders
  BY DEF PostLine
<1>3. CASE Goes(w, [work[w] EXCEPT !.todo = @ \ {l}])
  BY <1>1, <1>2, <1>3, WorkFields DEF Work
<1>4. CASE Goes(w, [work[w] EXCEPT !.pc = "locked", !.todo = {},
                                   !.left = @ \cup work[w].todo])
  <2>1. work'[w].pc = "locked"
    BY <1>1, <1>4, WorkFields DEF Work
  <2> QED
    BY <1>2, <2>1
<1>5. CASE Goes(w, [work[w] EXCEPT !.todo = @ \ {l}, !.left = @ \cup {l}])
  BY <1>1, <1>2, <1>5, WorkFields DEF Work
<1>6. CASE Raise(w)
  BY <1>2, <1>6, AfterMoves
<1> QED
  BY <1>3, <1>4, <1>5, <1>6 DEF PostLine

\* Only FindExisting sends a callback to the header POST.
LEMMA BeforeCreate ==
  ASSUME "resend" \notin Faults, TypeInv, NEW w \in Workers, Step(w) \/ Crash(w),
         work'[w].pc = "create"
  PROVE  /\ work'[w].cur = work[w].cur
         /\ UNCHANGED orders
         /\ "lookup" \in Faults \/ Matching(work[w].cur.po) = {}
<1>1. \A k : Goes(w, k) => work'[w] = k
  BY DEF Goes, TypeInv, TypeOK
<1>2. CASE FindExisting(w)
  <2>1. CASE \E n : Goes(w, [work[w] EXCEPT !.pc = "resume", !.order = n])
    <3>1. work'[w].pc = "resume"
      BY <1>1, <2>1, WorkFields DEF Work
    <3> QED
      BY <3>1
  <2>2. CASE /\ "lookup" \in Faults \/ Matching(work[w].cur.po) = {}
             /\ Goes(w, [work[w] EXCEPT !.pc = "create"])
    BY <1>1, <1>2, <2>2, WorkFields DEF Work, FindExisting
  <2> QED
    BY <1>2, <2>1, <2>2 DEF FindExisting
<1>3. CASE Resume(w) \/ CreateHeader(w)
  BY <1>3, AfterMoves DEF Resume, CreateHeader
<1>4. CASE \E l \in Lines : PostLine(w, l)
  BY <1>4, Posting
<1> QED
  BY <1>2, <1>3, <1>4, Elsewhere DEF AtOutcome

\* A callback about to create a header has no competitor: its purchase order
\* has no sales order.
OneInv ==
  /\ Serial
  /\ AtMostOneOrder
  /\ \A w \in Workers : work[w].pc = "create" => OrdersOf(work[w].cur.po) = {}

\* The faults under which the check before the header POST cannot be relied on:
\* another callback or a person creates the order in between, the check fails
\* and reads as "none", or the POST itself is repeated.
ReliableCheck ==
  /\ Faults \cap {"overlap", "byHand", "lookup", "resend"} = {}
  /\ LongRefs = {}

LEMMA OneStep ==
  ASSUME ReliableCheck, TypeInv, OneInv, [Next]_vars
  PROVE  OneInv'
<1>1. orders \in [OrderNos -> Order] /\ work \in [Workers -> Work]
  BY DEF TypeInv, TypeOK
<1>2. Serial'
  BY SerialStep DEF OneInv, ReliableCheck
<1>3. ASSUME \A n \in OrderNos : orders'[n].po = orders[n].po
      PROVE  AtMostOneOrder'
  BY <1>3 DEF OneInv, AtMostOneOrder
<1>4. ASSUME NEW w \in Workers, Step(w) \/ Crash(w),
             \A n \in OrderNos : orders'[n].po = orders[n].po
      PROVE  OneInv'
  <2>1. PICK k : Goes(w, k)
    BY <1>4, StepMoves
  <2>2. ASSUME NEW v \in Workers, work'[v].pc = "create"
        PROVE  OrdersOf(work[v].cur.po)' = {}
    <3>1. CASE v # w
      <4>1. work'[v] = work[v]
        BY <1>1, <2>1, <3>1 DEF Goes
      <4> QED
        BY <1>4, <2>2, <4>1 DEF OneInv, OrdersOf
    <3>2. CASE v = w
      <4>1. work'[v].cur = work[v].cur /\ Matching(work[v].cur.po) = {}
        BY <1>4, <2>2, <3>2, BeforeCreate DEF ReliableCheck
      <4> QED
        BY <1>4, <4>1 DEF Matching, OrdersOf, ReliableCheck
    <3> QED
      BY <3>1, <3>2
  <2> QED
    BY <1>2, <1>3, <1>4, <2>2 DEF OneInv
<1>5. ASSUME NEW w \in Workers, CreateHeader(w), orders' # orders PROVE OneInv'
  <2>1. PICK n \in Unused : orders' = WithNew({n}, work[w].cur.po)
    BY <1>5 DEF CreateHeader, ReliableCheck
  <2>2. work[w].pc = "create" /\ OrdersOf(work[w].cur.po) = {}
    BY <1>5 DEF CreateHeader, OneInv
  <2>3. AtMostOneOrder'
    BY <2>1, <2>2 DEF WithNew, Unused, OrdersOf, OneInv, AtMostOneOrder, NoOrder
  <2>4. \A v \in Workers : work'[v].pc # "create"
    <3>1. PICK k : Goes(w, k)
      BY <1>5, StepMoves DEF Step
    <3>2. work'[w].pc # "create"
      BY <1>5, AfterMoves DEF CreateHeader
    <3>3. \A v \in Workers : v # w => work'[v].pc = "idle"
      BY <1>1, <2>2, <3>1 DEF Goes, OneInv, Serial
    <3> QED
      BY <3>2, <3>3
  <2> QED
    BY <1>2, <2>3, <2>4 DEF OneInv
<1>6. ASSUME NEW w \in Workers, Step(w) \/ Crash(w) PROVE OneInv'
  <2>1. CASE CreateHeader(w) /\ orders' # orders
    BY <1>5, <2>1
  <2>2. CASE \E l \in Lines : PostLine(w, l)
    <3>1. (\E n, l, k : orders' = WithLine(n, l, k)) \/ UNCHANGED orders
      BY <2>2 DEF PostLine
    <3>2. \A n \in OrderNos : orders'[n].po = orders[n].po
      BY <1>1, <3>1 DEF WithLine, Order
    <3> QED
      BY <1>4, <1>6, <3>2
  <2>3. CASE UNCHANGED orders
    BY <1>4, <1>6, <2>3
  <2> QED
    BY <1>6, <2>1, <2>2, <2>3
    DEF Step, Crash, Merge, PrefetchTransient, PrefetchPermanent, BatchEscapes, TakeOrder,
        FinishBatch, FindExisting, Resume, SettleOrder, SettleLocked, SettleFailed, Keep, Drop,
        ReportOrder
<1>7. ASSUME NEW w \in Workers, NEW m \in Messages, Deliver(w, m) PROVE OneInv'
  <2>1. \A v \in Workers : work'[v].pc # "create"
    BY <1>1, <1>7 DEF Deliver, Goes, Idle, ReliableCheck
  <2> QED
    BY <1>2, <1>3, <1>7, <2>1 DEF Deliver, OneInv
<1>8. CASE UNCHANGED work /\ \A n \in OrderNos : orders'[n].po = orders[n].po
  BY <1>2, <1>3, <1>8 DEF OneInv, OrdersOf
<1>9. CASE \E n \in OrderNos : ChangeStatus(n)
  BY <1>1, <1>8, <1>9 DEF ChangeStatus, Order
<1> QED
  BY <1>6, <1>7, <1>8, <1>9
  DEF Next, LeaseExpires, Retrigger, RecordHandoff, EnterByHand, ReliableCheck, vars

\* Redelivery, retries from the buffer, crashes between any two calls and lost
\* replies never give a purchase order a second sales order, as long as the
\* check before the header POST can be relied on.
THEOREM NoSecondOrder == ASSUME ReliableCheck PROVE Spec => []AtMostOneOrder
<1>1. Init => TypeInv /\ OneInv
  BY TypeInit, IdleCallback DEF Init, OneInv, Serial, AtMostOneOrder, NoOrder, Idle
<1>2. TypeInv /\ OneInv /\ [Next]_vars => TypeInv' /\ OneInv'
  BY TypeStep, OneStep
<1>3. OneInv => AtMostOneOrder
  BY DEF OneInv
<1> QED
  BY <1>1, <1>2, <1>3, PTL DEF Spec

\* The lines a callback is about to post are not on their order yet.
TwiceInv ==
  /\ Serial
  /\ NoLineTwice
  /\ \A w \in Workers : work[w].pc = "lines" =>
       /\ orders[work[w].order].po # None
       /\ \A l \in work[w].todo : orders[work[w].order].lines[l] = 0

AppliedOnce == Faults \cap {"overlap", "resend"} = {}

\* The acting callback still posts each line once.
LEMMA TwiceActor ==
  ASSUME AppliedOnce, TypeInv, TwiceInv, NEW w \in Workers, Step(w) \/ Crash(w)
  PROVE  /\ NoLineTwice'
         /\ work'[w].pc = "lines" =>
              /\ orders'[work'[w].order].po # None
              /\ \A l \in work'[w].todo : orders'[work'[w].order].lines[l] = 0
<1>1. orders \in [OrderNos -> Order]
  BY DEF TypeInv, TypeOK
<1>2. UNCHANGED orders => NoLineTwice'
  BY DEF TwiceInv, NoLineTwice
<1>3. CASE FindExisting(w)
  <2>1. work'[w].pc # "lines"
    <3>1. CASE \E n : Goes(w, [work[w] EXCEPT !.pc = "resume", !.order = n])
      BY <3>1, WorkFields DEF Goes, Work, TypeInv, TypeOK
    <3>2. CASE Goes(w, [work[w] EXCEPT !.pc = "create"])
      BY <3>2, WorkFields DEF Goes, Work, TypeInv, TypeOK
    <3> QED
      BY <1>3, <3>1, <3>2 DEF FindExisting
  <2> QED
    BY <1>2, <1>3, <2>1 DEF FindExisting
<1>4. CASE Resume(w)
  <2> DEFINE n == work[w].order
  <2>1. UNCHANGED orders /\ n \in OrderNos
    BY <1>4, WorkFields DEF Resume, Ready
  <2>2. CASE orders[n].po # None /\ EnterLines(w, n, ItemsOn(n))
    <3>1. work'[w].order = n /\ \A l \in work'[w].todo : ItemOf[l] \notin ItemsOn(n)
      BY <2>2, AfterMoves
    <3>2. work'[w].todo \subseteq Lines
      BY <1>4, TypeStep, WorkFields DEF Next, Step, TypeInv, TypeOK, Work
    <3>3. \A l \in work'[w].todo : orders[n].lines[l] = 0
      BY <1>1, <2>1, <3>1, <3>2 DEF ItemsOn, Order
    <3> QED
      BY <1>2, <2>1, <2>2, <3>1, <3>3
  <2>3. CASE Raise(w)
    BY <1>2, <2>1, <2>3, AfterMoves
  <2> QED
    BY <1>4, <2>2, <2>3 DEF Resume
<1>5. CASE CreateHeader(w)
  <2>1. work[w].cur.po \in POs
    BY <1>5, WorkFields DEF CreateHeader, Ready, AtOrder
  <2>2. NoLineTwice'
    <3>1. (\E ns, p : orders' = WithNew(ns, p)) \/ UNCHANGED orders
      BY <1>5 DEF CreateHeader
    <3> QED
      BY <1>2, <3>1 DEF WithNew, NoOrder, NoLineTwice, TwiceInv
  <2>3. CASE Raise(w)
    BY <2>2, <2>3, AfterMoves
  <2>4. CASE \E n \in Unused : orders' = WithNew({n}, work[w].cur.po) /\ EnterLines(w, n, {})
    <3>1. PICK n \in Unused : orders' = WithNew({n}, work[w].cur.po) /\ EnterLines(w, n, {})
      BY <2>4
    <3>2. work'[w].order = n /\ work'[w].todo \subseteq Lines
      BY <1>5, <3>1, TypeStep, AfterMoves DEF Next, Step, TypeInv, TypeOK, Work
    <3>3. orders'[n].po = work[w].cur.po /\ \A l \in Lines : orders'[n].lines[l] = 0
      BY <3>1 DEF WithNew, Unused, NoOrder
    <3> QED
      BY <2>1, <2>2, <3>2, <3>3, ConstantsAssumption
  <2> QED
    BY <1>5, <2>3, <2>4 DEF CreateHeader, AppliedOnce
<1>6. ASSUME NEW l \in Lines, PostLine(w, l)
      PROVE  /\ NoLineTwice'
             /\ work'[w].pc = "lines" =>
                  /\ orders'[work'[w].order].po # None
                  /\ \A k \in work'[w].todo : orders'[work'[w].order].lines[k] = 0
  <2> DEFINE n == work[w].order
  <2>1. n \in OrderNos /\ work[w].todo \subseteq Lines
    BY <1>6, WorkFields DEF PostLine, Ready
  <2>2. /\ work[w].pc = "lines" /\ l \in work[w].todo
        /\ orders' = WithLine(n, l, 1) \/ UNCHANGED orders
        /\ work'[w].pc = "lines" => work'[w].order = n /\ work'[w].todo = work[w].todo \ {l}
    BY <1>6, Posting DEF AppliedOnce
  <2>3. orders[n].lines[l] = 0 /\ orders[n].po # None
        /\ \A k \in work[w].todo : orders[n].lines[k] = 0
    BY <2>2 DEF TwiceInv
  <2>4. CASE UNCHANGED orders
    BY <1>2, <2>2, <2>3, <2>4
  <2>5. CASE orders' = WithLine(n, l, 1)
    <3>1. /\ orders'[n].po = orders[n].po
          /\ orders'[n].lines[l] = 1
          /\ \A k \in Lines : k # l => orders'[n].lines[k] = orders[n].lines[k]
          /\ \A o \in OrderNos : o # n => orders'[o] = orders[o]
      BY <1>1, <2>1, <2>3, <2>5 DEF WithLine, Order
    <3>2. NoLineTwice'
      BY <3>1 DEF NoLineTwice, TwiceInv
    <3> QED
      BY <2>1, <2>2, <2>3, <3>1, <3>2
  <2> QED
    BY <2>2, <2>4, <2>5
<1> QED
  BY <1>2, <1>3, <1>4, <1>5, <1>6, Elsewhere DEF AtOutcome

LEMMA TwiceStep ==
  ASSUME AppliedOnce, TypeInv, TwiceInv, [Next]_vars
  PROVE  TwiceInv'
<1>1. orders \in [OrderNos -> Order] /\ work \in [Workers -> Work]
  BY DEF TypeInv, TypeOK
<1>2. Serial'
  BY SerialStep DEF TwiceInv, AppliedOnce
<1>3. ASSUME NEW w \in Workers, Step(w) \/ Crash(w) PROVE TwiceInv'
  <2>1. PICK k : Goes(w, k)
    BY <1>3, StepMoves
  <2>2. \A v \in Workers : v # w => work'[v].pc = "idle"
    BY <1>1, <1>3, <2>1, StepMoves DEF Goes, TwiceInv, Serial
  <2> QED
    BY <1>2, <1>3, <2>2, TwiceActor DEF TwiceInv
<1>4. ASSUME NEW w \in Workers, NEW m \in Messages, Deliver(w, m) PROVE TwiceInv'
  <2>1. \A v \in Workers : work'[v].pc # "lines"
    BY <1>1, <1>4 DEF Deliver, Goes, Idle, AppliedOnce
  <2> QED
    BY <1>2, <1>4, <2>1 DEF Deliver, TwiceInv, NoLineTwice
<1>5. ASSUME NEW n \in OrderNos, ChangeStatus(n) PROVE TwiceInv'
  <2>1. UNCHANGED work
        /\ \A o \in OrderNos : orders'[o].po = orders[o].po /\ orders'[o].lines = orders[o].lines
    BY <1>1, <1>5 DEF ChangeStatus, Order
  <2> QED
    BY <1>1, <1>2, <2>1, WorkFields DEF TwiceInv, NoLineTwice, Ready
<1>6. ASSUME NEW p \in POs, EnterByHand(p) PROVE TwiceInv'
  <2>1. PICK n \in Unused, ls \in SUBSET LinesOf(p) :
          orders' = [orders EXCEPT ![n] =
            [po |-> p, lines |-> [l \in Lines |-> IF l \in ls THEN 1 ELSE 0], open |-> TRUE]]
    BY <1>6 DEF EnterByHand
  <2>2. NoLineTwice'
    BY <1>1, <2>1 DEF NoLineTwice, TwiceInv, Unused
  <2>3. \A w \in Workers : work[w].pc = "lines" => orders'[work[w].order] = orders[work[w].order]
    BY <1>1, <2>1, WorkFields DEF Unused, TwiceInv, Ready
  <2> QED
    BY <1>2, <1>6, <2>2, <2>3 DEF EnterByHand, TwiceInv
<1>7. CASE UNCHANGED work /\ UNCHANGED orders
  BY <1>2, <1>7 DEF TwiceInv, NoLineTwice
<1> QED
  BY <1>3, <1>4, <1>5, <1>6, <1>7
  DEF Next, LeaseExpires, Retrigger, RecordHandoff, vars

\* No line is on an order twice, through every redelivery, buffered retry, crash
\* and lost reply, as long as callbacks do not overlap and BC applies a POST at
\* most once; items may be shared between lines, orders entered by hand, and
\* purchase orders may share a buffer document.
THEOREM EachLineOnce == ASSUME AppliedOnce PROVE Spec => []NoLineTwice
<1>1. Init => TypeInv /\ TwiceInv
  BY TypeInit DEF Init, TwiceInv, Serial, NoLineTwice, NoOrder, Idle
<1>2. TypeInv /\ TwiceInv /\ [Next]_vars => TypeInv' /\ TwiceInv'
  BY TypeStep, TwiceStep
<1>3. TwiceInv => NoLineTwice
  BY DEF TwiceInv
<1> QED
  BY <1>1, <1>2, <1>3, PTL DEF Spec
===============================================================================
