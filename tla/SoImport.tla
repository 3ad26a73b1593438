------------------------------- MODULE SoImport -------------------------------
(***************************************************************************)
(* The POUL sales-order import (src/workers/so_import_worker.py) together  *)
(* with its Firestore retry buffer (src/services/so_buffer.py).            *)
(*                                                                         *)
(* A Pub/Sub message carries a batch of purchase orders, or asks for the   *)
(* retry buffer to be processed again.  For every purchase order the       *)
(* worker finds or creates one Business Central sales order, posts the     *)
(* lines that are not on it yet, and keeps in the buffer what is still     *)
(* outstanding.  Every call that leaves the process is a step of its own,  *)
(* so that the process can die, a reply can be lost and people can work in *)
(* BC between any two of them.                                             *)
(*                                                                         *)
(* Faults names what the environment may do; a run or a theorem says which *)
(* of them it allows.  One BC company is modelled: _run_batch handles the  *)
(* companies of a reprocess message one after another and never mixes      *)
(* them.                                                                   *)
(***************************************************************************)
EXTENDS Naturals, FiniteSets

CONSTANTS
  Workers,   \* callbacks of the subscription, over all instances of the process
  Messages,  \* Pub/Sub messages
  POs,       \* purchase orders
  Lines,     \* purchase-order lines
  OrderNos,  \* the sales-order numbers BC may hand out (a bound for TLC)
  DocIds,    \* Firestore document ids of the buffer
  PoOf,      \* Lines -> POs, the order a line belongs to
  ItemOf,    \* Lines -> item numbers
  DocIdOf,   \* POs -> DocIds, the slug of poRefNumber
  LongRefs,  \* the POs whose poRefNumber is longer than 35 characters
  Batch,     \* Messages -> SUBSET Lines; {} is a reprocess-buffer message
  RunIds,    \* the reprocess messages that carry a run_id
  Bridged,   \* the POs the BigQuery bridge keeps a handoff record of
  Faults,    \* what the environment may do, a subset of FaultKinds
  None       \* the absent value

(* crash      a worker dies, or an exception escapes it, between two steps  *)
(* overlap    two callbacks run at once: a second instance, or an ack lease *)
(*            that ran out while its callback was still running             *)
(* lookup     the existing-order lookup fails and reads as "none"           *)
(* lost       BC applies a POST and the caller sees an exception or an      *)
(*            error status                                                  *)
(* resend     BC applies a POST, answers 502/503, and it is sent again      *)
(* firestore  a read or write of the buffer, the history or the handoff     *)
(*            record fails (and is swallowed)                               *)
(* rundoc     a write of the run document fails (and is swallowed)          *)
(* prefetch   the shared pre-fetch fails with an error that is not one of   *)
(*            _TRANSIENT_SIGNALS                                            *)
(* byHand     an order for the PO is entered in BC by other means           *)
(* status     somebody releases or reopens an order in BC                   *)
FaultKinds == {"crash", "overlap", "lookup", "lost", "resend", "firestore",
               "rundoc", "prefetch", "byHand", "status"}

ASSUME ConstantsAssumption ==
  /\ PoOf \in [Lines -> POs]
  /\ DocIdOf \in [POs -> DocIds]
  /\ Batch \in [Messages -> SUBSET Lines]
  /\ LongRefs \subseteq POs
  /\ RunIds \subseteq {m \in Messages : Batch[m] = {}}
  /\ Bridged \subseteq POs
  /\ Faults \subseteq FaultKinds
  /\ None \notin POs \cup OrderNos \cup DocIds \cup Messages

VARIABLES
  msgs,      \* Messages -> "pending", "leased" (delivered, not settled), "acked"
  work,      \* Workers -> the locals of the callback
  orders,    \* OrderNos -> the sales orders in BC
  buffer,    \* DocIds -> the documents of so_buffer
  blocked,   \* lines recorded in so_buffer_history as blocked_in_bc
  excluded,  \* lines some settled pass dropped because their SKU is inactive
  handoff,   \* POs -> bc_status of the latest handoff-history record
  run        \* Messages -> reprocess_status of the run a message belongs to

vars == <<msgs, work, orders, buffer, blocked, excluded, handoff, run>>

-----------------------------------------------------------------------------
(* The records of the state. *)

\* "clear" and "history" are stages of a sync only (SoWorker).
PCs == {"idle", "fetch", "next", "find", "resume", "create", "lines", "locked",
        "failed", "keep", "drop", "clear", "history", "report"}
BcStatus == {"created", "buffered", "error"}

Order == [po : POs \cup {None}, lines : [Lines -> Nat], open : BOOLEAN]
NoOrder == [po |-> None, lines |-> [l \in Lines |-> 0], open |-> TRUE]

Doc == [po : POs \cup {None}, lines : SUBSET Lines, so : OrderNos \cup {None}]
NoDoc == [po |-> None, lines |-> {}, so |-> None]

Entry == [po : POs \cup {None}, lines : SUBSET Lines,
          buf : DocIds \cup {None}, so : OrderNos \cup {None}]
NoEntry == [po |-> None, lines |-> {}, buf |-> None, so |-> None]

Work == [pc : PCs, msg : Messages \cup {None}, rest : SUBSET Entry,
         cur : Entry, order : OrderNos \cup {None}, todo : SUBSET Lines,
         left : SUBSET Lines, out : SUBSET Lines, status : BcStatus \cup {None}]
Idle == [pc |-> "idle", msg |-> None, rest |-> {}, cur |-> NoEntry,
         order |-> None, todo |-> {}, left |-> {}, out |-> {}, status |-> None]

-----------------------------------------------------------------------------
(* What BC and Firestore hold. *)

LinesOf(p) == {l \in Lines : PoOf[l] = p}
IsReprocess(m) == Batch[m] = {}

Unused == {n \in OrderNos : orders[n].po = None}
OrdersOf(p) == {n \in OrderNos : orders[n].po = p}

\* Variant: the filter is lost on the way (as for a reference with a "#") and
\* nothing, or any order at all, comes back.
MatchingNothing(p) == {}
MatchingAnything(p) == OrderNos \ Unused

\* The filter compares the full reference with externalDocumentNo, which holds
\* its first 35 characters.
Matching(p) == IF p \in LongRefs THEN {} ELSE OrdersOf(p)

\* Variant: a resumed order is taken to have no lines yet.
ItemsForgotten(n) == {}

ItemsOn(n) == {ItemOf[l] : l \in {k \in Lines : orders[n].lines[k] > 0}}

\* The orders of a batch message, as _run_batch lists them: no buffer document,
\* no known order number.
Fresh(m) ==
  {[po |-> p, lines |-> Batch[m] \cap LinesOf(p), buf |-> None, so |-> None] :
     p \in {PoOf[l] : l \in Batch[m]}}

\* get_buffered_orders.
Snapshot ==
  {[po |-> buffer[d].po, lines |-> buffer[d].lines, buf |-> d, so |-> buffer[d].so] :
     d \in {e \in DocIds : buffer[e].po # None}}

-----------------------------------------------------------------------------
Init ==
  /\ msgs = [m \in Messages |-> "pending"]
  /\ work = [w \in Workers |-> Idle]
  /\ orders = [n \in OrderNos |-> NoOrder]
  /\ buffer = [d \in DocIds |-> NoDoc]
  /\ blocked = {}
  /\ excluded = {}
  /\ handoff = [p \in POs |-> "none"]
  /\ run = [m \in Messages |-> "none"]

-----------------------------------------------------------------------------
(* Delivery and settlement of messages. *)

\* Callback w goes on with the locals r.
Goes(w, r) == work' = [work EXCEPT ![w] = r]

Leave(w, m, s) ==
  /\ msgs' = [msgs EXCEPT ![m] = s]
  /\ Goes(w, Idle)

\* start_run and finish_run; a failing write leaves the document as it was.
SetRun(m, s) ==
  IF m \in RunIds
    THEN \/ run' = [run EXCEPT ![m] = s]
         \/ "rundoc" \in Faults /\ run' = run
    ELSE run' = run

\* Pub/Sub hands m to the callback.  FlowControl(max_messages=1) keeps the
\* callbacks of one process apart; nothing keeps two processes apart.
Deliver(w, m) ==
  /\ msgs[m] = "pending"
  /\ work[w].pc = "idle"
  /\ "overlap" \in Faults \/ \A v \in Workers : work[v].pc = "idle"
  /\ msgs' = [msgs EXCEPT ![m] = "leased"]
  /\ Goes(w, [Idle EXCEPT !.pc = "fetch", !.msg = m])
  /\ SetRun(m, "processing")
  /\ UNCHANGED <<orders, buffer, blocked, excluded, handoff>>

\* The ack deadline passes while the callback is still running.
LeaseExpires(m) ==
  /\ "overlap" \in Faults
  /\ msgs[m] = "leased"
  /\ msgs' = [msgs EXCEPT ![m] = "pending"]
  /\ UNCHANGED <<work, orders, buffer, blocked, excluded, handoff, run>>

\* The process dies in the middle of a callback; the message comes back.
Crash(w) ==
  /\ "crash" \in Faults
  /\ work[w].pc # "idle"
  /\ Leave(w, work[w].msg, "pending")
  /\ UNCHANGED <<orders, buffer, blocked, excluded, handoff, run>>

\* A new reprocess request, under a run id of its own.
Retrigger(m) ==
  /\ IsReprocess(m)
  /\ msgs[m] = "acked"
  /\ msgs' = [msgs EXCEPT ![m] = "pending"]
  /\ run' = [run EXCEPT ![m] = "none"]
  /\ UNCHANGED <<work, orders, buffer, blocked, excluded, handoff>>

-----------------------------------------------------------------------------
(* _run_batch up to its loop: the pre-fetch and the merge with the buffer.  *)

\* Fresh orders first, then the buffer as it is now; nothing at all to do is
\* a batch with an empty loop.
Merge(w) ==
  /\ work[w].pc = "fetch"
  /\ \E snap \in {Snapshot} \cup (IF "firestore" \in Faults THEN {{}} ELSE {}) :
       Goes(w, [work[w] EXCEPT !.pc = "next",
                               !.rest = Fresh(work[w].msg) \cup snap])
  /\ UNCHANGED <<msgs, orders, buffer, blocked, excluded, handoff, run>>

\* A transient failure of the pre-fetch: nack, and a reprocess run stays
\* "processing".
PrefetchTransient(w) ==
  /\ work[w].pc = "fetch"
  /\ Leave(w, work[w].msg, "pending")
  /\ UNCHANGED <<orders, buffer, blocked, excluded, handoff, run>>

\* Any other failure of the pre-fetch: an alert is sent and the message is acked.
PrefetchPermanent(w) ==
  /\ "prefetch" \in Faults
  /\ work[w].pc = "fetch"
  /\ Leave(w, work[w].msg, "acked")
  /\ SetRun(work[w].msg, "done")
  /\ UNCHANGED <<orders, buffer, blocked, excluded, handoff>>

\* An exception outside the guarded parts of _run_batch (branch resolution
\* over MSSQL, map building, override fetches): the run is recorded as an
\* error and the message is nacked.
BatchEscapes(w) ==
  /\ work[w].pc = "fetch"
  /\ Leave(w, work[w].msg, "pending")
  /\ SetRun(work[w].msg, "error")
  /\ UNCHANGED <<orders, buffer, blocked, excluded, handoff>>

\* The loop takes the next order: fresh ones come before buffered ones.
TakeOrder(w) ==
  /\ work[w].pc = "next"
  /\ \E e \in work[w].rest :
       /\ e.buf = None \/ \A f \in work[w].rest : f.buf # None
       /\ Goes(w, [Idle EXCEPT !.pc = IF e.so = None THEN "find" ELSE "resume",
                               !.msg = work[w].msg, !.rest = work[w].rest \ {e},
                               !.cur = e, !.order = e.so])
  /\ UNCHANGED <<msgs, orders, buffer, blocked, excluded, handoff, run>>

\* Variant: a finished batch is nacked.
FinishNacked(w) ==
  /\ work[w].pc = "next"
  /\ work[w].rest = {}
  /\ Leave(w, work[w].msg, "pending")
  /\ SetRun(work[w].msg, "done")
  /\ UNCHANGED <<orders, buffer, blocked, excluded, handoff>>

\* The loop is over: the run is recorded as done and the message is acked.
FinishBatch(w) ==
  /\ work[w].pc = "next"
  /\ work[w].rest = {}
  /\ \/ Leave(w, work[w].msg, "acked")
     \* an ack whose lease ran out is ignored
     \/ "overlap" \in Faults /\ Leave(w, work[w].msg, msgs[work[w].msg])
     \* the process dies before Pub/Sub has the ack
     \/ "crash" \in Faults /\ Leave(w, work[w].msg, "pending")
  /\ SetRun(work[w].msg, "done")
  /\ UNCHANGED <<orders, buffer, blocked, excluded, handoff>>

-----------------------------------------------------------------------------
(* _create_order. *)

\* An exception: nothing the pass found out is kept.
Raise(w) ==
  Goes(w, [work[w] EXCEPT !.pc = "failed", !.order = None, !.todo = {},
                          !.left = {}, !.out = {}])

\* The check by externalDocumentNo before a header is created.
FindExisting(w) ==
  /\ work[w].pc = "find"
  /\ \/ \E n \in Matching(work[w].cur.po) :
          Goes(w, [work[w] EXCEPT !.pc = "resume", !.order = n])
     \/ /\ "lookup" \in Faults \/ Matching(work[w].cur.po) = {}
        /\ Goes(w, [work[w] EXCEPT !.pc = "create"])
  /\ UNCHANGED <<msgs, orders, buffer, blocked, excluded, handoff, run>>

\* _resolve_valid_lines, and the skip of every resolved line whose item is
\* among seen, the items already on the order.  Which lines match an item and
\* which are inactive is master data that people edit: every split is possible
\* on every pass.
EnterLines(w, n, seen) ==
  \E inactive \in SUBSET work[w].cur.lines, unresolved \in SUBSET work[w].cur.lines :
    /\ inactive \cap unresolved = {}
    /\ Goes(w, [work[w] EXCEPT !.pc = "lines", !.order = n,
                  !.todo = {l \in work[w].cur.lines \ (inactive \cup unresolved) :
                              ItemOf[l] \notin seen},
                  !.left = unresolved, !.out = inactive])

\* Resume a known order: look it up by number and list its lines.
Resume(w) ==
  /\ work[w].pc = "resume"
  /\ \/ /\ orders[work[w].order].po # None
        /\ EnterLines(w, work[w].order, ItemsOn(work[w].order))
     \* not found, or an exception from either read
     \/ Raise(w)
  /\ UNCHANGED <<msgs, orders, buffer, blocked, excluded, handoff, run>>

\* Orders after BC created one for purchase order p under each number of ns.
WithNew(ns, p) ==
  [n \in OrderNos |-> IF n \in ns THEN [NoOrder EXCEPT !.po = p] ELSE orders[n]]

\* Resolve the ship-to and POST the header.
CreateHeader(w) ==
  LET p == work[w].cur.po IN
  /\ work[w].pc = "create"
  /\ \/ \E n \in Unused :
          /\ orders' = WithNew({n}, p)
          /\ EnterLines(w, n, {})
     \/ /\ "resend" \in Faults
        /\ \E n, k \in Unused :
             /\ n # k
             /\ orders' = WithNew({n, k}, p)
             /\ EnterLines(w, n, {})
     \/ /\ "lost" \in Faults
        /\ \E n \in Unused : orders' = WithNew({n}, p)
        /\ Raise(w)
     \* no ship-to match, a rejected header, or a request that never arrived
     \/ /\ Raise(w)
        /\ UNCHANGED orders
  /\ UNCHANGED <<msgs, buffer, blocked, excluded, handoff, run>>

\* Orders after BC accepted line l on order n, k times.
WithLine(n, l, k) == [orders EXCEPT ![n].lines[l] = @ + k]

\* POST one line, with its retries on 409.  Order numbers that BC no longer
\* lets change reject every line with the lock reason.
PostLine(w, l) ==
  LET n == work[w].order IN
  /\ work[w].pc = "lines"
  /\ l \in work[w].todo
  /\ \/ /\ orders[n].open
        /\ \E k \in {1} \cup (IF "resend" \in Faults THEN {2} ELSE {}) :
             orders' = WithLine(n, l, k)
        /\ Goes(w, [work[w] EXCEPT !.todo = @ \ {l}])
     \/ /\ orders[n].open
        /\ "lost" \in Faults
        /\ orders' = WithLine(n, l, 1)
        /\ Raise(w)
     \/ /\ ~orders[n].open
        /\ Goes(w, [work[w] EXCEPT !.pc = "locked", !.todo = {},
                                   !.left = @ \cup work[w].todo])
        /\ UNCHANGED orders
     \* rejected for another reason, or applied behind a final error status
     \/ /\ Goes(w, [work[w] EXCEPT !.todo = @ \ {l}, !.left = @ \cup {l}])
        /\ \/ UNCHANGED orders
           \/ /\ orders[n].open
              /\ "lost" \in Faults
              /\ orders' = WithLine(n, l, 1)
     \* an exception, the request not applied
     \/ /\ Raise(w)
        /\ UNCHANGED orders
  /\ UNCHANGED <<msgs, buffer, blocked, excluded, handoff, run>>

-----------------------------------------------------------------------------
(* The outcome of one order: buffer first, handoff record second. *)

\* Variant: the document is emptied but its order number stays behind.
DeleteKeepingNumber(d) ==
  buffer' = IF d = None THEN buffer
            ELSE [buffer EXCEPT ![d].po = None, ![d].lines = {}]

\* delete_buffered_order, for an order that came out of the buffer.
Delete(d) ==
  \/ buffer' = IF d = None THEN buffer ELSE [buffer EXCEPT ![d] = NoDoc]
  \/ "firestore" \in Faults /\ UNCHANGED buffer

\* The outcome s of the order is known.  The callback goes on at pc, with e as
\* what is left of the entry.
Outcome(w, pc, e, s) ==
  Goes(w, [Idle EXCEPT !.pc = pc, !.msg = work[w].msg, !.rest = work[w].rest,
                       !.cur = e, !.status = s])

\* Variant: the outcome names of so_buffer_history instead of bc_status.
ReportHistoryName(w, s) ==
  Outcome(w, "report", [NoEntry EXCEPT !.po = work[w].cur.po],
          IF s = "created" THEN "resolved" ELSE s)

\* The order is settled; only its outcome is still to be reported.
Report(w, s) == Outcome(w, "report", [NoEntry EXCEPT !.po = work[w].cur.po], s)

\* save_failed_order reads the document first: an order number in it survives a
\* save that does not know one.
Keeps(w, lines, so, s) ==
  LET e == work[w].cur IN
  Outcome(w, "keep",
          [po |-> e.po, lines |-> lines, buf |-> None,
           so |-> IF so = None THEN buffer[DocIdOf[e.po]].so ELSE so], s)

\* ... and then overwrites it.  A failing read or write leaves it as it was.
Keep(w) ==
  LET e == work[w].cur IN
  /\ work[w].pc = "keep"
  /\ \/ buffer' = [buffer EXCEPT ![DocIdOf[e.po]] =
                     [po |-> e.po, lines |-> e.lines, so |-> e.so]]
     \/ "firestore" \in Faults /\ UNCHANGED buffer
  /\ Report(w, work[w].status)
  /\ UNCHANGED <<msgs, orders, blocked, excluded, handoff, run>>

\* Variant: an order whose header exists counts as done.
SettleHeaderOnly(w) ==
  /\ work[w].pc = "lines"
  /\ work[w].todo = {}
  /\ Delete(work[w].cur.buf)
  /\ Report(w, "created")
  /\ excluded' = excluded \cup work[w].out
  /\ UNCHANGED <<msgs, orders, blocked, handoff, run>>

\* Every line was tried: keep what remains, or clear the document.
SettleOrder(w) ==
  /\ work[w].pc = "lines"
  /\ work[w].todo = {}
  /\ \/ /\ work[w].left # {}
        /\ Keeps(w, work[w].left, work[w].order, "buffered")
        /\ UNCHANGED buffer
     \/ /\ work[w].left = {}
        /\ Delete(work[w].cur.buf)
        /\ Report(w, "created")
  /\ excluded' = excluded \cup work[w].out
  /\ UNCHANGED <<msgs, orders, blocked, handoff, run>>

\* _handle_order_locked: the order goes to the history ...
SettleLocked(w) ==
  LET e == work[w].cur IN
  /\ work[w].pc = "locked"
  /\ \/ blocked' = blocked \cup work[w].left
     \/ "firestore" \in Faults /\ UNCHANGED blocked
  /\ IF e.buf = None THEN Report(w, "error")
     ELSE Outcome(w, "drop", [NoEntry EXCEPT !.po = e.po, !.buf = e.buf], "error")
  /\ excluded' = excluded \cup work[w].out
  /\ UNCHANGED <<msgs, orders, buffer, handoff, run>>

\* ... and leaves the buffer.
Drop(w) ==
  /\ work[w].pc = "drop"
  /\ Delete(work[w].cur.buf)
  /\ Report(w, "error")
  /\ UNCHANGED <<msgs, orders, blocked, excluded, handoff, run>>

\* Variant: only the lines known to be unresolved are saved.
SettleFailedPartly(w) ==
  /\ work[w].pc = "failed"
  /\ Keeps(w, work[w].left, work[w].cur.so, "error")
  /\ UNCHANGED <<msgs, orders, buffer, blocked, excluded, handoff, run>>

\* The except branch: every line of the entry is saved, under the order number
\* the entry came with.
SettleFailed(w) ==
  /\ work[w].pc = "failed"
  /\ Keeps(w, work[w].cur.lines, work[w].cur.so, "error")
  /\ UNCHANGED <<msgs, orders, buffer, blocked, excluded, handoff, run>>

\* update_bc_status patches a record that is still pending.
ReportOrder(w) ==
  LET p == work[w].cur.po IN
  /\ work[w].pc = "report"
  /\ \/ handoff' = [handoff EXCEPT ![p] =
                      IF @ = "pending" THEN work[w].status ELSE @]
     \/ "firestore" \in Faults /\ UNCHANGED handoff
  /\ Goes(w, [Idle EXCEPT !.pc = "next", !.msg = work[w].msg, !.rest = work[w].rest])
  /\ UNCHANGED <<msgs, orders, buffer, blocked, excluded, run>>

-----------------------------------------------------------------------------
(* The surroundings. *)

\* The bridge records the handoff of p, after it published the batch.
RecordHandoff(p) ==
  /\ p \in Bridged
  /\ handoff[p] = "none"
  /\ handoff' = [handoff EXCEPT ![p] = "pending"]
  /\ UNCHANGED <<msgs, work, orders, buffer, blocked, excluded, run>>

\* Somebody releases or reopens an order in BC.
ChangeStatus(n) ==
  /\ "status" \in Faults
  /\ orders[n].po # None
  /\ orders' = [orders EXCEPT ![n].open = ~@]
  /\ UNCHANGED <<msgs, work, buffer, blocked, excluded, handoff, run>>

\* Somebody enters an order for p in BC, with some of its lines.
EnterByHand(p) ==
  /\ "byHand" \in Faults
  /\ OrdersOf(p) = {}
  /\ \E n \in Unused, ls \in SUBSET LinesOf(p) :
       orders' = [orders EXCEPT ![n] =
         [po |-> p, lines |-> [l \in Lines |-> IF l \in ls THEN 1 ELSE 0],
          open |-> TRUE]]
  /\ UNCHANGED <<msgs, work, buffer, blocked, excluded, handoff, run>>

-----------------------------------------------------------------------------
Step(w) ==
  \/ Merge(w) \/ PrefetchTransient(w) \/ PrefetchPermanent(w) \/ BatchEscapes(w)
  \/ TakeOrder(w) \/ FinishBatch(w)
  \/ FindExisting(w) \/ Resume(w) \/ CreateHeader(w)
  \/ \E l \in Lines : PostLine(w, l)
  \/ SettleOrder(w) \/ SettleLocked(w) \/ SettleFailed(w)
  \/ Keep(w) \/ Drop(w) \/ ReportOrder(w)

Next ==
  \/ \E w \in Workers : Step(w) \/ Crash(w) \/ \E m \in Messages : Deliver(w, m)
  \/ \E m \in Messages : LeaseExpires(m) \/ Retrigger(m)
  \/ \E p \in POs : RecordHandoff(p) \/ EnterByHand(p)
  \/ \E n \in OrderNos : ChangeStatus(n)

Spec == Init /\ [][Next]_vars

-----------------------------------------------------------------------------
(* Properties. *)

\* Every variable keeps its shape: what the worker, BC and Firestore hold are
\* orders, documents and entries over the modelled purchase orders.
TypeOK ==
  /\ msgs \in [Messages -> {"pending", "leased", "acked"}]
  /\ work \in [Workers -> Work]
  /\ orders \in [OrderNos -> Order]
  /\ buffer \in [DocIds -> Doc]
  /\ blocked \subseteq Lines
  /\ excluded \subseteq Lines
  /\ handoff \in [POs -> BcStatus \cup {"none", "pending", "not_attempted"}]
  /\ run \in [Messages -> {"none", "processing", "done", "error"}]

\* A purchase order never has two sales orders in BC, however often its message
\* is delivered and wherever a worker dies (the check before the header POST in
\* _create_order).
AtMostOneOrder ==
  \A a, b \in OrderNos :
    orders[a].po # None /\ orders[a].po = orders[b].po => a = b

\* A sales order only carries lines of its own purchase order: the order number
\* a buffered entry is resumed under always belongs to that entry.
OwnLinesOnly ==
  \A n \in OrderNos, l \in Lines :
    orders[n].lines[l] > 0 => orders[n].po = PoOf[l]

\* No line is put on an order twice, although every redelivery and every
\* buffered retry walks over lines that earlier passes already posted.
NoLineTwice == \A n \in OrderNos, l \in Lines : orders[n].lines[l] <= 1

OnOrder(l) == \E n \in OrderNos : orders[n].po = PoOf[l] /\ orders[n].lines[l] > 0
Buffered(l) ==
  LET d == buffer[DocIdOf[PoOf[l]]] IN d.po = PoOf[l] /\ l \in d.lines
Accounted(l) == OnOrder(l) \/ Buffered(l) \/ l \in blocked \/ l \in excluded

\* Once a batch is acked, each of its lines is on a sales order, in the retry
\* buffer, in the blocked-in-BC history, or was dropped as inactive: acking is
\* the last moment at which Pub/Sub still remembers the line.
NoLostLine ==
  \A m \in Messages : msgs[m] = "acked" => \A l \in Batch[m] : Accounted(l)

\* A handoff record says "created" only if every line of the purchase order is
\* on a sales order or was dropped as inactive (update_bc_status).
CreatedMeansComplete ==
  \A p \in POs : handoff[p] = "created" =>
    \A l \in LinesOf(p) : OnOrder(l) \/ l \in excluded

\* A line leaves the retry buffer only for a sales order, the blocked-in-BC
\* history or the inactive list, whatever a later pass overwrites or deletes.
BufferNeverForgets ==
  [][\A l \in Lines : Buffered(l) => Accounted(l)']_vars

\* The buffer document of a purchase order names an order of that purchase
\* order, so a retry resumes the header it created before.
BufferPointsHome ==
  \A d \in DocIds : buffer[d].so # None =>
    buffer[d].po # None /\ orders[buffer[d].so].po = buffer[d].po

\* Every batch is eventually acked: no outcome of an order makes the worker
\* nack the message for ever.
EveryBatchSettles ==
  \A m \in Messages : ~IsReprocess(m) => <>(msgs[m] = "acked")

=============================================================================
