---------------------------- MODULE SoWorkerProofs ----------------------------
(***************************************************************************)
(* What TLAPS proves about SoWorker for every value of its constants.      *)
(*                                                                         *)
(* A step of the whole subscription is a step of SoImport, a step in which *)
(* one request moves on in its loops and BC and the buffer stay as they    *)
(* are, or a step at the end of a row of a sync.  So what SoImportProofs   *)
(* shows of the steps of SoImport carries over once the other two kinds    *)
(* are shown to keep it.                                                   *)
(***************************************************************************)
EXTENDS SoWorker, SoImportProofs

\* What a request may put into its loop: rows, which name no lines and no order
\* number but perhaps their buffer document, and what is there already.
Rows == {e \in Entry : /\ e.po \in POs /\ e.lines = {} /\ e.so = None
                       /\ e.buf \in {None, DocIdOf[e.po]}}

\* The locals of a request between two orders, and at the start of one.
Between(w, k) ==
  \E es \in SUBSET (Rows \cup work[w].rest) :
    k = [Idle EXCEPT !.pc = "next", !.msg = work[w].msg, !.rest = es]

Entering(w, k) ==
  \E e \in work[w].rest : \E ls \in DetailsOf(e.po) :
    \/ k = [Idle EXCEPT !.pc = "find", !.msg = work[w].msg, !.rest = work[w].rest \ {e},
                        !.cur = [e EXCEPT !.lines = ls]]
    \/ \E n \in OrdersOf(e.po) :
         k = [Idle EXCEPT !.pc = "resume", !.msg = work[w].msg, !.rest = work[w].rest \ {e},
                          !.cur = [e EXCEPT !.lines = ls], !.order = n]

\* The step of a request that is no step of SoImport.
LoopStep(w) ==
  /\ Visiting(w)
  /\ work[w].pc \in {"fetch", "next", "failed", "report"}
  /\ UNCHANGED <<msgs, orders, buffer, blocked, excluded, run>>
  /\ handoff' \in [POs -> BcStatus \cup {"none", "pending", "not_attempted"}]
  /\ \A p \in POs : handoff'[p] \in {handoff[p], "pending", "not_attempted"}
  /\ UNCHANGED work \/ \E k : (Between(w, k) \/ Entering(w, k)) /\ Goes(w, k)

\* The end of a row of which a sync has found or posted every line.
SyncEnd(w) ==
  LET e == work[w].cur IN
  /\ work[w].pc \in {"lines", "clear", "history"}
  /\ UNCHANGED <<msgs, orders, blocked, handoff, run>>
  /\ excluded' = excluded \cup work[w].out \/ UNCHANGED excluded
  /\ Delete(e.buf) \/ UNCHANGED buffer
  /\ \/ Outcome(w, "clear", [NoEntry EXCEPT !.po = e.po, !.buf = e.buf], "created")
     \/ \E pc \in {"history", "report"} :
          Outcome(w, pc, [NoEntry EXCEPT !.po = e.po], "created")

LEMMA SyncEnds ==
  ASSUME NEW w \in Workers, Complete(w) \/ ClearSynced(w) \/ RecordResolved(w)
  PROVE  SyncEnd(w)
<1>1. CASE Complete(w)
  BY <1>1 DEF Complete, Report, SyncEnd
<1>2. CASE ClearSynced(w)
  BY <1>2 DEF ClearSynced, SyncEnd
<1>3. CASE RecordResolved(w)
  BY <1>3 DEF RecordResolved, Report, SyncEnd
<1> QED
  BY <1>1, <1>2, <1>3

LEMMA RowsAreRows ==
  ASSUME poul \subseteq POs, NEW ps
  PROVE  SyncRows(ps) \subseteq Rows /\ BackfillRows(ps) \subseteq Rows
<1> SUFFICES ASSUME NEW p \in POs
             PROVE  /\ [NoEntry EXCEPT !.po = p, !.buf = DocIdOf[p]] \in Rows
                    /\ [NoEntry EXCEPT !.po = p] \in Rows
  BY DEF SyncRows, BackfillRows
<1>1. DocIdOf[p] \in DocIds
  BY ConstantsAssumption
<1> QED
  BY <1>1 DEF Rows, Entry, NoEntry

LEMMA DetailsAreLines ==
  ASSUME NEW p, NEW ls \in DetailsOf(p)
  PROVE  ls \in SUBSET LinesOf(p)
  BY DEF DetailsOf

\* The two loops that only change the rest of a request.
LEMMA LoopsBetween ==
  ASSUME NEW w, NEW es \in SUBSET (Rows \cup work[w].rest), Loops(w, es)
  PROVE  \E k : Between(w, k) /\ Goes(w, k)
  BY DEF Loops, Between

LEMMA MatchingOrders ==
  ASSUME NEW p, NEW n \in Matching(p)
  PROVE  n \in OrderNos /\ n \in OrdersOf(p)
  BY DEF Matching, OrdersOf

-----------------------------------------------------------------------------
(* Every variable keeps its shape.                                          *)

VisitReady(v) == v.stage \in {"insert", "record"} => v.ref \in POs

SoTypeInv ==
  /\ TypeInv
  /\ SoTypeOK
  /\ \A w \in Workers : VisitReady(visit[w])

\* The visits a request can be at next, one at a time.
LEMMA VisitMoves ==
  ASSUME SoTypeInv, NEW w \in Workers, NEW v \in Visit, VisitReady(v),
         visit' = [visit EXCEPT ![w] = v]
  PROVE  visit' \in [Workers -> Visit] /\ \A u \in Workers : VisitReady(visit'[u])
  BY DEF SoTypeInv, SoTypeOK

LEMMA VisitFields ==
  ASSUME SoTypeInv, NEW w \in Workers
  PROVE  /\ visit[w] \in Visit
         /\ visit[w].todo \subseteq POs /\ visit[w].good \subseteq POs
         /\ visit[w].retry \subseteq POs /\ visit[w].ref \in POs \cup {None}
         /\ VisitReady(visit[w])
         /\ NoVisit \in Visit /\ VisitReady(NoVisit)
  BY DEF SoTypeInv, SoTypeOK, Visit, NoVisit, Stages, VisitReady

\* What a request may do to its visit.
LEMMA VisitForms ==
  ASSUME SoTypeInv, NEW w \in Workers, RequestStep(w) \/ RequestEscapes(w)
  PROVE  UNCHANGED visit \/ \E v \in Visit : VisitReady(v) /\ visit' = [visit EXCEPT ![w] = v]
<1> DEFINE P(v) == v \in Visit /\ VisitReady(v) /\ visit' = [visit EXCEPT ![w] = v]
<1> SUFFICES UNCHANGED visit \/ \E v : P(v)
  OBVIOUS
<1> USE VisitFields DEF Visit, Stages, VisitReady
<1>1. CASE BeginSync(w) \/ FollowUp(w)
  <2>1. visit' = [visit EXCEPT ![w] = [visit[w] EXCEPT !.stage = "sync"]]
    BY <1>1 DEF BeginSync, FollowUp
  <2>2. P([visit[w] EXCEPT !.stage = "sync"])
    BY <2>1
  <2> QED
    BY <2>2
<1>2. CASE TakeRow(w) \/ SyncRaised(w)
  <2>1. PICK r \in SUBSET POs : visit' = [visit EXCEPT ![w].retry = r] \/ UNCHANGED visit
    <3>1. CASE TakeRow(w)
      <4>1. PICK e \in work[w].rest : LookUp(w, e)
        BY <3>1 DEF TakeRow
      <4>2. e.po \in POs
        BY <4>1, WorkFields DEF SoTypeInv, Ready
      <4> QED
        BY <4>1, <4>2 DEF LookUp
    <3>2. CASE SyncRaised(w)
      <4>1. work[w].cur.po \in POs
        BY <3>2, WorkFields DEF SoTypeInv, SyncRaised, Ready, AtOrder
      <4> QED
        BY <3>2, <4>1 DEF SyncRaised
    <3> QED
      BY <1>2, <3>1, <3>2
  <2>2. UNCHANGED visit \/ P([visit[w] EXCEPT !.retry = r])
    BY <2>1
  <2> QED
    BY <2>2
<1>3. CASE RetryRows(w)
  <2>1. P([visit[w] EXCEPT !.stage = "again", !.retry = {}])
    BY <1>3 DEF RetryRows
  <2> QED
    BY <2>1
<1>4. CASE BeginBackfill(w)
  <2>1. P([visit[w] EXCEPT !.stage = "backfill", !.good = {}])
    BY <1>4 DEF BeginBackfill
  <2> QED
    BY <2>1
<1>5. CASE BeginRetrigger(w)
  <2>1. PICK ps \in SUBSET Refs[work[w].msg] :
          visit' = [visit EXCEPT ![w] = [NoVisit EXCEPT !.stage = "refs", !.todo = ps]]
    BY <1>5 DEF BeginRetrigger
  <2>2. ps \subseteq POs
    BY <1>5, RequestsAssumption DEF BeginRetrigger, Requests
  <2>3. P([NoVisit EXCEPT !.stage = "refs", !.todo = ps])
    BY <2>1, <2>2 DEF NoVisit
  <2> QED
    BY <2>3
<1>6. CASE CleanStaging(w)
  <2>1. PICK p \in visit[w].todo :
          \/ visit' = [visit EXCEPT ![w].stage = "insert", ![w].ref = p, ![w].todo = @ \ {p}]
          \/ visit' = [visit EXCEPT ![w].todo = @ \ {p}]
    BY <1>6 DEF CleanStaging
  <2>2. \/ P([visit[w] EXCEPT !.stage = "insert", !.ref = p, !.todo = @ \ {p}])
        \/ P([visit[w] EXCEPT !.todo = @ \ {p}])
    BY <2>1
  <2> QED
    BY <2>2
<1>7. CASE InsertRows(w)
  <2>1. visit[w].stage = "insert"
    BY <1>7 DEF InsertRows, At
  <2>2. visit[w].ref \in POs
    BY <2>1
  <2>3. CASE visit' = [visit EXCEPT ![w].stage = "record", ![w].good = @ \cup {visit[w].ref}]
    <3>1. P([visit[w] EXCEPT !.stage = "record", !.good = @ \cup {visit[w].ref}])
      BY <2>2, <2>3
    <3> QED
      BY <3>1
  <2>4. CASE visit' = [visit EXCEPT ![w].stage = "refs", ![w].ref = None]
    <3>1. P([visit[w] EXCEPT !.stage = "refs", !.ref = None])
      BY <2>4
    <3> QED
      BY <3>1
  <2>5. CASE visit' = [visit EXCEPT ![w].stage = "record"]
    <3>1. P([visit[w] EXCEPT !.stage = "record"])
      BY <2>2, <2>5
    <3> QED
      BY <3>1
  <2> QED
    BY <1>7, <2>3, <2>4, <2>5 DEF InsertRows
<1>8. CASE RecordRetrigger(w)
  <2>1. PICK un \in {{}, {visit[w].ref} \ poul} :
          visit' = [visit EXCEPT ![w].stage = "refs", ![w].ref = None, ![w].good = @ \ un]
    BY <1>8 DEF RecordRetrigger
  <2>2. P([visit[w] EXCEPT !.stage = "refs", !.ref = None, !.good = @ \ un])
    BY <2>1
  <2> QED
    BY <2>2
<1>9. CASE EndRequest(w) \/ RequestEscapes(w)
  <2>1. P(NoVisit)
    BY <1>9 DEF EndRequest, RequestEscapes
  <2> QED
    BY <2>1
<1>10. CASE \/ SettleSynced(w) \/ ClearSynced(w) \/ RecordResolved(w) \/ SettleVisited(w)
            \/ CheckRow(w) \/ SettleBackfilled(w) \/ NextRow(w) \/ OrderStep(w)
  BY <1>10
  DEF SettleSynced, ClearSynced, RecordResolved, SettleVisited, CheckRow, SettleBackfilled,
      NextRow, OrderStep, cloud
<1> QED
  BY <1>1, <1>2, <1>3, <1>4, <1>5, <1>6, <1>7, <1>8, <1>9, <1>10 DEF RequestStep

LEMMA VisitTypes ==
  ASSUME SoTypeInv, [SoNext]_soVars
  PROVE  visit' \in [Workers -> Visit] /\ \A u \in Workers : VisitReady(visit'[u])
<1>1. CASE UNCHANGED visit
  BY <1>1 DEF SoTypeInv, SoTypeOK
<1>2. CASE \E w \in Workers : RequestStep(w) \/ RequestEscapes(w)
  BY <1>1, <1>2, VisitForms, VisitMoves
<1> QED
  BY <1>1, <1>2 DEF SoNext, BatchStep, Around, cloud, soVars

\* The tables of Cloud SQL.
LEMMA TableTypes ==
  ASSUME SoTypeInv, [SoNext]_soVars
  PROVE  /\ poul' \subseteq POs /\ staged' \subseteq POs
         /\ settled' \subseteq POs /\ resolved' \subseteq POs
<1>0. poul \subseteq POs /\ staged \subseteq POs /\ settled \subseteq POs /\ resolved \subseteq POs
  BY DEF SoTypeInv, SoTypeOK
<1>1. CASE UNCHANGED <<poul, staged, settled, resolved>>
  BY <1>0, <1>1
<1>2. ASSUME NEW w \in Workers,
             SettleSynced(w) \/ SettleBackfilled(w) \/ SettleVisited(w) \/ RecordResolved(w)
      PROVE  settled' \subseteq POs /\ resolved' \subseteq POs /\ UNCHANGED <<poul, staged>>
  <2>1. work[w].pc \in AtOrder
    BY <1>2
    DEF SettleSynced, SettleBackfilled, SettleVisited, RecordResolved, SettleOrder, SettleLocked,
        SettleFailed, Complete, Keep, Drop, AtOrder
  <2>2. work[w].cur.po \in POs
    BY <2>1, WorkFields DEF SoTypeInv, Ready
  <2>3. settled' \subseteq settled \cup {work[w].cur.po} /\ UNCHANGED <<poul, staged>>
        /\ resolved' \subseteq resolved \cup {work[w].cur.po}
    BY <1>2 DEF SettleSynced, SettleBackfilled, SettleVisited, RecordResolved, DealtWith
  <2> QED
    BY <1>0, <2>2, <2>3
<1>3. ASSUME NEW w \in Workers, CleanStaging(w)
      PROVE  staged' \subseteq POs /\ UNCHANGED <<poul, settled, resolved>>
  BY <1>0, <1>3 DEF CleanStaging
<1>4. ASSUME NEW w \in Workers, InsertRows(w)
      PROVE  poul' \subseteq POs /\ staged' \subseteq POs /\ UNCHANGED <<settled, resolved>>
  <2>1. visit[w].ref \in POs
    BY <1>4, VisitFields DEF InsertRows, At, VisitReady
  <2> QED
    BY <1>0, <1>4, <2>1 DEF InsertRows
<1> QED
  BY <1>0, <1>1, <1>2, <1>3, <1>4, ZenonT(60)
  DEF SoNext, RequestStep, RequestEscapes, BatchStep, Around, cloud, soVars, BeginSync, TakeRow,
      ClearSynced, SyncRaised, RetryRows, BeginBackfill, CheckRow, NextRow, BeginRetrigger, RecordRetrigger,
      FollowUp, EndRequest, OrderStep

\* The steps of a request between its orders.
LEMMA LoopSteps ==
  ASSUME SoTypeInv, NEW w \in Workers,
         \/ BeginSync(w) \/ TakeRow(w) \/ SyncRaised(w) \/ RetryRows(w) \/ BeginBackfill(w)
         \/ CheckRow(w) \/ NextRow(w) \/ BeginRetrigger(w) \/ RecordRetrigger(w) \/ FollowUp(w)
  PROVE  LoopStep(w)
<1>0. /\ handoff \in [POs -> BcStatus \cup {"none", "pending", "not_attempted"}]
      /\ poul \subseteq POs
  BY DEF SoTypeInv, SoTypeOK, TypeOK
<1>f. Visiting(w) /\ (work[w].pc = "fetch" => work[w].msg \in Requests)
      => work[w].msg \in Requests
  BY DEF Visiting
<1>1. CASE BeginSync(w) \/ RetryRows(w) \/ BeginBackfill(w) \/ FollowUp(w)
  <2>1. /\ Visiting(w) /\ work[w].pc \in {"fetch", "next"}
        /\ UNCHANGED <<msgs, orders, buffer, blocked, excluded, handoff, run>>
    BY <1>1
    DEF BeginSync, RetryRows, BeginBackfill, FollowUp, At, Synced, Visiting, Requests
  <2>2. \E ps : Loops(w, SyncRows(ps)) \/ Loops(w, BackfillRows(ps)) \/ Loops(w, {})
    BY <1>1 DEF BeginSync, RetryRows, BeginBackfill, FollowUp
  <2>3. \E k : Between(w, k) /\ Goes(w, k)
    BY <1>0, <2>2, RowsAreRows, LoopsBetween
  <2> QED
    BY <1>0, <2>1, <2>3 DEF LoopStep
<1>2. CASE BeginRetrigger(w) \/ NextRow(w) \/ SyncRaised(w)
  <2>1. /\ Visiting(w) /\ work[w].pc \in {"fetch", "failed", "report"}
        /\ UNCHANGED <<msgs, orders, buffer, blocked, excluded, handoff, run>>
        /\ Loops(w, {}) \/ Loops(w, work[w].rest)
    BY <1>2 DEF BeginRetrigger, NextRow, SyncRaised, Syncing, Visiting, Requests
  <2>2. \E k : Between(w, k) /\ Goes(w, k)
    BY <2>1, LoopsBetween
  <2> QED
    BY <1>0, <2>1, <2>2 DEF LoopStep
<1>3. CASE TakeRow(w) \/ CheckRow(w)
  <2>1. /\ Visiting(w) /\ work[w].pc = "next"
        /\ UNCHANGED <<msgs, orders, buffer, blocked, excluded, handoff, run>>
    BY <1>3 DEF TakeRow, CheckRow, At
  <2>2. PICK e \in work[w].rest :
          \/ Loops(w, work[w].rest \ {e})
          \/ \E n \in Matching(e.po), ls \in DetailsOf(e.po) :
               Goes(w, [Idle EXCEPT !.pc = "resume", !.msg = work[w].msg,
                          !.rest = work[w].rest \ {e}, !.cur = [e EXCEPT !.lines = ls],
                          !.order = n])
          \/ \E ls \in DetailsOf(e.po) :
               Goes(w, [Idle EXCEPT !.pc = "find", !.msg = work[w].msg,
                          !.rest = work[w].rest \ {e}, !.cur = [e EXCEPT !.lines = ls]])
    BY <1>3 DEF TakeRow, LookUp, CheckRow
  <2>3. CASE Loops(w, work[w].rest \ {e})
    <3>1. \E k : Between(w, k) /\ Goes(w, k)
      BY <2>3, LoopsBetween
    <3> QED
      BY <1>0, <2>1, <3>1 DEF LoopStep
  <2>4. ASSUME NEW n \in Matching(e.po), NEW ls \in DetailsOf(e.po)
        PROVE  Entering(w, [Idle EXCEPT !.pc = "resume", !.msg = work[w].msg,
                              !.rest = work[w].rest \ {e}, !.cur = [e EXCEPT !.lines = ls],
                              !.order = n])
    <3>1. n \in OrdersOf(e.po)
      BY <2>4, MatchingOrders
    <3> QED
      BY <2>4, <3>1 DEF Entering
  <2>5. ASSUME NEW ls \in DetailsOf(e.po)
        PROVE  Entering(w, [Idle EXCEPT !.pc = "find", !.msg = work[w].msg,
                              !.rest = work[w].rest \ {e}, !.cur = [e EXCEPT !.lines = ls]])
    BY <2>5 DEF Entering
  <2>6. (\E k : Entering(w, k) /\ Goes(w, k)) \/ Loops(w, work[w].rest \ {e})
    BY <2>2, <2>4, <2>5
  <2> QED
    BY <1>0, <2>1, <2>3, <2>6 DEF LoopStep
<1>4. CASE RecordRetrigger(w)
  <2>1. /\ handoff' \in [POs -> BcStatus \cup {"none", "pending", "not_attempted"}]
        /\ \A p \in POs : handoff'[p] \in {handoff[p], "pending", "not_attempted"}
    BY <1>0, <1>4 DEF RecordRetrigger
  <2> QED
    BY <1>4, <2>1 DEF RecordRetrigger, LoopStep, At
<1> QED
  BY <1>1, <1>2, <1>3, <1>4

\* Every step is a step of SoImport, moves one request on in its loops or ends a
\* row of a sync.
LEMMA StepKinds ==
  ASSUME SoTypeInv, [SoNext]_soVars
  PROVE  [Next]_vars \/ \E w \in Workers : LoopStep(w) \/ SyncEnd(w)
<1>1. CASE UNCHANGED soVars
  BY <1>1 DEF soVars
<1>2. CASE Around
  BY <1>2 DEF Around, Next
<1>3. CASE \E w \in Workers : RequestEscapes(w) \/ BatchStep(w)
  BY <1>3 DEF RequestEscapes, BatchStep, Next, Step
<1>4. ASSUME NEW w \in Workers, RequestStep(w)
      PROVE  [Next]_vars \/ LoopStep(w) \/ SyncEnd(w)
  <2>1. CASE CleanStaging(w) \/ InsertRows(w)
    BY <2>1 DEF CleanStaging, InsertRows
  <2>2. CASE SettleSynced(w) \/ SettleBackfilled(w) \/ SettleVisited(w)
    BY <2>2, SyncEnds DEF SettleSynced, SettleBackfilled, SettleVisited, Next, Step
  <2>5. CASE ClearSynced(w) \/ RecordResolved(w)
    BY <2>5, SyncEnds
  <2>3. CASE EndRequest(w)
    BY <2>3 DEF EndRequest, Next, Step
  <2>4. CASE OrderStep(w)
    BY <2>4 DEF OrderStep, Next, Step
  <2> QED
    BY <1>4, <2>1, <2>2, <2>3, <2>4, <2>5, LoopSteps DEF RequestStep
<1> QED
  BY <1>1, <1>2, <1>3, <1>4 DEF SoNext

\* A request with entries es to come begins with entry x, whose order it has
\* found or is to look up.
Begins(k, m, es, x) ==
  \/ k = [Idle EXCEPT !.pc = "find", !.msg = m, !.rest = es, !.cur = x]
  \/ \E n \in OrderNos :
       k = [Idle EXCEPT !.pc = "resume", !.msg = m, !.rest = es, !.cur = x, !.order = n]

LEMMA BeginsType ==
  ASSUME NEW m \in Messages, NEW es \in SUBSET Entry, NEW x \in Entry, NEW k,
         Begins(k, m, es, x), x.po \in POs, \A f \in es : f.po \in POs
  PROVE  k \in Callback /\ k.pc \in {"find", "resume"}
<1>1. Idle \in Work
  BY EmptyRecords
<1>2. CASE k = [Idle EXCEPT !.pc = "find", !.msg = m, !.rest = es, !.cur = x]
  <2>1. /\ k \in Work /\ k.pc = "find"
        /\ k.msg = m /\ k.rest = es /\ k.cur = x
    BY <1>1, <1>2 DEF Work, PCs
  <2> QED
    BY <2>1 DEF Callback, Ready, AtOutcome
<1>3. CASE \E n \in OrderNos :
             k = [Idle EXCEPT !.pc = "resume", !.msg = m, !.rest = es, !.cur = x, !.order = n]
  <2>1. PICK n \in OrderNos :
          k = [Idle EXCEPT !.pc = "resume", !.msg = m, !.rest = es, !.cur = x, !.order = n]
    BY <1>3
  <2>2. /\ k \in Work /\ k.pc = "resume"
        /\ k.msg = m /\ k.rest = es /\ k.cur = x /\ k.order = n
    BY <1>1, <2>1 DEF Work, PCs
  <2> QED
    BY <2>2 DEF Callback, Ready, AtOutcome
<1> QED
  BY <1>2, <1>3 DEF Begins

\* The locals a request moves on to are those of a callback.
LEMMA LoopLocals ==
  ASSUME TypeInv, NEW w \in Workers, Visiting(w), NEW k, Between(w, k) \/ Entering(w, k)
  PROVE  k \in Callback /\ k.pc \in {"next", "find", "resume"}
<1>1. work[w].msg \in Messages
  BY RequestsAssumption DEF Visiting
<1>2. /\ work[w].rest \subseteq Entry
      /\ \A e \in work[w].rest : e.po \in POs
  BY WorkFields DEF Ready
<1>3. CASE Between(w, k)
  <2>1. PICK es \in SUBSET (Rows \cup work[w].rest) :
          k = [Idle EXCEPT !.pc = "next", !.msg = work[w].msg, !.rest = es]
    BY <1>3 DEF Between
  <2>2. es \subseteq Entry /\ \A e \in es : e.po \in POs
    BY <1>2, <2>1 DEF Rows
  <2>3. k \in Work
    BY <1>1, <2>1, <2>2, EmptyRecords DEF Idle, Work, PCs
  <2> QED
    BY <1>1, <2>1, <2>2, <2>3 DEF Idle, Callback, Ready, AtOrder, AtOutcome
<1>4. CASE Entering(w, k)
  <2>1. PICK e \in work[w].rest : \E ls \in DetailsOf(e.po) :
          \/ k = [Idle EXCEPT !.pc = "find", !.msg = work[w].msg,
                    !.rest = work[w].rest \ {e}, !.cur = [e EXCEPT !.lines = ls]]
          \/ \E n \in OrdersOf(e.po) :
               k = [Idle EXCEPT !.pc = "resume", !.msg = work[w].msg,
                      !.rest = work[w].rest \ {e}, !.cur = [e EXCEPT !.lines = ls],
                      !.order = n]
    BY <1>4 DEF Entering
  <2>2. PICK ls \in SUBSET LinesOf(e.po) :
          Begins(k, work[w].msg, work[w].rest \ {e}, [e EXCEPT !.lines = ls])
    BY <2>1, DetailsAreLines DEF OrdersOf, Begins
  <2> DEFINE x == [e EXCEPT !.lines = ls]
             es == work[w].rest \ {e}
  <2>3. x \in Entry /\ x.po \in POs
    BY <1>2, <2>1 DEF Entry, LinesOf
  <2>4. es \in SUBSET Entry /\ \A f \in es : f.po \in POs
    BY <1>2
  <2>5. Begins(k, work[w].msg, es, x)
    BY <2>2
  <2> HIDE DEF x, es
  <2> QED
    BY <1>1, <2>3, <2>4, <2>5, BeginsType, SMTT(30)
<1> QED
  BY <1>3, <1>4

LEMMA LoopType ==
  ASSUME TypeInv, NEW w \in Workers, LoopStep(w)
  PROVE  TypeInv'
<1>1. CASE UNCHANGED work
  BY <1>1 DEF LoopStep, TypeInv, TypeOK
<1>2. ASSUME NEW k, Between(w, k) \/ Entering(w, k), Goes(w, k) PROVE TypeInv'
  <2>1. work' \in [Workers -> Work] /\ work' \in [Workers -> Callback]
    BY <1>2, LoopLocals, GoesType DEF LoopStep
  <2> QED
    BY <2>1 DEF LoopStep, TypeInv, TypeOK
<1> QED
  BY <1>1, <1>2 DEF LoopStep

LEMMA EndType ==
  ASSUME TypeInv, NEW w \in Workers, SyncEnd(w)
  PROVE  TypeInv'
<1> DEFINE p == work[w].cur.po
           e1 == [NoEntry EXCEPT !.po = p, !.buf = work[w].cur.buf]
           e2 == [NoEntry EXCEPT !.po = p]
<1>1. work[w].pc \in AtOrder /\ p \in POs /\ work[w].cur.buf \in DocIds \cup {None}
  BY WorkFields DEF SyncEnd, AtOrder, Ready
<1>2. e1 \in Entry /\ e1.po \in POs /\ e2 \in Entry /\ e2.po \in POs
  BY <1>1, LeftOfEntry
<1>3. \E pc \in AtOutcome : Outcome(w, pc, e1, "created") \/ Outcome(w, pc, e2, "created")
  BY DEF SyncEnd, AtOutcome
<1> HIDE DEF e1, e2
<1>4. work' \in [Workers -> Work] /\ work' \in [Workers -> Callback]
  BY <1>1, <1>2, <1>3, OutcomeType DEF BcStatus
<1>5. buffer' \in [DocIds -> Doc] /\ excluded' \subseteq Lines
  BY DeleteType, WorkFields DEF SyncEnd, TypeInv, TypeOK
<1> QED
  BY <1>4, <1>5 DEF SyncEnd, TypeInv, TypeOK

LEMMA SoTypeInit == SoInit => SoTypeInv
  BY TypeInit, RequestsAssumption
  DEF SoInit, SoTypeInv, SoTypeOK, TypeInv, Visit, NoVisit, Stages, VisitReady

LEMMA SoTypeStep == SoTypeInv /\ [SoNext]_soVars => SoTypeInv'
<1> SUFFICES ASSUME SoTypeInv, [SoNext]_soVars PROVE SoTypeInv'
  OBVIOUS
<1>1. TypeInv'
  BY StepKinds, TypeStep, LoopType, EndType DEF SoTypeInv
<1> QED
  BY <1>1, VisitTypes, TableTypes DEF SoTypeInv, SoTypeOK, TypeInv

\* In every behaviour of the subscription, under every fault and lapse, every
\* variable keeps its shape.
THEOREM SoTypeCorrect == SoSpec => []SoTypeOK
<1>1. SoTypeInv => SoTypeOK
  BY DEF SoTypeInv
<1> QED
  BY <1>1, SoTypeInit, SoTypeStep, PTL DEF SoSpec

-----------------------------------------------------------------------------
(* Orders and documents stay with their purchase orders.                    *)

LEMMA LoopHome ==
  ASSUME TypeInv, HomeInv, NEW w \in Workers, LoopStep(w)
  PROVE  HomeInv'
<1>1. Kept /\ \A d \in DocIds : DocHome(orders, d)'
  BY DeleteHome DEF LoopStep, Kept
<1>2. CASE UNCHANGED work
  <2>1. \A v \in Workers : WorkHome(orders', work'[v])
    BY <1>1, <1>2, WorkStaysHome, WorkFields DEF HomeInv
  <2> QED
    BY <1>1, <2>1, HomeQuiet DEF LoopStep
<1>3. ASSUME NEW k, Between(w, k) \/ Entering(w, k), Goes(w, k) PROVE HomeInv'
  <2>0. \A e \in work[w].rest : e \in Entry /\ e.po \in POs /\ EntryHome(orders, e)
    BY WorkFields DEF HomeInv, WorkHome, Ready
  <2>1. WorkHome(orders, k)
    <3>1. CASE Between(w, k)
      <4>1. \A e \in Rows : EntryHome(orders, e)
        BY DEF Rows, EntryHome
      <4>2. PICK es \in SUBSET (Rows \cup work[w].rest) :
              k = [Idle EXCEPT !.pc = "next", !.msg = work[w].msg, !.rest = es]
        BY <3>1 DEF Between
      <4> QED
        BY <2>0, <4>1, <4>2 DEF WorkHome, EntryHome, Idle, NoEntry
    <3>2. CASE Entering(w, k)
      <4>1. PICK e \in work[w].rest : \E ls \in DetailsOf(e.po) :
              /\ k.cur = [e EXCEPT !.lines = ls] /\ k.rest \subseteq work[w].rest
              /\ k.todo = {} /\ k.left = {}
              /\ k.order # None => k.order \in OrdersOf(e.po)
        BY <3>2, ZenonT(60) DEF Entering, Idle
      <4>2. PICK ls \in SUBSET LinesOf(e.po) : k.cur = [e EXCEPT !.lines = ls]
        BY <4>1, DetailsAreLines
      <4>3. k.cur.po = e.po /\ k.cur.lines = ls /\ k.cur.so = e.so
        BY <2>0, <4>2 DEF Entry
      <4>4. EntryHome(orders, k.cur)
        BY <2>0, <4>3 DEF EntryHome
      <4> QED
        BY <2>0, <4>1, <4>3, <4>4 DEF WorkHome, OrdersOf
    <3> QED
      BY <1>3, <3>1, <3>2
  <2>2. WorkHome(orders', k)
    BY <2>1 DEF LoopStep
  <2>3. \A v \in Workers : WorkHome(orders', work'[v])
    BY <1>1, <1>3, <2>2, GoesHome
  <2> QED
    BY <1>1, <2>3, HomeQuiet DEF LoopStep
<1> QED
  BY <1>2, <1>3 DEF LoopStep

LEMMA EndHome ==
  ASSUME TypeInv, HomeInv, NEW w \in Workers, SyncEnd(w)
  PROVE  HomeInv'
<1> DEFINE p == work[w].cur.po
           e1 == [NoEntry EXCEPT !.po = p, !.buf = work[w].cur.buf]
           e2 == [NoEntry EXCEPT !.po = p]
<1>1. Kept /\ UNCHANGED orders
  BY DEF SyncEnd, Kept
<1>2. EntryHome(orders', e1) /\ EntryHome(orders', e2)
  BY LeftIsHome
<1>3. \E pc : Outcome(w, pc, e1, "created") \/ Outcome(w, pc, e2, "created")
  BY DEF SyncEnd
<1> HIDE DEF e1, e2
<1>4. \A v \in Workers : WorkHome(orders', work'[v])
  BY <1>1, <1>2, <1>3, OutcomeHome
<1>5. \A d \in DocIds : DocHome(orders, d)'
  BY <1>1, DeleteHome DEF SyncEnd
<1> QED
  BY <1>1, <1>4, <1>5, HomeQuiet

SoHomeInv == SoTypeInv /\ HomeInv

LEMMA SoHomeStep ==
  ASSUME DistinctDocs, SoHomeInv, [SoNext]_soVars
  PROVE  SoHomeInv'
<1>1. SoTypeInv'
  BY SoTypeStep DEF SoHomeInv
<1>2. HomeInv'
  BY StepKinds, HomeStep, LoopHome, EndHome DEF SoHomeInv, SoTypeInv
<1> QED
  BY <1>1, <1>2 DEF SoHomeInv

\* Batches, syncs, backfills and retriggers together, whatever the environment
\* does, only put lines on sales orders of their own purchase order.
THEOREM SoOrdersCarryOwnLines == ASSUME DistinctDocs PROVE SoSpec => []OwnLinesOnly
<1>1. SoInit => SoHomeInv
  BY SoTypeInit, HomeInit DEF SoInit, SoHomeInv
<1>2. SoHomeInv /\ [SoNext]_soVars => SoHomeInv'
  BY SoHomeStep
<1>3. SoHomeInv => OwnLinesOnly
  BY DEF SoHomeInv, HomeInv
<1> QED
  BY <1>1, <1>2, <1>3, PTL DEF SoSpec

\* A buffer document names an order of its own purchase order whichever request
\* wrote it: the sync and the backfill save under the number they found.
THEOREM SoDocumentsPointHome == ASSUME DistinctDocs PROVE SoSpec => []BufferPointsHome
<1>1. SoInit => SoHomeInv
  BY SoTypeInit, HomeInit DEF SoInit, SoHomeInv
<1>2. SoHomeInv /\ [SoNext]_soVars => SoHomeInv'
  BY SoHomeStep
<1>3. SoHomeInv => BufferPointsHome
  BY ConstantsAssumption DEF SoHomeInv, HomeInv, DocHome, BufferPointsHome
<1> QED
  BY <1>1, <1>2, <1>3, PTL DEF SoSpec

-----------------------------------------------------------------------------
(* Nothing twice, with requests among the batches.                          *)

\* A loop step begins no header and no line, and moves no other callback.
LEMMA LoopMoves ==
  ASSUME TypeInv, NEW w \in Workers, LoopStep(w)
  PROVE  /\ work[w].pc # "idle"
         /\ \A v \in Workers : v # w => work'[v] = work[v]
         /\ work'[w] = work[w] \/ work'[w].pc \in {"next", "find", "resume"}
<1>1. ASSUME NEW k, Between(w, k) \/ Entering(w, k), Goes(w, k)
      PROVE  /\ \A v \in Workers : v # w => work'[v] = work[v]
             /\ work'[w].pc \in {"next", "find", "resume"}
  BY <1>1, LoopLocals DEF LoopStep, Goes, TypeInv, TypeOK
<1> QED
  BY <1>1 DEF LoopStep

LEMMA EndMoves ==
  ASSUME TypeInv, NEW w \in Workers, SyncEnd(w)
  PROVE  /\ work[w].pc # "idle"
         /\ \A v \in Workers : v # w => work'[v] = work[v]
         /\ work'[w].pc \in AtOutcome /\ work'[w].msg = work[w].msg
<1>1. PICK pc, e : pc \in AtOutcome /\ Outcome(w, pc, e, "created")
  BY DEF SyncEnd, AtOutcome
<1>2. work'[w].pc = pc /\ work'[w].msg = work[w].msg
      /\ \A v \in Workers : v # w => work'[v] = work[v]
  BY <1>1 DEF Outcome, Goes, Idle, TypeInv, TypeOK
<1> QED
  BY <1>1, <1>2 DEF SyncEnd

\* So the two kinds of steps that SoImport does not have keep out of each
\* other's way, and of BC's.
LEMMA AsideMoves ==
  ASSUME TypeInv, NEW w \in Workers, LoopStep(w) \/ SyncEnd(w)
  PROVE  /\ UNCHANGED orders
         /\ \A v \in Workers : work'[v].pc \in {"create", "lines"} => work'[v] = work[v]
         /\ Serial => Serial'
<1>1. UNCHANGED orders
  BY DEF LoopStep, SyncEnd
<1>2. /\ work[w].pc # "idle"
      /\ \A v \in Workers : v # w => work'[v] = work[v]
      /\ work'[w] = work[w] \/ work'[w].pc \notin {"create", "lines"}
  BY LoopMoves, EndMoves DEF AtOutcome
<1> QED
  BY <1>1, <1>2 DEF Serial

LEMMA SoOneStep ==
  ASSUME ReliableCheck, SoTypeInv, OneInv, [SoNext]_soVars
  PROVE  OneInv'
<1>1. ASSUME NEW w \in Workers, LoopStep(w) \/ SyncEnd(w) PROVE OneInv'
  <2>1. /\ UNCHANGED orders /\ Serial'
        /\ \A v \in Workers : work'[v].pc = "create" => work'[v] = work[v]
    BY <1>1, AsideMoves DEF SoTypeInv, OneInv
  <2> QED
    BY <2>1 DEF OneInv, AtMostOneOrder, OrdersOf
<1> QED
  BY <1>1, StepKinds, OneStep DEF SoTypeInv

\* A sync, a backfill or a retrigger among the batches never gives a purchase
\* order a second sales order, under the conditions of NoSecondOrder: each of
\* them checks for the order itself, and callbacks do not overlap.
THEOREM SoNoSecondOrder == ASSUME ReliableCheck PROVE SoSpec => []AtMostOneOrder
<1>1. SoInit => SoTypeInv /\ OneInv
  BY SoTypeInit, IdleCallback DEF SoInit, Init, OneInv, Serial, AtMostOneOrder, NoOrder, Idle
<1>2. SoTypeInv /\ OneInv /\ [SoNext]_soVars => SoTypeInv' /\ OneInv'
  BY SoTypeStep, SoOneStep
<1>3. OneInv => AtMostOneOrder
  BY DEF OneInv
<1> QED
  BY <1>1, <1>2, <1>3, PTL DEF SoSpec

LEMMA SoTwiceStep ==
  ASSUME AppliedOnce, SoTypeInv, TwiceInv, [SoNext]_soVars
  PROVE  TwiceInv'
<1>1. ASSUME NEW w \in Workers, LoopStep(w) \/ SyncEnd(w) PROVE TwiceInv'
  <2>1. /\ UNCHANGED orders /\ Serial'
        /\ \A v \in Workers : work'[v].pc = "lines" => work'[v] = work[v]
    BY <1>1, AsideMoves DEF SoTypeInv, TwiceInv
  <2> QED
    BY <2>1 DEF TwiceInv, NoLineTwice
<1> QED
  BY <1>1, StepKinds, TwiceStep DEF SoTypeInv

\* No line is on an order twice, although a sync posts again whatever it does
\* not find on the order and a backfill starts from the rows alone.
THEOREM SoEachLineOnce == ASSUME AppliedOnce PROVE SoSpec => []NoLineTwice
<1>1. SoInit => SoTypeInv /\ TwiceInv
  BY SoTypeInit DEF SoInit, Init, TwiceInv, Serial, NoLineTwice, NoOrder, Idle
<1>2. SoTypeInv /\ TwiceInv /\ [SoNext]_soVars => SoTypeInv' /\ TwiceInv'
  BY SoTypeStep, SoTwiceStep
<1>3. TwiceInv => NoLineTwice
  BY DEF TwiceInv
<1> QED
  BY <1>1, <1>2, <1>3, PTL DEF SoSpec

-----------------------------------------------------------------------------
(* Staging rows that are deleted are owed.  A retrigger owes every          *)
(* reference until it has inserted its rows again: those before it when it  *)
(* begins, those still to come and the one in hand while it goes through    *)
(* them, and all of them again once its message is to be delivered anew.    *)

Early == {"refs", "insert", "record"}

Ahead(v, p) ==
  /\ v.stage \in Early
  /\ p \in v.todo \/ (v.stage = "insert" /\ p = v.ref)

Owes(m, p) ==
  /\ p \in Refs[m]
  /\ msgs[m] # "acked"
  /\ \A w \in Workers : work[w].pc # "idle" /\ work[w].msg = m =>
       work[w].pc = "fetch" \/ (work[w].pc = "next" /\ Ahead(visit[w], p))

\* Only a retrigger is among references, and of its own ones.
OnRefs(k, v) ==
  v.stage \in Early => k.pc = "next" /\ k.msg \in Retriggers /\ v.todo \subseteq Refs[k.msg]

OwedInv ==
  /\ Serial
  /\ \A w \in Workers : work[w].pc # "idle" => msgs[work[w].msg] = "leased"
  /\ \A w \in Workers : OnRefs(work[w], visit[w])
  /\ \A p \in POs \ staged : \E m \in Retriggers : Owes(m, p)

\* Nothing fails between cleanup-staging and insert-from-bigquery but the
\* process itself, and BigQuery knows every reference of a file.
RowsComeBack == "overlap" \notin Faults /\ Lapses \cap {"staging", "bigquery"} = {}

\* A callback settles its message and is gone, or keeps it.
LEMMA StepKeepsMessage ==
  ASSUME TypeInv, NEW w \in Workers, Step(w) \/ Crash(w)
  PROVE  \/ \E s : Leave(w, work[w].msg, s)
         \/ UNCHANGED msgs /\ \E k : Goes(w, k) /\ k.msg = work[w].msg
<1>0. work[w] \in Work
  BY WorkFields
<1> DEFINE Holds == \E k : Goes(w, k) /\ k.msg = work[w].msg
<1>1. Raise(w) => Holds
  <2>1. [work[w] EXCEPT !.pc = "failed", !.order = None, !.todo = {}, !.left = {},
                        !.out = {}].msg = work[w].msg
    BY <1>0 DEF Work
  <2> QED
    BY <2>1 DEF Raise
<1>2. ASSUME NEW pc, NEW e, NEW s, Outcome(w, pc, e, s) PROVE Holds
  <2>1. [Idle EXCEPT !.pc = pc, !.msg = work[w].msg, !.rest = work[w].rest,
                     !.cur = e, !.status = s].msg = work[w].msg
    BY DEF Idle
  <2> QED
    BY <1>2, <2>1 DEF Outcome
<1>3. ASSUME NEW n, NEW seen, EnterLines(w, n, seen) PROVE Holds
  <2>1. PICK todo, left, out :
          Goes(w, [work[w] EXCEPT !.pc = "lines", !.order = n, !.todo = todo, !.left = left,
                                  !.out = out])
    BY <1>3 DEF EnterLines
  <2>2. [work[w] EXCEPT !.pc = "lines", !.order = n, !.todo = todo, !.left = left,
                        !.out = out].msg = work[w].msg
    BY <1>0 DEF Work
  <2> QED
    BY <2>1, <2>2
<1>4. CASE PrefetchTransient(w) \/ PrefetchPermanent(w) \/ BatchEscapes(w) \/ FinishBatch(w)
           \/ Crash(w)
  BY <1>4 DEF PrefetchTransient, PrefetchPermanent, BatchEscapes, FinishBatch, Crash
<1>5. CASE Merge(w)
  <2>1. UNCHANGED msgs /\ \E es : Goes(w, [work[w] EXCEPT !.pc = "next", !.rest = es])
    BY <1>5 DEF Merge
  <2>2. \A es : [work[w] EXCEPT !.pc = "next", !.rest = es].msg = work[w].msg
    BY <1>0 DEF Work
  <2> QED
    BY <2>1, <2>2
<1>6. CASE TakeOrder(w)
  <2>1. UNCHANGED msgs /\ \E pc, es, e, n :
          Goes(w, [Idle EXCEPT !.pc = pc, !.msg = work[w].msg, !.rest = es, !.cur = e,
                               !.order = n])
    BY <1>6 DEF TakeOrder
  <2>2. PICK pc, es, e, n :
          Goes(w, [Idle EXCEPT !.pc = pc, !.msg = work[w].msg, !.rest = es, !.cur = e,
                               !.order = n])
    BY <2>1
  <2>3. [Idle EXCEPT !.pc = pc, !.msg = work[w].msg, !.rest = es, !.cur = e,
                     !.order = n].msg = work[w].msg
    BY DEF Idle
  <2> QED
    BY <2>1, <2>2, <2>3
<1>7. CASE FindExisting(w)
  <2>1. UNCHANGED msgs /\ \/ \E n : Goes(w, [work[w] EXCEPT !.pc = "resume", !.order = n])
                          \/ Goes(w, [work[w] EXCEPT !.pc = "create"])
    BY <1>7 DEF FindExisting
  <2>2. /\ \A n : [work[w] EXCEPT !.pc = "resume", !.order = n].msg = work[w].msg
        /\ [work[w] EXCEPT !.pc = "create"].msg = work[w].msg
    BY <1>0 DEF Work
  <2> QED
    BY <2>1, <2>2
<1>8. CASE Resume(w) \/ CreateHeader(w)
  <2>1. UNCHANGED msgs /\ (Raise(w) \/ \E n, seen : EnterLines(w, n, seen))
    BY <1>8 DEF Resume, CreateHeader
  <2> QED
    BY <1>1, <1>3, <2>1
<1>9. ASSUME NEW l \in Lines, PostLine(w, l)
      PROVE  UNCHANGED msgs /\ Holds
  <2>1. /\ UNCHANGED msgs
        /\ \/ Raise(w)
           \/ \E todo : Goes(w, [work[w] EXCEPT !.todo = todo])
           \/ \E pc, todo, left : Goes(w, [work[w] EXCEPT !.pc = pc, !.todo = todo, !.left = left])
           \/ \E todo, left : Goes(w, [work[w] EXCEPT !.todo = todo, !.left = left])
    BY <1>9 DEF PostLine
  <2>2. ASSUME NEW todo, Goes(w, [work[w] EXCEPT !.todo = todo]) PROVE Holds
    <3>1. [work[w] EXCEPT !.todo = todo].msg = work[w].msg
      BY <1>0 DEF Work
    <3> QED
      BY <2>2, <3>1
  <2>3. ASSUME NEW pc, NEW todo, NEW left,
               \/ Goes(w, [work[w] EXCEPT !.pc = pc, !.todo = todo, !.left = left])
               \/ Goes(w, [work[w] EXCEPT !.todo = todo, !.left = left])
        PROVE  Holds
    <3>1. /\ [work[w] EXCEPT !.pc = pc, !.todo = todo, !.left = left].msg = work[w].msg
          /\ [work[w] EXCEPT !.todo = todo, !.left = left].msg = work[w].msg
      BY <1>0 DEF Work
    <3> QED
      BY <2>3, <3>1
  <2> HIDE DEF Holds
  <2> QED
    BY <1>1, <2>1, <2>2, <2>3
<1>10. CASE SettleOrder(w) \/ SettleLocked(w) \/ SettleFailed(w) \/ Keep(w) \/ Drop(w)
  <2>1. UNCHANGED msgs /\ \E pc, e, s : Outcome(w, pc, e, s)
    BY <1>10 DEF SettleOrder, SettleLocked, SettleFailed, Keep, Drop, Keeps, Report
  <2> QED
    BY <1>2, <2>1
<1>11. CASE ReportOrder(w)
  <2>1. /\ UNCHANGED msgs
        /\ Goes(w, [Idle EXCEPT !.pc = "next", !.msg = work[w].msg, !.rest = work[w].rest])
    BY <1>11 DEF ReportOrder
  <2>2. [Idle EXCEPT !.pc = "next", !.msg = work[w].msg, !.rest = work[w].rest].msg = work[w].msg
    BY DEF Idle
  <2> QED
    BY <2>1, <2>2
<1> QED
  BY <1>4, <1>5, <1>6, <1>7, <1>8, <1>9, <1>10, <1>11 DEF Step

\* What a step of one callback leaves of the messages, the others and its own.
Alone(w) ==
  /\ work[w].pc # "idle"
  /\ \A v \in Workers : v # w => work'[v] = work[v] /\ visit'[v] = visit[v]
  /\ \A m \in Messages : m # work[w].msg => msgs'[m] = msgs[m]
  /\ \/ work'[w].pc = "idle"
     \/ work'[w].msg = work[w].msg /\ UNCHANGED msgs

LEMMA CallbackAlone ==
  ASSUME SoTypeInv, NEW w \in Workers, RequestStep(w) \/ RequestEscapes(w) \/ BatchStep(w)
  PROVE  Alone(w)
<1>0. /\ work \in [Workers -> Work] /\ visit \in [Workers -> Visit] /\ TypeInv
      /\ msgs \in [Messages -> {"pending", "leased", "acked"}]
  BY DEF SoTypeInv, SoTypeOK, TypeInv, TypeOK
<1>1. \A v \in Workers : v # w => visit'[v] = visit[v]
  <2>1. CASE BatchStep(w)
    BY <2>1 DEF BatchStep, cloud
  <2>2. CASE RequestStep(w) \/ RequestEscapes(w)
    BY <1>0, <2>2, VisitForms
  <2> QED
    BY <2>1, <2>2
<1>2. \/ Step(w) \/ Crash(w)
      \/ LoopStep(w) \/ SyncEnd(w)
      \/ Visiting(w) /\ work[w].pc = "next" /\ UNCHANGED <<msgs, work>>
  <2>1. CASE RequestEscapes(w) \/ BatchStep(w)
    BY <2>1 DEF RequestEscapes, BatchStep, Step
  <2>2. CASE RequestStep(w)
    <3>1. CASE CleanStaging(w) \/ InsertRows(w)
      BY <3>1 DEF CleanStaging, InsertRows, At, vars
    <3>2. CASE SettleSynced(w) \/ SettleBackfilled(w) \/ SettleVisited(w)
      BY <3>2, SyncEnds DEF SettleSynced, SettleBackfilled, SettleVisited, Step
    <3>3. CASE EndRequest(w) \/ OrderStep(w)
      BY <3>3 DEF EndRequest, OrderStep, Step
    <3>4. CASE ClearSynced(w) \/ RecordResolved(w)
      BY <3>4, SyncEnds
    <3> QED
      BY <2>2, <3>1, <3>2, <3>3, <3>4, LoopSteps DEF RequestStep
  <2> QED
    BY <2>1, <2>2
<1>3. CASE Step(w) \/ Crash(w)
  <2>1. work[w].pc # "idle"
    BY <1>0, <1>3, StepMoves
  <2>2. CASE \E s : Leave(w, work[w].msg, s)
    BY <1>0, <1>1, <2>1, <2>2 DEF Leave, Goes, Idle, Alone
  <2>3. CASE UNCHANGED msgs /\ \E k : Goes(w, k) /\ k.msg = work[w].msg
    BY <1>0, <1>1, <2>1, <2>3 DEF Goes, Alone
  <2> QED
    BY <1>0, <1>3, <2>2, <2>3, StepKeepsMessage
<1>4. CASE LoopStep(w)
  <2>1. UNCHANGED msgs /\ work[w].pc # "idle"
        /\ \A v \in Workers : v # w => work'[v] = work[v]
    BY <1>0, <1>4, LoopMoves DEF LoopStep
  <2>2. work'[w].msg = work[w].msg
    <3>1. ASSUME NEW k, Between(w, k) \/ Entering(w, k) PROVE k.msg = work[w].msg
      BY <3>1 DEF Between, Entering, Idle
    <3> QED
      BY <1>0, <1>4, <3>1 DEF LoopStep, Goes
  <2> QED
    BY <1>1, <2>1, <2>2 DEF Alone
<1>5. CASE SyncEnd(w)
  BY <1>0, <1>1, <1>5, EndMoves DEF SyncEnd, Alone
<1> QED
  BY <1>1, <1>2, <1>3, <1>4, <1>5 DEF Alone

\* What other retriggers owe is not touched.
LEMMA OthersOwe ==
  ASSUME NEW w \in Workers, Alone(w), NEW m \in Retriggers, m # work[w].msg, NEW p, Owes(m, p)
  PROVE  Owes(m, p)'
<1>1. m \in Messages
  BY RequestsAssumption DEF Requests
<1>2. msgs'[m] = msgs[m]
  BY <1>1 DEF Alone
<1>3. ASSUME NEW v \in Workers, work'[v].pc # "idle", work'[v].msg = m
      PROVE  work'[v].pc = "fetch" \/ (work'[v].pc = "next" /\ Ahead(visit'[v], p))
  BY <1>3 DEF Alone, Owes
<1> QED
  BY <1>2, <1>3 DEF Owes

\* What a retrigger owes itself, after a step of its only callback.
LEMMA StillOwes ==
  ASSUME Serial, NEW w \in Workers, Alone(w), NEW m, m = work[w].msg, NEW p, p \in Refs[m],
         \/ msgs'[m] = "pending" /\ work'[w].pc = "idle"
         \/ /\ msgs[m] = "leased" /\ UNCHANGED msgs
            /\ work'[w].pc = "next" /\ Ahead(visit'[w], p)
  PROVE  Owes(m, p)'
<1>1. \A v \in Workers : v # w => work'[v].pc = "idle"
  BY DEF Serial, Alone
<1>2. \A v \in Workers : work'[v].pc # "idle" =>
        v = w /\ work'[w].pc = "next" /\ Ahead(visit'[w], p)
  BY <1>1
<1>3. msgs'[m] # "acked"
  OBVIOUS
<1> QED
  BY <1>2, <1>3 DEF Owes

\* The references an owed row can be among.
LEMMA OwedByOthers ==
  ASSUME SoTypeInv, OwedInv, NEW w \in Workers, Alone(w), NEW p \in POs \ staged,
         \/ work[w].msg \notin Retriggers
         \/ work[w].pc # "fetch" /\ ~(work[w].pc = "next" /\ Ahead(visit[w], p))
  PROVE  (\E m \in Retriggers : Owes(m, p))'
<1>1. PICK m \in Retriggers : Owes(m, p)
  BY DEF OwedInv
<1>2. m # work[w].msg
  BY <1>1 DEF Owes, Alone
<1>3. Owes(m, p)'
  BY <1>1, <1>2, OthersOwe
<1> QED
  BY <1>3

\* The steps of a callback outside its references: nothing is deleted, and what
\* is owed is owed by others, or comes back with the message.
LEMMA ElsewhereOwed ==
  ASSUME SoTypeInv, OwedInv, NEW w \in Workers, Alone(w), UNCHANGED staged,
         \/ work[w].msg \notin Retriggers
         \/ work[w].pc # "fetch" /\ visit[w].stage \notin Early
         \/ work'[w].pc = "idle" /\ msgs'[work[w].msg] = "pending"
  PROVE  \A p \in POs \ staged' : (\E m \in Retriggers : Owes(m, p))'
<1> SUFFICES ASSUME NEW p \in POs \ staged PROVE (\E m \in Retriggers : Owes(m, p))'
  OBVIOUS
<1>1. CASE work[w].msg \notin Retriggers \/ (work[w].pc # "fetch" /\ visit[w].stage \notin Early)
  BY <1>1, OwedByOthers DEF Ahead
<1>2. CASE work'[w].pc = "idle" /\ msgs'[work[w].msg] = "pending"
  <2>1. PICK m \in Retriggers : Owes(m, p)
    BY DEF OwedInv
  <2>2. CASE m # work[w].msg
    BY <2>1, <2>2, OthersOwe
  <2>3. CASE m = work[w].msg
    <3>1. p \in Refs[m]
      BY <2>1 DEF Owes
    <3>2. Owes(m, p)'
      BY <1>2, <2>3, <3>1, StillOwes DEF OwedInv
    <3> QED
      BY <3>2
  <2> QED
    BY <2>2, <2>3
<1> QED
  BY <1>1, <1>2

\* A retrigger that begins, or deletes and inserts the rows of a reference.
LEMMA RetriggerOwes ==
  ASSUME RowsComeBack, SoTypeInv, OwedInv, NEW w \in Workers, Alone(w),
         BeginRetrigger(w) \/ CleanStaging(w) \/ InsertRows(w) \/ RecordRetrigger(w) \/ FollowUp(w)
  PROVE  /\ \A p \in POs \ staged' : (\E m \in Retriggers : Owes(m, p))'
         /\ OnRefs(work'[w], visit'[w])
<1> DEFINE m == work[w].msg
<1>0. /\ visit \in [Workers -> Visit] /\ visit[w] \in Visit /\ work \in [Workers -> Work]
      /\ \A p \in POs \ staged : \E k \in Retriggers : Owes(k, p)
      /\ OnRefs(work[w], visit[w]) /\ Serial
  BY DEF SoTypeInv, SoTypeOK, TypeInv, TypeOK, OwedInv
<1>1. /\ work[w].pc # "idle" /\ msgs[m] = "leased"
      /\ m \in Retriggers /\ m \in Messages
  <2>1. work[w].pc # "idle" /\ msgs[m] = "leased"
    BY DEF OwedInv, Alone
  <2>2. m \in Retriggers
    BY <1>0
    DEF BeginRetrigger, CleanStaging, InsertRows, RecordRetrigger, FollowUp, At, OnRefs, Early
  <2> QED
    BY <2>1, <2>2, RequestsAssumption DEF Requests
<1>2. work'[w].pc = "next" /\ work'[w].msg = m /\ UNCHANGED msgs
  <2>1. \/ UNCHANGED <<msgs, work>> /\ work[w].pc = "next"
        \/ \E es : Loops(w, es) /\ UNCHANGED msgs
    BY DEF BeginRetrigger, CleanStaging, InsertRows, RecordRetrigger, FollowUp, At, vars
  <2>2. ASSUME NEW es, Loops(w, es)
        PROVE  work'[w].pc = "next" /\ work'[w].msg = m
    BY <1>0, <2>2 DEF Loops, Goes, Idle
  <2> QED
    BY <2>1, <2>2
\* Whoever owed p, once this callback has p ahead or others owe it.
<1>3. ASSUME NEW p \in POs \ staged,
             ~(work[w].pc = "fetch") /\ (Ahead(visit[w], p) => Ahead(visit'[w], p))
      PROVE  (\E k \in Retriggers : Owes(k, p))'
  <2>1. PICK k \in Retriggers : Owes(k, p)
    BY <1>0
  <2>2. CASE k # m
    BY <2>1, <2>2, OthersOwe
  <2>3. CASE k = m
    <3>1. p \in Refs[k] /\ Ahead(visit[w], p)
      BY <1>1, <1>3, <2>1, <2>3 DEF Owes
    <3>2. Owes(k, p)'
      BY <1>0, <1>1, <1>2, <1>3, <2>3, <3>1, StillOwes
    <3> QED
      BY <3>2
  <2> QED
    BY <2>2, <2>3
<1>4. CASE BeginRetrigger(w)
  <2>1. visit' = [visit EXCEPT ![w] = [NoVisit EXCEPT !.stage = "refs", !.todo = Refs[m]]]
        /\ UNCHANGED staged
    BY <1>4 DEF BeginRetrigger, RowsComeBack
  <2>2. visit'[w].stage = "refs" /\ visit'[w].todo = Refs[m]
    BY <1>0, <2>1 DEF NoVisit
  <2>3. ASSUME NEW p \in POs \ staged PROVE (\E k \in Retriggers : Owes(k, p))'
    <3>1. PICK k \in Retriggers : Owes(k, p)
      BY <1>0
    <3>2. CASE k # m
      BY <3>1, <3>2, OthersOwe
    <3>3. CASE k = m
      <4>1. p \in Refs[k] /\ Ahead(visit'[w], p)
        BY <2>2, <3>1, <3>3 DEF Owes, Ahead, Early
      <4>2. Owes(k, p)'
        BY <1>0, <1>1, <1>2, <3>3, <4>1, StillOwes
      <4> QED
        BY <4>2
    <3> QED
      BY <3>2, <3>3
  <2> QED
    BY <1>1, <1>2, <2>1, <2>2, <2>3 DEF OnRefs
<1>5. CASE CleanStaging(w)
  <2>1. PICK q \in visit[w].todo :
          /\ staged' = staged \ {q}
          /\ visit' = [visit EXCEPT ![w].stage = "insert", ![w].ref = q, ![w].todo = @ \ {q}]
    BY <1>5 DEF CleanStaging, RowsComeBack
  <2>2. /\ visit[w].stage = "refs" /\ work[w].pc = "next"
        /\ visit'[w].stage = "insert" /\ visit'[w].ref = q
        /\ visit'[w].todo = visit[w].todo \ {q}
    BY <1>0, <1>5, <2>1 DEF CleanStaging, At, Visit
  <2>3. q \in Refs[m] /\ visit'[w].todo \subseteq Refs[m]
    BY <1>0, <2>1, <2>2 DEF OnRefs, Early
  <2>4. ASSUME NEW p \in POs \ staged' PROVE (\E k \in Retriggers : Owes(k, p))'
    <3>1. CASE p = q
      <4>1. Ahead(visit'[w], p)
        BY <2>2, <3>1 DEF Ahead, Early
      <4>2. ASSUME NEW k, k = m PROVE Owes(k, p)'
        BY <1>0, <1>1, <1>2, <2>3, <3>1, <4>1, <4>2, StillOwes
      <4>3. \E k \in Retriggers : k = m
        BY <1>1
      <4> QED
        BY <4>2, <4>3
    <3>2. CASE p # q
      <4>1. p \in POs \ staged /\ work[w].pc # "fetch"
        BY <2>1, <2>2, <3>2
      <4>2. Ahead(visit[w], p) => Ahead(visit'[w], p)
        BY <2>2, <3>2 DEF Ahead, Early
      <4> QED
        BY <1>3, <4>1, <4>2
    <3> QED
      BY <3>1, <3>2
  <2> QED
    BY <1>1, <1>2, <2>3, <2>4 DEF OnRefs
<1>6. CASE InsertRows(w)
  <2>1. /\ staged' = staged \cup {visit[w].ref}
        /\ visit' = [visit EXCEPT ![w].stage = "record", ![w].good = @ \cup {visit[w].ref}]
    BY <1>6 DEF InsertRows, RowsComeBack
  <2>2. /\ visit[w].stage = "insert" /\ work[w].pc = "next"
        /\ visit'[w].stage = "record" /\ visit'[w].todo = visit[w].todo
    BY <1>0, <1>6, <2>1 DEF InsertRows, At, Visit
  <2>3. ASSUME NEW p \in POs \ staged' PROVE (\E k \in Retriggers : Owes(k, p))'
    <3>1. p \in POs \ staged /\ p # visit[w].ref /\ work[w].pc # "fetch"
      BY <2>1, <2>2
    <3>2. Ahead(visit[w], p) => Ahead(visit'[w], p)
      BY <2>2, <3>1 DEF Ahead, Early
    <3> QED
      BY <1>3, <3>1, <3>2
  <2> QED
    BY <1>0, <1>1, <1>2, <2>2, <2>3 DEF OnRefs, Early
<1>7. CASE RecordRetrigger(w)
  <2>1. /\ visit[w].stage = "record" /\ work[w].pc = "next" /\ UNCHANGED staged
        /\ visit'[w].stage = "refs" /\ visit'[w].todo = visit[w].todo
    BY <1>0, <1>7 DEF RecordRetrigger, At, Visit
  <2>2. \A p : Ahead(visit[w], p) => Ahead(visit'[w], p)
    BY <2>1 DEF Ahead, Early
  <2> QED
    BY <1>0, <1>1, <1>2, <1>3, <2>1, <2>2 DEF OnRefs, Early
<1>8. CASE FollowUp(w)
  <2>1. /\ visit[w].stage = "refs" /\ visit[w].todo = {} /\ work[w].pc = "next"
        /\ visit'[w].stage = "sync" /\ UNCHANGED staged
    BY <1>0, <1>8 DEF FollowUp, At, Visit
  <2>2. \A p : ~Ahead(visit[w], p)
    BY <2>1 DEF Ahead
  <2> QED
    BY <1>3, <2>1, <2>2 DEF OnRefs, Early
<1> QED
  BY <1>4, <1>5, <1>6, <1>7, <1>8

\* A callback that is not among references does not come there.
LEMMA StaysOffRefs ==
  ASSUME SoTypeInv, NEW w \in Workers, UNCHANGED visit, visit[w].stage \notin Early
  PROVE  OnRefs(work'[w], visit'[w])
  BY DEF OnRefs

LEMMA CallbackOwes ==
  ASSUME RowsComeBack, SoTypeInv, OwedInv, NEW w \in Workers,
         RequestStep(w) \/ RequestEscapes(w) \/ BatchStep(w)
  PROVE  /\ \A p \in POs \ staged' : (\E m \in Retriggers : Owes(m, p))'
         /\ OnRefs(work'[w], visit'[w])
<1>0. Alone(w) /\ OnRefs(work[w], visit[w]) /\ visit \in [Workers -> Visit]
      /\ msgs \in [Messages -> {"pending", "leased", "acked"}]
  BY CallbackAlone DEF OwedInv, SoTypeInv, SoTypeOK, TypeOK
<1>1. CASE BeginRetrigger(w) \/ CleanStaging(w) \/ InsertRows(w) \/ RecordRetrigger(w)
           \/ FollowUp(w)
  BY <1>0, <1>1, RetriggerOwes
<1>2. CASE BatchStep(w)
  <2>1. work[w].msg \notin Retriggers /\ UNCHANGED <<visit, staged>>
    BY <1>2 DEF BatchStep, cloud, Visiting, Requests
  <2>2. visit[w].stage \notin Early
    BY <1>0, <2>1 DEF OnRefs
  <2> QED
    BY <1>0, <2>1, <2>2, ElsewhereOwed, StaysOffRefs
<1>3. CASE RequestEscapes(w)
  <2>1. visit'[w].stage = "none" /\ UNCHANGED staged
    BY <1>0, <1>3 DEF RequestEscapes, NoVisit
  <2>2. Leave(w, work[w].msg, "pending") /\ work[w].msg \in Messages
    BY <1>3, RequestsAssumption DEF RequestEscapes, BatchEscapes, Crash, Visiting
  <2>3. msgs'[work[w].msg] = "pending" /\ work'[w].pc = "idle"
    BY <1>0, <2>2 DEF Leave, Goes, Idle, SoTypeInv, TypeInv, TypeOK
  <2> QED
    BY <1>0, <2>1, <2>3, ElsewhereOwed DEF OnRefs, Early
<1>4. CASE BeginSync(w) \/ BeginBackfill(w)
  <2>1. \/ work[w].msg \notin Retriggers
        \/ work[w].pc # "fetch" /\ visit[w].stage \notin Early
    BY <1>4, RequestsAssumption DEF BeginSync, BeginBackfill, Synced, At, Early
  <2>2. visit'[w].stage \in {"sync", "backfill"} /\ UNCHANGED staged
    BY <1>0, <1>4 DEF BeginSync, BeginBackfill, Visit
  <2> QED
    BY <1>0, <2>1, <2>2, ElsewhereOwed DEF OnRefs, Early
<1>5. CASE TakeRow(w) \/ SyncRaised(w) \/ RetryRows(w) \/ EndRequest(w)
  <2>1. work[w].pc # "fetch" /\ visit[w].stage \notin Early /\ UNCHANGED staged
    BY <1>5 DEF TakeRow, SyncRaised, RetryRows, EndRequest, Synced, At, Syncing, Early
  <2>2. visit'[w].stage \in {visit[w].stage, "again", "none"}
    <3>1. CASE TakeRow(w)
      <4>1. \/ UNCHANGED visit
            \/ \E r : visit' = [visit EXCEPT ![w].retry = r]
        BY <3>1 DEF TakeRow, LookUp
      <4> QED
        BY <1>0, <4>1 DEF Visit
    <3>2. CASE SyncRaised(w)
      <4>1. \E r : visit' = [visit EXCEPT ![w].retry = r]
        BY <3>2 DEF SyncRaised
      <4> QED
        BY <1>0, <4>1 DEF Visit
    <3>3. CASE RetryRows(w) \/ EndRequest(w)
      BY <1>0, <3>3 DEF RetryRows, EndRequest, NoVisit, Visit
    <3> QED
      BY <1>5, <3>1, <3>2, <3>3
  <2> QED
    BY <1>0, <2>1, <2>2, ElsewhereOwed DEF OnRefs, Early
<1>6. CASE \/ SettleSynced(w) \/ ClearSynced(w) \/ RecordResolved(w) \/ SettleVisited(w)
           \/ CheckRow(w) \/ SettleBackfilled(w) \/ NextRow(w) \/ OrderStep(w)
  <2>1. UNCHANGED <<visit, staged>>
    BY <1>6
    DEF SettleSynced, ClearSynced, RecordResolved, SettleVisited, CheckRow, SettleBackfilled,
        NextRow, OrderStep, cloud
  <2>2. work[w].pc # "fetch"
    BY <1>6
    DEF SettleSynced, ClearSynced, RecordResolved, SettleVisited, CheckRow, SettleBackfilled,
        NextRow, OrderStep, At, SettleOrder, SettleLocked, SettleFailed, Complete, Keep, Drop,
        FindExisting, Resume, CreateHeader, PostLine
  <2>3. visit[w].stage \notin Early
    <3>1. CASE CheckRow(w)
      BY <3>1 DEF CheckRow, At, Early
    <3>2. CASE ~CheckRow(w)
      <4>1. work[w].pc # "next"
        BY <1>6, <3>2
        DEF SettleSynced, ClearSynced, RecordResolved, SettleVisited, SettleBackfilled, NextRow,
            OrderStep, SettleOrder, SettleLocked, SettleFailed, Complete, Keep, Drop,
            FindExisting, Resume, CreateHeader, PostLine
      <4> QED
        BY <1>0, <4>1 DEF OnRefs
    <3> QED
      BY <3>1, <3>2
  <2> QED
    BY <1>0, <2>1, <2>2, <2>3, ElsewhereOwed, StaysOffRefs
<1> QED
  BY <1>1, <1>2, <1>3, <1>4, <1>5, <1>6 DEF RequestStep

\* Messages come and go around the callbacks.
LEMMA AroundOwes ==
  ASSUME RowsComeBack, SoTypeInv, OwedInv, Around
  PROVE  /\ \A w \in Workers : work'[w].pc # "idle" => msgs'[work'[w].msg] = "leased"
         /\ \A w \in Workers : OnRefs(work'[w], visit'[w])
         /\ \A p \in POs \ staged' : (\E m \in Retriggers : Owes(m, p))'
<1>0. /\ msgs \in [Messages -> {"pending", "leased", "acked"}] /\ work \in [Workers -> Work]
      /\ UNCHANGED <<visit, staged>> /\ TypeInv
      /\ \A w \in Workers : work[w].pc # "idle" =>
           work[w].msg \in Messages /\ msgs[work[w].msg] = "leased"
      /\ \A w \in Workers : OnRefs(work[w], visit[w])
      /\ \A m \in Retriggers : m \in Messages
      /\ \A p \in POs \ staged : \E m \in Retriggers : Owes(m, p)
  BY WorkFields, RequestsAssumption
  DEF SoTypeInv, SoTypeOK, TypeOK, OwedInv, Around, cloud, Ready, Requests
<1>1. CASE UNCHANGED <<work, msgs>>
  BY <1>0, <1>1 DEF Owes
<1>2. ASSUME NEW m \in Messages, Retrigger(m)
      PROVE  /\ \A w \in Workers : work'[w].pc # "idle" => msgs'[work'[w].msg] = "leased"
             /\ \A w \in Workers : OnRefs(work'[w], visit'[w])
             /\ \A p \in POs \ staged' : (\E k \in Retriggers : Owes(k, p))'
  <2>1. UNCHANGED work /\ msgs[m] = "acked" /\ msgs' = [msgs EXCEPT ![m] = "pending"]
    BY <1>2 DEF Retrigger
  <2>2. \A k \in Messages : msgs[k] # "acked" => msgs'[k] = msgs[k]
    BY <1>0, <2>1
  <2>3. \A k \in Retriggers : \A p : Owes(k, p) => Owes(k, p)'
    BY <1>0, <2>1, <2>2 DEF Owes
  <2> QED
    BY <1>0, <2>1, <2>2, <2>3
<1>3. ASSUME NEW v \in Workers, NEW m \in Messages, Deliver(v, m)
      PROVE  /\ \A w \in Workers : work'[w].pc # "idle" => msgs'[work'[w].msg] = "leased"
             /\ \A w \in Workers : OnRefs(work'[w], visit'[w])
             /\ \A p \in POs \ staged' : (\E k \in Retriggers : Owes(k, p))'
  <2>1. /\ \A w \in Workers : work[w].pc = "idle"
        /\ msgs' = [msgs EXCEPT ![m] = "leased"]
        /\ work' = [work EXCEPT ![v] = [Idle EXCEPT !.pc = "fetch", !.msg = m]]
    BY <1>3 DEF Deliver, RowsComeBack, Goes
  <2>2. work'[v].pc = "fetch" /\ work'[v].msg = m /\ msgs'[m] = "leased"
    BY <1>0, <2>1 DEF Idle
  <2>3. \A w \in Workers : w # v => work'[w].pc = "idle"
    BY <1>0, <2>1
  <2>4. \A w \in Workers : visit[w].stage \notin Early
    BY <1>0, <2>1 DEF OnRefs
  <2>5. \A k \in Messages : k = m \/ msgs'[k] = msgs[k]
    BY <1>0, <2>1
  <2>6. \A k \in Retriggers : \A p : Owes(k, p) => Owes(k, p)'
    BY <1>0, <2>2, <2>3, <2>5 DEF Owes
  <2> QED
    BY <1>0, <2>2, <2>3, <2>4, <2>6 DEF OnRefs
<1> QED
  BY <1>1, <1>2, <1>3
  DEF Around, LeaseExpires, RecordHandoff, EnterByHand, ChangeStatus, RowsComeBack

LEMMA OwedStep ==
  ASSUME RowsComeBack, SoTypeInv, OwedInv, [SoNext]_soVars
  PROVE  OwedInv'
<1>1. Serial'
  <2>1. CASE [Next]_vars
    BY <2>1, SerialStep DEF RowsComeBack, OwedInv, SoTypeInv
  <2>2. ASSUME NEW w \in Workers, LoopStep(w) \/ SyncEnd(w) PROVE Serial'
    BY <2>2, AsideMoves DEF OwedInv, SoTypeInv
  <2> QED
    BY <2>1, <2>2, StepKinds
<1>2. CASE UNCHANGED soVars
  BY <1>2 DEF soVars, vars, cloud, OwedInv, Serial, OnRefs, Owes
<1>3. CASE Around
  BY <1>1, <1>3, AroundOwes DEF OwedInv
<1>4. ASSUME NEW w \in Workers, RequestStep(w) \/ RequestEscapes(w) \/ BatchStep(w)
      PROVE  OwedInv'
  <2>1. Alone(w) /\ Serial
    BY <1>4, CallbackAlone DEF OwedInv
  <2>2. ASSUME NEW v \in Workers, work'[v].pc # "idle"
        PROVE  msgs'[work'[v].msg] = "leased"
    <3>1. v = w
      BY <2>1, <2>2 DEF Alone, Serial
    <3> QED
      BY <2>1, <2>2, <3>1 DEF Alone, OwedInv
  <2>3. ASSUME NEW v \in Workers PROVE OnRefs(work'[v], visit'[v])
    <3>1. CASE v = w
      BY <1>4, <3>1, CallbackOwes
    <3>2. CASE v # w
      BY <2>1, <3>2 DEF Alone, OwedInv
    <3> QED
      BY <3>1, <3>2
  <2>4. \A p \in POs \ staged' : (\E m \in Retriggers : Owes(m, p))'
    BY <1>4, CallbackOwes
  <2> QED
    BY <1>1, <2>2, <2>3, <2>4 DEF OwedInv
<1> QED
  BY <1>2, <1>3, <1>4 DEF SoNext

\* No process that dies between cleanup-staging and insert-from-bigquery leaves
\* rows deleted for good: of any number of files with any references, a message
\* that inserts them again is still to be delivered or at it.
THEOREM SoRowsAreOwed == ASSUME RowsComeBack PROVE SoSpec => []RowsAreOwed
<1>1. SoInit => SoTypeInv /\ OwedInv
  BY SoTypeInit DEF SoInit, Init, OwedInv, Serial, OnRefs, NoVisit, Early, Idle
<1>2. SoTypeInv /\ OwedInv /\ [SoNext]_soVars => SoTypeInv' /\ OwedInv'
  BY SoTypeStep, OwedStep
<1>3. OwedInv => RowsAreOwed
  BY DEF OwedInv, Owes, RowsAreOwed
<1> QED
  BY <1>1, <1>2, <1>3, PTL DEF SoSpec
===============================================================================
