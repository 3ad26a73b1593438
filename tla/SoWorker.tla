------------------------------- MODULE SoWorker -------------------------------
(***************************************************************************)
(* The whole subscription of src/workers/so_import_worker.py: the batches  *)
(* and reprocess requests of SoImport, and the requests that work from     *)
(* Cloud SQL instead of a message or the buffer.                           *)
(*                                                                         *)
(*   sync       looks up the order of every row by its reference and posts *)
(*              the lines that are missing on it                           *)
(*   backfill   creates the order of every row that has none               *)
(*   retrigger  deletes the staging rows of the references of a file,      *)
(*              inserts them again from BigQuery, then syncs and backfills *)
(*                                                                         *)
(* They share with SoImport the orders, the buffer, the history, the       *)
(* handoff records, the run documents, _create_order and the callbacks     *)
(* (max_messages=1), so every action of SoImport is an action here too.  A *)
(* request is a message without a batch; the locals that only these        *)
(* requests have are in visit.                                             *)
(***************************************************************************)
EXTENDS SoImport

CONSTANTS
  Syncs,       \* messages poul-so-sync-from-cloudsql
  Backfills,   \* messages poul-so-backfill-from-cloudsql
  Retriggers,  \* messages poul-so-retrigger-file
  Refs,        \* the references a request is about (po_ref_numbers)
  Promoted,    \* references with a row in CustomerPOUL at the start
  Lapses       \* what Cloud SQL and BigQuery may do, a subset of LapseKinds

Requests == Syncs \cup Backfills \cup Retriggers

(* read      a read of detail rows fails and reads as "no rows"             *)
(* staging   cleanup-staging or insert-from-bigquery fails, perhaps after   *)
(*           it was applied                                                 *)
(* trigger   the AFTER INSERT trigger does not promote the header           *)
(* bigquery  the lookup of the references or of their rows fails, or finds  *)
(*           only some of them                                              *)
LapseKinds == {"read", "staging", "trigger", "bigquery"}

ASSUME RequestsAssumption ==
  /\ Requests \subseteq Messages
  /\ Syncs \cap Backfills = {} /\ Syncs \cap Retriggers = {}
  /\ Backfills \cap Retriggers = {}
  /\ \A m \in Requests : Batch[m] = {}
  /\ Refs \in [Requests -> SUBSET POs]
  /\ Promoted \subseteq POs
  /\ Lapses \subseteq LapseKinds

VARIABLES
  visit,     \* Workers -> the locals of a request, next to those in work
  poul,      \* references with a header row in CustomerPOUL
  staged,    \* references with their rows in CustomerPOULDetailBQ
  settled,   \* purchase orders a sync or backfill reported as dealt with
  resolved   \* purchase orders a sync reported to the history as "resolved"

cloud == <<visit, poul, staged, settled, resolved>>
soVars == <<vars, cloud>>

-----------------------------------------------------------------------------
(* refs to insert again; the one in hand; good: inserted by this run, still *)
(* to be synced and backfilled; retry: raised in the first round of a sync. *)

Stages == {"none", "refs", "insert", "record", "sync", "again", "backfill"}
Visit == [stage : Stages, todo : SUBSET POs, ref : POs \cup {None},
          good : SUBSET POs, retry : SUBSET POs]
NoVisit == [stage |-> "none", todo |-> {}, ref |-> None, good |-> {}, retry |-> {}]

SoInit ==
  /\ Init
  /\ visit = [w \in Workers |-> NoVisit]
  /\ poul = Promoted
  /\ staged = POs
  /\ settled = {}
  /\ resolved = {}

Visiting(w) == work[w].msg \in Requests
At(w, s) == Visiting(w) /\ visit[w].stage \in s /\ work[w].pc = "next"

\* The callback stands in its loop with the entries es to go.
Loops(w, es) ==
  Goes(w, [Idle EXCEPT !.pc = "next", !.msg = work[w].msg, !.rest = es])

\* The rows of CustomerPOUL a loop runs over.  A sync names the buffer document
\* of its row; a backfill never reads the buffer.
SyncRows(ps) == {[NoEntry EXCEPT !.po = p, !.buf = DocIdOf[p]] : p \in ps \cap poul}
BackfillRows(ps) == {[NoEntry EXCEPT !.po = p] : p \in ps \cap poul}

\* fetch_customerpouldetailbq: the staged rows, or none.
DetailsOf(p) ==
  {IF p \in staged THEN LinesOf(p) ELSE {}} \cup (IF "read" \in Lapses THEN {{}} ELSE {})

-----------------------------------------------------------------------------
(* A sync.                                                                  *)

\* The request starts.  When the rows or the item references cannot be fetched
\* the company is passed over: the loop has nothing to do.
BeginSync(w) ==
  /\ work[w].pc = "fetch"
  /\ work[w].msg \in Syncs
  /\ \E rows \in {SyncRows(Refs[work[w].msg]), {}} : Loops(w, rows)
  /\ visit' = [visit EXCEPT ![w].stage = "sync"]
  /\ UNCHANGED <<msgs, orders, buffer, blocked, excluded, handoff, run>>
  /\ UNCHANGED <<poul, staged, settled, resolved>>

\* Find the order of row e and read its details; what follows is a resumed
\* order.  Without one the row is reported as not found, and after an exception
\* it is kept for the second round.
LookUp(w, e) ==
  \/ /\ \E n \in Matching(e.po), ls \in DetailsOf(e.po) :
          Goes(w, [Idle EXCEPT !.pc = "resume", !.msg = work[w].msg,
                     !.rest = work[w].rest \ {e}, !.cur = [e EXCEPT !.lines = ls],
                     !.order = n])
     /\ UNCHANGED visit
  \/ /\ "lookup" \in Faults \/ Matching(e.po) = {}
     /\ Loops(w, work[w].rest \ {e})
     /\ UNCHANGED visit
  \/ /\ "lookup" \in Faults
     /\ Loops(w, work[w].rest \ {e})
     /\ visit' = [visit EXCEPT ![w].retry =
                    IF visit[w].stage = "sync" THEN @ \cup {e.po} ELSE @]

TakeRow(w) ==
  /\ At(w, {"sync", "again"})
  /\ \E e \in work[w].rest : LookUp(w, e)
  /\ UNCHANGED <<msgs, orders, buffer, blocked, excluded, handoff, run>>
  /\ UNCHANGED <<poul, staged, settled, resolved>>

\* An order of a sync or backfill is dealt with once it is to be reported.
DealtWith(w) ==
  settled' = IF work'[w].pc = "report" THEN settled \cup {work[w].cur.po} ELSE settled

Syncing(w) == Visiting(w) /\ visit[w].stage \in {"sync", "again"}

\* Nothing remains of a row: get_buffered_order.  A document is there still, or
\* none is, or the read failed.
Complete(w) ==
  LET e == work[w].cur IN
  /\ work[w].pc = "lines" /\ work[w].todo = {} /\ work[w].left = {}
  /\ \/ /\ buffer[e.buf].po # None
        /\ Outcome(w, "clear", [NoEntry EXCEPT !.po = e.po, !.buf = e.buf], "created")
     \/ /\ buffer[e.buf].po = None \/ "firestore" \in Faults
        /\ Report(w, "created")
  /\ excluded' = excluded \cup work[w].out
  /\ UNCHANGED <<msgs, orders, buffer, blocked, handoff, run>>

\* Variant: what remains is not saved for a row that is not in the buffer.
SettleUnbuffered(w) ==
  LET e == work[w].cur IN
  /\ Syncing(w)
  /\ work[w].pc = "lines" /\ work[w].todo = {}
  /\ \/ Complete(w)
     \/ work[w].left # {} /\ buffer[e.buf].po # None /\ SettleOrder(w)
     \/ /\ work[w].left # {} /\ buffer[e.buf].po = None
        /\ Report(w, "created")
        /\ excluded' = excluded \cup work[w].out
        /\ UNCHANGED <<msgs, orders, buffer, blocked, handoff, run>>
  /\ DealtWith(w)
  /\ UNCHANGED <<visit, poul, staged, resolved>>

\* Variant: the buffer is asked before what remains is.
SettleResolved(w) ==
  LET e == work[w].cur IN
  /\ Syncing(w)
  /\ work[w].pc = "lines" /\ work[w].todo = {}
  /\ IF buffer[e.buf].po # None
       THEN Outcome(w, "clear", [NoEntry EXCEPT !.po = e.po, !.buf = e.buf], "created")
       ELSE Report(w, "created")
  /\ excluded' = excluded \cup work[w].out
  /\ DealtWith(w)
  /\ UNCHANGED <<msgs, orders, buffer, blocked, handoff, run, visit, poul, staged, resolved>>

\* The end of _sync_order_from_cloudsql: a locked order and what remains are
\* settled as in a batch, with the buffer document of the row.
SettleSynced(w) ==
  /\ Syncing(w)
  /\ \/ work[w].left # {} /\ SettleOrder(w)
     \/ SettleLocked(w)
     \/ Complete(w)
  /\ DealtWith(w)
  /\ UNCHANGED <<visit, poul, staged, resolved>>

\* The document of a row of which nothing remains is deleted ...
ClearSynced(w) ==
  /\ work[w].pc = "clear"
  /\ Delete(work[w].cur.buf)
  /\ Outcome(w, "history", [NoEntry EXCEPT !.po = work[w].cur.po], "created")
  /\ UNCHANGED <<msgs, orders, blocked, excluded, handoff, run, cloud>>

\* ... and the purchase order goes to the history as resolved.
RecordResolved(w) ==
  /\ work[w].pc = "history"
  /\ \/ resolved' = resolved \cup {work[w].cur.po}
     \/ "firestore" \in Faults /\ UNCHANGED resolved
  /\ Report(w, "created")
  /\ DealtWith(w)
  /\ UNCHANGED <<msgs, orders, buffer, blocked, excluded, handoff, run>>
  /\ UNCHANGED <<visit, poul, staged>>

\* The calls that _create_order's ends have in common.
SettleVisited(w) ==
  /\ Visiting(w)
  /\ Keep(w) \/ Drop(w)
  /\ DealtWith(w)
  /\ UNCHANGED <<visit, poul, staged, resolved>>

\* An exception: in the first round the row is kept for the second, in the
\* second it is reported as errored.  Nothing is saved.
SyncRaised(w) ==
  /\ Syncing(w)
  /\ work[w].pc = "failed"
  /\ Loops(w, work[w].rest)
  /\ visit' = [visit EXCEPT ![w].retry =
                 IF visit[w].stage = "sync" THEN @ \cup {work[w].cur.po} ELSE @]
  /\ UNCHANGED <<msgs, orders, buffer, blocked, excluded, handoff, run>>
  /\ UNCHANGED <<poul, staged, settled, resolved>>

\* The second round, over the rows that raised.
RetryRows(w) ==
  /\ At(w, {"sync"})
  /\ work[w].rest = {}
  /\ visit[w].retry # {}
  /\ Loops(w, SyncRows(visit[w].retry))
  /\ visit' = [visit EXCEPT ![w].stage = "again", ![w].retry = {}]
  /\ UNCHANGED <<msgs, orders, buffer, blocked, excluded, handoff, run>>
  /\ UNCHANGED <<poul, staged, settled, resolved>>

Synced(w) ==
  /\ At(w, {"sync", "again"})
  /\ work[w].rest = {}
  /\ visit[w].retry = {}

-----------------------------------------------------------------------------
(* A backfill, as a request or as the end of a retrigger run.               *)

BeginBackfill(w) ==
  /\ \/ work[w].pc = "fetch" /\ work[w].msg \in Backfills
     \/ work[w].msg \in Retriggers /\ Synced(w)
  /\ LET ps == IF work[w].msg \in Backfills THEN Refs[work[w].msg] ELSE visit[w].good IN
       \E rows \in {BackfillRows(ps), {}} : Loops(w, rows)
  /\ visit' = [visit EXCEPT ![w].stage = "backfill", ![w].good = {}]
  /\ UNCHANGED <<msgs, orders, buffer, blocked, excluded, handoff, run>>
  /\ UNCHANGED <<poul, staged, settled, resolved>>

\* A row that has an order, or whose check raised, is passed over; otherwise its
\* details are read and _create_order runs on them.
CheckRow(w) ==
  /\ At(w, {"backfill"})
  /\ \E e \in work[w].rest :
       \/ Loops(w, work[w].rest \ {e})
       \/ /\ "lookup" \in Faults \/ Matching(e.po) = {}
          /\ \E ls \in DetailsOf(e.po) :
               Goes(w, [Idle EXCEPT !.pc = "find", !.msg = work[w].msg,
                          !.rest = work[w].rest \ {e}, !.cur = [e EXCEPT !.lines = ls]])
  /\ UNCHANGED <<msgs, orders, buffer, blocked, excluded, handoff, run>>
  /\ UNCHANGED cloud

\* The ends of _create_order in a backfill: what is left of the lines is saved,
\* the locked order goes to the history, and after an exception every line of
\* the row is saved.
SettleBackfilled(w) ==
  /\ Visiting(w) /\ visit[w].stage = "backfill"
  /\ SettleOrder(w) \/ SettleLocked(w) \/ SettleFailed(w)
  /\ DealtWith(w)
  /\ UNCHANGED <<visit, poul, staged, resolved>>

\* Neither loop reports to the handoff record.
NextRow(w) ==
  /\ Visiting(w)
  /\ work[w].pc = "report"
  /\ Loops(w, work[w].rest)
  /\ UNCHANGED <<msgs, orders, buffer, blocked, excluded, handoff, run>>
  /\ UNCHANGED cloud

-----------------------------------------------------------------------------
(* A retrigger of the references of a file.                                 *)

\* The references of the file and their rows are read from BigQuery.  A failing
\* read, or a reference without a row, is reported and not tried again.
BeginRetrigger(w) ==
  /\ work[w].pc = "fetch"
  /\ work[w].msg \in Retriggers
  /\ Loops(w, {})
  /\ \E ps \in IF "bigquery" \in Lapses THEN SUBSET Refs[work[w].msg]
                                          ELSE {Refs[work[w].msg]} :
       visit' = [visit EXCEPT ![w] = [NoVisit EXCEPT !.stage = "refs", !.todo = ps]]
  /\ UNCHANGED <<msgs, orders, buffer, blocked, excluded, handoff, run>>
  /\ UNCHANGED <<poul, staged, settled, resolved>>

\* cleanup_staging; after an exception the loop goes on with the next reference.
CleanStaging(w) ==
  /\ At(w, {"refs"})
  /\ \E p \in visit[w].todo :
       \/ /\ staged' = staged \ {p}
          /\ visit' = [visit EXCEPT ![w].stage = "insert", ![w].ref = p, ![w].todo = @ \ {p}]
       \/ /\ "staging" \in Lapses
          /\ staged' \in {staged, staged \ {p}}
          /\ visit' = [visit EXCEPT ![w].todo = @ \ {p}]
  /\ UNCHANGED <<vars, poul, settled, resolved>>

\* Variant: what is in CustomerPOUL already is not inserted again.
InsertUnlessPromoted(w) ==
  LET p == visit[w].ref IN
  /\ At(w, {"insert"})
  /\ IF p \in poul THEN UNCHANGED <<staged, poul>>
     ELSE staged' = staged \cup {p} /\ poul' = poul \cup {p}
  /\ visit' = [visit EXCEPT ![w].stage = "record", ![w].good = @ \cup {p}]
  /\ UNCHANGED <<vars, settled, resolved>>

\* insert_from_bigquery: the rows are staged again and the trigger promotes the
\* header.  An exception leaves the reference without a record of this run, an
\* error answer does not.
InsertRows(w) ==
  LET p == visit[w].ref IN
  /\ At(w, {"insert"})
  /\ \/ /\ staged' = staged \cup {p}
        /\ poul' = poul \cup {p} \/ ("trigger" \in Lapses /\ UNCHANGED poul)
        /\ visit' = [visit EXCEPT ![w].stage = "record", ![w].good = @ \cup {p}]
     \/ /\ "staging" \in Lapses
        /\ \/ UNCHANGED <<staged, poul>>
           \/ staged' = staged \cup {p} /\ poul' = poul \cup {p}
        /\ visit' = [visit EXCEPT ![w].stage = "refs", ![w].ref = None]
     \/ /\ "staging" \in Lapses
        /\ visit' = [visit EXCEPT ![w].stage = "record"]
        /\ UNCHANGED <<staged, poul>>
  /\ UNCHANGED <<vars, settled, resolved>>

\* check_promoted and record_single_handoff.  Only a reference that is known not
\* to be promoted leaves the follow-up.
RecordRetrigger(w) ==
  LET p == visit[w].ref IN
  /\ At(w, {"record"})
  /\ \/ handoff' = [handoff EXCEPT ![p] =
                      IF p \in visit[w].good THEN "pending" ELSE "not_attempted"]
     \/ "firestore" \in Faults /\ UNCHANGED handoff
  /\ \E unpromoted \in {{}, {p} \ poul} :
       visit' = [visit EXCEPT ![w].stage = "refs", ![w].ref = None, ![w].good = @ \ unpromoted]
  /\ UNCHANGED <<msgs, work, orders, buffer, blocked, excluded, run>>
  /\ UNCHANGED <<poul, staged, settled, resolved>>

\* The follow-up: a sync of the references that went well, then a backfill.
FollowUp(w) ==
  /\ At(w, {"refs"})
  /\ visit[w].todo = {}
  /\ \E rows \in {SyncRows(visit[w].good), {}} : Loops(w, rows)
  /\ visit' = [visit EXCEPT ![w].stage = "sync"]
  /\ UNCHANGED <<msgs, orders, buffer, blocked, excluded, handoff, run>>
  /\ UNCHANGED <<poul, staged, settled, resolved>>

-----------------------------------------------------------------------------
(* The end of a request, and the surroundings.                              *)

\* Variant: the run of a request is left at "processing".
EndSilently(w) ==
  /\ At(w, {"sync", "again", "backfill"})
  /\ work[w].rest = {}
  /\ Leave(w, work[w].msg, "acked")
  /\ visit' = [visit EXCEPT ![w] = NoVisit]
  /\ UNCHANGED <<orders, buffer, blocked, excluded, handoff, run>>
  /\ UNCHANGED <<poul, staged, settled, resolved>>

\* The loops are through: the run is recorded as done and the message is acked,
\* whatever failed on the way.
EndRequest(w) ==
  /\ \/ Synced(w) /\ work[w].msg \in Syncs
     \/ At(w, {"backfill"})
  /\ FinishBatch(w)
  /\ visit' = [visit EXCEPT ![w] = NoVisit]
  /\ UNCHANGED <<poul, staged, settled, resolved>>

\* Anything that escapes a request: the run is an error and the message is
\* nacked; and a process that dies.
RequestEscapes(w) ==
  /\ Visiting(w)
  /\ BatchEscapes(w) \/ Crash(w)
  /\ visit' = [visit EXCEPT ![w] = NoVisit]
  /\ UNCHANGED <<poul, staged, settled, resolved>>

\* The requests _create_order makes are those of SoImport.
OrderStep(w) ==
  /\ \/ FindExisting(w) \/ Resume(w) \/ CreateHeader(w)
     \/ \E l \in Lines : PostLine(w, l)
  /\ UNCHANGED cloud

RequestStep(w) ==
  \/ BeginSync(w) \/ TakeRow(w) \/ SettleSynced(w) \/ ClearSynced(w) \/ RecordResolved(w)
  \/ SyncRaised(w) \/ RetryRows(w)
  \/ BeginBackfill(w) \/ CheckRow(w) \/ SettleBackfilled(w)
  \/ SettleVisited(w) \/ NextRow(w)
  \/ BeginRetrigger(w) \/ CleanStaging(w) \/ InsertRows(w) \/ RecordRetrigger(w)
  \/ FollowUp(w) \/ EndRequest(w)
  \/ Visiting(w) /\ OrderStep(w)

\* A batch or a reprocess request.
BatchStep(w) == ~Visiting(w) /\ (Step(w) \/ Crash(w)) /\ UNCHANGED cloud

Around ==
  /\ \/ \E w \in Workers, m \in Messages : Deliver(w, m)
     \/ \E m \in Messages : LeaseExpires(m) \/ Retrigger(m)
     \/ \E p \in POs : RecordHandoff(p) \/ EnterByHand(p)
     \/ \E n \in OrderNos : ChangeStatus(n)
  /\ UNCHANGED cloud

SoNext ==
  \/ \E w \in Workers : RequestStep(w) \/ RequestEscapes(w) \/ BatchStep(w)
  \/ Around

SoSpec == SoInit /\ [][SoNext]_soVars

\* Fairness is that of SoImport: a callback keeps running, Pub/Sub delivers what
\* is not acked, the reads a message starts with do not fail at every one of
\* its deliveries, and the process does not die for ever.
SoStep(w) == RequestStep(w) \/ (~Visiting(w) /\ Step(w) /\ UNCHANGED cloud)
Begin(w) == work[w].pc = "fetch" /\ SoStep(w) /\ work'[w].pc = "next"

SoFairness ==
  /\ <>[][\A w \in Workers : ~Crash(w)]_soVars
  /\ \A w \in Workers :
       /\ WF_soVars(SoStep(w))
       /\ WF_soVars(work[w].pc # "fetch" /\ SoStep(w))
       /\ \A m \in Messages :
            /\ SF_soVars(Deliver(w, m) /\ UNCHANGED cloud)
            /\ SF_soVars(work[w].msg = m /\ Begin(w))

SoLiveSpec == SoSpec /\ SoFairness

-----------------------------------------------------------------------------
(* Properties.                                                              *)

\* Every variable keeps its shape, those of SoImport under the requests too: a
\* request never leaves an entry, a document or a status behind that a batch
\* could not have written.
SoTypeOK ==
  /\ TypeOK
  /\ visit \in [Workers -> Visit]
  /\ poul \subseteq POs
  /\ staged \subseteq POs
  /\ settled \subseteq POs
  /\ resolved \subseteq POs

\* A purchase order that a sync reports to the history as resolved has every one
\* of its lines on a sales order, or dropped as inactive ("Every line is now
\* confirmed present in BC", _sync_order_from_cloudsql).
ResolvedMeansPresent ==
  \A p \in resolved : \A l \in LinesOf(p) : OnOrder(l) \/ l \in excluded

\* After a sync or a backfill has dealt with a purchase order, each of its lines
\* is on a sales order, in the retry buffer, blocked or inactive, and stays so,
\* although neither looks at what the buffer held (the ends of
\* _sync_order_from_cloudsql and _run_backfill_from_cloudsql).
SettledMeansAccounted ==
  \A p \in settled : \A l \in LinesOf(p) : Accounted(l)

\* Staging rows that a retrigger deleted are owed by a retrigger Pub/Sub still
\* remembers: a process that dies between cleanup_staging and
\* insert_from_bigquery, at any reference of the file, leaves none behind.
RowsAreOwed ==
  \A p \in POs \ staged :
    \E m \in Retriggers : p \in Refs[m] /\ msgs[m] # "acked"

\* A run shown as "processing" is eventually shown as "done": a sync, a backfill
\* and a retrigger end too, whatever fails inside them.
EveryRunEnds ==
  \A m \in Messages : run[m] = "processing" ~> run[m] = "done"

\* What the import promises, with the lines that BC, the messages and the
\* buffer hold in the place of the books of SoLedger.
Ledger == INSTANCE SoLedger WITH
  opened  <- {orders[n].po : n \in OrderNos} \ {None},
  entered <- {l \in Lines : OnOrder(l)},
  kept    <- {l \in Lines : Buffered(l) \/
                \E m \in Messages : l \in Batch[m] /\ msgs[m] # "acked"},
  closed  <- blocked \cup excluded

\* Batches, retries, syncs and backfills together keep the promise of SoLedger:
\* each of their steps is one of its steps or none.
LedgerSpec == Ledger!LedgerSpec
=============================================================================
