--------------------------------- MODULE Bridge ---------------------------------
(***************************************************************************)
(* The BigQuery bridge (src/services/bigquery_bridge.py) for group code    *)
(* customerpoul, from the rows the document pipeline leaves in BigQuery to *)
(* the orders it hands to the SO import, with the scheduled backfill of    *)
(* src/workers/so_import_worker.py that picks up what the bridge held back.*)
(*                                                                         *)
(* A run reads two watermarks from MSSQL, fetches the header and detail    *)
(* rows that are younger, drops those that MSSQL already has, inserts the  *)
(* details and then the headers, publishes the orders and records the      *)
(* handoff.  Every query, insert and call is a step of its own.            *)
(*                                                                         *)
(* A row is identified by its composite key and belongs to a PO reference. *)
(* Time is counted in seconds: a stamp is the created_at of a row, 0 while *)
(* the row is not there.                                                   *)
(***************************************************************************)
EXTENDS Naturals

CONSTANTS
  Workers,    \* callbacks of the bridge subscription, over all instances
  Refs,       \* PO reference numbers
  Headers,    \* header rows, keyed by po_ref_number and customer_name
  Details,    \* detail rows, keyed by po_ref_number, customer_name and SKU
  RefOf,      \* Headers \cup Details -> Refs
  Rank,       \* Headers -> 2 SUNCOAST or SBIC, 1 another company, 0 none
  OddRefs,    \* references with a comma, ")" or outer blanks, which the text
              \* of a duplicate-key error does not give back
  MaxTime,    \* bound of the clock (for TLC)
  MaxRequests,\* bound of the run requests that wait (for TLC)
  MaxMishaps, \* how many failures may strike (for TLC)
  Faults      \* what the environment may do, a subset of FaultKinds

(* overlap   two runs at once, in two instances of the process              *)
(* close     a row becomes visible with a created_at that is not later than *)
(*           the second after a fetch that did not see it                   *)
(* split     a header becomes visible before all of its details are         *)
(* serve     BigQuery gives a row a younger created_at                      *)
(* chunks    of an insert that fails, the earlier chunks are committed      *)
(* promote   the AFTER INSERT trigger promotes nothing                      *)
(* and, at most MaxMishaps times all together:                              *)
(* crash     the process dies between two steps                             *)
(* marks, fetch, check, insert, verify, publish, record                     *)
(*           the call of that step fails                                    *)
(* unsent    the publish future fails, which nobody looks at                *)
(* details   the backfill's read of the details fails, which reads as none  *)
FaultKinds == {"overlap", "close", "split", "serve", "chunks", "promote",
               "crash", "marks", "fetch", "check", "insert", "verify",
               "publish", "record", "unsent", "details"}

Rows == Headers \cup Details
Times == 0..MaxTime

ASSUME ConstantsAssumption ==
  /\ Headers \cap Details = {}
  /\ RefOf \in [Rows -> Refs]
  /\ Rank \in [Headers -> 0..2]
  /\ OddRefs \subseteq Refs
  /\ MaxTime \in Nat \ {0}
  /\ MaxRequests \in Nat
  /\ MaxMishaps \in Nat
  /\ Faults \subseteq FaultKinds

VARIABLES
  clock,     \* the time
  stamp,     \* Rows -> created_at in BigQuery
  fetched,   \* when BigQuery was last asked
  stage,     \* Rows -> createdAt in CustomerPOULBQ and CustomerPOULDetailBQ
  poul,      \* the headers promoted into CustomerPOUL
  requests,  \* run requests that wait in the subscription
  work,      \* Workers -> the locals of the run
  topic,     \* orders published and not imported yet
  orders,    \* references with a sales order in BC
  lines,     \* details that are on a sales order
  handoff,   \* Refs -> the outcomes recorded in the handoff history
  mishaps    \* how many failures may still strike

vars == <<clock, stamp, fetched, stage, poul, requests, work, topic, orders,
          lines, handoff, mishaps>>

bigquery == <<clock, stamp>>
mssql == <<stage, poul>>
bc == <<orders, lines>>

-----------------------------------------------------------------------------
Order == [ref : Refs, lines : SUBSET Details]
Status == {"error", "promoted", "not_promoted", "unknown"}

Work == [pc : {"idle", "markH", "markD", "fetchH", "fetchD", "checkD", "checkH",
               "insertD", "insertH", "verify", "publish", "record"},
         markH : 0..(MaxTime + 1),         \* __last_run_timestamp
         markD : 0..(MaxTime + 1),         \* __last_run_timestamp_detail
         header : [Headers -> Times],      \* full_header_table
         detail : [Details -> Times],      \* full_detail_table
         newH : SUBSET Headers,            \* header_table
         newD : SUBSET Details,            \* detail_table
         checked : BOOLEAN,                \* promoted_map is known
         promoted : SUBSET Refs]           \* the true entries of promoted_map

Idle == [pc |-> "idle", markH |-> 0, markD |-> 0,
         header |-> [h \in Headers |-> 0], detail |-> [d \in Details |-> 0],
         newH |-> {}, newD |-> {}, checked |-> FALSE, promoted |-> {}]

Init ==
  /\ clock = 1
  /\ stamp = [r \in Rows |-> 0]
  /\ fetched = 0
  /\ stage = [r \in Rows |-> 0]
  /\ poul = {}
  /\ requests = 0
  /\ work = [w \in Workers |-> Idle]
  /\ topic = {}
  /\ orders = {}
  /\ lines = {}
  /\ handoff = [r \in Refs |-> {}]
  /\ mishaps = MaxMishaps

-----------------------------------------------------------------------------
(* Helpers. *)

Visible(r) == stamp[r] # 0
Staged(r) == stage[r] # 0
In(t) == {r \in DOMAIN t : t[r] # 0}
RefsOf(S) == {RefOf[r] : r \in S}
Of(S, ref) == {r \in S : RefOf[r] = ref}

At(w, pc) == work[w].pc = pc
Goes(w, u) == work' = [work EXCEPT ![w] = u]
Leave(w) == Goes(w, Idle)

Mishap(kind) ==
  /\ kind \in Faults
  /\ mishaps > 0
  /\ mishaps' = mishaps - 1

\* The message goes back to the subscription.
Return == requests' = requests + 1

-----------------------------------------------------------------------------
(* BigQuery and the requests for a run. *)

Tick ==
  /\ clock < MaxTime
  /\ clock' = clock + 1
  /\ UNCHANGED <<stamp, fetched, mssql, requests, work, topic, bc, handoff, mishaps>>

\* Rows become visible in the order of their created_at, and not within a second
\* of a fetch, unless "close" says otherwise.
Orderly(t) == IF "close" \in Faults THEN t <= clock ELSE t = clock /\ t > fetched + 1

Appear(r, t) ==
  /\ ~Visible(r)
  /\ r \in Headers /\ "split" \notin Faults => \A d \in Of(Details, RefOf[r]) : Visible(d)
  /\ t > 0
  /\ Orderly(t)
  /\ stamp' = [stamp EXCEPT ![r] = t]
  /\ UNCHANGED <<clock, fetched, mssql, requests, work, topic, bc, handoff, mishaps>>

\* BigQuery serves a row again with a later created_at.
ServeAgain(r) ==
  /\ "serve" \in Faults
  /\ Visible(r)
  /\ stamp[r] < clock
  /\ Orderly(clock)
  /\ stamp' = [stamp EXCEPT ![r] = clock]
  /\ UNCHANGED <<clock, fetched, mssql, requests, work, topic, bc, handoff, mishaps>>

Request ==
  /\ requests < MaxRequests
  /\ requests' = requests + 1
  /\ UNCHANGED <<bigquery, fetched, mssql, work, topic, bc, handoff, mishaps>>

\* bigquery_bridge_worker._process: the callback builds a BigqueryBridge and
\* calls main.
Start(w) ==
  /\ requests > 0
  /\ At(w, "idle")
  /\ "overlap" \in Faults \/ \A v \in Workers : At(v, "idle")
  /\ requests' = requests - 1
  /\ Goes(w, [Idle EXCEPT !.pc = "markH"])
  /\ UNCHANGED <<bigquery, fetched, mssql, topic, bc, handoff, mishaps>>

Crash(w) ==
  /\ Mishap("crash")
  /\ ~At(w, "idle")
  /\ Return
  /\ Leave(w)
  /\ UNCHANGED <<bigquery, fetched, mssql, topic, bc, handoff>>

-----------------------------------------------------------------------------
(* __get_last_run_timestamp. *)

\* Variant: two seconds are added.
IsMarkPlusTwo(m, S) ==
  IF \E r \in S : Staged(r)
    THEN /\ \E r \in S : Staged(r) /\ m = stage[r] + 2
         /\ \A r \in S : Staged(r) => m >= stage[r] + 2
    ELSE m = 0

\* m is MAX(createdAt) of the table of S, plus a second; 0 if it has no rows.
IsMark(m, S) ==
  IF \E r \in S : Staged(r)
    THEN /\ \E r \in S : Staged(r) /\ m = stage[r] + 1
         /\ \A r \in S : Staged(r) => m >= stage[r] + 1
    ELSE m = 0

ReadHeaderMark(w) ==
  /\ At(w, "markH")
  /\ \E m \in 0..(MaxTime + 1) :
       /\ IsMark(m, Headers)
       /\ Goes(w, [work[w] EXCEPT !.pc = "markD", !.markH = m])
  /\ UNCHANGED <<bigquery, fetched, mssql, requests, topic, bc, handoff, mishaps>>

\* An empty detail table borrows the watermark of the headers.
ReadDetailMark(w) ==
  /\ At(w, "markD")
  /\ \E m \in 0..(MaxTime + 1) :
       /\ IsMark(m, Details)
       /\ Goes(w, [work[w] EXCEPT !.pc = "fetchH",
                                  !.markD = IF m = 0 THEN work[w].markH ELSE m])
  /\ UNCHANGED <<bigquery, fetched, mssql, requests, topic, bc, handoff, mishaps>>

\* Three attempts failed.  main() does not look at the error: it goes on without
\* the watermarks that could not be read.
MarksFail(w) ==
  /\ Mishap("marks")
  /\ At(w, "markH") \/ At(w, "markD")
  /\ Goes(w, [work[w] EXCEPT !.pc = "fetchH"])
  /\ UNCHANGED <<bigquery, fetched, mssql, requests, topic, bc, handoff>>

-----------------------------------------------------------------------------
(* __get_bigquery_data and __merge_duplicate_po_refs. *)

Since(S, m) == [r \in S |-> IF stamp[r] > m THEN stamp[r] ELSE 0]

FetchHeaders(w) ==
  /\ At(w, "fetchH")
  /\ Goes(w, [work[w] EXCEPT !.pc = "fetchD", !.markH = 0,
                             !.header = Since(Headers, work[w].markH)])
  /\ fetched' = clock
  /\ UNCHANGED <<bigquery, mssql, requests, topic, bc, handoff, mishaps>>

\* Of two headers of one reference, k is preferred to h or as good.  Whether the
\* reference has items does not tell them apart.
AtLeastAsGood(k, h, table) ==
  \/ Rank[k] > Rank[h]
  \/ Rank[k] = Rank[h] /\ table[k] >= table[h]

\* K is what is left when every reference keeps one of its best headers.
IsMerge(K, table) ==
  /\ \A h \in In(table) : \E k \in K : RefOf[k] = RefOf[h] /\ AtLeastAsGood(k, h, table)
  /\ \A h, k \in K : RefOf[h] = RefOf[k] => h = k

\* With nothing new the run ends, and the message is acked.
FetchDetails(w) ==
  /\ At(w, "fetchD")
  /\ fetched' = clock
  /\ LET table == work[w].header
         found == Since(Details, work[w].markD)
     IN IF In(table) = {} /\ In(found) = {}
          THEN Leave(w)
          ELSE \E K \in SUBSET In(table) :
                 /\ IsMerge(K, table)
                 /\ Goes(w, [work[w] EXCEPT !.pc = "checkD", !.markD = 0, !.detail = found,
                               !.header = [h \in Headers |-> IF h \in K THEN @[h] ELSE 0]])
  /\ UNCHANGED <<bigquery, mssql, requests, topic, bc, handoff, mishaps>>

\* main() returns the error of the fetch, and the message is acked.
FetchFails(w) ==
  /\ Mishap("fetch")
  /\ At(w, "fetchH") \/ At(w, "fetchD")
  /\ Leave(w)
  /\ UNCHANGED <<bigquery, fetched, mssql, requests, topic, bc, handoff>>

-----------------------------------------------------------------------------
(* __drop_already_inserted, for the details and then for the headers. *)

\* Variant: a detail in MSSQL drops every detail of its reference.
CheckDetailsByRef(w) ==
  /\ At(w, "checkD")
  /\ Goes(w, [work[w] EXCEPT !.pc = "checkH",
                             !.newD = {d \in In(work[w].detail) :
                                         \A e \in Of(In(work[w].detail), RefOf[d]) : ~Staged(e)}])
  /\ UNCHANGED <<bigquery, fetched, mssql, requests, topic, bc, handoff, mishaps>>

CheckDetails(w) ==
  /\ At(w, "checkD")
  /\ Goes(w, [work[w] EXCEPT !.pc = "checkH",
                             !.newD = {d \in In(work[w].detail) : ~Staged(d)}])
  /\ UNCHANGED <<bigquery, fetched, mssql, requests, topic, bc, handoff, mishaps>>

CheckHeaders(w) ==
  /\ At(w, "checkH")
  /\ LET there == {h \in In(work[w].header) : Staged(h)}
     IN Goes(w, [work[w] EXCEPT !.pc = "insertD", !.newH = In(work[w].header) \ there])
  /\ UNCHANGED <<bigquery, fetched, mssql, requests, topic, bc, handoff, mishaps>>

\* The query is outside every try: the exception leaves main, and the message is
\* nacked.
CheckFails(w) ==
  /\ Mishap("check")
  /\ At(w, "checkD") \/ At(w, "checkH")
  /\ Return
  /\ Leave(w)
  /\ UNCHANGED <<bigquery, fetched, mssql, topic, bc, handoff>>

-----------------------------------------------------------------------------
(* The insert loop of __insert_dataframes.  Each to_sql is a transaction. *)

Insert(S, table) == stage' = [r \in Rows |-> IF r \in S THEN table[r] ELSE stage[r]]

\* The AFTER INSERT trigger on CustomerPOULBQ.
Promote(S) ==
  \/ poul' = poul \cup S
  \/ "promote" \in Faults /\ UNCHANGED poul

\* What a failing insert of S may leave behind.
Leftover(S) == IF "chunks" \in Faults THEN SUBSET {r \in S : ~Staged(r)} ELSE {{}}

InsertDetails(w) ==
  /\ At(w, "insertD")
  /\ \A d \in work[w].newD : ~Staged(d)
  /\ Insert(work[w].newD, work[w].detail)
  /\ Goes(w, [work[w] EXCEPT !.pc = "insertH"])
  /\ UNCHANGED <<bigquery, fetched, poul, requests, topic, bc, handoff, mishaps>>

\* Variant: the conflicting row stays in the table.
Unpruned(S, c) == S

\* An IntegrityError about row c drops every row of its reference from S, if the
\* reference can be read from the text of the error.
Pruned(S, c) ==
  IF RefOf[c] \in OddRefs THEN S ELSE S \ Of(S, RefOf[c])

DetailConflict(w) ==
  /\ At(w, "insertD")
  /\ \E c \in work[w].newD :
       /\ Staged(c)
       /\ \E S \in Leftover(work[w].newD) : Insert(S, work[w].detail)
       /\ Goes(w, [work[w] EXCEPT !.newD = Pruned(@, c)])
  /\ UNCHANGED <<bigquery, fetched, poul, requests, topic, bc, handoff, mishaps>>

InsertHeaders(w) ==
  /\ At(w, "insertH")
  /\ \A h \in work[w].newH : ~Staged(h)
  /\ Insert(work[w].newH, work[w].header)
  /\ Promote(work[w].newH)
  /\ Goes(w, [work[w] EXCEPT !.pc = "verify", !.newD = {}])
  /\ UNCHANGED <<bigquery, fetched, requests, topic, bc, handoff, mishaps>>

\* The loop starts over, with the details it has already inserted.
HeaderConflict(w) ==
  /\ At(w, "insertH")
  /\ \E c \in work[w].newH :
       /\ Staged(c)
       /\ \E S \in Leftover(work[w].newH) : Insert(S, work[w].header) /\ Promote(S)
       /\ Goes(w, [work[w] EXCEPT !.pc = "insertD", !.newH = Pruned(@, c)])
  /\ UNCHANGED <<bigquery, fetched, requests, topic, bc, handoff, mishaps>>

\* record_handoff: one record, of the status s[r], per reference of the headers
\* that are still in the table.
Records(w, s) ==
  handoff' = [r \in Refs |-> IF r \in RefsOf(work[w].newH) THEN handoff[r] \cup {s[r]}
                                                           ELSE handoff[r]]

Error == [r \in Refs |-> "error"]

\* Any other exception in the loop is recorded; main() returns it, and the
\* message is acked.
InsertFails(w) ==
  /\ Mishap("insert")
  /\ \/ /\ At(w, "insertD")
        /\ \E S \in Leftover(work[w].newD) : Insert(S, work[w].detail)
        /\ UNCHANGED poul
     \/ /\ At(w, "insertH")
        /\ \E S \in Leftover(work[w].newH) : Insert(S, work[w].header) /\ Promote(S)
  /\ Records(w, Error)
  /\ Leave(w)
  /\ UNCHANGED <<bigquery, fetched, requests, topic, bc>>

-----------------------------------------------------------------------------
(* __verify_trigger_promotion, __trigger_so_import and record_handoff. *)

\* Variant: the staging table is asked instead of CustomerPOUL.
StagedRefs(w) == {r \in RefsOf(work[w].newH) : \E h \in Headers : Staged(h) /\ RefOf[h] = r}

\* The references in the table that CustomerPOUL knows.
PromotedRefs(w) == {r \in RefsOf(work[w].newH) : \E h \in poul : RefOf[h] = r}

\* If the check fails, nothing is known of any of them.
Verify(w) ==
  /\ At(w, "verify")
  /\ \/ /\ Goes(w, [work[w] EXCEPT !.pc = "publish", !.checked = TRUE,
                                    !.promoted = PromotedRefs(w)])
        /\ UNCHANGED mishaps
     \/ Mishap("verify") /\ Goes(w, [work[w] EXCEPT !.pc = "publish"])
  /\ UNCHANGED <<bigquery, fetched, mssql, requests, topic, bc, handoff>>

\* The orders of the tables as they were fetched, for the companies that BC knows.
\* An order without a detail in this fetch is held back.
OrdersOf(w) ==
  {[ref |-> RefOf[h], lines |-> Of(In(work[w].detail), RefOf[h])] :
     h \in {h \in In(work[w].header) :
             Rank[h] = 2 /\ Of(In(work[w].detail), RefOf[h]) # {}}}

\* publish() returns a future; a message that is never delivered goes unnoticed.
Publish(w) ==
  /\ At(w, "publish")
  /\ \/ topic' = topic \cup OrdersOf(w) /\ UNCHANGED mishaps
     \/ Mishap("unsent") /\ UNCHANGED topic
  /\ Goes(w, [work[w] EXCEPT !.pc = "record", !.header = Idle.header, !.detail = Idle.detail])
  /\ UNCHANGED <<bigquery, fetched, mssql, requests, bc, handoff>>

\* publish() itself raises, which is taken for a failed insert.
PublishFails(w) ==
  /\ Mishap("publish")
  /\ At(w, "publish")
  /\ Records(w, Error)
  /\ Leave(w)
  /\ UNCHANGED <<bigquery, fetched, mssql, requests, topic, bc>>

\* Variant: the mssql_status is written in its place.
MssqlStatus(w) == [r \in Refs |-> "inserted"]

\* The trigger_status of an inserted header.
Promotion(w) ==
  [r \in Refs |-> IF ~work[w].checked THEN "unknown"
                  ELSE IF r \in work[w].promoted THEN "promoted" ELSE "not_promoted"]

\* A failing write of the history is swallowed.  The message is acked.
Record(w) ==
  /\ At(w, "record")
  /\ \/ Records(w, Promotion(w)) /\ UNCHANGED mishaps
     \/ Mishap("record") /\ UNCHANGED handoff
  /\ Leave(w)
  /\ UNCHANGED <<bigquery, fetched, mssql, requests, topic, bc>>

-----------------------------------------------------------------------------
(* The SO import, as far as the bridge is concerned. *)

\* _create_order finds or creates the order and adds the lines it does not have.
\* How it does that, and what it does when BC refuses, is module SoImport.
Import(o) ==
  /\ o \in topic
  /\ topic' = topic \ {o}
  /\ orders' = orders \cup {o.ref}
  /\ lines' = lines \cup o.lines
  /\ UNCHANGED <<bigquery, fetched, mssql, requests, work, handoff, mishaps>>

\* Variant: there is no backfill.
NoBackfill(h) == FALSE /\ UNCHANGED vars

\* _run_backfill_from_cloudsql, for one header of CustomerPOUL: if its reference
\* has no order in BC, one is created, with the details that are in
\* CustomerPOULDetailBQ.  If there are none, or they cannot be read, it has none.
Backfill(h) ==
  /\ h \in poul
  /\ Rank[h] = 2
  /\ RefOf[h] \notin orders
  /\ orders' = orders \cup {RefOf[h]}
  /\ \/ /\ lines' = lines \cup {d \in Of(Details, RefOf[h]) : Staged(d)}
        /\ UNCHANGED mishaps
     \/ Mishap("details") /\ UNCHANGED lines
  /\ UNCHANGED <<bigquery, fetched, mssql, requests, work, topic, handoff>>

-----------------------------------------------------------------------------
Step(w) ==
  \/ ReadHeaderMark(w) \/ ReadDetailMark(w) \/ FetchHeaders(w) \/ FetchDetails(w)
  \/ CheckDetails(w) \/ CheckHeaders(w)
  \/ InsertDetails(w) \/ DetailConflict(w) \/ InsertHeaders(w) \/ HeaderConflict(w)
  \/ Verify(w) \/ Publish(w) \/ Record(w)

Fail(w) ==
  \/ Crash(w) \/ MarksFail(w) \/ FetchFails(w) \/ CheckFails(w)
  \/ InsertFails(w) \/ PublishFails(w)

Next ==
  \/ Tick
  \/ \E r \in Rows : ServeAgain(r) \/ \E t \in Times : Appear(r, t)
  \/ Request
  \/ \E w \in Workers : Start(w) \/ Step(w) \/ Fail(w)
  \/ \E o \in topic : Import(o)
  \/ \E h \in Headers : Backfill(h)

Spec == Init /\ [][Next]_vars

(* A run goes on by itself.  Runs keep being asked for: by the next upload, or by
   hand.  Pub/Sub delivers what waits, the SO import works off its messages, and
   the backfill is a scheduled job. *)
Fairness ==
  /\ WF_vars(Request)
  /\ \A w \in Workers : WF_vars(Step(w)) /\ WF_vars(Start(w))
  /\ \A o \in Order : WF_vars(Import(o))
  /\ \A h \in Headers : WF_vars(Backfill(h))

LiveSpec == Spec /\ Fairness

-----------------------------------------------------------------------------
(* Properties. *)

\* Every variable keeps its shape, and only headers that are staged are promoted.
TypeOK ==
  /\ clock \in Times
  /\ stamp \in [Rows -> Times]
  /\ fetched \in Times
  /\ stage \in [Rows -> Times]
  /\ poul \subseteq {h \in Headers : Staged(h)}
  /\ requests \in Nat
  /\ work \in [Workers -> Work]
  /\ topic \subseteq Order
  /\ orders \subseteq Refs
  /\ lines \subseteq Details
  /\ handoff \in [Refs -> SUBSET Status]
  /\ mishaps \in 0..MaxMishaps

\* The next fetch returns row r of the table of S, whatever S holds by now.
Newer(r, S) == \A m \in 0..(MaxTime + 2) : IsMark(m, S) => stamp[r] > m

\* The watermark never passes a header that was not staged, unless a header of
\* the same reference was, and of a company at least as good: a run that dies or
\* fails leaves its headers to a later fetch, although later rows may be there by
\* then (__get_last_run_timestamp, __merge_duplicate_po_refs).
HeadersKept ==
  \A h \in Headers : Visible(h) /\ ~Staged(h) =>
    \/ Newer(h, Headers)
    \/ \E k \in Headers : Staged(k) /\ RefOf[k] = RefOf[h] /\ Rank[k] >= Rank[h]

\* The same for details, while runs do not overlap: no detail is passed over,
\* neither by the watermark of its own table nor by the one borrowed from the
\* headers while that table is empty.
DetailsKept ==
  \A d \in Details : Visible(d) /\ ~Staged(d) =>
    /\ Newer(d, Details)
    /\ (\A e \in Details : ~Staged(e)) => Newer(d, Headers)

\* When a header is staged, and its trigger fires, every detail of the reference
\* that is not younger than the header is staged already (the order of the two
\* inserts in __insert_dataframes).
LinesBeforeHeader ==
  [][\A h \in Headers : ~Staged(h) /\ stage'[h] # 0 =>
       \A d \in Of(Details, RefOf[h]) :
         Visible(d) /\ stamp[d] <= stage'[h] => Staged(d)]_vars

\* A reference is recorded as promoted only if it is in CustomerPOUL, whatever the
\* trigger did (__verify_trigger_promotion).
PromotedIsTrue ==
  \A r \in Refs : "promoted" \in handoff[r] => \E h \in poul : RefOf[h] = r

\* Every run comes to an end: the retries over duplicate keys use up the tables.
EveryRunEnds == \A w \in Workers : ~At(w, "idle") ~> At(w, "idle")

\* A reference of a company BC knows gets a sales order with at least one line,
\* whichever steps of whichever runs fail, if its details came before its header:
\* what the bridge did not publish, the backfill finds in MSSQL.
EveryOrderEnters ==
  \A h \in Headers :
    Rank[h] = 2 /\ Of(Details, RefOf[h]) # {} =>
      (Visible(h) ~> \E d \in lines : RefOf[d] = RefOf[h])

\* An order that the bridge holds back because its details have not arrived waits
\* for them: no sales order is without lines.
NoEmptyOrder == \A ref \in orders : \E d \in lines : RefOf[d] = ref

=============================================================================
