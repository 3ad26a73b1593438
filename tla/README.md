# Verification of rgmc-worker-pool

The worker pool consumes four Pub/Sub subscriptions and writes to Business
Central (BC), Firestore, Cloud Storage and MSSQL (`src/src/main.py`). This
directory holds TLA+ models of its control logic, the TLC runs that check them
and the TLAPS proofs about them.

## 1. Inventory

| part | state it keeps | operations | talks to |
|---|---|---|---|
| `workers/so_import_worker.py` | none of its own; the locals of one callback at a time (`max_messages=1`) | batch import, buffer reprocess, Cloud SQL line sync, Cloud SQL backfill, ship-to fixes, file retrigger | BC orders, `so_buffer`, `so_buffer_history`, handoff history, `reprocess_runs`, MSSQL |
| `services/so_buffer.py` | Firestore documents, one per slug of the PO reference: header, outstanding lines, `so_number`, `attempt_count` | save (upsert), list per company, delete | called by the SO import only; edited by the `/reconcile` page |
| `services/reprocess_status.py` | one document per run id: `processing`, `done`, `error` | `start_run`, `finish_run` | polled by the `/reconcile` page |
| `services/bridge_handoff_history.py` | one record per handed-over PO: `bc_status` and run data | `record_handoff` (bridge), `update_bc_status` (SO import), `record_single_handoff` (retrigger) | Firestore |
| `workers/order_worker.py`, `services/task_service.py` | one Firestore task document per order task | create header, post lines, roll back, report | BC orders, task documents |
| `workers/bigquery_bridge_worker.py`, `services/bridge_run_lock.py` | one lock document per group code: status and start time | `try_start`, `finish` | the bridge |
| `services/bigquery_bridge.py` | MSSQL rows (the watermark is their newest `createdAt`) | fetch, dedupe, insert details, insert headers, publish a batch, record the handoff | BigQuery, MSSQL, Pub/Sub |
| `workers/sync_worker.py`, `services/price_firestore_service.py`, `gcs_catalog.py`, `price_overlay.py` | Firestore prices and `lastSyncAt`, GCS blobs | full and delta catalogue sync | BC, Firestore, GCS |
| `services/bc_client.py` | token cache, company cache, a semaphore of 4 | request with retries, paging | BC |
| `services/retrigger_client.py`, `gcp_api_client.py` | none of their own; the staging tables `CustomerPOULBQ` and `CustomerPOULDetailBQ` behind rgmc-gcp-api | delete and insert the staging rows of a reference, ask whether it was promoted, read headers and details | BigQuery, rgmc-gcp-api |
| `services/shipto_fixes.py`, `session_history_verify_service.py`, `so_buffer_overrides.py`, `sbic_db.py` | Firestore queues and override documents, MSSQL reads | queue processing | BC, MSSQL |
| `send_mail.py`, `bot_notify.py`, `health.py`, `logger.py`, `config.py`, `db/dbconn.py` | none that the rest depends on | mail, chat, health probe | |

How they interact: the bridge worker copies purchase orders from BigQuery to
MSSQL, publishes a batch on the SO-import subscription and then records the
handoff; the SO import creates the orders in BC and patches that record; what
it cannot settle goes to the buffer, which every later batch and every
reprocess request reads again. The maintenance requests of the same subscription
work around that chain: a *sync* adds the missing lines to orders that exist, a
*backfill* creates the orders that do not, both from the rows in Cloud SQL, and a
*retrigger* renews the staging rows of a file and then syncs and backfills. Order
tasks are independent of all this and share only the BC client with it.

What is hard: every message is delivered at least once and its callback may
outlive its lease; BC has no transaction over a header and its lines; replies
get lost; Firestore errors are swallowed; several instances of the process may
run; people edit master data, buffer documents and orders between two passes.

### What makes each part correct

* *Import.* One sales order per purchase order; every line once; no line lost
  between an acked message, the buffer and BC; no line on a foreign order;
  `created` only for complete orders; every batch acked in the end.
* *Maintenance requests.* The same for syncs, backfills and retriggers, which share
  orders and buffer with the batches but do not read the buffer; `resolved` only for
  complete orders; staging rows that were deleted come back.
* *Order tasks.* A task reported `done` names a whole order; a failed task
  leaves nothing in BC; every acked task was reported; every task is settled.
* *Run lock.* Automated runs keep their distance, and a lock that was left
  behind blocks nobody for long.
* *Bridge.* Every row BigQuery serves reaches MSSQL once and, with its lines,
  the SO import at least once; the watermark never passes a row that was lost.
* *Catalogue.* Firestore and GCS end up with the same prices BC has; no change
  falls between two deltas; no product is lost when it changes its family.
* *BC client.* No caller sees half of a paged result; a token that is refused is
  refreshed; a caller of a POST can tell what BC did; the semaphore and the locks are
  given back on every path.

`PROJECT.json` lists the hazards at their lines, with the properties that would
catch each of them going wrong; a hazard without a property says why.

## 2. Modules

| module | models | extended by |
|---|---|---|
| `SoImport` | batches and reprocess requests of `so_import_worker.py`, with `so_buffer.py`, `so_buffer_history.py`, `reprocess_status.py` and the two entry points of `bridge_handoff_history.py` they use | `SoWorker`, `SoImportProofs` |
| `SoWorker` | the whole subscription: `SoImport` and the sync, backfill and retrigger requests, with `retrigger_client.py` and `gcp_api_client.py` | `MCSoWorker`, `SoWorkerProofs` |
| `SoLedger` | what the import promises about lines: the abstract specification `SoWorker` implements | instantiated by `SoWorker` |
| `OrderWorker` | `order_worker.py` and `task_service.py` | `MCOrderWorker`, `OrderWorkerProofs` |
| `BridgeLock` | `bridge_run_lock.py` and `bigquery_bridge_worker.py` | `MCBridgeLock`, `BridgeLockProofs` |
| `Bridge` | a run of `bigquery_bridge.py` for group code customerpoul, and the Cloud SQL backfill that picks up what a run held back | `MCBridge`, `BridgeProofs` |
| `BcClient` | `bc_client.py` under threads: token, company list, semaphore, retries, paging | `MCBcClient`, `BcClientProofs` |
| `CatalogSync` | the catalogue sync of a company in `sync_worker.py`, with `price_firestore_service.py`, `gcs_catalog.py` and `price_overlay.py` | `MCCatalogSync`, `CatalogSyncProofs` |

Each component module declares its parameters as CONSTANTS with one named
assumption, gives every operation an action of its own and closes with its
properties. `MC...` modules give the constants their small values, and one
`.cfg` per question picks the values, the faults and the properties. The
constant `Faults` says what the environment may do; a run or a theorem names
the faults it allows, so that what a property depends on can be read off.
Operators marked "Variant" change one definition the way a plausible bug would.
They are not used by the specification: they show, in place of the definition
they vary, that each property can fail.

### 2.1 SoImport

| state | code |
|---|---|
| `msgs` | what Pub/Sub knows of a message: to be delivered, leased to a callback, acked |
| `work` | the locals of a running callback: program counter, the orders still to do (`all_orders`), the current order with its buffer document id and known `so_number`, the lines to post (`todo`), `remaining_lines` (`left`), the inactive lines (`out`) |
| `orders` | sales orders in BC: purchase order, how often each line is on it, whether BC lets it change |
| `buffer` | the documents of `so_buffer_{env}` by document id |
| `blocked` | lines recorded as `blocked_in_bc` in `so_buffer_history` |
| `excluded` | lines that a settled pass dropped as inactive (history variable: the code only mails them) |
| `handoff` | `bc_status` of the handoff records |
| `run` | the status of `reprocess_runs` documents, for the messages that have a run id (`RunIds`) |

`Deliver` to `FinishBatch` follow `_process` and `_run_batch`; `FindExisting`,
`Resume`, `CreateHeader` and `PostLine` are the requests `_create_order` makes,
one action per request; `SettleOrder`, `SettleLocked` and `SettleFailed` are
its three ends (return, `_handle_order_locked`, exception), each with the first
Firestore call it makes: the delete of the document, the record in the history, or the
read with which `save_failed_order` begins (`Keeps`). `Keep` is the write that follows
this read, under the number the read found; `Drop` is the delete that follows the
history record of a locked order; `ReportOrder` is the patch of the handoff record.
Every other call is a step of its own, but for three pairs:
the order and its lines in `Resume`, the search for the order and its detail rows in a
sync (`LookUp`), and the query and patch of `update_bc_status` (`ReportOrder`). The first
two pairs only read; of the third, two callbacks on one purchase order could both see the
record pending, and the later patch would win, where the model keeps the earlier.
`Crash`, `LeaseExpires` and `Retrigger` belong to Pub/Sub and to the
API; `RecordHandoff`, `ChangeStatus` and `EnterByHand` to the bridge and to
people working in BC.

Abstractions. A purchase order, a line, an item and a document id are model
values; `DocIdOf` and `ItemOf` say which of them the code cannot tell apart,
and `LongRefs` which references do not survive the cut at 35 characters. Which
lines resolve to an item and which items are inactive is master data that
people edit, so `EnterLines` allows every split on every pass. Quantities,
prices, dates and the ship-to choice are left out: they decide nothing about
which calls are made, except that an order without a ship-to match fails,
which is one of the failures of `CreateHeader`. Retries on 409 are part of
their request.

### 2.2 SoWorker and SoLedger

`SoWorker` EXTENDS `SoImport`: the callbacks are the same (`max_messages=1` covers
every message type), so each of its actions is an action here, and a request is a
message without a batch that never enters the branches of a reprocess request.

| state | code |
|---|---|
| `visit` | the locals only requests have: in which loop the callback stands, the references to insert again, the one in hand, those that went well (`successful_refs_by_company`), the rows that raised (`retry_headers`) |
| `poul` | references with a header row in `CustomerPOUL` |
| `staged` | references with their rows in `CustomerPOULDetailBQ` |
| `settled`, `resolved` | history variables: what a sync or backfill reported as dealt with, and what a sync recorded in `so_buffer_history` as `resolved` |

`BeginSync`, `TakeRow`, `SettleSynced`, `SyncRaised` and `RetryRows` are
`_run_sync_from_cloudsql` with `_sync_order_from_cloudsql`. The end of the latter is a
step per call: when nothing remains, `SettleSynced` asks whether the document is there
(`Complete`), `ClearSynced` deletes it and `RecordResolved` writes the history; otherwise
it settles like a batch. `BeginBackfill`, `CheckRow` and `SettleBackfilled` are
`_run_backfill_from_cloudsql`; `SettleVisited` is `Keep` or `Drop` of either; `BeginRetrigger`
to `FollowUp` are `_run_retrigger_file`, call by call. The loop over the lines of a
sync and the body of `_create_order` are the same requests to BC, so both use
`Resume`, `FindExisting`, `CreateHeader` and `PostLine` of `SoImport`. A row of a sync
carries the id of its buffer document although the sync does not read it, because it
writes or deletes that document at its end (`:1273`); a row of a backfill carries
none. `Lapses` is what Cloud SQL and BigQuery may do, next to `Faults`.

`SoLedger` keeps four books: purchase orders *opened* in BC, lines *entered* on an
order, lines *kept* (a message that is not acked or a buffer document names them) and
lines *closed* for a stated reason (blocked in BC, inactive). A step opens one
purchase order, enters one line on an opened one, or settles: lines may leave *kept*
only if they are entered or closed. The refinement mapping (`Ledger` in `SoWorker`)
reads `opened` and `entered` off the orders, `kept` off the buffer and the messages,
and `closed` off `blocked` and `excluded`. So the deletions, overwrites, redeliveries
and second passes of every kind of message come down to three steps.

### 2.3 OrderWorker

`work` holds the locals of a callback, `orders` the orders in BC (the task that
created them and the lines posted, in order), `tasks` the task documents.
`Begin`, `CreateHeader`, `PostLine`, `Rollback`, `Finish`, `Reject`,
`HandleError` and `Ack` are the statements of `_process` that leave the
process; the program counter between them is where a crash can hit. `_process`
looks at the *text* of an exception to tell transient errors from others;
`HandleError` leaves that choice open. An update of a task document merges
fields, so `result` and `error` of earlier deliveries stay (`Done`, `Failed`).
Ids of deleted orders may be handed out again in the model, which BC does not
do; this only adds behaviours.

### 2.4 BridgeLock

Time is kept as ages that stop growing one tick after `STALE_AFTER`, the first
age at which nothing changes any more (`Old`). `Pass` reads the document and
takes `now`; `Mark` writes it with that `now`, possibly later; between them is
the gap the code has. `quiet` (the age of the latest begin of an automated run) is
a history variable of the properties. A bridge run is left to its outcome:
`main()` returns whatever status and the message is acked, or it raises and the
message is nacked. `spoilt` is the other history variable: since the last long quiet
with all callbacks idle, two callbacks overlapped or a call on the lock failed. Only
then may the cooldown be cut short.

### 2.5 Bridge

| state | code |
|---|---|
| `clock`, `stamp` | time in seconds, and the `created_at` under which BigQuery serves a header or detail row (0: not there) |
| `fetched` | when BigQuery was last asked; only the condition on new rows (`Orderly`) reads it |
| `stage` | `createdAt` of the rows in `CustomerPOULBQ` and `CustomerPOULDetailBQ` |
| `poul` | the headers the AFTER INSERT trigger promoted into `CustomerPOUL` |
| `requests`, `work` | run messages that wait, and the locals of the runs: watermarks, fetched tables, tables pruned by the pre-check, `promoted_map` |
| `topic` | orders published and not imported yet |
| `orders`, `lines` | references with a sales order in BC, and the details on one |
| `handoff` | the outcomes recorded per reference |
| `mishaps` | how many failures may still strike |

`ReadHeaderMark` to `Record` are the queries, inserts and calls of `main()` in
their order, one action each; `MarksFail`, `FetchFails`, `CheckFails`,
`InsertFails` and `PublishFails` are their error paths, which end differently
(go on without watermark, ack with an error, nack). `DetailConflict` and
`HeaderConflict` are the two ends of the retry loop over duplicate keys: the
conflicting reference is dropped and the loop starts over, with the details again
after a header conflict. `Appear` and `ServeAgain` belong to the document pipeline,
`Import` and `Backfill` to the SO import, as far as the bridge is concerned.

The columns of a row are left out, except its key, its reference, its stamp and
the company (`Rank`: served by BC, known, none), which is what the merge of two
headers of one reference looks at. The pre-check compares composite keys; that a
key is a model value makes the comparison exact, as it is for keys that survive
`strip` and `str`. `OddRefs` are references that the text of a duplicate-key error
does not give back.

### 2.6 CatalogSync

| state | code |
|---|---|
| `clock` | the time in seconds, the grain of `_now_utc` |
| `item`, `list` | what BC has: the second of the last change, which stands for the content; the family of an item or that it is blocked; whether a list is active on `on_date` |
| `since` | `lastSyncAt` of `item_prices` and of `price_list_headers` in `sync_state_{env}` |
| `prices`, `listed`, `lines` | the documents of `item_prices`, which of them carry the price of a list, the documents of `price_list_items` per list |
| `blobs`, `index`, `shown` | `families/{family}.json`, `families/_index.json`, `prices.json` |
| `work` | the locals of a callback: how far each parallel stage is, the overlay and the items it fetched, the previous and the new prices, the families to rebuild |
| `cut` | history variable: since the last full rebuild without failure, some rebuild was cut short |

`FetchHeaders` to `EndLists` are stage 1, `FetchItems` and `StoreItems` stage 2,
which run in parallel, `Assemble` to `SaveShown` stage 5 with one action per family
blob, and `Patch` is stage 6. `FailLists` and `FailItems` are the two exception
handlers, after which the sync goes on with what it has; `FailLists` is also the nack
of a line-only message. The calls of Cloud Storage catch their exceptions, so their
failures are choices inside the steps (`Swallows`). `FailItems`, `Patch` and `Crash`
leave any part of the documents of a batch writer written.

A record of a blob is priced from the list that covers its item and wins (`Rank`, the
start dates), or from BC's own price, and `changed` is its `priceChangedAt`. The list
code of a price is left out, and so are documents nothing reads back (headers,
`catalog.json`, the search index, `price_overrides`).

### 2.7 BcClient

| state | code |
|---|---|
| `call` | one use of the client by a thread: what it calls, where it stands, `attempt`, the token in its headers, the 502 and 503 before the last answer (`gateways`, a history variable), `restarts`, the place in the list and the records it has |
| `slots` | permits of `_bc_semaphore` |
| `tokens`, `fresh`, `authing` | `_token_cache` as the number of the cached token, whether it has more than a minute left, and who holds `_token_lock` |
| `companies`, `listing` | `_companies_cache` (none, fresh, older than its TTL) and who holds `_companies_lock` |
| `refused`, `items`, `changes` | BC: the tokens it no longer honours, the records it lists, and how much may still change |
| `applied` | history variable: how often BC applied the request of a post |

`Send` takes a slot and `Lands` gives it back; what comes with the answer is an action
per kind: `Succeeds`, `PageArrives`, `RangeArrives`, `Conflict` (409), `TryAgain` (401,
429, 502, 503), `Rejected` (any other status) and `Breaks` (the request raises).
`UseToken` to `TokenFails` are `get_access_token`, `FindCompany` and `EnterListing`
are `get_company_id` and `_fetch_companies`, whose lock is held over the request it
makes. A token is its number, so that "the same token again" can be said. The list is
a set of keys in their order; a page by `nextLink` is cut from the list of the moment
its cursor was opened, a page by offset from the list as it is.

`_bc_request` returns the last response and nothing of those before it, so a caller cannot
tell how often BC applied its post: a 201 after a 503 may be the second application, and a
400 after a 502 may hide the first. `OnlyGatewaysRepeat` says what does hold: only a 502
or 503 leads to another application, a success was applied at least once, and no post is
applied more than `max_retries + 1` times. What follows for orders and lines is in the
fault `resend` of the modules that post.

A call is a use of the client, not a thread: a thread that makes another call is
another element of `Calls`, and the caches outlive the calls.

## 3. Runs

| run | instance | checks | shows |
|---|---|---|---|
| `SoServe` | 1 callback, 1 purchase order of two lines with a handoff record; a batch, a reprocess request and a retrigger, each of which can be asked for again; crashes, lost replies, orders released and reopened, a trigger that promotes nothing | `SoTypeOK` `AtMostOneOrder` `NoLineTwice` `CreatedMeansComplete` `NoLostLine` `ResolvedMeansPresent` `SettledMeansAccounted` `RowsAreOwed` | whichever of the message types works on an order, in whatever order and however often, nothing is duplicated, lost, or reported too early |
| `SoPair` | 1 callback, 2 purchase orders with the same item and a document each; a batch and a sync on one, a backfill on the other; failing Firestore, failing pre-fetches | `OwnLinesOnly` `BufferPointsHome` `EveryBatchSettles` `EveryRunEnds` | no order number travels between purchase orders, and the worker settles everything under the fairness of section 4 |
| `SoOverlap` | 2 callbacks on one message of two lines; failing lookups, lost replies, orders entered by hand | `BufferNeverForgets` `LedgerSpec` | two passes over the same buffer document lose no line, and the worker implements the ledger |
| `BridgeOrder` | 1 run at a time, a header with two details and, of another reference, a header without any, 4 seconds; one crash or failing call of any kind, rows served again | `TypeOK` `HeadersKept` `DetailsKept` `LinesBeforeHeader` `EveryOrderEnters` | no header and no detail is passed over by a watermark, the borrowed one included, details are staged before their header, and the order reaches BC with a line |
| `BridgeRace` | 2 runs at once, two headers of one reference (one of a company BC serves) and a detail, 3 seconds; a trigger that promotes nothing, a failing read of the backfill | `PromotedIsTrue` `EveryRunEnds` | the history is right about the promotion, and duplicate-key conflicts between runs come to an end |
| `BridgeHeldBack` | 1 run at a time, a header that becomes visible before its detail | `NoEmptyOrder` violated | the backfill creates the order of a header whose details are still to come |
| `OrderDone` | 2 callbacks on one task of two lines; every fault but `resend` | `DoneIsWhole` | `done` names a whole order of the task, whatever other deliveries do |
| `OrderLive` | 1 callback, 2 tasks of one line; crashes, requests that raise, lost replies, POSTs sent twice, refusals because BC is busy, failing rollbacks | `AckedIsTerminal` `EveryTaskSettles` | nobody polls for ever on an acked task, and every task is acked |
| `OrderRollback` | 1 task of two lines; requests that raise | `SettledMatchesBC` violated | an exception on a line fails the task and leaves its order behind |
| `LockShared` | 2 callbacks, 2 triggers, 1 manual request; crashes, overlaps, failing reads and writes of the lock | `TypeOK` `CooldownKept` `SkipIsJustified` | automated runs keep the cooldown until something spoils it, and a trigger is dropped only after a recent automated run |
| `CatalogSync` | 1 callback, 2 items, 2 families, 1 price list on one of the items, 3 seconds; routine syncs and line-only messages; two events out of changes in BC, crashes and failing calls of each kind | `ItemsKept` `ListsKept` `CopiesAgree` `PriceChangeStamped` `EverythingArrives` | no change falls between two deltas, an item is in the blob of its family only, price changes are stamped, and what changes arrives |
| `BcClient` | 2 threads, 1 slot, 2 retries, 1 restart, pages of two records, 2 records listed and a third that may appear before them; one change out of a record that appears or goes, a token that ends or is refused, a company list that ages | `BcTypeOK` `PermitsAccounted` `OnlyGatewaysRepeat` `PagesAreWhole` `RangeMissesNothing` `RefusedIsReplaced` `ListedOnce` `EveryCallReturns` | nothing but a 502 or 503 makes BC apply a post again, a paged list is whole or the call fails, and every thread comes back |

Why these bounds. In the import, a second order or a second copy of a line needs
two passes over one purchase order, and a lost line needs two lines that end
differently; the reprocess request and the retrigger can be triggered again without
limit, so the number of passes is not bounded. In `SoServe` `OrderNos` has one number
more than purchase orders, so that a duplicate can show; when the numbers are used up,
`CreateHeader` can only fail. In `SoOverlap` one number suffices: its properties are
about lines and the buffer, and with overlap a duplicate order is known to be
possible. `SoPair` is about what passes between two purchase orders, and one line each
is enough for that. A batch that meets a sync and a backfill of the same order is in
`SoServe`, where they follow a retrigger. Two callbacks
are enough to put any step of one between any two steps of the other. In
`OrderWorker` the second line is the one whose failure needs a rollback. In
`BridgeLock` a cooldown of 2 ticks and a stale age of 4 keep all orders of the
two thresholds apart, and a tick may fall between any two steps.

In `BridgeOrder`, `MaxTime` 4 is the least that lets a watermark pass a row: a row is
visible and fetched at second 2, another becomes visible at second 4 before the first is
staged, and a watermark a second too high, as in the mutant, loses it. The header without
details is what makes the detail watermark a borrowed one: once it is staged, the detail
table is still empty. In `BridgeRace` rows come before one fetch only; 3 seconds suffice
for a duplicate key between two runs, because both may fetch the same row, and for what
the trigger did. That overlapping runs pass over no header is therefore not asked of that
run; it is proved (`HeadersAreKept`), the merge of two headers of one reference included.
`MaxRequests` 1 with the fairness of `Request` still gives any number of runs, one
after another or, with two workers, two at once. `MaxMishaps` 1 lets every single
failure strike at every step; it has to be finite, because a failure that strikes
for ever leaves no liveness to check, and the proofs do without a bound.

In `BcClient` two threads and one slot make everybody wait for everything; two retries
and one restart are enough to have a first and a last one of each, and with two records
in pages of two the next page is empty or, when a record appears in front of the others
during the reading, repeats one. One change bounds what happens around the client, not
what BC answers. The theorems have no such bound.

In `CatalogSync` the number of messages is not bounded, and `MaxTime` 3 puts the first
sync, a change and the next watermark in three different seconds or in the same one.
`MaxEvents` 2 bounds changes and failures together: one change during a sync whose
other stage fails, a family change after a list change, a crash after a change. The
second item is the one without a price list; with a second list the run takes three
times as long and finds nothing new.

Symmetry is used where the constants of a run treat the permuted values alike
(order numbers, workers, and lines when every line has an item of its own), and
never in runs with liveness properties. `CHECK_DEADLOCK FALSE` stands in
the `So` runs, `BcClient`, the `OrderWorker` runs and the `Bridge` runs: with every message
acked and nothing triggered again, or at the end of the clock with a run request
waiting and everything imported, the system rests.

## 4. Fairness

`SoWorker.SoFairness`: a callback goes on (weak fairness of `SoStep`, and of what
follows a successful start), because the code is straight-line with request timeouts
and bounded retries; Pub/Sub delivers a message again until it is acked (strong
fairness of `Deliver`, because another message may hold the only callback in
between); the process does not crash for ever; and the reads a message starts with
succeed at some delivery (strong fairness of `Begin`). The last is a condition on BC,
MSSQL and Firestore: if they fail at every delivery, the code nacks for ever, and
nothing bounds the number of deliveries. Nothing is assumed of what happens inside
the loops: lookups, creations and Firestore writes may fail at every pass.

`OrderWorker.Fairness`: the same for `Step`, crashes and delivery, and for every task and
line, if its request is made again and again it is answered at some time. An answer may
be a refusal; without this a `ConnectionError` at every delivery nacks for ever. Delivery
is strongly fair because the other task holds the one callback in between. The run has no
failing Firestore writes: they may strike for ever.

`BcClient.BcLiveSpec`: a thread keeps running (weak fairness of `ThreadStep`); requests
have timeouts, so one in flight lands. No fairness is needed among the threads that
wait for a slot or a lock, because each makes a bounded number of requests, and every
answer may be the worst one.

`Bridge.Fairness`: a run goes on (`main` is straight-line code with bounded
retries), Pub/Sub delivers what waits (`Start`), runs keep being asked for
(`Request`: the next upload asks for one, and people do), the SO import works off
its messages (`Import`), and the backfill runs (`Backfill`: the Cloud Scheduler job
named at `bigquery_bridge.py:424`). Failures strike at most `MaxMishaps` times, and
crashes are among them.

`CatalogSync.Fairness`: the stages go on (threads of straight-line code), and a routine
sync starts again and again (strong fairness of `Start`, because line-only messages
compete for the one callback; the routine sync is scheduled).

## 5. Proofs

Checked by TLAPS for every value of the constants.

| theorem | assumptions | inductive invariant |
|---|---|---|
| `SoWorkerProofs!SoTypeCorrect` | none | `SoTypeInv`: `SoTypeOK`, and at each program counter the locals that are set |
| `SoWorkerProofs!SoOrdersCarryOwnLines`, `SoDocumentsPointHome` | `DistinctDocs`: purchase orders have document ids of their own | `HomeInv`: orders, callbacks (the current order and those to come) and documents all point home |
| `SoWorkerProofs!SoNoSecondOrder` | `ReliableCheck`: no overlap, no failing lookup, no POST sent twice, nothing entered by hand, no long reference | `OneInv`: one callback at a time, and while it is about to create an order there is none |
| `SoWorkerProofs!SoEachLineOnce` | `AppliedOnce`: no overlap, no POST sent twice | `TwiceInv`: a line still to post is not on the order |
| `SoWorkerProofs!SoRowsAreOwed` | `RowsComeBack`: no overlap, no lapse `staging` or `bigquery` | `OwedInv`: the reference is still ahead of the retrigger that names it, or its message waits to be delivered again |
| `SoLedgerProofs!CreatedIsComplete`, `ResolvedIsPresent` | `Whole` | `RowsInv`: the rows a sync or backfill has before it are staged; `CoverInv`: each line of the order in hand is on an order, inactive, still to post, or among those that remain |
| `SoLedgerProofs!NoLineIsLost`, `SettledIsAccounted`, `BufferForgetsNothing` | `Whole`, `Dependable` | `AccountInv`: what a message or the buffer named is accounted for, or a callback will settle it; before a locked order's document is dropped, every line of it is on an order, blocked or inactive |
| `SoLedgerProofs!ImplementsLedger` | `Whole`, `Dependable` | the two above; the refinement of `SoLedger` |
| `BcClientProofs!BcTypeCorrect` | none | the type invariant itself |
| `BcClientProofs!PermitsAdd` | none | itself, with the cardinality of the calls in flight |
| `BcClientProofs!OnlyGatewaysRepeatPosts` | none | an open post was applied at most as often as it was answered 502 or 503, and that at most as often as it was retried |
| `BcClientProofs!ListsAreWhole` | none | the records of a call are those before its place in the list of its cursor |
| `BcClientProofs!RangesMissNothing` | none | `RangeInv`: what a call has not read yet lies at or behind its offset; records that appear push it back, never forward |
| `BcClientProofs!RefusedNotSentAgain` | none | a call with a refused token behind it stands before a new token, or holds one |
| `BcClientProofs!OneListing` | none | the call that holds the company lock found the list not fresh, and nobody else makes it fresh |
| `OrderWorkerProofs!TypeCorrect` | none | `TypeInv` |
| `OrderWorkerProofs!DoneTasksAreWhole` | `AppliedOnce`: no POST sent twice | `WholeInv`: a callback's order is its own and holds the lines before the next; no two callbacks, and no callback and no result of a done task, share an order |
| `OrderWorkerProofs!AckedTasksAreReported` | `NoOverlap` | `ReportInv`: a message is leased while a callback has it, and a callback about to ack has reported |
| `BridgeLockProofs!TypeCorrect` | none | `TypeInv` |
| `BridgeLockProofs!SkipJustified` | none | `RecentInv`: no start time in the lock or in a callback is newer than the latest begin |
| `BridgeLockProofs!CooldownHolds` | none | `CoolInv`: unless something spoilt it, one callback runs at a time and the lock is exactly as old as the latest begin; `RecentInv` is what makes a long quiet a fresh start |
| `BridgeProofs!TypeCorrect` | none | `TypeInv`: `TypeOK`, and what is about to be inserted is in the fetched tables |
| `BridgeProofs!PromotedIsTrueAlways` | none | `PromInv`: what a run takes for promoted is in `CustomerPOUL` |
| `BridgeProofs!HeadersAreKept` | no `close`, no `chunks`; overlap allowed | `KeptInv`: a header that is not staged is beyond the watermark of the table and of every run, covered by what the run has fetched, or outranked |
| `BridgeProofs!DetailsAreKept` | the same, and no `overlap` | `DetailsInv`: one run at a time; a pending detail is beyond the watermarks, in the tables of the run, or younger than its fetches |
| `BridgeProofs!DetailsComeFirst` | as `DetailsAreKept` | `DetailsAll`, the conjunction of the three above |
| `CatalogSyncProofs!TypeCorrect` | none | `TypeInv`: `TypeOK`, no callback began in the future, BC has a family for every item |
| `CatalogSyncProofs!ListsAreKept` | no message `headers`, no fault `second`; overlap allowed | `ListsInv`: of every list that changed up to the start of a callback, the lines are written or still to fetch |
| `CatalogSyncProofs!ItemsAreKept` | no `overlap`, no `omit` | `ItemsInv`: one callback at a time, which began at the watermark or later; what it fetched is what BC had, and what it left out is there |
| `CatalogSyncProofs!CopiesAlwaysAgree`, `PriceChangesAreStamped` | no `overlap`, no `omit` | `CopiesInv`, one clause per program counter of a sync: before the rebuild the blobs lack no more than the stored delta; during it the blobs written so far are right and the others right but for the delta |

`SoImportProofs` proves the first four rows for the actions of `SoImport`;
`SoWorkerProofs` adds the requests, whose steps are either those or leave the orders
alone. `Whole` says that purchase orders have documents and items of their own, that
every batch that names a purchase order names all of it, and that detail rows are whole
when they are read: no lapse `read`; next to retriggers no `overlap`; and next to
retriggers *and* other syncs or backfills neither `crash` nor `staging`, since either
leaves rows deleted until the retrigger is delivered again, and what comes between reads
none. `Dependable` leaves out the faults `firestore` and `prefetch`. Both are what
the properties need and no more: a failing Firestore write or an acked pre-fetch
failure loses lines at once. Crashes, overlapping callbacks, failing lookups, orders
entered by hand and POSTs sent twice are otherwise all allowed, so that duplicates may
arise but nothing is lost: `NoLineIsLost` and `ImplementsLedger` hold with any number of
callbacks, messages, syncs, backfills and retriggers. `RowsInv` is what makes retriggers
harmless: every row a sync or a backfill has before it is staged, because a retrigger
follows up only on references it has itself inserted again and does not delete any more.

Why the invariants are stronger than the properties: `OwnLinesOnly` alone does
not survive a step, because the step takes its order number from the buffer or
from a callback that read the buffer long ago; `HomeInv` follows the number
through all three places. `DoneIsWhole` needs that the order of a done task is
nobody's to roll back (`Apart`). `SkipIsJustified` needs to relate three clocks:
of the document, of a callback between its read and its write, and of the run.
`HeadersKept` speaks of the tables only, but between a fetch and the insert the
rows are in the locals of a run: `KeptInv` says for each program counter where a
header that is not staged is to be found. It survives overlap because it does not
ask *which* run stages a row: what one run drops as a duplicate another has staged.
`DetailsKept` does not survive overlap, because a conflict on one detail drops the
other details of its reference (`bigquery_bridge.py:914`), which nobody else holds.
`ItemsKept` and `ListsKept` speak of the watermark, which a callback sets to the time at
which it began: `ItemsInv` and `ListsInv` say that what changed before that time is in
its locals or in the store, whatever BC does meanwhile. The two watermarks differ under
overlap: the lines of a list are written as they are at that moment, so that a slow
callback does no harm, but items are written as they were when they were fetched. That
the item watermark is never ahead of a callback at work is what keeps a partial batch
from putting an old item back.
`CopiesAgree` speaks of the time between two syncs, but every step of a rebuild spoils it:
the delta is in Firestore before the first blob is written, and one blob is written after
the other. `CopiesInv` therefore follows the rebuild. Of the items the delta leaves out
the blobs are right from the start (`StagesInv`); a blob is right for all items once its
action has run (`FamiliesInv`), because every blob of the index is written anew and not
only those of the families BC named: an item that moved leaves its old blob that way. The
index comes after the last blob, and the prices after the index (`ShownInv`). A failing
call of Cloud Storage sets `hurt` and `cut`, a crash with a delta on its way to the blobs
sets `cut`, and both suspend the clauses until a full rebuild without failure, which does
not look at the old blobs: `Sound` is the condition under which a rebuild ends with blobs
that are right. `PriceChangeStamped`
compares with the prices at the *start* of the sync, while the code compares with
`prices.json` as it is when the rebuild begins; the invariant carries that the two are
the same (`RebuildInv`), and that `prices.json` holds the prices of the blobs between
syncs (`ShownRight`), crashes included.

Every proof has one step per action, over the lemmas on what a callback may go on
with. The assumptions are those faults and coincidences under which the property
is false, which the list below says in the terms of the code.

With these, every safety property and every action property of the passing runs is
stated by a theorem, whose assumptions the constants of that run satisfy. Only
model-checked is liveness (`EveryBatchSettles`, `EveryRunEnds`,
`EveryTaskSettles`, `EveryCallReturns`, `Bridge!EveryOrderEnters`, `Bridge!EveryRunEnds`,
`CatalogSync!EverythingArrives`), which is out of the prover's reach. No passing
`So` run has the faults `resend` and `rundoc` or the lapses `read`, `staging`
and `bigquery`; the theorems hold with them unless their assumptions say otherwise.

## 6. Findings and limits

The two violated properties are findings (`PROJECT.json`): `OrderRollback` and
`BridgeHeldBack`. Further disagreements between code and documents that the models
contain, and that the constants of the passing runs keep away from:

* The lookup by reference uses the whole reference, the header is created with its
  first 35 characters (`so_import_worker.py:183`, `:547`): of a longer reference
  every pass creates an order. This is `LongRefs` and, in the proofs, part of
  `ReliableCheck`.
* The lookup of an order answers `None` to every error status
  (`bc_client.py:702`), so a 503 reads as "no such order". The docstring of the sync
  says that the two are "kept strictly separate" (`so_import_worker.py:1352`); a sync
  reports such an order as not found, and a backfill creates it a second time. This is
  the fault `lookup`.
* A failing read of the details answers with no rows (`gcp_api_client.py:71`). A sync
  then finds nothing to add, deletes the buffer document and records the order as
  `resolved`, under the comment "Every line is now confirmed present in BC"
  (`so_import_worker.py:1297`); a backfill creates a header without lines and, with
  nothing left over, buffers nothing. This is the lapse `read`; with it
  `ResolvedMeansPresent` fails.
* A retrigger whose insert fails after its cleanup succeeded reports the reference as
  an error and acks (`so_import_worker.py:2142`): the staging rows stay deleted until
  somebody asks for the file again. This is the lapse `staging`; with it `RowsAreOwed`
  fails. A sync that runs between the two calls, or after a process died there and before
  Pub/Sub delivers the retrigger again, reads no rows either and may report the order as
  resolved.
* The comment on the company id cache says "TTL = 10 min" (`bc_client.py:45`); only the
  list has a TTL, an id is good for ever (`FindCompany`).
* Paging by offsets passes over a record when another is removed between two pages
  (`bc_client.py:306`); `RangeMissesNothing` excepts it.
* A purchase order that is sent again with other lines overwrites its buffer
  document (`so_buffer.py:83`), although that may hold lines of an acked batch. The
  passing runs give a purchase order the same lines in every batch.
* The redelivery of a trigger whose run raised is dropped by the cooldown of that
  run (`bigquery_bridge_worker.py:86`): the lock holds the start time of the failed
  run.
* A row that becomes visible with a `created_at` not later than the second after a
  fetch that did not see it is passed over by the watermark
  (`bigquery_bridge.py:99`). This is the fault `close`.
* Of details that arrive over two fetches, the earlier ones are staged and never
  published (`bigquery_bridge.py:393`). This is the fault `split`.
* A duplicate key of one detail drops all details of its reference from the insert
  (`bigquery_bridge.py:914`), where the docstring speaks of the offending row. This
  is why `DetailsKept` asks for no overlap. If the reference has a comma, a
  parenthesis or outer blanks nothing is dropped, and the loop does not end
  (`bigquery_bridge.py:457`); these are the `OddRefs`.
* Two lines with the same item number on a purchase order that is resumed: the
  second is skipped although it was never posted (`so_import_worker.py:843`).
  `ItemOf` is injective per purchase order in the passing runs.
* Two references that differ only in `/`, `.` and `_` share a buffer document
  (`so_buffer.py:40`). This is the assumption `DistinctDocs` of the proofs.
* A reprocess run recorded as `error` is nacked and comes back as `processing`
  (`so_import_worker.py:2258`), although `finish_run` is for terminal outcomes.
* A 429, 502 or 503 that outlives the client's retries makes an order task a
  permanent failure (`order_worker.py:81`), where the docstring asks for a
  redelivery. This is the fault `busy`.
* Two instances can both read a free run lock and both run
  (`bridge_run_lock.py:55`). This is the fault `overlap`.
* A header-only message sets the watermark of the price lists without fetching lines
  (`sync_worker.py:583`): the lines of a changed list never reach Firestore. `Kinds`
  of the run leaves `headers` out; with it `ListsKept` fails.
* The stamps of price lists are compared as text (`sync_worker.py:287`), and a change in
  the second of the watermark is taken for none, where the comment at `:427` promises
  no gap. This is the fault `second`.
* The item watermark moves before the blobs are rebuilt (`sync_worker.py:460`): after a
  rebuild that is cut short, an item may be missing or stale in the blobs until it
  changes again. This is what `cut` excepts.
* If the price list stage fails, the blobs are rebuilt without overlay
  (`sync_worker.py:518`), and every listed price is BC's own until the next sync. The
  run has this; the change is stamped both times.
* An item without `familyCode` in an incremental response keeps its family in Firestore
  (`price_firestore_service.py:219`) and moves to `_NOFAMILY` in the blobs. This is the
  fault `omit`; with it `CopiesAgree` fails and, when the family has changed, `ItemsKept`.
* Two instances may sync at once (`DEPLOY.md:218`), and the slower one writes last. This
  is the fault `overlap`; with it `ItemsKept` and `CopiesAgree` fail.
* The stamps of `Patch` go to documents named by the company in upper case
  (`price_firestore_service.py:347`), the documents of the items to the company as given
  (`:221`). The model has one document per item, as with the upper-case names the
  deployment uses (`DEPLOY.md:226`).
* Lines that BC took off a price list stay in Firestore, because the lines are only
  upserted (`price_firestore_service.py:289`). `FetchLines` takes a list as a whole, so the
  model does not see what is left over.
* `slim_record` drops an empty `bcPriceListCode` (`gcs_catalog.py:76`), so the next
  incremental rebuild takes the list code of the overlay for BC's
  (`sync_worker.py:358`). List codes are left out of the model.

The trigger on `CustomerPOULBQ` is not in the repository; the model takes it to
promote a header whether or not its details are staged.

Not modelled: the ship-to fixes (`so_import_worker.py:1459`, `shipto_fixes.py`), each of
which is one PATCH of an order that may be repeated and the deletion of its own
document; the verification of session histories, which sets a flag nothing here reads;
disabled code, mail, chat and the process shell; the choice of catalogue dates and of
product ranges in `bc_client.py`, and its plain reads and writes; the group codes
customerra and onlinesalespo of the bridge; messages that cannot be decoded (acked with an alert, no state);
orders that leave the `salesOrders` endpoint because they were posted; more than
one BC company per reprocess message (handled one after another); a batch that
holds one reference twice; a POST applied more than twice; lock documents of
several group codes (independent); and the components that section 1 lists and
section 2 does not. `main.py` never looks at the futures of the subscribers, so
an exception that leaves a callback only nacks its message.

## 7. Plan

Done: every module of section 2 with its runs, and the proofs of section 5. What would
add most next, in this order:

1. The catalogue dates of `bc_client.py` (which date a failed probe falls back to) and
   the remaining message types of `sync_worker.py`.
2. The group codes customerra and onlinesalespo of the bridge.

To keep the number of runs small, runs that differ only in their faults are
merged before new ones are added, as those of the lock and of the import were.
No module uses RECURSIVE operators.
