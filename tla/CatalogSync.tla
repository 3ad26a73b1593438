------------------------------ MODULE CatalogSync ------------------------------
(***************************************************************************)
(* The catalogue sync of one company (src/workers/sync_worker.py) with its *)
(* two stores: Firestore (src/services/price_firestore_service.py) and the *)
(* blobs in Cloud Storage (src/services/gcs_catalog.py), into which the    *)
(* price lists are baked (src/services/price_overlay.py).                  *)
(*                                                                         *)
(* A sync fetches the price lists and the items that BC reports as changed *)
(* since a watermark, in two parallel stages, writes them to Firestore,    *)
(* and then rebuilds the family blobs: the fetched items are merged into   *)
(* the blobs of the last sync, and every record gets the price of the list *)
(* that covers it.  Other messages fetch the lines of price lists only, or *)
(* their headers only.                                                     *)
(*                                                                         *)
(* The content of an item or of a list is the second of its last change.   *)
(***************************************************************************)
EXTENDS Naturals

CONSTANTS
  Workers,     \* callbacks of the subscription, over all instances of the process
  Items,       \* products
  Families,    \* their familyCodes
  Lists,       \* sale price lists
  Covers,      \* Lists -> the items a list has a line for
  Rank,        \* Lists -> which of two lists wins, the smaller one
  FirstFamily, \* Items -> the family at first, or Blocked
  Kinds,       \* the message types that arrive
  MaxTime,     \* bound on the clock
  MaxEvents,   \* bound on changes in BC, crashes and failing calls together
  Faults,      \* what the environment may do, a subset of FaultKinds
  None,        \* the absent value
  NoFamily,    \* the blob of records without a familyCode
  Blocked      \* in place of a familyCode: the item is blocked

(* crash    a callback dies between two steps                               *)
(* overlap  two callbacks run at once, in two instances of the process      *)
(* lists    a call of the price list stage fails                            *)
(* items    a call of the item stage fails, after some of its writes        *)
(* blobs    a read or a write in Cloud Storage fails, which is swallowed    *)
(* omit     BC leaves the familyCode out of incremental responses           *)
(* second   a list changes in the second a sync of its headers began in     *)
FaultKinds == {"crash", "overlap", "lists", "items", "blobs", "omit", "second"}

(* sync     routine-sync, sync-item-prices                                  *)
(* lines    sync-price-list-items; one: with a price_list_code              *)
(* headers  sync-price-list-headers                                         *)
AllKinds == {"sync", "lines", "one", "headers"}

ASSUME ConstantsAssumption ==
  /\ Covers \in [Lists -> SUBSET Items]
  /\ Rank \in [Lists -> Nat]
  /\ \A k, l \in Lists : Rank[k] = Rank[l] => k = l
  /\ FirstFamily \in [Items -> Families \cup {Blocked}]
  /\ Kinds \subseteq AllKinds
  /\ MaxTime \in Nat \ {0}
  /\ MaxEvents \in Nat
  /\ Faults \subseteq FaultKinds
  /\ NoFamily # Blocked
  /\ {NoFamily, Blocked} \cap Families = {}
  /\ None \notin Lists /\ \A S \in SUBSET (Families \cup {NoFamily}) : None # S

VARIABLES
  clock,    \* the time in seconds
  item,     \* BC: Items -> the last change and the family
  list,     \* BC: Lists -> the last change, and whether it is active on on_date
  since,    \* lastSyncAt of the items and of the lists, 0: none
  prices,   \* Firestore item_prices: Items -> the copy, at 0: none
  listed,   \* the items whose price in item_prices is that of a list
  lines,    \* Firestore price_list_items: Lists -> the copy, 0: none
  blobs,    \* GCS families/{family}.json
  index,    \* GCS families/_index.json: the families that have a blob
  shown,    \* GCS prices.json: Items -> the price of the last sync
  work,     \* Workers -> the locals of the callback
  events,   \* changes in BC, crashes and failing calls so far
  cut       \* since the last full rebuild, some rebuild was cut short

bc == <<item, list>>
firestore == <<prices, listed, lines>>
gcs == <<blobs, index, shown>>
vars == <<clock, bc, since, firestore, gcs, work, events, cut>>

-----------------------------------------------------------------------------
Time == 0..MaxTime
BlobNames == Families \cup {NoFamily}
Copy == [at : Time, fam : BlobNames \cup {Blocked}]
Price == [list : Lists \cup {None}, at : Time]
PriceMap == [Items -> Price \cup {None}]
Record == [no : Items, at : Time, price : Price, changed : Time]

NoPrices == [i \in Items |-> None]
NoOverlay == [l \in Lists |-> 0]

\* lists to best: stage 1, with the lists still to fetch in want and the products
\* of the fetched ones in best.  items to got: stage 2.  prev to todo: stage 5, with
\* the prices before and after.  hurt, old: history, a call of stage 5 failed, and the
\* prices published when the sync began, unless a rebuild had been cut short.
Work ==
  [pc : {"idle", "stages", "families", "shown", "patch"},
   kind : AllKinds, start : Time,
   lists : {"todo", "lines", "end"}, changed : SUBSET Lists, active : SUBSET Lists,
   want : SUBSET Lists, overlay : [Lists -> Time], best : SUBSET Items,
   items : {"todo", "fetched", "end", "failed"}, full : BOOLEAN,
   got : SUBSET [no : Items, at : Time, fam : BlobNames \cup {Blocked}],
   prev : PriceMap, fresh : PriceMap,
   known : SUBSET BlobNames, fams : SUBSET BlobNames, todo : SUBSET BlobNames,
   hurt : BOOLEAN, old : PriceMap]

Idle ==
  [pc |-> "idle", kind |-> "sync", start |-> 0, lists |-> "todo", best |-> {}, items |-> "todo",
   changed |-> {}, active |-> {}, want |-> {}, overlay |-> NoOverlay,
   got |-> {}, full |-> FALSE, prev |-> NoPrices, fresh |-> NoPrices,
   known |-> {}, fams |-> {}, todo |-> {}, hurt |-> FALSE, old |-> NoPrices]

\* Nothing was ever synced; BC has its items and lists.
Init ==
  /\ clock = 1
  /\ item = [i \in Items |-> [at |-> 1, fam |-> FirstFamily[i]]]
  /\ list = [l \in Lists |-> [at |-> 1, on |-> TRUE]]
  /\ since = [items |-> 0, lists |-> 0]
  /\ prices = [i \in Items |-> [at |-> 0, fam |-> NoFamily]]
  /\ listed = {}
  /\ lines = NoOverlay
  /\ blobs = [f \in BlobNames |-> {}]
  /\ index = None
  /\ shown = NoPrices
  /\ work = [w \in Workers |-> Idle]
  /\ events = 0
  /\ cut = FALSE

-----------------------------------------------------------------------------
Goes(w, r) == work' = [work EXCEPT ![w] = r]
AllIdle == \A w \in Workers : work[w].pc = "idle"
Happens ==
  /\ events < MaxEvents
  /\ events' = events + 1
Mishap(fault) ==
  /\ fault \in Faults
  /\ Happens

Indexed == IF index = None THEN {} ELSE index

\* What is published of a product: its records in the blobs the index names.
Records(i) == {r \in UNION {blobs[f] : f \in Indexed} : r.no = i}
PublishedPrice(i) == IF Records(i) = {} THEN None ELSE (CHOOSE r \in Records(i) : TRUE).price

Published == [i \in Items |-> PublishedPrice(i)]

Listing(w, s) == work[w].pc = "stages" /\ work[w].lists = s

(* BC. *)

\* People change BC; the date moves into the dates of a list or out of them.
Change ==
  /\ Happens
  /\ UNCHANGED <<clock, since, firestore, gcs, work, cut>>

\* At most one change of an item or a list per second is told apart.
ChangeItem(i) ==
  /\ Change
  /\ item[i].at < clock
  /\ \E f \in Families \cup {Blocked} : item' = [item EXCEPT ![i] = [at |-> clock, fam |-> f]]
  /\ UNCHANGED list

\* This second is the watermark of the lists, or will be.
Watermarked ==
  \/ since.lists = clock
  \/ \E w \in Workers : Listing(w, "lines") /\ work[w].start = clock

ChangeList(l) ==
  /\ Change
  /\ list[l].at < clock
  /\ "second" \in Faults \/ ~Watermarked
  /\ \E on \in BOOLEAN : list' = [list EXCEPT ![l] = [at |-> clock, on |-> on]]
  /\ UNCHANGED item

DatePasses(l) ==
  /\ Change
  /\ list' = [list EXCEPT ![l].on = ~@]
  /\ UNCHANGED item

NewSecond ==
  /\ clock < MaxTime
  /\ clock' = clock + 1
  /\ UNCHANGED <<bc, since, firestore, gcs, work, events, cut>>

-----------------------------------------------------------------------------
(* The callback. *)

Start(w, k) ==
  /\ work[w].pc = "idle"
  /\ "overlap" \in Faults \/ AllIdle
  /\ Goes(w, [Idle EXCEPT !.pc = "stages", !.kind = k, !.start = clock,
                          !.old = IF k = "sync" /\ ~cut THEN Published ELSE @])
  /\ UNCHANGED <<clock, bc, since, firestore, gcs, events, cut>>

-----------------------------------------------------------------------------
(* Stage 1: price lists. *)

\* Only a company sync goes on after the price lists, with what they gave.
ListsGo(w, overlay, best) ==
  Goes(w, IF work[w].kind = "sync"
            THEN [work[w] EXCEPT !.lists = "end", !.overlay = overlay, !.best = best,
                                 !.changed = {}, !.active = {}, !.want = {}]
            ELSE Idle)

\* The lists a message takes for changed.  The stamps are compared as text, where
\* "05.3Z" is before "05Z": a change in the second of the watermark is none.
Changed(k) ==
  IF k = "headers" THEN {{}}
  ELSE IF k = "one" THEN {{l} : l \in Lists}
  ELSE {{l \in Lists : list[l].at > since.lists}}

\* Of all headers, lines are fetched for those that changed, and in a sync for
\* those that are active.
FetchHeaders(w) ==
  /\ Listing(w, "todo")
  /\ LET active == IF work[w].kind = "sync" THEN {l \in Lists : list[l].on} ELSE {}
     IN  \E changed \in Changed(work[w].kind) :
           Goes(w, [work[w] EXCEPT !.lists = "lines", !.changed = changed, !.active = active,
                                   !.want = changed \cup active])
  /\ UNCHANGED <<clock, bc, since, firestore, gcs, events, cut>>

\* The lines of one list are fetched; those of a changed list go to Firestore,
\* those of an active list to the overlay.
FetchLines(w, l) ==
  /\ Listing(w, "lines")
  /\ l \in work[w].want
  /\ lines' = IF l \in work[w].changed THEN [lines EXCEPT ![l] = list[l].at] ELSE lines
  /\ Goes(w, [work[w] EXCEPT !.want = @ \ {l},
                             !.overlay[l] = IF l \in work[w].active THEN list[l].at ELSE 0])
  /\ UNCHANGED <<clock, bc, since, prices, listed, gcs, events, cut>>

\* Variant: the watermark is the time at which the stage ends.
EndListsNow(w) ==
  /\ Listing(w, "lines")
  /\ work[w].want = {}
  /\ since' = IF work[w].kind = "one" THEN since ELSE [since EXCEPT !.lists = clock]
  /\ ListsGo(w, work[w].overlay, UNION {Covers[l] : l \in work[w].changed \cup work[w].active})
  /\ UNCHANGED <<clock, bc, firestore, gcs, events, cut>>

EndLists(w) ==
  /\ Listing(w, "lines")
  /\ work[w].want = {}
  /\ since' = IF work[w].kind = "one" THEN since ELSE [since EXCEPT !.lists = work[w].start]
  /\ ListsGo(w, work[w].overlay, UNION {Covers[l] : l \in work[w].changed \cup work[w].active})
  /\ UNCHANGED <<clock, bc, firestore, gcs, events, cut>>

\* A sync goes on without any overlay; another message is nacked.
FailLists(w) ==
  /\ Listing(w, "todo") \/ Listing(w, "lines")
  /\ Mishap("lists")
  /\ ListsGo(w, NoOverlay, {})
  /\ UNCHANGED <<clock, bc, since, firestore, gcs, cut>>

-----------------------------------------------------------------------------
(* Stage 2: items. *)

Fetching(w, s) ==
  work[w].pc = "stages" /\ work[w].kind = "sync" /\ work[w].items = s

AllBlocked == \A i \in Items : item[i].fam = Blocked

Fetched(i, omitted) ==
  [no |-> i, at |-> item[i].at,
   fam |-> IF i \in omitted /\ item[i].fam # Blocked THEN NoFamily ELSE item[i].fam]

\* A full fetch if nothing was synced, nothing is there, or there is no index or
\* it cannot be read; a full fetch gives nothing if it gives blocked items only.
\* Otherwise BC compares time stamps, of which the watermark has no fraction of a
\* second: a change in its own second is fetched again.
FetchItems(w) ==
  /\ Fetching(w, "todo")
  /\ \E full \in BOOLEAN, omitted \in {{}, Items} :
       /\ omitted # {} => "omit" \in Faults /\ ~full
       /\ IF since.items = 0 \/ index = None \/ \A i \in Items : prices[i].at = 0
            THEN full /\ UNCHANGED events
            ELSE IF full THEN Mishap("blobs") ELSE UNCHANGED events
       /\ Goes(w, [work[w] EXCEPT
            !.items = "fetched", !.full = full,
            !.got = IF full /\ AllBlocked THEN {}
                    ELSE {Fetched(i, omitted) :
                            i \in {j \in Items : full \/ item[j].at >= since.items}}])
  /\ UNCHANGED <<clock, bc, since, firestore, gcs, cut>>

\* The documents of some of the fetched items are merged: a missing familyCode
\* does not overwrite the one that is there, the price of a list is overwritten.
Merge(S) ==
  /\ prices' = [i \in Items |->
       IF \E g \in S : g.no = i
         THEN LET g == CHOOSE g \in S : g.no = i
              IN  [at |-> g.at, fam |-> IF g.fam = NoFamily THEN prices[i].fam ELSE g.fam]
         ELSE prices[i]]
  /\ listed' = listed \ {g.no : g \in S}

MergeSome(w) == \E S \in SUBSET work[w].got : Merge(S)

\* Variant: the watermark is the time at which the stage ends.
StoreItemsNow(w) ==
  /\ Fetching(w, "fetched")
  /\ Merge(work[w].got)
  /\ since' = IF work[w].got = {} THEN since ELSE [since EXCEPT !.items = clock]
  /\ Goes(w, [work[w] EXCEPT !.items = "end"])
  /\ UNCHANGED <<clock, bc, lines, gcs, events, cut>>

\* All documents are written, then the watermark; what fails in between is
\* FailItems.
StoreItems(w) ==
  /\ Fetching(w, "fetched")
  /\ Merge(work[w].got)
  /\ since' = IF work[w].got = {} THEN since ELSE [since EXCEPT !.items = work[w].start]
  /\ Goes(w, [work[w] EXCEPT !.items = "end"])
  /\ UNCHANGED <<clock, bc, lines, gcs, events, cut>>

\* A batch that fails leaves the other batches written, and the watermark where
\* it was.
FailItems(w) ==
  /\ Fetching(w, "todo") \/ Fetching(w, "fetched")
  /\ Mishap("items")
  /\ MergeSome(w)
  /\ Goes(w, [work[w] EXCEPT !.items = "failed", !.got = {}, !.full = FALSE])
  /\ UNCHANGED <<clock, bc, since, lines, gcs, cut>>

-----------------------------------------------------------------------------
(* Stage 5: the blobs.  The calls of Cloud Storage fail silently. *)

\* One of the calls of a step fails, or none does.
Swallows(b) ==
  \/ ~b /\ UNCHANGED <<events, cut>>
  \/ b /\ Mishap("blobs") /\ cut' = TRUE

\* Variant: without a changed item there is nothing to rebuild.
RebuildsDelta(w) == work[w].items = "end" /\ work[w].got # {}

\* An empty delta is a reason to rebuild as well, since the overlay may have
\* changed; an empty catalogue is not.
Rebuilds(w) == work[w].items = "end" /\ (work[w].got # {} \/ ~work[w].full)

StagesOver(w) ==
  /\ work[w].pc = "stages" /\ work[w].kind = "sync"
  /\ work[w].lists = "end" /\ work[w].items \in {"end", "failed"}

\* The prices of the last sync and the index are read.  A full rebuild groups its
\* families anew.
Assemble(w) ==
  /\ StagesOver(w)
  /\ Rebuilds(w)
  /\ \E noPrev, noIndex \in BOOLEAN :
       /\ ~(noPrev /\ noIndex)
       /\ noIndex => ~work[w].full
       /\ Swallows(noPrev \/ noIndex)
       /\ LET known == IF work[w].full \/ noIndex THEN {} ELSE Indexed
              fams == known \cup ({g.fam : g \in work[w].got} \ {Blocked})
          IN  Goes(w, [work[w] EXCEPT
                !.pc = "families", !.known = known, !.fams = fams, !.todo = fams,
                !.prev = IF noPrev THEN NoPrices ELSE shown, !.hurt = noPrev \/ noIndex])
  /\ UNCHANGED <<clock, bc, since, firestore, gcs>>

\* What is left for stage 6.
ToPatch(w) == [Idle EXCEPT !.pc = "patch", !.start = work[w].start, !.best = work[w].best,
                           !.old = work[w].old]

SkipAssembly(w) ==
  /\ StagesOver(w)
  /\ ~Rebuilds(w)
  /\ Goes(w, ToPatch(w))
  /\ UNCHANGED <<clock, bc, since, firestore, gcs, events, cut>>

\* The list that decides the price of a product: none, or the best of those that
\* cover it.
Winner(i, overlay) ==
  LET covering == {l \in Lists : overlay[l] # 0 /\ i \in Covers[l]}
  IN  IF covering = {} THEN None
      ELSE CHOOSE l \in covering : \A k \in covering : Rank[l] <= Rank[k]

PriceOf(i, at, overlay) ==
  LET l == Winner(i, overlay)
  IN  IF l = None THEN [list |-> None, at |-> at] ELSE [list |-> l, at |-> overlay[l]]

\* Variant: only the records of the delta are compared with the last sync.
FinalizeDelta(w, r) ==
  LET price == PriceOf(r.no, r.at, work[w].overlay)
  IN  [r EXCEPT !.price = price,
                !.changed = IF /\ work[w].prev[r.no] \notin {None, price}
                               /\ \E g \in work[w].got : g.no = r.no
                              THEN work[w].start ELSE @]

\* The record is priced anew from what BC said of it, and stamped if that is not
\* the price of the last sync.
Finalize(w, r) ==
  LET price == PriceOf(r.no, r.at, work[w].overlay)
  IN  [r EXCEPT !.price = price,
                !.changed = IF work[w].prev[r.no] \notin {None, price} THEN work[w].start
                            ELSE @]

FromBC(g) == [no |-> g.no, at |-> g.at, price |-> [list |-> None, at |-> g.at], changed |-> 0]

\* Variant: what the delta has in another family stays in this one as well.
KeptEverywhere(w, f) ==
  {r \in blobs[f] : ~\E g \in work[w].got : g.no = r.no /\ g.fam = f}

\* The records of a blob that the delta neither replaces nor moves elsewhere.
Kept(w, f) ==
  {r \in blobs[f] : ~\E g \in work[w].got : g.no = r.no}

SaveFamily(w, f) ==
  /\ work[w].pc = "families"
  /\ f \in work[w].todo
  /\ \E noLoad, noSave \in BOOLEAN :
       /\ ~(noLoad /\ noSave)
       /\ noLoad => f \in work[w].known
       /\ Swallows(noLoad \/ noSave)
       /\ LET kept == IF f \in work[w].known /\ ~noLoad THEN Kept(w, f) ELSE {}
              raw == kept \cup {FromBC(g) : g \in {h \in work[w].got : h.fam = f}}
              final == {Finalize(w, r) : r \in raw}
          IN  /\ blobs' = IF noSave THEN blobs ELSE [blobs EXCEPT ![f] = final]
              /\ Goes(w, [work[w] EXCEPT
                   !.todo = @ \ {f}, !.hurt = @ \/ noLoad \/ noSave,
                   !.fresh = [i \in Items |->
                     IF \E r \in final : r.no = i THEN (CHOOSE r \in final : r.no = i).price
                                                  ELSE @[i]]])
  /\ UNCHANGED <<clock, bc, since, firestore, index, shown>>

SaveIndex(w) ==
  /\ work[w].pc = "families"
  /\ work[w].todo = {}
  /\ \E noSave \in BOOLEAN :
       /\ Swallows(noSave)
       /\ index' = IF noSave THEN index ELSE work[w].fams
       /\ Goes(w, [work[w] EXCEPT !.pc = "shown", !.hurt = @ \/ noSave])
  /\ UNCHANGED <<clock, bc, since, firestore, blobs, shown>>

\* A full rebuild without a failure makes good what was cut short before.
SaveShown(w) ==
  /\ work[w].pc = "shown"
  /\ \/ /\ shown' = work[w].fresh
        /\ cut' = (cut /\ (~work[w].full \/ work[w].hurt))
        /\ UNCHANGED events
     \/ /\ Mishap("blobs")
        /\ cut' = TRUE
        /\ UNCHANGED shown
  /\ Goes(w, ToPatch(w))
  /\ UNCHANGED <<clock, bc, since, firestore, blobs, index>>

PatchSome(w) == \E S \in SUBSET work[w].best : listed' = listed \cup S

\* Stage 6: the products of the fetched lists get the price of a list in
\* Firestore.
Patch(w) ==
  /\ work[w].pc = "patch"
  /\ \/ listed' = listed \cup work[w].best /\ UNCHANGED events
     \/ Mishap("items") /\ PatchSome(w)
  /\ Goes(w, Idle)
  /\ UNCHANGED <<clock, bc, since, prices, lines, gcs, cut>>

-----------------------------------------------------------------------------
\* The delta is in no later one and not in the blobs yet, or the blobs are half
\* rebuilt.
Rebuilding(w) ==
  \/ work[w].pc \in {"families", "shown"}
  \/ work[w].pc = "stages" /\ work[w].items = "end" /\ work[w].got # {}

\* The process dies, at a batch of writes with some of them done.  The message comes
\* back, which is another Start.
Crash(w) ==
  /\ work[w].pc # "idle"
  /\ Mishap("crash")
  /\ cut' = (cut \/ Rebuilding(w))
  /\ IF Fetching(w, "fetched") THEN MergeSome(w)
     ELSE /\ UNCHANGED prices
          /\ IF work[w].pc = "patch" THEN PatchSome(w) ELSE UNCHANGED listed
  /\ Goes(w, Idle)
  /\ UNCHANGED <<clock, bc, since, lines, gcs>>

-----------------------------------------------------------------------------
ListStep(w) ==
  FetchHeaders(w) \/ (\E l \in Lists : FetchLines(w, l)) \/ EndLists(w) \/ FailLists(w)
ItemStep(w) == FetchItems(w) \/ StoreItems(w) \/ FailItems(w)
BlobStep(w) ==
  Assemble(w) \/ SkipAssembly(w) \/ (\E f \in BlobNames : SaveFamily(w, f))
  \/ SaveIndex(w) \/ SaveShown(w) \/ Patch(w)

Next ==
  \/ NewSecond
  \/ \E i \in Items : ChangeItem(i)
  \/ \E l \in Lists : ChangeList(l) \/ DatePasses(l)
  \/ \E w \in Workers : \/ \E k \in Kinds : Start(w, k)
                        \/ ListStep(w) \/ ItemStep(w) \/ BlobStep(w) \/ Crash(w)

\* Threads run, and the routine sync comes again and again.
Fairness ==
  \A w \in Workers :
    /\ WF_vars(ListStep(w)) /\ WF_vars(ItemStep(w)) /\ WF_vars(BlobStep(w))
    /\ "sync" \in Kinds => SF_vars(Start(w, "sync"))

Spec == Init /\ [][Next]_vars /\ Fairness

-----------------------------------------------------------------------------
(* Properties. *)

\* Every variable keeps its shape; no watermark lies in the future.
TypeOK ==
  /\ clock \in Time
  /\ item \in [Items -> Copy]
  /\ list \in [Lists -> [at : Time, on : BOOLEAN]]
  /\ since \in [items : 0..clock, lists : 0..clock]
  /\ prices \in [Items -> Copy]
  /\ listed \subseteq Items
  /\ lines \in [Lists -> Time]
  /\ blobs \in [BlobNames -> SUBSET Record]
  /\ index \in (SUBSET BlobNames) \cup {None}
  /\ shown \in PriceMap
  /\ work \in [Workers -> Work]
  /\ events \in 0..MaxEvents
  /\ cut \in BOOLEAN

\* No change of an item falls between two deltas: what BC changed before the
\* watermark is in Firestore (_stage_v3_catalog).
ItemsKept ==
  \A i \in Items : item[i].at < since.items => prices[i] = item[i]

\* No change of a price list falls between two deltas (_stage_price_lists).
ListsKept ==
  \A l \in Lists : list[l].at <= since.lists => lines[l] = list[l].at

\* Between two syncs, and if no rebuild was cut short, the blobs have every item
\* as Firestore has it, in the blob of its family and in no other; items that the
\* next delta brings again are left aside (_assemble_catalog).
CopiesAgree ==
  AllIdle /\ ~cut =>
    \A i \in Items :
      prices[i].at # 0 /\ prices[i].at < since.items =>
        {<<f, r.at>> : f \in {g \in Indexed : \E r \in blobs[g] : r.no = i}, r \in Records(i)}
          = IF prices[i].fam = Blocked THEN {} ELSE {<<prices[i].fam, prices[i].at>>}

\* A published price that is not what it was before the sync carries the sync's time
\* stamp, by which the app finds it, if no rebuild had been cut short when the sync
\* began or was during it (_assemble_catalog).
PriceChangeStamped ==
  [][\A w \in Workers : Patch(w) /\ ~cut =>
       \A i \in Items : \A r \in Records(i) :
         work[w].old[i] \notin {None, r.price} => r.changed = work[w].start]_vars

\* What BC has, the two stores have, and the products of active lists the price of one.
Arrived ==
  /\ AllBlocked \/ \A i \in Items : prices[i] = item[i]
  /\ \A l \in Lists : lines[l] = list[l].at
  /\ AllIdle => \A l \in Lists : list[l].on => Covers[l] \subseteq listed
  /\ AllBlocked \/ cut \/ \A i \in Items :
       LET overlay == [l \in Lists |-> IF list[l].on THEN list[l].at ELSE 0]
       IN  {r.price : r \in Records(i)}
             = IF item[i].fam = Blocked THEN {} ELSE {PriceOf(i, item[i].at, overlay)}

\* Once BC rests, every change arrives: in Firestore, and unless a rebuild was cut
\* short, in the blobs (_sync_company).  Of a company with blocked items only, nothing
\* need arrive.
EverythingArrives == <>[]Arrived

=============================================================================
