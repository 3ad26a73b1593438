--------------------------- MODULE CatalogSyncProofs ---------------------------
(***************************************************************************)
(* What TLAPS proves about CatalogSync, for any number of callbacks,       *)
(* items, families and price lists: its type invariant; that no change of  *)
(* a price list and no change of an item falls between two deltas; and     *)
(* that after a clean sync the blobs and prices.json agree with Firestore, *)
(* every change of a shown price being stamped.                            *)
(***************************************************************************)
EXTENDS CatalogSync, WellFoundedInduction, TLAPS

-----------------------------------------------------------------------------
(* Prices and records. *)

LEMMA LeastNat ==
  ASSUME NEW S \in SUBSET Nat, S # {}
  PROVE  \E n \in S : \A m \in S : n <= m
<1> DEFINE Less == {ss \in Nat \X Nat : ss[1] < ss[2]}
<1>1. IsWellFoundedOn(Less, Nat)
  BY NatLessThanWellFounded DEF OpToRel
<1>2. PICK x \in S : \A y \in S : ~ (<<y, x>> \in Less)
  BY <1>1, WFMin
<1>3. ASSUME NEW y \in S PROVE x <= y
  <2>1. x \in Nat /\ y \in Nat
    OBVIOUS
  <2>2. ~ (y < x)
    BY <1>2, <2>1
  <2> QED
    BY <2>1, <2>2
<1> QED
  BY <1>3

LEMMA TimeNat == Time \subseteq Nat /\ 0 \in Time /\ 1 \in Time
BY ConstantsAssumption DEF Time

\* Of the lists that cover an item one wins.
LEMMA WinnerType ==
  ASSUME NEW i \in Items, NEW overlay \in [Lists -> Time]
  PROVE  Winner(i, overlay) \in Lists \cup {None}
<1> DEFINE covering == {l \in Lists : overlay[l] # 0 /\ i \in Covers[l]}
<1>1. CASE covering = {}
  BY <1>1 DEF Winner
<1>2. CASE covering # {}
  <2> DEFINE Best(l) == \A k \in covering : Rank[l] <= Rank[k]
             ranks == {Rank[l] : l \in covering}
  <2>1. ranks \in SUBSET Nat /\ ranks # {}
    BY <1>2, ConstantsAssumption
  <2>2. PICK n \in ranks : \A m \in ranks : n <= m
    <3> HIDE DEF ranks
    <3> QED
      BY <2>1, LeastNat
  <2>3. \E l \in covering : Best(l)
    BY <2>2
  <2>4. (CHOOSE l \in covering : Best(l)) \in covering
    <3> HIDE DEF Best, covering
    <3> QED
      BY <2>3
  <2> QED
    BY <1>2, <2>4 DEF Winner
<1> QED
  BY <1>1, <1>2

LEMMA PriceOfType ==
  ASSUME NEW i \in Items, NEW at \in Time, NEW overlay \in [Lists -> Time]
  PROVE  PriceOf(i, at, overlay) \in Price
BY WinnerType DEF PriceOf, Price

LEMMA FinalizeType ==
  ASSUME NEW w \in Workers, work[w] \in Work, NEW r \in Record
  PROVE  Finalize(w, r) \in Record
<1>1. work[w].overlay \in [Lists -> Time] /\ work[w].start \in Time
  BY DEF Work
<1>2. PriceOf(r.no, r.at, work[w].overlay) \in Price
  BY <1>1, PriceOfType DEF Record
<1> QED
  BY <1>1, <1>2 DEF Finalize, Record

LEMMA PublishedType ==
  ASSUME blobs \in [BlobNames -> SUBSET Record], index \in (SUBSET BlobNames) \cup {None}
  PROVE  Published \in PriceMap
<1>1. ASSUME NEW i \in Items PROVE PublishedPrice(i) \in Price \cup {None}
  <2>1. Indexed \subseteq BlobNames
    BY DEF Indexed
  <2>2. Records(i) \subseteq Record
    BY <2>1 DEF Records
  <2>3. CASE Records(i) = {}
    BY <2>3 DEF PublishedPrice
  <2>4. CASE Records(i) # {}
    <3>1. (CHOOSE r \in Records(i) : TRUE) \in Record
      BY <2>2, <2>4
    <3> QED
      BY <2>4, <3>1 DEF PublishedPrice, Record
  <2> QED
    BY <2>3, <2>4
<1> QED
  BY <1>1 DEF Published, PriceMap

-----------------------------------------------------------------------------
(* Type correctness. *)

\* No callback began in the future, and BC has a family for every item.
TypeInv ==
  /\ TypeOK
  /\ \A w \in Workers : work[w].start <= clock
  /\ \A i \in Items : item[i].fam # NoFamily

LEMMA IdleType == Idle \in Work /\ Idle.start = 0 /\ Idle.pc = "idle"
<1>1. NoPrices \in PriceMap /\ NoOverlay \in [Lists -> Time]
  BY TimeNat DEF NoPrices, PriceMap, NoOverlay
<1>2. "sync" \in AllKinds /\ 0 \in Time
  BY TimeNat DEF AllKinds
<1>3. Idle \in Work
  BY <1>1, <1>2 DEF Idle, Work
<1> QED
  BY <1>3 DEF Idle

LEMMA LocalsType ==
  ASSUME TypeInv, NEW w \in Workers
  PROVE  work[w] \in Work
BY DEF TypeInv, TypeOK

LEMMA TypeInit == ASSUME Init PROVE TypeInv
<1>1. clock = 1 /\ events = 0 /\ cut = FALSE /\ since = [items |-> 0, lists |-> 0]
  BY DEF Init
<1>6. clock \in Time /\ since \in [items : 0..clock, lists : 0..clock]
  BY <1>1, TimeNat
<1>7. events \in 0..MaxEvents
  BY <1>1, ConstantsAssumption
<1>2. item \in [Items -> Copy] /\ \A i \in Items : item[i].fam # NoFamily
  BY TimeNat, ConstantsAssumption DEF Init, Copy, BlobNames
<1>3. /\ list \in [Lists -> [at : Time, on : BOOLEAN]] /\ lines \in [Lists -> Time]
      /\ prices \in [Items -> Copy] /\ listed \subseteq Items
  BY TimeNat DEF Init, Copy, BlobNames, NoOverlay
<1>4. /\ blobs \in [BlobNames -> SUBSET Record] /\ index \in (SUBSET BlobNames) \cup {None}
      /\ shown \in PriceMap
  BY DEF Init, NoPrices, PriceMap
<1>5. work \in [Workers -> Work] /\ \A w \in Workers : work[w].start <= clock
  BY IdleType DEF Init
<1> QED
  BY <1>1, <1>2, <1>3, <1>4, <1>5, <1>6, <1>7 DEF TypeInv, TypeOK

\* A step of a callback that takes on locals r.
LEMMA GoesType ==
  ASSUME TypeInv, NEW w \in Workers, NEW r \in Work, Goes(w, r), r.start <= clock,
         UNCHANGED clock
  PROVE  work' \in [Workers -> Work] /\ \A v \in Workers : work'[v].start <= clock'
<1>1. work \in [Workers -> Work] /\ \A v \in Workers : work[v].start <= clock
  BY DEF TypeInv, TypeOK
<1> QED
  BY <1>1 DEF Goes

\* Most steps leave BC and the clock alone.
LEMMA QuietType ==
  ASSUME TypeInv, UNCHANGED <<clock, bc>>,
         work' \in [Workers -> Work], \A v \in Workers : work'[v].start <= clock',
         UNCHANGED since \/ since' \in [items : 0..clock, lists : 0..clock],
         UNCHANGED prices \/ prices' \in [Items -> Copy],
         UNCHANGED listed \/ listed' \subseteq Items,
         UNCHANGED lines \/ lines' \in [Lists -> Time],
         UNCHANGED blobs \/ blobs' \in [BlobNames -> SUBSET Record],
         UNCHANGED index \/ index' \in (SUBSET BlobNames) \cup {None},
         UNCHANGED shown \/ shown' \in PriceMap,
         UNCHANGED events \/ events' \in 0..MaxEvents,
         UNCHANGED cut \/ cut' \in BOOLEAN
  PROVE  TypeInv'
<1>1. /\ since' \in [items : 0..clock, lists : 0..clock]
      /\ prices' \in [Items -> Copy] /\ listed' \subseteq Items /\ lines' \in [Lists -> Time]
  BY DEF TypeInv, TypeOK
<1>2. /\ blobs' \in [BlobNames -> SUBSET Record] /\ shown' \in PriceMap
      /\ index' \in (SUBSET BlobNames) \cup {None}
  BY DEF TypeInv, TypeOK
<1>3. events' \in 0..MaxEvents
  BY DEF TypeInv, TypeOK
<1>4. cut' \in BOOLEAN
  BY DEF TypeInv, TypeOK
<1> QED
  BY <1>1, <1>2, <1>3, <1>4 DEF TypeInv, TypeOK, bc

\* A callback has begun by now.
LEMMA BegunType ==
  ASSUME TypeInv, NEW w \in Workers
  PROVE  work[w].start \in 0..clock /\ work[w].start \in Nat /\ clock \in Nat
<1> DEFINE start == work[w].start
<1>1. start \in Time /\ start <= clock /\ clock \in Time
  BY DEF TypeInv, TypeOK, Work
<1> HIDE DEF start
<1>2. start \in Nat /\ clock \in Nat
  BY <1>1, TimeNat
<1>3. start \in 0..clock
  BY <1>1, <1>2
<1> QED
  BY <1>2, <1>3 DEF start

LEMMA HappensType == TypeInv /\ Happens => events' \in 0..MaxEvents
BY ConstantsAssumption DEF TypeInv, TypeOK, Happens

LEMMA ChangesType ==
  ASSUME TypeInv,
         \/ NewSecond
         \/ \E i \in Items : ChangeItem(i)
         \/ \E l \in Lists : ChangeList(l) \/ DatePasses(l)
  PROVE  TypeInv'
<1>0. /\ clock \in Time /\ clock \in Nat /\ since \in [items : 0..clock, lists : 0..clock]
      /\ item \in [Items -> Copy] /\ list \in [Lists -> [at : Time, on : BOOLEAN]]
      /\ work \in [Workers -> Work] /\ \A w \in Workers : work[w].start <= clock
      /\ \A i \in Items : item[i].fam # NoFamily
  BY TimeNat DEF TypeInv, TypeOK
<1>1. CASE NewSecond
  <2>1. clock' \in Time /\ clock' = clock + 1
    BY <1>0, <1>1, ConstantsAssumption DEF NewSecond, Time
  <2>2. since' \in [items : 0..clock', lists : 0..clock']
    BY <1>0, <1>1, <2>1 DEF NewSecond
  <2>3. \A w \in Workers : work'[w].start <= clock'
    <3>1. \A w \in Workers : work[w].start \in Nat
      BY <1>0, TimeNat DEF Work
    <3> QED
      BY <1>0, <1>1, <2>1, <3>1 DEF NewSecond
  <2> QED
    BY <1>1, <2>1, <2>2, <2>3 DEF NewSecond, TypeInv, TypeOK, bc, firestore, gcs
<1>2. ASSUME NEW i \in Items, ChangeItem(i)
      PROVE  TypeInv'
  <2>1. PICK f \in Families \cup {Blocked} : item' = [item EXCEPT ![i] = [at |-> clock, fam |-> f]]
    BY <1>2 DEF ChangeItem
  <2>2. item' \in [Items -> Copy] /\ \A j \in Items : item'[j].fam # NoFamily
    BY <1>0, <2>1, ConstantsAssumption DEF Copy, BlobNames
  <2> QED
    BY <1>2, <2>2, HappensType DEF ChangeItem, Change, TypeInv, TypeOK, firestore, gcs
<1>3. ASSUME NEW l \in Lists, ChangeList(l)
      PROVE  TypeInv'
  <2>1. list' \in [Lists -> [at : Time, on : BOOLEAN]]
    BY <1>0, <1>3 DEF ChangeList
  <2> QED
    BY <1>3, <2>1, HappensType DEF ChangeList, Change, TypeInv, TypeOK, firestore, gcs
<1>4. ASSUME NEW l \in Lists, DatePasses(l)
      PROVE  TypeInv'
  <2>1. list' \in [Lists -> [at : Time, on : BOOLEAN]]
    BY <1>0, <1>4 DEF DatePasses
  <2> QED
    BY <1>4, <2>1, HappensType DEF DatePasses, Change, TypeInv, TypeOK, firestore, gcs
<1> QED
  BY <1>1, <1>2, <1>3, <1>4

\* The state as it is.
LEMMA Holds ==
  ASSUME TypeInv
  PROVE  /\ clock \in Time /\ clock \in Nat /\ events \in 0..MaxEvents /\ cut \in BOOLEAN
         /\ since \in [items : 0..clock, lists : 0..clock] /\ 0 \in Time
         /\ item \in [Items -> Copy] /\ list \in [Lists -> [at : Time, on : BOOLEAN]]
         /\ prices \in [Items -> Copy] /\ listed \subseteq Items /\ lines \in [Lists -> Time]
         /\ blobs \in [BlobNames -> SUBSET Record]
         /\ index \in (SUBSET BlobNames) \cup {None} /\ shown \in PriceMap
         /\ work \in [Workers -> Work]
         /\ \A w \in Workers : work[w] \in Work /\ work[w].start <= clock
BY TimeNat DEF TypeInv, TypeOK

\* Watermarks and stamps can be compared.
LEMMA Numbers ==
  ASSUME TypeInv
  PROVE  /\ since.items \in Nat /\ since.lists \in Nat
         /\ \A i \in Items : item[i].at \in Nat /\ prices[i].at \in Nat
         /\ \A l \in Lists : list[l].at \in Nat
<1>1. since.items \in 0..clock /\ since.lists \in 0..clock /\ clock \in Nat
  BY Holds
<1>2. since.items \in Nat /\ since.lists \in Nat
  BY <1>1
<1>3. \A i \in Items : item[i].at \in Time /\ prices[i].at \in Time
  BY Holds DEF Copy
<1>4. \A l \in Lists : list[l].at \in Time
  BY Holds
<1> QED
  BY <1>2, <1>3, <1>4, TimeNat

LEMMA StartType ==
  ASSUME TypeInv, NEW w \in Workers, NEW k \in Kinds, Start(w, k)
  PROVE  TypeInv'
<1> DEFINE old == IF k = "sync" /\ ~cut THEN Published ELSE Idle.old
           r == [Idle EXCEPT !.pc = "stages", !.kind = k, !.start = clock, !.old = old]
<1>1. old \in PriceMap
  BY Holds, PublishedType, IdleType DEF Work
<1>2. Goes(w, r)
  BY DEF Start
<1>3. k \in AllKinds
  BY ConstantsAssumption
<1>4. r \in Work /\ r.start = clock
  <2> HIDE DEF old
  <2> QED
    BY <1>1, <1>3, IdleType, Holds DEF Work
<1> HIDE DEF r
<1>5. /\ UNCHANGED <<clock, bc, since, prices, listed, lines, blobs, index, shown, events, cut>>
  BY DEF Start, firestore, gcs
<1>6. work' \in [Workers -> Work] /\ \A v \in Workers : work'[v].start <= clock'
  BY <1>2, <1>4, <1>5, Holds, GoesType
<1> QED
  BY <1>5, <1>6, QuietType

LEMMA ListsGoType ==
  ASSUME TypeInv, NEW w \in Workers, NEW overlay \in [Lists -> Time],
         NEW best \in SUBSET Items, ListsGo(w, overlay, best), UNCHANGED clock
  PROVE  work' \in [Workers -> Work] /\ \A v \in Workers : work'[v].start <= clock'
<1> DEFINE r == [work[w] EXCEPT !.lists = "end", !.overlay = overlay, !.best = best,
                                !.changed = {}, !.active = {}, !.want = {}]
<1>0. work[w] \in Work /\ work[w].start <= clock
  BY Holds
<1>1. r \in Work /\ r.start = work[w].start
  BY <1>0, ZenonT(60) DEF Work
<1> HIDE DEF r
<1>2. CASE work[w].kind = "sync"
  <2>1. Goes(w, r)
    BY <1>2 DEF ListsGo, r
  <2> QED
    BY <1>0, <1>1, <2>1, GoesType
<1>3. CASE work[w].kind # "sync"
  <2>1. Goes(w, Idle)
    BY <1>3 DEF ListsGo
  <2> QED
    BY <2>1, GoesType, IdleType, Holds
<1> QED
  BY <1>2, <1>3

LEMMA ListStepType ==
  ASSUME TypeInv, NEW w \in Workers, ListStep(w)
  PROVE  TypeInv'
<1>0. work[w] \in Work /\ work[w].start <= clock
  BY Holds
<1>1. CASE FetchHeaders(w)
  <2> DEFINE active == IF work[w].kind = "sync" THEN {l \in Lists : list[l].on} ELSE {}
  <2>1. PICK changed \in Changed(work[w].kind) :
          Goes(w, [work[w] EXCEPT !.lists = "lines", !.changed = changed, !.active = active,
                                  !.want = changed \cup active])
    BY <1>1 DEF FetchHeaders
  <2> DEFINE r == [work[w] EXCEPT !.lists = "lines", !.changed = changed, !.active = active,
                                  !.want = changed \cup active]
  <2>2. changed \in SUBSET Lists /\ active \in SUBSET Lists
    BY DEF Changed
  <2>3. r \in Work /\ r.start = work[w].start
    <3> HIDE DEF active
    <3> QED
      BY <1>0, <2>2, ZenonT(60) DEF Work
  <2>4. UNCHANGED <<clock, bc, since, prices, listed, lines, blobs, index, shown, events, cut>>
    BY <1>1 DEF FetchHeaders, firestore, gcs
  <2>5. Goes(w, r)
    BY <2>1
  <2> HIDE DEF r
  <2>6. work' \in [Workers -> Work] /\ \A v \in Workers : work'[v].start <= clock'
    BY <1>0, <2>3, <2>4, <2>5, GoesType
  <2> QED
    BY <2>4, <2>6, QuietType
<1>2. ASSUME NEW l \in Lists, FetchLines(w, l)
      PROVE  TypeInv'
  <2> DEFINE at == IF l \in work[w].active THEN list[l].at ELSE 0
             r == [work[w] EXCEPT !.want = @ \ {l}, !.overlay[l] = at]
  <2>1. at \in Time /\ list[l].at \in Time
    BY Holds
  <2>2. r \in Work /\ r.start = work[w].start
    <3> DEFINE overlay == [work[w].overlay EXCEPT ![l] = at]
               want == work[w].want \ {l}
    <3>1. overlay \in [Lists -> Time] /\ want \in SUBSET Lists
      BY <1>0, <2>1 DEF Work
    <3>2. r = [work[w] EXCEPT !.want = want, !.overlay = overlay]
      OBVIOUS
    <3> HIDE DEF overlay, want, r
    <3> QED
      BY <1>0, <3>1, <3>2, ZenonT(60) DEF Work
  <2>3. lines' \in [Lists -> Time]
    BY <1>2, <2>1, Holds DEF FetchLines
  <2>4. UNCHANGED <<clock, bc, since, prices, listed, blobs, index, shown, events, cut>>
    BY <1>2 DEF FetchLines, gcs
  <2>5. Goes(w, r)
    BY <1>2 DEF FetchLines
  <2> HIDE DEF r
  <2>6. work' \in [Workers -> Work] /\ \A v \in Workers : work'[v].start <= clock'
    BY <1>0, <2>2, <2>4, <2>5, GoesType
  <2> QED
    BY <2>3, <2>4, <2>6, QuietType
<1>3. CASE EndLists(w)
  <2>1. work[w].overlay \in [Lists -> Time] /\ work[w].start \in 0..clock
    <3>1. work[w].overlay \in [Lists -> Time] /\ work[w].start \in Time
      BY <1>0 DEF Work
    <3> QED
      BY <3>1, BegunType
  <2>2. UNION {Covers[l] : l \in work[w].changed \cup work[w].active} \in SUBSET Items
    BY <1>0, ConstantsAssumption DEF Work
  <2>3. UNCHANGED <<clock, bc, prices, listed, lines, blobs, index, shown, events, cut>>
    BY <1>3 DEF EndLists, firestore, gcs
  <2>4. since' \in [items : 0..clock, lists : 0..clock]
    BY <1>3, <2>1, Holds DEF EndLists
  <2>5. work' \in [Workers -> Work] /\ \A v \in Workers : work'[v].start <= clock'
    BY <1>3, <2>1, <2>2, <2>3, ListsGoType DEF EndLists
  <2> QED
    BY <2>3, <2>4, <2>5, QuietType
<1>4. CASE FailLists(w)
  <2>1. UNCHANGED <<clock, bc, since, prices, listed, lines, blobs, index, shown, cut>>
    BY <1>4 DEF FailLists, firestore, gcs
  <2>2. events' \in 0..MaxEvents
    BY <1>4, HappensType DEF FailLists, Mishap
  <2>3. NoOverlay \in [Lists -> Time]
    BY TimeNat DEF NoOverlay
  <2>4. work' \in [Workers -> Work] /\ \A v \in Workers : work'[v].start <= clock'
    BY <1>4, <2>1, <2>3, ListsGoType DEF FailLists
  <2> QED
    BY <2>1, <2>2, <2>4, QuietType
<1> QED
  BY <1>1, <1>2, <1>3, <1>4 DEF ListStep

\* A product as BC answers it.
Answer == [no : Items, at : Time, fam : BlobNames \cup {Blocked}]

LEMMA FetchedType ==
  ASSUME TypeInv, NEW i \in Items, NEW omitted
  PROVE  Fetched(i, omitted) \in Answer
<1>1. item[i] \in Copy
  BY Holds
<1>2. item[i].at \in Time /\ item[i].fam \in BlobNames \cup {Blocked}
  BY <1>1 DEF Copy
<1> QED
  BY <1>2 DEF Fetched, Answer, BlobNames

\* What is merged is of the type of the answers.
LEMMA MergeType ==
  ASSUME TypeInv, NEW S \in SUBSET Answer, Merge(S)
  PROVE  prices' \in [Items -> Copy] /\ listed' \subseteq Items
<1>1. ASSUME NEW i \in Items PROVE prices'[i] \in Copy
  <2>0. prices[i] \in Copy
    BY Holds
  <2>1. CASE \E g \in S : g.no = i
    <3> DEFINE g == CHOOSE g \in S : g.no = i
    <3>1. g \in S
      BY <2>1
    <3> HIDE DEF g
    <3>2. g.at \in Time /\ g.fam \in BlobNames \cup {Blocked}
      BY <3>1 DEF Answer
    <3>3. prices'[i] = [at |-> g.at, fam |-> IF g.fam = NoFamily THEN prices[i].fam ELSE g.fam]
      BY <2>1 DEF Merge, g
    <3>4. prices[i].fam \in BlobNames \cup {Blocked}
      BY <2>0 DEF Copy
    <3> QED
      BY <3>2, <3>3, <3>4 DEF Copy
  <2>2. CASE ~ \E g \in S : g.no = i
    BY <2>0, <2>2 DEF Merge
  <2> QED
    BY <2>1, <2>2
<1>2. prices' \in [Items -> Copy]
  BY <1>1 DEF Merge
<1>3. listed' \subseteq Items
  BY Holds DEF Merge
<1> QED
  BY <1>2, <1>3

LEMMA ItemStepType ==
  ASSUME TypeInv, NEW w \in Workers, ItemStep(w)
  PROVE  TypeInv'
<1>0. work[w] \in Work /\ work[w].start <= clock
  BY Holds
<1>1. work[w].got \in SUBSET Answer /\ work[w].start \in Time
  BY <1>0 DEF Work, Answer
<1>2. CASE FetchItems(w)
  <2>1. PICK full \in BOOLEAN, omitted \in {{}, Items} :
          /\ UNCHANGED events \/ Mishap("blobs")
          /\ Goes(w, [work[w] EXCEPT
               !.items = "fetched", !.full = full,
               !.got = IF full /\ AllBlocked THEN {}
                       ELSE {Fetched(i, omitted) :
                               i \in {j \in Items : full \/ item[j].at >= since.items}}])
    BY <1>2 DEF FetchItems
  <2> DEFINE got == IF full /\ AllBlocked THEN {}
                    ELSE {Fetched(i, omitted) :
                            i \in {j \in Items : full \/ item[j].at >= since.items}}
             r == [work[w] EXCEPT !.items = "fetched", !.full = full, !.got = got]
  <2>2. got \in SUBSET Answer
    BY FetchedType
  <2>3. Goes(w, r)
    BY <2>1
  <2>4. r \in Work /\ r.start = work[w].start
    <3> HIDE DEF got
    <3> QED
      BY <1>0, <2>2, ZenonT(60) DEF Work, Answer
  <2> HIDE DEF r
  <2>5. UNCHANGED <<clock, bc, since, prices, listed, lines, blobs, index, shown, cut>>
    BY <1>2 DEF FetchItems, firestore, gcs
  <2>6. UNCHANGED events \/ events' \in 0..MaxEvents
    BY <2>1, HappensType DEF Mishap
  <2>7. work' \in [Workers -> Work] /\ \A v \in Workers : work'[v].start <= clock'
    BY <1>0, <2>3, <2>4, <2>5, GoesType
  <2> QED
    BY SMTT(20), <2>5, <2>6, <2>7, QuietType
<1>3. CASE StoreItems(w)
  <2> DEFINE r == [work[w] EXCEPT !.items = "end"]
  <2>1. r \in Work /\ r.start = work[w].start
    BY <1>0, ZenonT(60) DEF Work
  <2>2. Goes(w, r)
    BY <1>3 DEF StoreItems
  <2> HIDE DEF r
  <2>3. UNCHANGED <<clock, bc, lines, blobs, index, shown, events, cut>>
    BY <1>3 DEF StoreItems, gcs
  <2>4. since' \in [items : 0..clock, lists : 0..clock]
    <3>1. since \in [items : 0..clock, lists : 0..clock]
      BY Holds
    <3> QED
      BY <1>3, <3>1, BegunType DEF StoreItems
  <2>5. prices' \in [Items -> Copy] /\ listed' \subseteq Items
    BY <1>1, <1>3, MergeType DEF StoreItems
  <2>6. work' \in [Workers -> Work] /\ \A v \in Workers : work'[v].start <= clock'
    BY <1>0, <2>1, <2>2, <2>3, GoesType
  <2> QED
    BY <2>3, <2>4, <2>5, <2>6, QuietType
<1>4. CASE FailItems(w)
  <2> DEFINE r == [work[w] EXCEPT !.items = "failed", !.got = {}, !.full = FALSE]
  <2>1. r \in Work /\ r.start = work[w].start
    BY <1>0, ZenonT(60) DEF Work
  <2>2. Goes(w, r)
    BY <1>4 DEF FailItems
  <2> HIDE DEF r
  <2>3. UNCHANGED <<clock, bc, since, lines, blobs, index, shown, cut>>
    BY <1>4 DEF FailItems, gcs
  <2>4. events' \in 0..MaxEvents
    BY <1>4, HappensType DEF FailItems, Mishap
  <2>5. PICK S \in SUBSET work[w].got : Merge(S)
    BY <1>4 DEF FailItems, MergeSome
  <2>6. prices' \in [Items -> Copy] /\ listed' \subseteq Items
    BY <1>1, <2>5, MergeType
  <2>7. work' \in [Workers -> Work] /\ \A v \in Workers : work'[v].start <= clock'
    BY <1>0, <2>1, <2>2, <2>3, GoesType
  <2> QED
    BY <2>3, <2>4, <2>6, <2>7, QuietType
<1> QED
  BY <1>2, <1>3, <1>4 DEF ItemStep

LEMMA SwallowsType ==
  ASSUME TypeInv, NEW b \in BOOLEAN, Swallows(b)
  PROVE  /\ UNCHANGED events \/ events' \in 0..MaxEvents
         /\ UNCHANGED cut \/ cut' \in BOOLEAN
<1>1. CASE b
  BY <1>1, HappensType DEF Swallows, Mishap
<1>2. CASE ~b
  BY <1>2 DEF Swallows
<1> QED
  BY <1>1, <1>2

LEMMA ToPatchType ==
  ASSUME NEW w \in Workers, work[w] \in Work
  PROVE  ToPatch(w) \in Work /\ ToPatch(w).start = work[w].start
<1>1. work[w].start \in Time /\ work[w].best \in SUBSET Items /\ work[w].old \in PriceMap
  BY DEF Work
<1>2. ASSUME NEW start \in Time, NEW best \in SUBSET Items, NEW old \in PriceMap
      PROVE  LET r == [Idle EXCEPT !.pc = "patch", !.start = start, !.best = best, !.old = old]
             IN  r \in Work /\ r.start = start
  BY IdleType, ZenonT(60) DEF Work
<1> QED
  BY <1>1, <1>2 DEF ToPatch

\* The records that a rebuild writes for family f, and the prices it has written
\* when they are.
Written(w, f, kept) ==
  {Finalize(w, r) : r \in kept \cup {FromBC(g) : g \in {h \in work[w].got : h.fam = f}}}
Priced(w, final) ==
  [i \in Items |-> IF \E r \in final : r.no = i THEN (CHOOSE r \in final : r.no = i).price
                                              ELSE work[w].fresh[i]]

LEMMA WrittenType ==
  ASSUME NEW w \in Workers, work[w] \in Work, NEW f, NEW kept \in SUBSET Record
  PROVE  Written(w, f, kept) \in SUBSET Record
<1>1. ASSUME NEW g \in work[w].got PROVE FromBC(g) \in Record
  <2>1. g \in Answer
    BY DEF Work, Answer
  <2> QED
    BY <2>1, TimeNat DEF Answer, FromBC, Record, Price
<1> QED
  BY <1>1, FinalizeType DEF Written

LEMMA PricedType ==
  ASSUME NEW w \in Workers, work[w] \in Work, NEW final \in SUBSET Record
  PROVE  Priced(w, final) \in PriceMap
<1>1. ASSUME NEW i \in Items, \E r \in final : r.no = i
      PROVE  (CHOOSE r \in final : r.no = i).price \in Price
  <2>1. (CHOOSE r \in final : r.no = i) \in final
    BY <1>1
  <2>2. (CHOOSE r \in final : r.no = i) \in Record
    BY <2>1
  <2> QED
    BY <2>2 DEF Record
<1>2. \A i \in Items : work[w].fresh[i] \in Price \cup {None}
  BY DEF Work, PriceMap
<1> QED
  BY <1>1, <1>2 DEF Priced, PriceMap

LEMMA BlobStepType ==
  ASSUME TypeInv, NEW w \in Workers, BlobStep(w)
  PROVE  TypeInv'
<1>0. work[w] \in Work /\ work[w].start <= clock
  BY Holds
<1>1. CASE Assemble(w)
  <2>1. PICK noPrev \in BOOLEAN, noIndex \in BOOLEAN :
          /\ Swallows(noPrev \/ noIndex)
          /\ LET known == IF work[w].full \/ noIndex THEN {} ELSE Indexed
                 fams == known \cup ({g.fam : g \in work[w].got} \ {Blocked})
             IN  Goes(w, [work[w] EXCEPT
                   !.pc = "families", !.known = known, !.fams = fams, !.todo = fams,
                   !.prev = IF noPrev THEN NoPrices ELSE shown, !.hurt = noPrev \/ noIndex])
    BY <1>1 DEF Assemble
  <2> DEFINE known == IF work[w].full \/ noIndex THEN {} ELSE Indexed
             fams == known \cup ({g.fam : g \in work[w].got} \ {Blocked})
             prev == IF noPrev THEN NoPrices ELSE shown
             hurt == noPrev \/ noIndex
             r == [work[w] EXCEPT !.pc = "families", !.known = known, !.fams = fams,
                                  !.todo = fams, !.prev = prev, !.hurt = hurt]
  <2>2. known \in SUBSET BlobNames
    BY Holds DEF Indexed
  <2>3. fams \in SUBSET BlobNames
    <3>1. \A g \in work[w].got : g.fam \in BlobNames \cup {Blocked}
      BY <1>0 DEF Work
    <3> QED
      BY <2>2, <3>1
  <2>4. prev \in PriceMap
    BY Holds DEF NoPrices, PriceMap
  <2>5. hurt \in BOOLEAN
    OBVIOUS
  <2>6. Goes(w, r) /\ Swallows(hurt)
    BY <2>1
  <2>7. r \in Work /\ r.start = work[w].start
    <3> HIDE DEF known, fams, prev, hurt
    <3> QED
      BY <1>0, <2>2, <2>3, <2>4, <2>5, ZenonT(60) DEF Work
  <2> HIDE DEF r, hurt
  <2>8. UNCHANGED <<clock, bc, since, prices, listed, lines, blobs, index, shown>>
    BY <1>1 DEF Assemble, firestore, gcs
  <2>9. work' \in [Workers -> Work] /\ \A v \in Workers : work'[v].start <= clock'
    BY <1>0, <2>6, <2>7, <2>8, GoesType
  <2> QED
    BY <2>5, <2>6, <2>8, <2>9, SwallowsType, QuietType
<1>2. CASE SkipAssembly(w)
  <2>1. UNCHANGED <<clock, bc, since, prices, listed, lines, blobs, index, shown, events, cut>>
    BY <1>2 DEF SkipAssembly, firestore, gcs
  <2>2. work' \in [Workers -> Work] /\ \A v \in Workers : work'[v].start <= clock'
    BY <1>0, <1>2, <2>1, ToPatchType, GoesType DEF SkipAssembly
  <2> QED
    BY <2>1, <2>2, QuietType
<1>3. ASSUME NEW f \in BlobNames, SaveFamily(w, f)
      PROVE  TypeInv'
  <2>1. PICK noLoad \in BOOLEAN, noSave \in BOOLEAN :
          /\ Swallows(noLoad \/ noSave)
          /\ LET kept == IF f \in work[w].known /\ ~noLoad THEN Kept(w, f) ELSE {}
                 raw == kept \cup {FromBC(g) : g \in {h \in work[w].got : h.fam = f}}
                 final == {Finalize(w, r) : r \in raw}
             IN  /\ blobs' = IF noSave THEN blobs ELSE [blobs EXCEPT ![f] = final]
                 /\ Goes(w, [work[w] EXCEPT
                      !.todo = @ \ {f}, !.hurt = @ \/ noLoad \/ noSave,
                      !.fresh = [i \in Items |->
                        IF \E r \in final : r.no = i THEN (CHOOSE r \in final : r.no = i).price
                                                     ELSE @[i]]])
    BY <1>3 DEF SaveFamily
  <2> DEFINE kept == IF f \in work[w].known /\ ~noLoad THEN Kept(w, f) ELSE {}
             final == Written(w, f, kept)
             fresh == Priced(w, final)
             todo == work[w].todo \ {f}
             hurt == work[w].hurt \/ noLoad \/ noSave
             r0 == [work[w] EXCEPT !.todo = todo, !.hurt = hurt, !.fresh = fresh]
  <2>2. kept \in SUBSET Record
    BY Holds DEF Kept
  <2>3. final \in SUBSET Record /\ fresh \in PriceMap
    <3>1. final \in SUBSET Record
      BY <1>0, <2>2, WrittenType
    <3> HIDE DEF final
    <3> QED
      BY <1>0, <3>1, PricedType
  <2>4. todo \in SUBSET BlobNames /\ hurt \in BOOLEAN
    BY <1>0 DEF Work
  <2>5. Goes(w, r0)
    BY <2>1 DEF Written, Priced
  <2>6. blobs' \in [BlobNames -> SUBSET Record]
    <3>1. blobs' = IF noSave THEN blobs ELSE [blobs EXCEPT ![f] = final]
      BY <2>1 DEF Written
    <3> HIDE DEF final
    <3> QED
      BY <2>3, <3>1, Holds
  <2>7. r0 \in Work /\ r0.start = work[w].start
    <3> HIDE DEF fresh, todo, hurt
    <3> QED
      BY <1>0, <2>3, <2>4, ZenonT(60) DEF Work
  <2> HIDE DEF r0
  <2>8. UNCHANGED <<clock, bc, since, prices, listed, lines, index, shown>>
    BY <1>3 DEF SaveFamily, firestore
  <2>9. work' \in [Workers -> Work] /\ \A v \in Workers : work'[v].start <= clock'
    BY <1>0, <2>5, <2>7, <2>8, GoesType
  <2>10. /\ UNCHANGED events \/ events' \in 0..MaxEvents
         /\ UNCHANGED cut \/ cut' \in BOOLEAN
    BY <2>1, SwallowsType
  <2> QED
    BY <2>6, <2>8, <2>9, <2>10, QuietType
<1>4. CASE SaveIndex(w)
  <2>1. PICK noSave \in BOOLEAN :
          /\ Swallows(noSave)
          /\ index' = IF noSave THEN index ELSE work[w].fams
          /\ Goes(w, [work[w] EXCEPT !.pc = "shown", !.hurt = @ \/ noSave])
    BY <1>4 DEF SaveIndex
  <2> DEFINE hurt == work[w].hurt \/ noSave
             r == [work[w] EXCEPT !.pc = "shown", !.hurt = hurt]
  <2>2. Goes(w, r) /\ hurt \in BOOLEAN
    BY <1>0, <2>1 DEF Work
  <2>3. r \in Work /\ r.start = work[w].start
    <3> HIDE DEF hurt
    <3> QED
      BY <1>0, <2>2, ZenonT(60) DEF Work
  <2> HIDE DEF r
  <2>4. UNCHANGED index \/ index' \in (SUBSET BlobNames) \cup {None}
    <3>1. work[w].fams \in SUBSET BlobNames
      BY <1>0 DEF Work
    <3> QED
      BY <2>1, <3>1
  <2>5. UNCHANGED <<clock, bc, since, prices, listed, lines, blobs, shown>>
    BY <1>4 DEF SaveIndex, firestore
  <2>6. work' \in [Workers -> Work] /\ \A v \in Workers : work'[v].start <= clock'
    BY <1>0, <2>2, <2>3, <2>5, GoesType
  <2> QED
    BY <2>1, <2>4, <2>5, <2>6, SwallowsType, QuietType
<1>5. CASE SaveShown(w)
  <2>1. UNCHANGED <<clock, bc, since, prices, listed, lines, blobs, index>>
    BY <1>5 DEF SaveShown, firestore
  <2>2. work' \in [Workers -> Work] /\ \A v \in Workers : work'[v].start <= clock'
    BY <1>0, <1>5, <2>1, ToPatchType, GoesType DEF SaveShown
  <2>3. UNCHANGED shown \/ shown' \in PriceMap
    BY <1>0, <1>5 DEF SaveShown, Work
  <2>4. UNCHANGED events \/ events' \in 0..MaxEvents
    BY <1>5, HappensType DEF SaveShown, Mishap
  <2>5. cut' \in BOOLEAN
    BY <1>5 DEF SaveShown
  <2> QED
    BY <2>1, <2>2, <2>3, <2>4, <2>5, QuietType
<1>6. CASE Patch(w)
  <2>1. UNCHANGED <<clock, bc, since, prices, lines, blobs, index, shown, cut>>
    BY <1>6 DEF Patch, gcs
  <2>2. work' \in [Workers -> Work] /\ \A v \in Workers : work'[v].start <= clock'
    BY <1>6, <2>1, IdleType, GoesType, BegunType DEF Patch
  <2>3. listed' \subseteq Items
    <3>1. work[w].best \subseteq Items /\ listed \subseteq Items
      BY <1>0, Holds DEF Work
    <3> QED
      BY <1>6, <3>1 DEF Patch, PatchSome
  <2>4. UNCHANGED events \/ events' \in 0..MaxEvents
    BY <1>6, HappensType DEF Patch, Mishap
  <2> QED
    BY <2>1, <2>2, <2>3, <2>4, QuietType
<1> QED
  BY <1>1, <1>2, <1>3, <1>4, <1>5, <1>6 DEF BlobStep

LEMMA CrashType ==
  ASSUME TypeInv, NEW w \in Workers, Crash(w)
  PROVE  TypeInv'
<1>0. work[w] \in Work
  BY Holds
<1>1. UNCHANGED <<clock, bc, since, lines, blobs, index, shown>>
  BY DEF Crash, gcs
<1>2. work' \in [Workers -> Work] /\ \A v \in Workers : work'[v].start <= clock'
  BY <1>1, IdleType, GoesType, BegunType DEF Crash
<1>3. events' \in 0..MaxEvents
  BY HappensType DEF Crash, Mishap
<1>4. cut' \in BOOLEAN
  BY DEF Crash
<1>5. /\ UNCHANGED prices \/ prices' \in [Items -> Copy]
      /\ UNCHANGED listed \/ listed' \subseteq Items
  <2>1. CASE Fetching(w, "fetched")
    <3>1. PICK S \in SUBSET work[w].got : Merge(S)
      BY <2>1 DEF Crash, MergeSome
    <3>2. work[w].got \in SUBSET Answer
      BY <1>0 DEF Work, Answer
    <3> QED
      BY <3>1, <3>2, MergeType
  <2>2. CASE ~Fetching(w, "fetched")
    <3>1. work[w].best \subseteq Items /\ listed \subseteq Items
      BY <1>0, Holds DEF Work
    <3> QED
      BY <2>2, <3>1 DEF Crash, PatchSome
  <2> QED
    BY <2>1, <2>2
<1> QED
  BY <1>1, <1>2, <1>3, <1>4, <1>5, QuietType

LEMMA TypeStep == TypeInv /\ [Next]_vars => TypeInv'
<1> SUFFICES ASSUME TypeInv, [Next]_vars PROVE TypeInv'
  OBVIOUS
<1>1. CASE UNCHANGED vars
  BY <1>1 DEF vars, bc, firestore, gcs, TypeInv, TypeOK
<1>2. CASE \/ NewSecond
           \/ \E i \in Items : ChangeItem(i)
           \/ \E l \in Lists : ChangeList(l) \/ DatePasses(l)
  BY <1>2, ChangesType
<1>3. CASE \E w \in Workers : \/ \E k \in Kinds : Start(w, k)
                              \/ ListStep(w) \/ ItemStep(w) \/ BlobStep(w) \/ Crash(w)
  BY <1>3, StartType, ListStepType, ItemStepType, BlobStepType, CrashType
<1> QED
  BY <1>1, <1>2, <1>3 DEF Next

\* Every reachable state has the declared shape, and no watermark and no callback
\* is ahead of the clock: under every fault, for any number of callbacks.
THEOREM TypeCorrect == Spec => []TypeOK
<1>1. TypeInv => TypeOK
  BY DEF TypeInv
<1> QED
  BY <1>1, TypeInit, TypeStep, PTL DEF Spec

-----------------------------------------------------------------------------
(* What the stages of one callback leave alone of the others.              *)

LEMMA ItemStepFrame ==
  ASSUME TypeInv, NEW w \in Workers, ItemStep(w)
  PROVE  /\ UNCHANGED <<list, lines, clock>> /\ since'.lists = since.lists
         /\ \E r : /\ Goes(w, r)
                   /\ r.pc = work[w].pc /\ r.kind = work[w].kind /\ r.start = work[w].start
                   /\ r.lists = work[w].lists /\ r.want = work[w].want
                   /\ r.changed = work[w].changed
<1>0. work[w] \in Work /\ since \in [items : 0..clock, lists : 0..clock]
  BY Holds
<1> DEFINE Same(r) == /\ r.pc = work[w].pc /\ r.kind = work[w].kind /\ r.start = work[w].start
                      /\ r.lists = work[w].lists /\ r.want = work[w].want
                      /\ r.changed = work[w].changed
<1>1. CASE FetchItems(w)
  <2>1. PICK full, got : Goes(w, [work[w] EXCEPT !.items = "fetched", !.full = full, !.got = got])
    BY <1>1 DEF FetchItems
  <2>2. Same([work[w] EXCEPT !.items = "fetched", !.full = full, !.got = got])
    BY <1>0 DEF Work
  <2> QED
    BY <1>1, <2>1, <2>2 DEF FetchItems, bc, firestore
<1>2. CASE StoreItems(w)
  <2>1. Same([work[w] EXCEPT !.items = "end"])
    BY <1>0 DEF Work
  <2>2. since'.lists = since.lists
    BY <1>0, <1>2 DEF StoreItems
  <2> QED
    BY <1>2, <2>1, <2>2 DEF StoreItems, bc
<1>3. CASE FailItems(w)
  <2>1. Same([work[w] EXCEPT !.items = "failed", !.got = {}, !.full = FALSE])
    BY <1>0 DEF Work
  <2> QED
    BY <1>3, <2>1 DEF FailItems, bc
<1> QED
  BY <1>1, <1>2, <1>3 DEF ItemStep

LEMMA BlobStepFrame ==
  ASSUME TypeInv, NEW w \in Workers, BlobStep(w)
  PROVE  /\ UNCHANGED <<item, list, since, prices, lines, clock>>
         /\ work[w].pc # "idle"
         /\ \E r : Goes(w, r) /\ r.pc # "stages" /\ r.kind \in {work[w].kind, "sync"}
<1>0. work[w] \in Work
  BY Holds
<1>1. ToPatch(w).pc = "patch" /\ ToPatch(w).kind = "sync" /\ Idle.pc = "idle" /\ Idle.kind = "sync"
  BY DEF ToPatch, Idle
<1>2. CASE Assemble(w)
  <2>1. PICK known, fams, prev, hurt :
          Goes(w, [work[w] EXCEPT !.pc = "families", !.known = known, !.fams = fams,
                                  !.todo = fams, !.prev = prev, !.hurt = hurt])
    BY <1>2 DEF Assemble
  <2> DEFINE r == [work[w] EXCEPT !.pc = "families", !.known = known, !.fams = fams,
                                  !.todo = fams, !.prev = prev, !.hurt = hurt]
  <2>2. r.pc = "families" /\ r.kind = work[w].kind
    BY <1>0 DEF Work
  <2> QED
    BY <1>2, <2>1, <2>2 DEF Assemble, StagesOver, bc, firestore
<1>3. CASE SkipAssembly(w)
  BY <1>1, <1>3 DEF SkipAssembly, StagesOver, bc, firestore
<1>4. ASSUME NEW f \in BlobNames, SaveFamily(w, f)
      PROVE  /\ UNCHANGED <<item, list, since, prices, lines, clock>>
             /\ work[w].pc # "idle"
             /\ \E r : Goes(w, r) /\ r.pc # "stages" /\ r.kind \in {work[w].kind, "sync"}
  <2>1. PICK todo, hurt, fresh :
          Goes(w, [work[w] EXCEPT !.todo = todo, !.hurt = hurt, !.fresh = fresh])
    BY <1>4 DEF SaveFamily
  <2> DEFINE r == [work[w] EXCEPT !.todo = todo, !.hurt = hurt, !.fresh = fresh]
  <2>2. r.pc = work[w].pc /\ r.kind = work[w].kind
    BY <1>0 DEF Work
  <2> QED
    BY <1>4, <2>1, <2>2 DEF SaveFamily, bc, firestore
<1>5. CASE SaveIndex(w)
  <2>1. PICK hurt : Goes(w, [work[w] EXCEPT !.pc = "shown", !.hurt = hurt])
    BY <1>5 DEF SaveIndex
  <2>2. [work[w] EXCEPT !.pc = "shown", !.hurt = hurt].pc = "shown"
        /\ [work[w] EXCEPT !.pc = "shown", !.hurt = hurt].kind = work[w].kind
    BY <1>0 DEF Work
  <2> QED
    BY <1>5, <2>1, <2>2 DEF SaveIndex, bc, firestore
<1>6. CASE SaveShown(w)
  BY <1>1, <1>6 DEF SaveShown, bc, firestore
<1>7. CASE Patch(w)
  BY <1>1, <1>7 DEF Patch, bc
<1> QED
  BY <1>2, <1>3, <1>4, <1>5, <1>6, <1>7 DEF BlobStep

LEMMA ListStepFrame ==
  ASSUME TypeInv, NEW w \in Workers, ListStep(w)
  PROVE  /\ UNCHANGED <<item, prices, clock>> /\ since'.items = since.items
         /\ work[w].pc # "idle"
         /\ \E r : /\ Goes(w, r)
                   /\ \/ r.pc = "idle"
                      \/ /\ r.pc = work[w].pc /\ r.items = work[w].items
                         /\ r.got = work[w].got /\ r.start = work[w].start
<1>0. work[w] \in Work /\ since \in [items : 0..clock, lists : 0..clock]
  BY Holds
<1> DEFINE Same(r) == \/ r.pc = "idle"
                      \/ /\ r.pc = work[w].pc /\ r.items = work[w].items
                         /\ r.got = work[w].got /\ r.start = work[w].start
<1>1. ASSUME NEW overlay, NEW best, ListsGo(w, overlay, best)
      PROVE  \E r : Goes(w, r) /\ Same(r)
  <2>1. Same([work[w] EXCEPT !.lists = "end", !.overlay = overlay, !.best = best,
                             !.changed = {}, !.active = {}, !.want = {}])
    BY <1>0 DEF Work
  <2>2. Same(Idle)
    BY DEF Idle
  <2> QED
    BY <1>1, <2>1, <2>2 DEF ListsGo
<1>2. CASE FetchHeaders(w)
  <2>1. PICK changed, active, want :
          Goes(w, [work[w] EXCEPT !.lists = "lines", !.changed = changed, !.active = active,
                                  !.want = want])
    BY <1>2 DEF FetchHeaders
  <2>2. Same([work[w] EXCEPT !.lists = "lines", !.changed = changed, !.active = active,
                             !.want = want])
    BY <1>0 DEF Work
  <2> QED
    BY <1>2, <2>1, <2>2 DEF FetchHeaders, Listing, bc, firestore
<1>3. ASSUME NEW l \in Lists, FetchLines(w, l)
      PROVE  /\ UNCHANGED <<item, prices, since, clock>> /\ work[w].pc # "idle"
             /\ \E r : Goes(w, r) /\ Same(r)
  <2>1. PICK want, at : Goes(w, [work[w] EXCEPT !.want = want, !.overlay[l] = at])
    BY <1>3 DEF FetchLines
  <2>2. Same([work[w] EXCEPT !.want = want, !.overlay[l] = at])
    BY <1>0 DEF Work
  <2> QED
    BY <1>3, <2>1, <2>2 DEF FetchLines, Listing, bc
<1>4. CASE EndLists(w)
  <2>1. since'.items = since.items
    BY <1>0, <1>4 DEF EndLists
  <2> QED
    BY <1>1, <1>4, <2>1 DEF EndLists, Listing, bc, firestore
<1>5. CASE FailLists(w)
  BY <1>1, <1>5 DEF FailLists, Listing, bc, firestore
<1> QED
  BY <1>2, <1>3, <1>4, <1>5 DEF ListStep

-----------------------------------------------------------------------------
(* The price lists. *)

\* A callback that writes the lines of the changed lists, with those still to fetch in
\* its want: it has written, or will write, every list that changed up to its start.
Reads(k, ls, copies) ==
  k.pc = "stages" /\ k.lists = "lines" /\ k.kind # "one" =>
    \A l \in Lists : ls[l].at <= k.start =>
      (l \in k.want /\ l \in k.changed) \/ copies[l] = ls[l].at

\* No message moves the watermark without having fetched the lines.
ListsInv ==
  /\ ListsKept
  /\ \A w \in Workers : work[w].kind # "headers" /\ Reads(work[w], list, lines)

LEMMA ListsInit == ASSUME Init PROVE ListsInv
<1>1. ListsKept
  BY DEF Init, ListsKept
<1>2. Idle.kind = "sync" /\ Idle.pc = "idle"
  BY DEF Idle
<1> QED
  BY <1>1, <1>2 DEF Init, ListsInv, Reads

\* A step of one callback that leaves the lists, their copies and their watermark alone.
LEMMA ListsSame ==
  ASSUME TypeInv, ListsInv, NEW w \in Workers, NEW r, Goes(w, r), r.kind # "headers",
         Reads(r, list, lines), UNCHANGED <<list, lines>>, since'.lists = since.lists
  PROVE  ListsInv'
<1>1. ListsKept'
  BY DEF ListsInv, ListsKept
<1>2. work' = [work EXCEPT ![w] = r] /\ work \in [Workers -> Work]
  BY Holds DEF Goes
<1>3. ASSUME NEW v \in Workers
      PROVE  work'[v].kind # "headers" /\ Reads(work'[v], list, lines)
  BY <1>2 DEF ListsInv
<1> QED
  BY <1>1, <1>3 DEF ListsInv, Reads

LEMMA ListsChange ==
  ASSUME "second" \notin Faults, TypeInv, ListsInv, NEW l \in Lists, ChangeList(l)
  PROVE  ListsInv'
<1>1. PICK on \in BOOLEAN : list' = [list EXCEPT ![l] = [at |-> clock, on |-> on]]
  BY DEF ChangeList
<1>2. UNCHANGED <<since, lines, work>> /\ ~Watermarked
  BY DEF ChangeList, Change, firestore
<1>3. list \in [Lists -> [at : Time, on : BOOLEAN]]
  BY Holds
<1>4. list'[l].at = clock /\ \A k \in Lists \ {l} : list'[k] = list[k]
  BY <1>1, <1>3
<1>5. since.lists \in 0..clock /\ clock \in Nat
  BY Holds
<1>6. ~(clock <= since.lists)
  <2>1. since.lists # clock
    BY <1>2 DEF Watermarked
  <2> QED
    BY <1>5, <2>1
<1>7. ListsKept'
  BY <1>2, <1>4, <1>6 DEF ListsInv, ListsKept
<1>8. ASSUME NEW w \in Workers
      PROVE  Reads(work[w], list', lines)
  <2> SUFFICES ASSUME work[w].pc = "stages", work[w].lists = "lines", work[w].kind # "one",
                      NEW k \in Lists, list'[k].at <= work[w].start
               PROVE  (k \in work[w].want /\ k \in work[w].changed) \/ lines[k] = list'[k].at
    BY DEF Reads
  <2>1. work[w].start \in Nat /\ work[w].start <= clock /\ work[w].start # clock
    BY <1>2, BegunType, Holds DEF Watermarked, Listing
  <2>2. ~(clock <= work[w].start)
    BY <1>5, <2>1
  <2>3. k # l
    BY <1>4, <2>2
  <2> QED
    BY <1>4, <2>3 DEF ListsInv, Reads
<1> QED
  BY <1>2, <1>7, <1>8 DEF ListsInv, Reads

LEMMA ListsListStep ==
  ASSUME TypeInv, ListsInv, NEW w \in Workers, ListStep(w)
  PROVE  ListsInv'
<1>0. work[w] \in Work /\ work[w].kind # "headers" /\ Reads(work[w], list, lines)
  BY Holds DEF ListsInv
<1>1. ASSUME NEW overlay, NEW best, ListsGo(w, overlay, best)
      PROVE  \E r : Goes(w, r) /\ r.kind # "headers" /\ ~(r.pc = "stages" /\ r.lists = "lines")
  <2> DEFINE r == [work[w] EXCEPT !.lists = "end", !.overlay = overlay, !.best = best,
                                  !.changed = {}, !.active = {}, !.want = {}]
  <2>1. r.lists = "end" /\ r.kind = work[w].kind
    BY <1>0 DEF Work
  <2>2. Idle.pc = "idle" /\ Idle.kind = "sync"
    BY DEF Idle
  <2> QED
    BY <1>0, <1>1, <2>1, <2>2 DEF ListsGo
<1>2. CASE FetchHeaders(w)
  <2> DEFINE active == IF work[w].kind = "sync" THEN {l \in Lists : list[l].on} ELSE {}
  <2>1. PICK changed \in Changed(work[w].kind) :
          Goes(w, [work[w] EXCEPT !.lists = "lines", !.changed = changed, !.active = active,
                                  !.want = changed \cup active])
    BY <1>2 DEF FetchHeaders
  <2> HIDE DEF active
  <2> DEFINE r == [work[w] EXCEPT !.lists = "lines", !.changed = changed, !.active = active,
                                  !.want = changed \cup active]
  <2>2. /\ r.kind = work[w].kind /\ r.changed = changed /\ r.want = changed \cup active
        /\ r.start = work[w].start
    BY <1>0 DEF Work
  <2>3. Goes(w, r)
    BY <2>1
  <2> HIDE DEF r
  <2>4. Reads(r, list, lines)
    <3> SUFFICES ASSUME r.kind # "one", NEW l \in Lists, list[l].at <= r.start
                 PROVE  (l \in r.want /\ l \in r.changed) \/ lines[l] = list[l].at
      BY DEF Reads
    <3>1. changed = {k \in Lists : list[k].at > since.lists}
      BY <1>0, <2>1, <2>2 DEF Changed
    <3>2. CASE l \in changed
      BY <2>2, <3>2
    <3>3. CASE l \notin changed
      <4>1. list[l].at \in Nat /\ since.lists \in Nat
        BY Numbers
      <4>2. list[l].at <= since.lists
        BY <3>1, <3>3, <4>1
      <4> QED
        BY <4>2 DEF ListsInv, ListsKept
    <3> QED
      BY <3>2, <3>3
  <2>5. UNCHANGED <<list, lines, since>>
    BY <1>2 DEF FetchHeaders, bc, firestore
  <2> QED
    BY <1>0, <2>2, <2>3, <2>4, <2>5, ListsSame
<1>3. ASSUME NEW l \in Lists, FetchLines(w, l)
      PROVE  ListsInv'
  <2>1. PICK at :
          Goes(w, [work[w] EXCEPT !.want = @ \ {l}, !.overlay[l] = at])
    BY <1>3 DEF FetchLines
  <2> DEFINE r == [work[w] EXCEPT !.want = @ \ {l}, !.overlay[l] = at]
  <2>2. /\ r.kind = work[w].kind /\ r.pc = work[w].pc /\ r.lists = work[w].lists
        /\ r.changed = work[w].changed /\ r.want = work[w].want \ {l}
        /\ r.start = work[w].start
    BY <1>0 DEF Work
  <2>3. work' = [work EXCEPT ![w] = r]
    BY <2>1 DEF Goes
  <2> HIDE DEF r
  <2>4. /\ UNCHANGED <<list, since>>
        /\ lines' = IF l \in work[w].changed THEN [lines EXCEPT ![l] = list[l].at] ELSE lines
    BY <1>3 DEF FetchLines, bc
  <2>5. lines \in [Lists -> Time] /\ work \in [Workers -> Work]
    BY Holds
  <2>6. ASSUME NEW k \in Lists
        PROVE  /\ lines[k] = list[k].at => lines'[k] = list[k].at
               /\ k = l /\ l \in work[w].changed => lines'[k] = list[k].at
    BY <2>4, <2>5
  <2>7. ListsKept'
    BY <2>4, <2>6 DEF ListsInv, ListsKept
  <2>8. Reads(r, list, lines')
    BY <1>0, <2>2, <2>6 DEF Reads
  <2>9. ASSUME NEW v \in Workers
        PROVE  work'[v].kind # "headers" /\ Reads(work'[v], list, lines')
    <3>1. CASE v = w
      BY <1>0, <2>2, <2>3, <2>5, <2>8, <3>1
    <3>2. CASE v # w
      <4>1. work'[v] = work[v]
        BY <2>3, <2>5, <3>2
      <4> QED
        BY <2>6, <4>1 DEF ListsInv, Reads
    <3> QED
      BY <3>1, <3>2
  <2> QED
    BY <2>4, <2>7, <2>9 DEF ListsInv, Reads
<1>4. CASE EndLists(w)
  <2>1. PICK r : Goes(w, r) /\ r.kind # "headers" /\ ~(r.pc = "stages" /\ r.lists = "lines")
    BY <1>1, <1>4 DEF EndLists
  <2>2. UNCHANGED <<list, lines>> /\ Reads(r, list, lines)
    BY <1>4, <2>1 DEF EndLists, bc, firestore, Reads
  <2>3. CASE work[w].kind = "one"
    <3>1. since' = since
      BY <1>4, <2>3 DEF EndLists
    <3> QED
      BY <2>1, <2>2, <3>1, ListsSame
  <2>4. CASE work[w].kind # "one"
    <3>1. since'.lists = work[w].start
      BY <1>4, <2>4, Holds DEF EndLists
    <3>2. \A l \in Lists : list[l].at <= work[w].start => lines[l] = list[l].at
      BY <1>0, <1>4, <2>4 DEF EndLists, Listing, Reads
    <3>3. ListsKept'
      BY <2>2, <3>1, <3>2 DEF ListsKept
    <3>4. ASSUME NEW v \in Workers
          PROVE  work'[v].kind # "headers" /\ Reads(work'[v], list, lines)
      BY <2>1, <2>2, Holds DEF Goes, ListsInv
    <3> QED
      BY <2>2, <3>3, <3>4 DEF ListsInv, Reads
  <2> QED
    BY <2>3, <2>4
<1>5. CASE FailLists(w)
  <2>1. PICK r : Goes(w, r) /\ r.kind # "headers" /\ ~(r.pc = "stages" /\ r.lists = "lines")
    BY <1>1, <1>5 DEF FailLists
  <2>2. UNCHANGED <<list, lines, since>> /\ Reads(r, list, lines)
    BY <1>5, <2>1 DEF FailLists, bc, firestore, Reads
  <2> QED
    BY <2>1, <2>2, ListsSame
<1> QED
  BY <1>2, <1>3, <1>4, <1>5 DEF ListStep

LEMMA ListsStep ==
  ASSUME "headers" \notin Kinds, "second" \notin Faults, TypeInv, ListsInv, [Next]_vars
  PROVE  ListsInv'
<1>1. CASE UNCHANGED vars
  BY <1>1 DEF vars, bc, firestore, ListsInv, ListsKept, Reads
<1>2. CASE NewSecond \/ \E i \in Items : ChangeItem(i)
  <2>1. UNCHANGED <<list, lines, since, work>>
    BY <1>2 DEF NewSecond, ChangeItem, Change, bc, firestore
  <2> QED
    BY <2>1 DEF ListsInv, ListsKept, Reads
<1>3. ASSUME NEW l \in Lists, ChangeList(l) PROVE ListsInv'
  BY <1>3, ListsChange
<1>4. ASSUME NEW l \in Lists, DatePasses(l) PROVE ListsInv'
  <2>1. UNCHANGED <<lines, since, work>> /\ \A k \in Lists : list'[k].at = list[k].at
    BY <1>4, Holds DEF DatePasses, Change, firestore
  <2> QED
    BY <2>1 DEF ListsInv, ListsKept, Reads
<1>5. ASSUME NEW w \in Workers, NEW k \in Kinds, Start(w, k) PROVE ListsInv'
  <2> DEFINE r == [Idle EXCEPT !.pc = "stages", !.kind = k, !.start = clock,
                               !.old = IF k = "sync" /\ ~cut THEN Published ELSE @]
  <2>1. r.kind = k /\ r.lists = "todo" /\ k # "headers"
    BY DEF Idle
  <2>2. Goes(w, r) /\ UNCHANGED <<list, lines, since>>
    BY <1>5 DEF Start, bc, firestore
  <2> HIDE DEF r
  <2>3. Reads(r, list, lines)
    BY <2>1 DEF Reads
  <2> QED
    BY <2>1, <2>2, <2>3, ListsSame
<1>6. ASSUME NEW w \in Workers, ListStep(w) PROVE ListsInv'
  BY <1>6, ListsListStep
<1>7. ASSUME NEW w \in Workers, ItemStep(w) PROVE ListsInv'
  <2>1. PICK r : /\ Goes(w, r)
                 /\ r.pc = work[w].pc /\ r.kind = work[w].kind /\ r.start = work[w].start
                 /\ r.lists = work[w].lists /\ r.want = work[w].want
                 /\ r.changed = work[w].changed
    BY <1>7, ItemStepFrame
  <2>2. UNCHANGED <<list, lines>> /\ since'.lists = since.lists
    BY <1>7, ItemStepFrame
  <2>3. r.kind # "headers" /\ Reads(r, list, lines)
    BY <2>1 DEF ListsInv, Reads
  <2> QED
    BY <2>1, <2>2, <2>3, ListsSame
<1>8. ASSUME NEW w \in Workers, BlobStep(w) PROVE ListsInv'
  <2>1. PICK r : Goes(w, r) /\ r.pc # "stages" /\ r.kind \in {work[w].kind, "sync"}
    BY <1>8, BlobStepFrame
  <2>2. UNCHANGED <<list, lines, since>>
    BY <1>8, BlobStepFrame
  <2>3. r.kind # "headers" /\ Reads(r, list, lines)
    BY <2>1 DEF ListsInv, Reads
  <2> QED
    BY <2>1, <2>2, <2>3, ListsSame
<1>9. ASSUME NEW w \in Workers, Crash(w) PROVE ListsInv'
  <2>1. Goes(w, Idle) /\ UNCHANGED <<list, lines, since>>
    BY <1>9 DEF Crash, bc
  <2>2. Idle.kind # "headers" /\ Reads(Idle, list, lines)
    BY DEF Idle, Reads
  <2> QED
    BY <2>1, <2>2, ListsSame
<1> QED
  BY <1>1, <1>2, <1>3, <1>4, <1>5, <1>6, <1>7, <1>8, <1>9 DEF Next

\* No change of a price list falls between two deltas, also if two instances sync the
\* same company at once, if any of them dies and if any call fails: provided that no
\* message fetches headers only, and that no list changes in the second that is, or
\* will be, the watermark (_stage_price_lists).
THEOREM ListsAreKept ==
  ASSUME "headers" \notin Kinds, "second" \notin Faults
  PROVE  Spec => []ListsKept
<1>1. Init => TypeInv /\ ListsInv
  BY TypeInit, ListsInit
<1>2. TypeInv /\ ListsInv /\ [Next]_vars => TypeInv' /\ ListsInv'
  BY TypeStep, ListsStep
<1>3. ListsInv => ListsKept
  BY DEF ListsInv
<1> QED
  BY <1>1, <1>2, <1>3, PTL DEF Spec

-----------------------------------------------------------------------------
(* The items. *)

\* What a callback has fetched is what BC had when it began, except what changed
\* since; and what it has not fetched is there already, unless it fetched nothing.
Delta(k, it, copies) ==
  k.pc = "stages" =>
    /\ \A g \in k.got : it[g.no].at < k.start => it[g.no] = [at |-> g.at, fam |-> g.fam]
    /\ k.got # {} => \A i \in Items : it[i].at < k.start =>
                       copies[i] = it[i] \/ \E g \in k.got : g.no = i

\* One callback at a time, which began at the watermark or later.
ItemsInv ==
  /\ ItemsKept
  /\ \A v, w \in Workers : work[v].pc # "idle" /\ work[w].pc # "idle" => v = w
  /\ \A w \in Workers : work[w].pc = "stages" => since.items <= work[w].start
  /\ \A w \in Workers : Delta(work[w], item, prices)

LEMMA ItemsInit == ASSUME Init PROVE ItemsInv
<1>1. Idle.pc = "idle"
  BY DEF Idle
<1>2. \A w \in Workers : work[w].pc = "idle"
  BY <1>1 DEF Init
<1>3. ItemsKept
  BY DEF Init, ItemsKept
<1> QED
  BY <1>2, <1>3 DEF ItemsInv, Delta

\* A step of one callback, while the others are idle.
LEMMA ItemsSame ==
  ASSUME TypeInv, ItemsInv, NEW w \in Workers, NEW r, Goes(w, r),
         work[w].pc # "idle" \/ AllIdle, UNCHANGED item, ItemsKept',
         Delta(r, item, prices'), r.pc = "stages" => since'.items <= r.start
  PROVE  ItemsInv'
<1>1. work' = [work EXCEPT ![w] = r] /\ work \in [Workers -> Work]
  BY Holds DEF Goes
<1>2. ASSUME NEW v \in Workers, v # w
      PROVE  work'[v].pc = "idle"
  BY <1>1, <1>2 DEF ItemsInv, AllIdle
<1>3. work'[w] = r
  BY <1>1
<1>4. ASSUME NEW v \in Workers
      PROVE  /\ work'[v].pc = "stages" => since'.items <= work'[v].start
             /\ Delta(work'[v], item, prices')
  <2>1. CASE v = w
    BY <1>3, <2>1
  <2>2. CASE v # w
    BY <1>2, <2>2 DEF Delta
  <2> QED
    BY <2>1, <2>2
<1> QED
  BY <1>2, <1>4 DEF ItemsInv, Delta

\* Merging what was fetched brings items up to date, and none out of date.
LEMMA MergeKeeps ==
  ASSUME TypeInv, NEW w \in Workers, work[w].pc = "stages", Delta(work[w], item, prices),
         NEW S \in SUBSET work[w].got, Merge(S),
         NEW i \in Items, item[i].at < work[w].start,
         prices[i] = item[i] \/ \E g \in S : g.no = i
  PROVE  prices'[i] = item[i]
<1>1. CASE \E g \in S : g.no = i
  <2> DEFINE g == CHOOSE g \in S : g.no = i
  <2>1. g \in S /\ g.no = i
    BY <1>1
  <2>2. prices'[i] = [at |-> g.at, fam |-> IF g.fam = NoFamily THEN prices[i].fam ELSE g.fam]
    BY <1>1 DEF Merge
  <2> HIDE DEF g
  <2>3. item[i] = [at |-> g.at, fam |-> g.fam]
    BY <2>1 DEF Delta
  <2>4. g.fam # NoFamily
    BY <2>3 DEF TypeInv
  <2> QED
    BY <2>2, <2>3, <2>4
<1>2. CASE ~ \E g \in S : g.no = i
  BY <1>2 DEF Merge
<1> QED
  BY <1>1, <1>2

\* A batch that fails, or a callback that dies, may leave some of it merged.
LEMMA MergeSomeKeeps ==
  ASSUME TypeInv, ItemsInv, NEW w \in Workers, work[w].pc = "stages", MergeSome(w),
         UNCHANGED <<item, since>>
  PROVE  ItemsKept'
<1>1. PICK S \in SUBSET work[w].got : Merge(S)
  BY DEF MergeSome
<1>2. ASSUME NEW i \in Items, item[i].at < since.items
      PROVE  prices'[i] = item[i]
  <2>1. item[i].at \in Nat /\ since.items \in Nat
    BY Numbers
  <2>2. item[i].at < work[w].start
    <3>1. since.items <= work[w].start /\ work[w].start \in Nat
      BY BegunType DEF ItemsInv
    <3> QED
      BY <1>2, <2>1, <3>1
  <2>3. prices[i] = item[i]
    BY <1>2 DEF ItemsInv, ItemsKept
  <2>4. Delta(work[w], item, prices)
    BY DEF ItemsInv
  <2> QED
    BY <1>1, <2>2, <2>3, <2>4, MergeKeeps
<1> QED
  BY <1>2 DEF ItemsKept

LEMMA ItemsChange ==
  ASSUME TypeInv, ItemsInv, NEW i \in Items, ChangeItem(i)
  PROVE  ItemsInv'
<1>1. PICK f \in Families \cup {Blocked} : item' = [item EXCEPT ![i] = [at |-> clock, fam |-> f]]
  BY DEF ChangeItem
<1>2. UNCHANGED <<since, prices, work>>
  BY DEF ChangeItem, Change, firestore
<1>3. item \in [Items -> Copy] /\ since.items \in 0..clock /\ clock \in Nat
  BY Holds
<1>4. item'[i].at = clock /\ \A j \in Items \ {i} : item'[j] = item[j]
  BY <1>1, <1>3
<1>5. ItemsKept'
  <2>1. ~(clock < since.items)
    BY <1>3
  <2> QED
    BY <1>2, <1>4, <2>1 DEF ItemsInv, ItemsKept
<1>6. ASSUME NEW w \in Workers
      PROVE  Delta(work[w], item', prices)
  <2>1. ~(clock < work[w].start)
    <3>1. work[w].start \in Nat /\ work[w].start <= clock
      BY BegunType, Holds
    <3> QED
      BY <1>3, <3>1
  <2>2. \A g \in work[w].got : g.no \in Items
    <3>1. work[w] \in Work
      BY Holds
    <3> QED
      BY <3>1 DEF Work
  <2>3. Delta(work[w], item, prices)
    BY DEF ItemsInv
  <2>4. \A j \in Items : item'[j].at < work[w].start => item'[j] = item[j]
    BY <1>4, <2>1
  <2> QED
    BY <2>2, <2>3, <2>4 DEF Delta
<1> QED
  BY <1>2, <1>5, <1>6 DEF ItemsInv

\* What a fetch gives: each item at most once, as BC has it; all items, or at least
\* those that changed since the watermark.
LEMMA FetchGives ==
  ASSUME "omit" \notin Faults, TypeInv, NEW w \in Workers, FetchItems(w)
  PROVE  \E full \in BOOLEAN, got \in SUBSET Answer :
           /\ Goes(w, [work[w] EXCEPT !.items = "fetched", !.full = full, !.got = got])
           /\ \A g \in got : g.no \in Items /\ item[g.no] = [at |-> g.at, fam |-> g.fam]
           /\ \A g, h \in got : g.no = h.no => g = h
           /\ \A i \in Items : \/ \E g \in got : g.no = i
                               \/ full /\ got = {}
                               \/ ~full /\ item[i].at < since.items
<1>1. PICK full \in BOOLEAN, omitted \in {{}, Items} :
        /\ omitted # {} => "omit" \in Faults /\ ~full
        /\ Goes(w, [work[w] EXCEPT
             !.items = "fetched", !.full = full,
             !.got = IF full /\ AllBlocked THEN {}
                     ELSE {Fetched(i, omitted) :
                             i \in {j \in Items : full \/ item[j].at >= since.items}}])
  BY DEF FetchItems
<1> DEFINE some == {j \in Items : full \/ item[j].at >= since.items}
           got == IF full /\ AllBlocked THEN {} ELSE {Fetched(i, omitted) : i \in some}
<1>2. ASSUME NEW i \in Items
      PROVE  Fetched(i, omitted) = [no |-> i, at |-> item[i].at, fam |-> item[i].fam]
  BY <1>1 DEF Fetched
<1>3. ASSUME NEW i \in Items
      PROVE  item[i] = [at |-> item[i].at, fam |-> item[i].fam]
  BY Holds DEF Copy
<1>4. \A g \in got : \E i \in Items : g = [no |-> i, at |-> item[i].at, fam |-> item[i].fam]
  BY <1>2
<1>5. ASSUME NEW i \in Items
      PROVE  \/ \E g \in got : g.no = i
             \/ full /\ got = {}
             \/ ~full /\ item[i].at < since.items
  <2>1. item[i].at \in Nat /\ since.items \in Nat
    BY Numbers
  <2>2. CASE i \in some /\ ~(full /\ AllBlocked)
    BY <1>2, <2>2
  <2>3. CASE full /\ AllBlocked
    BY <2>3
  <2>4. CASE i \notin some
    BY <2>1, <2>4
  <2> QED
    BY <2>2, <2>3, <2>4
<1>6. Goes(w, [work[w] EXCEPT !.items = "fetched", !.full = full, !.got = got])
  BY <1>1
<1>9. got \in SUBSET Answer
  BY FetchedType
<1> HIDE DEF got
<1>7. \A g, h \in got : g.no = h.no => g = h
  BY <1>4
<1>8. \A g \in got : g.no \in Items /\ item[g.no] = [at |-> g.at, fam |-> g.fam]
  BY <1>3, <1>4
<1> QED
  BY <1>5, <1>6, <1>7, <1>8, <1>9

LEMMA ItemsItemStep ==
  ASSUME "omit" \notin Faults, TypeInv, ItemsInv, NEW w \in Workers, ItemStep(w)
  PROVE  ItemsInv'
<1>0. /\ work[w] \in Work /\ since \in [items : 0..clock, lists : 0..clock]
      /\ item \in [Items -> Copy] /\ prices \in [Items -> Copy]
  BY Holds
<1>1. Delta(work[w], item, prices) /\ (work[w].pc = "stages" => since.items <= work[w].start)
  BY DEF ItemsInv
<1>2. CASE FetchItems(w)
  <2>1. PICK full \in BOOLEAN, got \in SUBSET Answer :
          /\ Goes(w, [work[w] EXCEPT !.items = "fetched", !.full = full, !.got = got])
          /\ \A g \in got : g.no \in Items /\ item[g.no] = [at |-> g.at, fam |-> g.fam]
          /\ \A g, h \in got : g.no = h.no => g = h
          /\ \A i \in Items : \/ \E g \in got : g.no = i
                              \/ full /\ got = {}
                              \/ ~full /\ item[i].at < since.items
    BY <1>2, FetchGives
  <2>3. got # {} => \A i \in Items : prices[i] = item[i] \/ \E g \in got : g.no = i
    BY <2>1 DEF ItemsInv, ItemsKept
  <2> DEFINE r == [work[w] EXCEPT !.items = "fetched", !.full = full, !.got = got]
  <2>4. Goes(w, r)
    BY <2>1
  <2>5. r.got = got /\ r.start = work[w].start /\ r.pc = work[w].pc
    BY <1>0 DEF Work
  <2> HIDE DEF r
  <2>6. UNCHANGED <<item, prices, since>> /\ work[w].pc = "stages"
    BY <1>2 DEF FetchItems, Fetching, bc, firestore
  <2>7. Delta(r, item, prices')
    BY <2>1, <2>3, <2>5, <2>6 DEF Delta
  <2>8. ItemsKept'
    BY <2>6 DEF ItemsInv, ItemsKept
  <2>9. since'.items <= r.start
    BY <1>1, <2>5, <2>6
  <2> QED
    BY <2>4, <2>6, <2>7, <2>8, <2>9, ItemsSame
<1>3. CASE StoreItems(w)
  <2> DEFINE r == [work[w] EXCEPT !.items = "end"]
  <2>1. r.got = work[w].got /\ r.start = work[w].start /\ r.pc = work[w].pc
    BY <1>0 DEF Work
  <2>2. Goes(w, r)
    BY <1>3 DEF StoreItems
  <2> HIDE DEF r
  <2>3. UNCHANGED item /\ Merge(work[w].got) /\ work[w].pc = "stages"
    BY <1>3 DEF StoreItems, Fetching, bc
  <2>4. ASSUME NEW i \in Items, item[i].at < work[w].start,
               prices[i] = item[i] \/ \E g \in work[w].got : g.no = i
        PROVE  prices'[i] = item[i]
    BY <1>1, <2>3, <2>4, MergeKeeps
  <2>5. Delta(r, item, prices')
    BY <1>1, <2>1, <2>4 DEF Delta
  <2>6. CASE work[w].got = {}
    <3>1. since' = since
      BY <1>3, <2>6 DEF StoreItems
    <3>2. prices' = prices
      BY <1>0, <2>3, <2>6 DEF Merge
    <3>3. ItemsKept'
      BY <2>3, <3>1, <3>2 DEF ItemsInv, ItemsKept
    <3> QED
      BY <1>1, <2>1, <2>2, <2>3, <2>5, <3>1, <3>3, ItemsSame
  <2>7. CASE work[w].got # {}
    <3>1. since'.items = work[w].start
      BY <1>0, <1>3, <2>7 DEF StoreItems
    <3>2. ItemsKept'
      BY <1>1, <2>3, <2>4, <2>7, <3>1 DEF Delta, ItemsKept
    <3>3. since'.items <= r.start
      BY <2>1, <3>1, BegunType
    <3> QED
      BY <2>2, <2>3, <2>5, <3>2, <3>3, ItemsSame
  <2> QED
    BY <2>6, <2>7
<1>4. CASE FailItems(w)
  <2> DEFINE r == [work[w] EXCEPT !.items = "failed", !.got = {}, !.full = FALSE]
  <2>1. r.got = {} /\ r.start = work[w].start /\ r.pc = work[w].pc
    BY <1>0 DEF Work
  <2>2. Goes(w, r)
    BY <1>4 DEF FailItems
  <2> HIDE DEF r
  <2>3. UNCHANGED <<item, since>> /\ MergeSome(w) /\ work[w].pc = "stages"
    BY <1>4 DEF FailItems, Fetching, bc
  <2>4. ItemsKept'
    BY <2>3, MergeSomeKeeps
  <2>5. Delta(r, item, prices')
    BY <2>1 DEF Delta
  <2>6. since'.items <= r.start
    BY <1>1, <2>1, <2>3
  <2> QED
    BY <2>2, <2>3, <2>4, <2>5, <2>6, ItemsSame
<1> QED
  BY <1>2, <1>3, <1>4 DEF ItemStep

LEMMA ItemsStep ==
  ASSUME "overlap" \notin Faults, "omit" \notin Faults, TypeInv, ItemsInv, [Next]_vars
  PROVE  ItemsInv'
<1>1. CASE UNCHANGED vars
  BY <1>1 DEF vars, bc, firestore, ItemsInv, ItemsKept, Delta
<1>2. CASE NewSecond \/ \E l \in Lists : ChangeList(l) \/ DatePasses(l)
  <2>1. UNCHANGED <<item, prices, since, work>>
    BY <1>2 DEF NewSecond, ChangeList, DatePasses, Change, bc, firestore
  <2> QED
    BY <2>1 DEF ItemsInv, ItemsKept, Delta
<1>3. ASSUME NEW i \in Items, ChangeItem(i) PROVE ItemsInv'
  BY <1>3, ItemsChange
<1>4. ASSUME NEW w \in Workers, NEW k \in Kinds, Start(w, k) PROVE ItemsInv'
  <2> DEFINE r == [Idle EXCEPT !.pc = "stages", !.kind = k, !.start = clock,
                               !.old = IF k = "sync" /\ ~cut THEN Published ELSE @]
  <2>1. r.got = {} /\ r.start = clock
    BY DEF Idle
  <2>2. Goes(w, r) /\ AllIdle /\ UNCHANGED <<item, prices, since>>
    BY <1>4 DEF Start, bc, firestore
  <2> HIDE DEF r
  <2>3. since'.items <= r.start
    <3>1. since.items \in 0..clock /\ clock \in Nat
      BY Holds
    <3> QED
      BY <2>1, <2>2, <3>1
  <2>4. Delta(r, item, prices') /\ ItemsKept'
    BY <2>1, <2>2 DEF Delta, ItemsInv, ItemsKept
  <2> QED
    BY <2>2, <2>3, <2>4, ItemsSame
<1>5. ASSUME NEW w \in Workers, ListStep(w) PROVE ItemsInv'
  <2>1. UNCHANGED <<item, prices>> /\ since'.items = since.items /\ work[w].pc # "idle"
    BY <1>5, ListStepFrame
  <2>2. PICK r : /\ Goes(w, r)
                 /\ \/ r.pc = "idle"
                    \/ /\ r.pc = work[w].pc /\ r.items = work[w].items
                       /\ r.got = work[w].got /\ r.start = work[w].start
    BY <1>5, ListStepFrame
  <2>3. Delta(r, item, prices') /\ (r.pc = "stages" => since'.items <= r.start) /\ ItemsKept'
    BY <2>1, <2>2 DEF ItemsInv, ItemsKept, Delta
  <2> QED
    BY <2>1, <2>2, <2>3, ItemsSame
<1>6. ASSUME NEW w \in Workers, ItemStep(w) PROVE ItemsInv'
  BY <1>6, ItemsItemStep
<1>7. ASSUME NEW w \in Workers, BlobStep(w) PROVE ItemsInv'
  <2>1. UNCHANGED <<item, prices, since>> /\ work[w].pc # "idle"
    BY <1>7, BlobStepFrame
  <2>2. PICK r : Goes(w, r) /\ r.pc # "stages"
    BY <1>7, BlobStepFrame
  <2>3. Delta(r, item, prices') /\ ItemsKept'
    BY <2>1, <2>2 DEF ItemsInv, ItemsKept, Delta
  <2> QED
    BY <2>1, <2>2, <2>3, ItemsSame
<1>8. ASSUME NEW w \in Workers, Crash(w) PROVE ItemsInv'
  <2>1. Goes(w, Idle) /\ work[w].pc # "idle" /\ UNCHANGED <<item, since>>
    BY <1>8 DEF Crash, bc
  <2>2. ItemsKept'
    <3>1. CASE Fetching(w, "fetched")
      <4>1. work[w].pc = "stages" /\ MergeSome(w)
        BY <1>8, <3>1 DEF Crash, Fetching
      <4> QED
        BY <2>1, <4>1, MergeSomeKeeps
    <3>2. CASE ~Fetching(w, "fetched")
      <4>1. prices' = prices
        BY <1>8, <3>2 DEF Crash
      <4> QED
        BY <2>1, <4>1 DEF ItemsInv, ItemsKept
    <3> QED
      BY <3>1, <3>2
  <2>3. Idle.pc = "idle"
    BY DEF Idle
  <2>4. Delta(Idle, item, prices')
    BY <2>3 DEF Delta
  <2> QED
    BY <2>1, <2>2, <2>3, <2>4, ItemsSame
<1> QED
  BY <1>1, <1>2, <1>3, <1>4, <1>5, <1>6, <1>7, <1>8 DEF Next

\* No change of an item falls between two deltas, whatever call fails and whenever the
\* callback dies, in the midst of its batches too: provided that one instance syncs the
\* company at a time, and that BC gives the familyCode in incremental responses
\* (_stage_v3_catalog).
THEOREM ItemsAreKept ==
  ASSUME "overlap" \notin Faults, "omit" \notin Faults
  PROVE  Spec => []ItemsKept
<1>1. Init => TypeInv /\ ItemsInv
  BY TypeInit, ItemsInit
<1>2. TypeInv /\ ItemsInv /\ [Next]_vars => TypeInv' /\ ItemsInv'
  BY TypeStep, ItemsStep
<1>3. ItemsInv => ItemsKept
  BY DEF ItemsInv
<1> QED
  BY <1>1, <1>2, <1>3, PTL DEF Spec

-----------------------------------------------------------------------------
(* The blobs. *)

\* What no later delta brings again, and what the delta of a callback leaves out.
DueItems == {i \in Items : prices[i].at # 0 /\ prices[i].at < since.items}
Unfetched(w) == {i \in Items : \A g \in work[w].got : g.no # i}

\* Of the items S, blob f has those of family f, as Firestore has them, and no other.
Right(f, S) ==
  /\ \A r \in blobs[f] : r.no \in S => prices[r.no] = [at |-> r.at, fam |-> f]
  /\ \A i \in S : prices[i].fam = f => \E r \in blobs[f] : r.no = i

Agreed(S) ==
  /\ \A f \in Indexed : Right(f, S)
  /\ \A i \in S : prices[i].fam = Blocked \/ prices[i].fam \in Indexed

\* The prices kept for the next sync are those of the blobs.
ShownRight == \A f \in Indexed : \A r \in blobs[f] : shown[r.no] = r.price

Settled(S) == ~cut => ShownRight /\ Agreed(S)

\* What was fetched is in Firestore already if no later delta would bring it, and
\* all of it is once it is stored.
DeltaInv(w) ==
  /\ \A g, h \in work[w].got : g.no = h.no => g = h
  /\ \A g \in work[w].got :
       /\ g.fam # NoFamily
       /\ work[w].items = "end" \/ g.at < since.items =>
            prices[g.no] = [at |-> g.at, fam |-> g.fam]
  /\ work[w].items \in {"fetched", "end"} =>
       /\ work[w].got # {} \/ ~work[w].full => Unfetched(w) \subseteq DueItems
       /\ work[w].got # {} /\ work[w].full => Unfetched(w) = {}

\* Before the blobs are rebuilt they lack no more than the delta.
StagesInv(w) ==
  work[w].pc = "stages" =>
    /\ work[w].kind # "sync" => work[w].items = "todo"
    /\ work[w].items \in {"todo", "failed"} => work[w].got = {}
    /\ DeltaInv(w)
    /\ \A i \in Items : work[w].old[i] # None => shown[i] = work[w].old[i]
    /\ Settled(IF work[w].items = "end" THEN DueItems \cap Unfetched(w) ELSE DueItems)

\* No call of this rebuild failed, and it began with blobs that were right or makes
\* them all anew.
Sound(w) == ~work[w].hurt /\ (work[w].full \/ ~cut)

\* The prices of blob f are noted, and stamped if they are not those of the last sync.
Stamped(w, f) ==
  \A r \in blobs[f] :
    /\ work[w].fresh[r.no] = r.price
    /\ work[w].prev[r.no] \notin {None, r.price} => r.changed = work[w].start

RebuildInv(w) ==
  work[w].pc \in {"families", "shown"} =>
    /\ work[w].hurt => cut
    /\ work[w].hurt \/ \A i \in Items : work[w].old[i] # None => work[w].prev[i] = work[w].old[i]

\* Some blobs are written and right; the others are right but for the delta.
FamiliesInv(w) ==
  work[w].pc = "families" =>
    /\ \A g, h \in work[w].got : g.no = h.no => g = h
    /\ \A g \in work[w].got : prices[g.no] = [at |-> g.at, fam |-> g.fam]
    /\ Sound(w) =>
         /\ \A f \in work[w].fams \ work[w].todo : Right(f, Items) /\ Stamped(w, f)
         /\ \A f \in work[w].todo \cap work[w].known : Right(f, Unfetched(w))
         /\ \A i \in Items : prices[i].fam # Blocked =>
              /\ prices[i].fam \in work[w].fams
              /\ i \in Unfetched(w) => prices[i].fam \in work[w].known

ShownInv(w) ==
  work[w].pc = "shown" /\ Sound(w) => Agreed(Items) /\ \A f \in Indexed : Stamped(w, f)

\* The rebuild is over: what it changed is stamped.
PatchInv(w) ==
  work[w].pc = "patch" =>
    /\ Settled(DueItems)
    /\ cut \/ \A f \in Indexed : \A r \in blobs[f] :
                work[w].old[r.no] \notin {None, r.price} => r.changed = work[w].start

CallbackInv(w) ==
  StagesInv(w) /\ RebuildInv(w) /\ FamiliesInv(w) /\ ShownInv(w) /\ PatchInv(w)

CopiesInv ==
  /\ clock # 0 /\ \A i \in Items : item[i].at # 0
  /\ AllIdle => Settled(DueItems)
  /\ \A w \in Workers : CallbackInv(w)

LEMMA CopiesInit == ASSUME Init PROVE CopiesInv
<1>1. \A w \in Workers : work[w].pc = "idle"
  BY DEF Init, Idle
<1>2. DueItems = {} /\ Indexed = {}
  BY DEF Init, DueItems, Indexed
<1>3. Settled(DueItems)
  BY <1>2 DEF Settled, ShownRight, Agreed
<1>4. clock # 0 /\ \A i \in Items : item[i].at # 0
  BY DEF Init
<1>5. \A w \in Workers : CallbackInv(w)
  BY <1>1 DEF CallbackInv, StagesInv, RebuildInv, FamiliesInv, ShownInv, PatchInv
<1> QED
  BY <1>3, <1>4, <1>5 DEF CopiesInv

\* The locals of a callback after its step; the others are idle.
LEMMA OneGoes ==
  ASSUME TypeInv, ItemsInv, NEW w \in Workers, NEW r, Goes(w, r),
         work[w].pc # "idle" \/ AllIdle
  PROVE  work'[w] = r /\ \A v \in Workers : v # w => work'[v].pc = "idle"
<1>1. work' = [work EXCEPT ![w] = r] /\ work \in [Workers -> Work]
  BY Holds DEF Goes
<1>2. ASSUME NEW v \in Workers, v # w
      PROVE  work'[v].pc = "idle"
  BY <1>1, <1>2 DEF ItemsInv, AllIdle
<1> QED
  BY <1>1, <1>2

LEMMA CopiesGo ==
  ASSUME CopiesInv, UNCHANGED <<clock, item>>, NEW w \in Workers,
         \A v \in Workers : v # w => work'[v].pc = "idle",
         CallbackInv(w)', work'[w].pc = "idle" => Settled(DueItems)'
  PROVE  CopiesInv'
<1>1. AllIdle' => Settled(DueItems)'
  BY DEF AllIdle
<1>2. ASSUME NEW v \in Workers PROVE CallbackInv(v)'
  <2>1. CASE v = w
    BY <2>1
  <2>2. CASE v # w
    <3>1. work'[v].pc = "idle"
      BY <2>2
    <3> QED
      BY <3>1 DEF CallbackInv, StagesInv, RebuildInv, FamiliesInv, ShownInv, PatchInv
  <2> QED
    BY <2>1, <2>2
<1>3. clock' # 0 /\ \A i \in Items : item'[i].at # 0
  BY DEF CopiesInv
<1> QED
  BY <1>1, <1>2, <1>3 DEF CopiesInv

\* Steps at the stages, and steps that end a callback there.
LEMMA StagesGo ==
  ASSUME CopiesInv, UNCHANGED <<clock, item>>, NEW w \in Workers,
         \A v \in Workers : v # w => work'[v].pc = "idle",
         \/ work'[w].pc = "stages" /\ StagesInv(w)'
         \/ work'[w].pc = "idle" /\ Settled(DueItems)'
  PROVE  CopiesInv'
<1>1. CallbackInv(w)'
  BY DEF CallbackInv, StagesInv, RebuildInv, FamiliesInv, ShownInv, PatchInv
<1> QED
  BY <1>1, CopiesGo

LEMMA SettledSame ==
  ASSUME UNCHANGED <<prices, blobs, index, shown, cut>>, since'.items = since.items
  PROVE  /\ DueItems' = DueItems
         /\ Settled(DueItems) => Settled(DueItems)'
<1>1. DueItems' = DueItems
  BY DEF DueItems
<1> QED
  BY <1>1 DEF Settled, ShownRight, Agreed, Right, Indexed

LEMMA StagesSame ==
  ASSUME UNCHANGED <<prices, blobs, index, shown, cut>>, since'.items = since.items,
         NEW w \in Workers, StagesInv(w), work[w].pc = "stages",
         work'[w].kind = work[w].kind, work'[w].items = work[w].items,
         work'[w].got = work[w].got, work'[w].full = work[w].full,
         work'[w].old = work[w].old
  PROVE  StagesInv(w)'
<1>1. DueItems' = DueItems /\ Unfetched(w)' = Unfetched(w)
  BY DEF DueItems, Unfetched
<1>2. DeltaInv(w)'
  BY <1>1 DEF StagesInv, DeltaInv
<1>3. Settled(IF work[w].items = "end" THEN DueItems \cap Unfetched(w) ELSE DueItems)'
  <2>1. CASE work[w].items = "end"
    BY <1>1, <2>1 DEF StagesInv, Settled, ShownRight, Agreed, Right, Indexed
  <2>2. CASE work[w].items # "end"
    BY <1>1, <2>2 DEF StagesInv, Settled, ShownRight, Agreed, Right, Indexed
  <2> QED
    BY <2>1, <2>2
<1> QED
  BY <1>2, <1>3 DEF StagesInv

LEMMA CopiesStart ==
  ASSUME "overlap" \notin Faults, TypeInv, ItemsInv, CopiesInv,
         NEW w \in Workers, NEW k \in Kinds, Start(w, k)
  PROVE  CopiesInv'
<1> DEFINE old == IF k = "sync" /\ ~cut THEN Published ELSE Idle.old
           r == [Idle EXCEPT !.pc = "stages", !.kind = k, !.start = clock, !.old = old]
<1>1. Goes(w, r) /\ AllIdle
  BY DEF Start, AllIdle, ItemsInv
<1> HIDE DEF old
<1>2. r.pc = "stages" /\ r.items = "todo" /\ r.got = {} /\ r.old = old
  BY DEF Idle
<1> HIDE DEF r
<1>3. UNCHANGED <<clock, item, prices, since, blobs, index, shown, cut>>
  BY DEF Start, bc, firestore, gcs
<1>4. work'[w] = r /\ \A v \in Workers : v # w => work'[v].pc = "idle"
  BY <1>1, OneGoes
<1>5. Settled(DueItems) /\ Settled(DueItems)'
  BY <1>1, <1>3, SettledSame DEF CopiesInv
<1>6. ASSUME NEW i \in Items, old[i] # None
      PROVE  shown[i] = old[i]
  <2>1. Idle.old[i] = None
    BY DEF Idle, NoPrices
  <2>2. k = "sync" /\ ~cut /\ old = Published
    BY <1>6, <2>1 DEF old
  <2>3. old[i] = PublishedPrice(i)
    BY <2>2 DEF Published
  <2>4. Records(i) # {} /\ PublishedPrice(i) = (CHOOSE x \in Records(i) : TRUE).price
    BY <1>6, <2>3 DEF PublishedPrice
  <2>5. PICK x \in Records(i) : x.price = PublishedPrice(i)
    BY <2>4
  <2>6. PICK f \in Indexed : x \in blobs[f] /\ x.no = i
    BY DEF Records
  <2> QED
    BY <1>5, <2>2, <2>3, <2>5, <2>6 DEF Settled, ShownRight
<1>7. StagesInv(w)'
  BY <1>2, <1>3, <1>4, <1>5, <1>6 DEF StagesInv, DeltaInv
<1> QED
  BY <1>2, <1>3, <1>4, <1>7, StagesGo

LEMMA CopiesListStep ==
  ASSUME TypeInv, ItemsInv, CopiesInv, NEW w \in Workers, ListStep(w)
  PROVE  CopiesInv'
<1>0. work[w] \in Work /\ since \in [items : 0..clock, lists : 0..clock]
  BY Holds
<1> DEFINE Same(r) == /\ r.kind = work[w].kind /\ r.items = work[w].items
                      /\ r.got = work[w].got /\ r.full = work[w].full
                      /\ r.old = work[w].old /\ r.pc = work[w].pc
           Ends(r) == work[w].kind # "sync" /\ r.pc = "idle"
<1>1. ASSUME NEW overlay, NEW best, ListsGo(w, overlay, best)
      PROVE  \E r : Goes(w, r) /\ (Same(r) \/ Ends(r))
  <2>1. Same([work[w] EXCEPT !.lists = "end", !.overlay = overlay, !.best = best,
                             !.changed = {}, !.active = {}, !.want = {}])
    BY <1>0 DEF Work
  <2>2. Idle.pc = "idle"
    BY DEF Idle
  <2> QED
    BY <1>1, <2>1, <2>2 DEF ListsGo
<1>2. /\ UNCHANGED <<clock, item, prices, blobs, index, shown, cut>>
      /\ since'.items = since.items /\ work[w].pc = "stages"
      /\ \E r : Goes(w, r) /\ (Same(r) \/ Ends(r))
  <2>1. CASE FetchHeaders(w)
    <3>1. PICK changed, active, want :
            Goes(w, [work[w] EXCEPT !.lists = "lines", !.changed = changed, !.active = active,
                                    !.want = want])
      BY <2>1 DEF FetchHeaders
    <3>2. Same([work[w] EXCEPT !.lists = "lines", !.changed = changed, !.active = active,
                               !.want = want])
      BY <1>0 DEF Work
    <3> QED
      BY <2>1, <3>1, <3>2 DEF FetchHeaders, Listing, bc, firestore, gcs
  <2>2. ASSUME NEW l \in Lists, FetchLines(w, l)
        PROVE  /\ UNCHANGED <<clock, item, prices, since, blobs, index, shown, cut>>
               /\ work[w].pc = "stages" /\ \E r : Goes(w, r) /\ Same(r)
    <3>1. PICK want, at : Goes(w, [work[w] EXCEPT !.want = want, !.overlay[l] = at])
      BY <2>2 DEF FetchLines
    <3>2. Same([work[w] EXCEPT !.want = want, !.overlay[l] = at])
      BY <1>0 DEF Work
    <3> QED
      BY <2>2, <3>1, <3>2 DEF FetchLines, Listing, bc, gcs
  <2>3. CASE EndLists(w)
    <3>1. since'.items = since.items
      BY <1>0, <2>3 DEF EndLists
    <3> QED
      BY <1>1, <2>3, <3>1 DEF EndLists, Listing, bc, firestore, gcs
  <2>4. CASE FailLists(w)
    BY <1>1, <2>4 DEF FailLists, Listing, bc, firestore, gcs
  <2> QED
    BY <2>1, <2>2, <2>3, <2>4 DEF ListStep
<1>3. PICK r : Goes(w, r) /\ (Same(r) \/ Ends(r))
  BY <1>2
<1>4. work'[w] = r /\ \A v \in Workers : v # w => work'[v].pc = "idle"
  BY <1>2, <1>3, OneGoes
<1>5. StagesInv(w)
  BY DEF CopiesInv, CallbackInv
<1>6. CASE Same(r)
  <2>1. StagesInv(w)'
    BY <1>2, <1>4, <1>5, <1>6, StagesSame
  <2> QED
    BY <1>2, <1>4, <1>6, <2>1, StagesGo
<1>7. CASE Ends(r)
  <2>1. Settled(DueItems)
    BY <1>2, <1>5, <1>7 DEF StagesInv
  <2> QED
    BY <1>2, <1>4, <1>7, <2>1, SettledSame, StagesGo
<1> QED
  BY <1>3, <1>6, <1>7

LEMMA SettledLess ==
  ASSUME UNCHANGED <<blobs, index, shown, cut>>, NEW T \in SUBSET Items, Settled(T)
  PROVE  /\ (\A i \in DueItems' : i \in T /\ prices'[i] = prices[i]) => Settled(DueItems)'
         /\ \A w \in Workers :
              (\A i \in (DueItems \cap Unfetched(w))' : i \in T /\ prices'[i] = prices[i])
                => Settled(DueItems \cap Unfetched(w))'
<1>1. ASSUME NEW S, \A i \in S : i \in T /\ prices'[i] = prices[i], ~cut
      PROVE  /\ ShownRight'
             /\ \A f \in Indexed' :
                  /\ \A r \in blobs'[f] : r.no \in S => prices'[r.no] = [at |-> r.at, fam |-> f]
                  /\ \A i \in S : prices'[i].fam = f => \E r \in blobs'[f] : r.no = i
             /\ \A i \in S : prices'[i].fam = Blocked \/ prices'[i].fam \in Indexed'
  BY <1>1 DEF Settled, ShownRight, Agreed, Right, Indexed
<1>2. ASSUME \A i \in DueItems' : i \in T /\ prices'[i] = prices[i]
      PROVE  Settled(DueItems)'
  BY <1>1, <1>2 DEF Settled, Agreed, Right
<1>3. ASSUME NEW w \in Workers,
             \A i \in (DueItems \cap Unfetched(w))' : i \in T /\ prices'[i] = prices[i]
      PROVE  Settled(DueItems \cap Unfetched(w))'
  BY <1>1, <1>3 DEF Settled, Agreed, Right
<1> QED
  BY <1>2, <1>3

\* What a merge writes of a delta.
LEMMA MergeGives ==
  ASSUME NEW w \in Workers, work[w] \in Work, DeltaInv(w), NEW S \in SUBSET work[w].got,
         Merge(S)
  PROVE  /\ \A g \in S : prices'[g.no] = [at |-> g.at, fam |-> g.fam]
         /\ \A i \in Items : (\A g \in S : g.no # i) => prices'[i] = prices[i]
<1>1. ASSUME NEW g \in S
      PROVE  prices'[g.no] = [at |-> g.at, fam |-> g.fam]
  <2>0. g \in work[w].got /\ g.no \in Items
    BY DEF Work
  <2>1. g.fam # NoFamily
    BY <2>0 DEF DeltaInv
  <2> DEFINE h == CHOOSE h \in S : h.no = g.no
  <2>2. h \in S /\ h.no = g.no
    OBVIOUS
  <2> HIDE DEF h
  <2>3. h = g
    BY <2>0, <2>2 DEF DeltaInv
  <2>4. prices'[g.no] = [at |-> h.at, fam |-> IF h.fam = NoFamily THEN prices[g.no].fam ELSE h.fam]
    BY <2>0 DEF Merge, h
  <2> QED
    BY <2>1, <2>3, <2>4
<1>2. ASSUME NEW i \in Items, \A g \in S : g.no # i
      PROVE  prices'[i] = prices[i]
  BY <1>2 DEF Merge
<1> QED
  BY <1>1, <1>2

\* A partial merge changes only what the next delta brings again.
LEMMA MergeSomeDue ==
  ASSUME TypeInv, NEW w \in Workers, DeltaInv(w), MergeSome(w), UNCHANGED since
  PROVE  \A i \in DueItems' : i \in DueItems /\ prices'[i] = prices[i]
<1>1. PICK S \in SUBSET work[w].got : Merge(S)
  BY DEF MergeSome
<1>2. /\ \A g \in S : prices'[g.no] = [at |-> g.at, fam |-> g.fam]
      /\ \A i \in Items : (\A g \in S : g.no # i) => prices'[i] = prices[i]
  BY <1>1, Holds, MergeGives
<1>3. ASSUME NEW i \in DueItems'
      PROVE  prices'[i] = prices[i]
  <2>1. i \in Items /\ prices'[i].at < since.items
    BY DEF DueItems
  <2>2. CASE \E g \in S : g.no = i
    <3>1. PICK g \in S : g.no = i
      BY <2>2
    <3>2. prices'[i] = [at |-> g.at, fam |-> g.fam] /\ g.at < since.items
      BY <1>2, <2>1, <3>1
    <3> QED
      BY <3>1, <3>2 DEF DeltaInv
  <2>3. CASE \A g \in S : g.no # i
    BY <1>2, <2>1, <2>3
  <2> QED
    BY <2>2, <2>3
<1> QED
  BY <1>3 DEF DueItems

LEMMA CopiesFetch ==
  ASSUME "omit" \notin Faults, TypeInv, ItemsInv, CopiesInv, NEW w \in Workers, FetchItems(w)
  PROVE  CopiesInv'
<1>0. work[w] \in Work
  BY Holds
<1>1. PICK full \in BOOLEAN, got \in SUBSET Answer :
        /\ Goes(w, [work[w] EXCEPT !.items = "fetched", !.full = full, !.got = got])
        /\ \A g \in got : g.no \in Items /\ item[g.no] = [at |-> g.at, fam |-> g.fam]
        /\ \A g, h \in got : g.no = h.no => g = h
        /\ \A i \in Items : \/ \E g \in got : g.no = i
                            \/ full /\ got = {}
                            \/ ~full /\ item[i].at < since.items
  BY FetchGives
<1> DEFINE r == [work[w] EXCEPT !.items = "fetched", !.full = full, !.got = got]
<1>2. /\ r.pc = work[w].pc /\ r.kind = work[w].kind /\ r.old = work[w].old
      /\ r.items = "fetched" /\ r.got = got /\ r.full = full
  BY <1>0 DEF Work
<1>3. Goes(w, r)
  BY <1>1
<1> HIDE DEF r
<1>4. /\ UNCHANGED <<clock, item, prices, since, blobs, index, shown, cut>>
      /\ work[w].pc = "stages" /\ work[w].kind = "sync" /\ work[w].items = "todo"
  BY DEF FetchItems, Fetching, bc, firestore, gcs
<1>5. work'[w] = r /\ \A v \in Workers : v # w => work'[v].pc = "idle"
  BY <1>3, <1>4, OneGoes
<1>6. StagesInv(w) /\ ItemsKept /\ \A i \in Items : item[i].at # 0
  BY DEF CopiesInv, CallbackInv, ItemsInv
<1>7. DueItems' = DueItems /\ Settled(DueItems)'
  BY <1>4, <1>6, SettledSame DEF StagesInv
<1>8. Unfetched(w)' = {i \in Items : \A g \in got : g.no # i}
  BY <1>2, <1>5 DEF Unfetched
<1>9. DeltaInv(w)'
  <2>1. ASSUME NEW g \in got
        PROVE  /\ g.fam # NoFamily
               /\ g.at < since.items => prices[g.no] = [at |-> g.at, fam |-> g.fam]
    <3>1. g.no \in Items /\ item[g.no] = [at |-> g.at, fam |-> g.fam]
      BY <1>1
    <3> QED
      BY <1>6, <3>1 DEF TypeInv, ItemsKept
  <2>2. ASSUME NEW i \in Unfetched(w)', got # {} \/ ~full
        PROVE  i \in DueItems
    <3>1. i \in Items /\ item[i].at < since.items
      BY <1>1, <1>8, <2>2
    <3> QED
      BY <1>6, <3>1 DEF ItemsKept, DueItems
  <2>3. got # {} /\ full => Unfetched(w)' = {}
    BY <1>1, <1>8
  <2> QED
    BY <1>1, <1>2, <1>4, <1>5, <1>7, <2>1, <2>2, <2>3 DEF DeltaInv
<1>10. StagesInv(w)'
  BY <1>2, <1>4, <1>5, <1>6, <1>7, <1>9 DEF StagesInv
<1> QED
  BY <1>2, <1>4, <1>5, <1>10, StagesGo

LEMMA CopiesStore ==
  ASSUME TypeInv, ItemsInv, CopiesInv, NEW w \in Workers, StoreItems(w)
  PROVE  CopiesInv'
<1>0. work[w] \in Work /\ since \in [items : 0..clock, lists : 0..clock]
  BY Holds
<1> DEFINE r == [work[w] EXCEPT !.items = "end"]
<1>1. /\ r.pc = work[w].pc /\ r.kind = work[w].kind /\ r.old = work[w].old
      /\ r.items = "end" /\ r.got = work[w].got /\ r.full = work[w].full
  BY <1>0 DEF Work
<1>2. Goes(w, r)
  BY DEF StoreItems
<1> HIDE DEF r
<1>3. /\ UNCHANGED <<clock, item, blobs, index, shown, cut>> /\ Merge(work[w].got)
      /\ work[w].pc = "stages" /\ work[w].kind = "sync" /\ work[w].items = "fetched"
  BY DEF StoreItems, Fetching, bc, gcs
<1>4. work'[w] = r /\ \A v \in Workers : v # w => work'[v].pc = "idle"
  BY <1>2, <1>3, OneGoes
<1>5. StagesInv(w) /\ DeltaInv(w) /\ Settled(DueItems)
  BY <1>3 DEF CopiesInv, CallbackInv, StagesInv
<1>6. /\ \A g \in work[w].got : prices'[g.no] = [at |-> g.at, fam |-> g.fam]
      /\ \A i \in Unfetched(w) : prices'[i] = prices[i]
  BY <1>0, <1>3, <1>5, MergeGives DEF Unfetched
<1>7. Unfetched(w)' = Unfetched(w)
  BY <1>1, <1>4 DEF Unfetched
<1>8. since'.items = IF work[w].got = {} THEN since.items ELSE work[w].start
  BY <1>0 DEF StoreItems
<1>9. ASSUME NEW i \in Unfetched(w) \cap DueItems
      PROVE  i \in DueItems'
  <2>1. i \in Items /\ prices[i].at # 0 /\ prices[i].at < since.items /\ prices'[i] = prices[i]
    BY <1>6 DEF DueItems
  <2>2. prices[i].at < since'.items
    <3>1. since.items <= work[w].start
      BY <1>3 DEF ItemsInv
    <3>2. prices[i].at \in Nat /\ since.items \in Nat
      BY <2>1, Numbers
    <3>3. since'.items \in Nat /\ since.items <= since'.items
      BY <1>8, <3>1, <3>2, BegunType
    <3> QED
      BY <2>1, <3>2, <3>3
  <2> QED
    BY <2>1, <2>2 DEF DueItems
<1>10. DeltaInv(w)'
  BY <1>1, <1>3, <1>4, <1>5, <1>6, <1>7, <1>9 DEF DeltaInv
<1>11. Settled(DueItems \cap Unfetched(w))'
  <2>1. ASSUME NEW i \in (DueItems \cap Unfetched(w))'
        PROVE  i \in DueItems /\ prices'[i] = prices[i]
    <3>1. i \in Unfetched(w) /\ prices'[i] = prices[i] /\ i \in DueItems'
      BY <1>6, <1>7
    <3>2. CASE work[w].got # {}
      BY <1>3, <1>5, <3>1, <3>2 DEF DeltaInv
    <3>3. CASE work[w].got = {}
      BY <1>8, <3>1, <3>3 DEF DueItems
    <3> QED
      BY <3>1, <3>2, <3>3
  <2>2. DueItems \in SUBSET Items
    BY DEF DueItems
  <2> QED
    BY <1>3, <1>5, <2>1, <2>2, SettledLess
<1>12. StagesInv(w)'
  BY <1>1, <1>3, <1>4, <1>5, <1>10, <1>11 DEF StagesInv
<1> QED
  BY <1>1, <1>3, <1>4, <1>12, StagesGo

LEMMA CopiesFail ==
  ASSUME TypeInv, ItemsInv, CopiesInv, NEW w \in Workers, FailItems(w)
  PROVE  CopiesInv'
<1>0. work[w] \in Work
  BY Holds
<1> DEFINE r == [work[w] EXCEPT !.items = "failed", !.got = {}, !.full = FALSE]
<1>1. /\ r.pc = work[w].pc /\ r.kind = work[w].kind /\ r.old = work[w].old
      /\ r.items = "failed" /\ r.got = {}
  BY <1>0 DEF Work
<1>2. Goes(w, r)
  BY DEF FailItems
<1> HIDE DEF r
<1>3. /\ UNCHANGED <<clock, item, since, blobs, index, shown, cut>> /\ MergeSome(w)
      /\ work[w].pc = "stages" /\ work[w].kind = "sync" /\ work[w].items # "end"
  BY DEF FailItems, Fetching, bc, gcs
<1>4. work'[w] = r /\ \A v \in Workers : v # w => work'[v].pc = "idle"
  BY <1>2, <1>3, OneGoes
<1>5. StagesInv(w) /\ DeltaInv(w) /\ Settled(DueItems)
  BY <1>3 DEF CopiesInv, CallbackInv, StagesInv
<1>6. Settled(DueItems)'
  <2>1. \A i \in DueItems' : i \in DueItems /\ prices'[i] = prices[i]
    BY <1>3, <1>5, MergeSomeDue
  <2>2. DueItems \in SUBSET Items
    BY DEF DueItems
  <2> QED
    BY <1>3, <1>5, <2>1, <2>2, SettledLess
<1>7. StagesInv(w)'
  BY <1>1, <1>3, <1>4, <1>5, <1>6 DEF StagesInv, DeltaInv
<1> QED
  BY <1>1, <1>3, <1>4, <1>7, StagesGo

\* A crash leaves the blobs short of a delta only if it is noted as a cut.
LEMMA CopiesCrash ==
  ASSUME TypeInv, ItemsInv, CopiesInv, NEW w \in Workers, Crash(w)
  PROVE  CopiesInv'
<1>1. Goes(w, Idle) /\ work[w].pc # "idle" /\ Idle.pc = "idle" /\ work[w] \in Work
  BY Holds DEF Crash, Idle
<1>2. /\ UNCHANGED <<clock, item, since, blobs, index, shown>>
      /\ cut' = (cut \/ Rebuilding(w)) /\ cut \in BOOLEAN
  BY Holds DEF Crash, bc, gcs
<1>3. work'[w] = Idle /\ \A v \in Workers : v # w => work'[v].pc = "idle"
  BY <1>1, OneGoes
<1>4. CallbackInv(w) /\ DueItems \in SUBSET Items
  BY DEF CopiesInv, DueItems
<1>5. Settled(DueItems)'
  <2>1. CASE Rebuilding(w)
    BY <1>2, <2>1 DEF Settled
  <2>2. CASE ~Rebuilding(w) /\ Fetching(w, "fetched")
    <3>1. work[w].pc = "stages" /\ MergeSome(w) /\ work[w].items = "fetched" /\ cut' = cut
      BY <1>2, <2>2 DEF Crash, Fetching
    <3>2. DeltaInv(w) /\ Settled(DueItems)
      BY <1>4, <3>1 DEF CallbackInv, StagesInv
    <3>3. \A i \in DueItems' : i \in DueItems /\ prices'[i] = prices[i]
      BY <1>2, <3>1, <3>2, MergeSomeDue
    <3> QED
      BY <1>2, <1>4, <3>1, <3>2, <3>3, SettledLess
  <2>3. CASE ~Rebuilding(w) /\ ~Fetching(w, "fetched")
    <3>1. prices' = prices /\ cut' = cut
      BY <1>2, <2>3 DEF Crash
    <3>2. CASE work[w].pc = "stages"
      <4>1. CASE work[w].items = "end"
        <5>1. work[w].got = {}
          BY <2>3, <3>2, <4>1 DEF Rebuilding
        <5>2. DueItems \cap Unfetched(w) = DueItems
          BY <5>1 DEF Unfetched, DueItems
        <5>3. Settled(DueItems)
          BY <1>4, <3>2, <4>1, <5>2 DEF CallbackInv, StagesInv
        <5> QED
          BY <1>2, <3>1, <5>3, SettledSame
      <4>2. CASE work[w].items # "end"
        <5>1. Settled(DueItems)
          BY <1>4, <3>2, <4>2 DEF CallbackInv, StagesInv
        <5> QED
          BY <1>2, <3>1, <5>1, SettledSame
      <4> QED
        BY <4>1, <4>2
    <3>3. CASE work[w].pc = "patch"
      <4>1. Settled(DueItems)
        BY <1>4, <3>3 DEF CallbackInv, PatchInv
      <4> QED
        BY <1>2, <3>1, <4>1, SettledSame
    <3>4. work[w].pc \in {"stages", "families", "shown", "patch"}
      BY <1>1 DEF Work
    <3> QED
      BY <2>3, <3>2, <3>3, <3>4 DEF Rebuilding
  <2> QED
    BY <2>1, <2>2, <2>3
<1> QED
  BY <1>1, <1>2, <1>3, <1>5, StagesGo

\* The rebuild begins: no blob is written, and those to come lack the delta only.
LEMMA CopiesAssemble ==
  ASSUME TypeInv, ItemsInv, CopiesInv, NEW w \in Workers, Assemble(w)
  PROVE  CopiesInv'
<1>0. work[w] \in Work /\ shown \in PriceMap
  BY Holds
<1>1. PICK noPrev \in BOOLEAN, noIndex \in BOOLEAN :
        /\ Swallows(noPrev \/ noIndex)
        /\ noIndex => ~work[w].full
        /\ LET known == IF work[w].full \/ noIndex THEN {} ELSE Indexed
               fams == known \cup ({g.fam : g \in work[w].got} \ {Blocked})
           IN  Goes(w, [work[w] EXCEPT
                 !.pc = "families", !.known = known, !.fams = fams, !.todo = fams,
                 !.prev = IF noPrev THEN NoPrices ELSE shown, !.hurt = noPrev \/ noIndex])
  BY DEF Assemble
<1> DEFINE known == IF work[w].full \/ noIndex THEN {} ELSE Indexed
           fams == known \cup ({g.fam : g \in work[w].got} \ {Blocked})
           prev == IF noPrev THEN NoPrices ELSE shown
           hurt == noPrev \/ noIndex
           r == [work[w] EXCEPT !.pc = "families", !.known = known, !.fams = fams,
                                !.todo = fams, !.prev = prev, !.hurt = hurt]
<1>2. Goes(w, r)
  BY <1>1
<1>3. /\ r.pc = "families" /\ r.old = work[w].old /\ r.got = work[w].got
      /\ r.full = work[w].full /\ r.known = known /\ r.fams = fams /\ r.todo = fams
      /\ r.prev = prev /\ r.hurt = hurt
  <2> HIDE DEF known, fams, prev, hurt
  <2> QED
    BY <1>0 DEF Work
<1> HIDE DEF r
<1>4. /\ UNCHANGED <<clock, item, prices, since, blobs, index, shown>>
      /\ work[w].pc = "stages" /\ work[w].items = "end"
      /\ work[w].got # {} \/ ~work[w].full
  BY DEF Assemble, StagesOver, Rebuilds, bc, firestore, gcs
<1>5. work'[w] = r /\ \A v \in Workers : v # w => work'[v].pc = "idle"
  BY <1>2, <1>4, OneGoes
<1>6. cut' = (cut \/ hurt) /\ cut \in BOOLEAN
  BY <1>1, Holds DEF Swallows
<1>7. /\ DeltaInv(w) /\ Settled(DueItems \cap Unfetched(w))
      /\ \A i \in Items : work[w].old[i] # None => shown[i] = work[w].old[i]
  BY <1>4 DEF CopiesInv, CallbackInv, StagesInv
<1>8. Unfetched(w)' = Unfetched(w) /\ Indexed' = Indexed
  BY <1>3, <1>4, <1>5 DEF Unfetched, Indexed
<1>9. RebuildInv(w)'
  BY <1>3, <1>4, <1>5, <1>6, <1>7 DEF RebuildInv
<1>10. \A g \in work[w].got : prices[g.no] = [at |-> g.at, fam |-> g.fam]
  BY <1>4, <1>7 DEF DeltaInv
<1>11. ASSUME ~hurt, work[w].full \/ ~cut
       PROVE  /\ \A f \in known : Right(f, Unfetched(w))
              /\ \A i \in Items : prices[i].fam # Blocked =>
                   /\ prices[i].fam \in fams
                   /\ i \in Unfetched(w) => prices[i].fam \in known
  <2>1. ASSUME NEW i \in Items \ Unfetched(w), prices[i].fam # Blocked
        PROVE  prices[i].fam \in fams
    <3>1. PICK g \in work[w].got : g.no = i
      BY DEF Unfetched
    <3>2. prices[i] = [at |-> g.at, fam |-> g.fam]
      BY <1>10, <3>1, Zenon
    <3>3. prices[i].fam = g.fam
      BY <3>2
    <3> QED
      BY <2>1, <3>3
  <2>2. CASE work[w].full
    <3>1. Unfetched(w) = {} /\ known = {}
      BY <1>4, <1>7, <2>2 DEF DeltaInv
    <3> QED
      BY <2>1, <3>1
  <2>3. CASE ~work[w].full
    <3>1. known = Indexed /\ ~cut
      BY <1>11, <2>3
    <3>2. Unfetched(w) \subseteq DueItems /\ DueItems \cap Unfetched(w) = Unfetched(w)
      BY <1>4, <1>7, <2>3 DEF DeltaInv
    <3>3. Agreed(Unfetched(w))
      BY <1>7, <3>1, <3>2 DEF Settled
    <3> QED
      BY <2>1, <3>1, <3>3 DEF Agreed
  <2> QED
    BY <2>2, <2>3
<1>12. FamiliesInv(w)'
  <2>1. Sound(w)' => ~hurt /\ (work[w].full \/ ~cut)
    BY <1>3, <1>5, <1>6 DEF Sound
  <2>2. \A f : Right(f, Unfetched(w)) => Right(f, Unfetched(w))'
    BY <1>4, <1>8 DEF Right
  <2> HIDE DEF known, fams, hurt
  <2> QED
    BY <1>3, <1>4, <1>5, <1>7, <1>8, <1>10, <1>11, <2>1, <2>2 DEF FamiliesInv, DeltaInv
<1>13. CallbackInv(w)'
  BY <1>3, <1>5, <1>9, <1>12 DEF CallbackInv, StagesInv, ShownInv, PatchInv
<1> QED
  BY <1>3, <1>4, <1>5, <1>13, CopiesGo

LEMMA CopiesSkip ==
  ASSUME TypeInv, ItemsInv, CopiesInv, NEW w \in Workers, SkipAssembly(w)
  PROVE  CopiesInv'
<1>1. /\ UNCHANGED <<clock, item, prices, since, blobs, index, shown, cut>>
      /\ work[w].pc = "stages" /\ Goes(w, ToPatch(w))
      /\ work[w].items = "end" => work[w].got = {}
  BY DEF SkipAssembly, StagesOver, Rebuilds, bc, firestore, gcs
<1>2. ToPatch(w).pc = "patch" /\ ToPatch(w).old = work[w].old
  BY DEF ToPatch, Idle
<1>3. work'[w] = ToPatch(w) /\ \A v \in Workers : v # w => work'[v].pc = "idle"
  BY <1>1, OneGoes
<1>4. StagesInv(w)
  BY DEF CopiesInv, CallbackInv
<1>5. Settled(DueItems)
  <2>1. work[w].got = {} => DueItems \cap Unfetched(w) = DueItems
    BY DEF Unfetched, DueItems
  <2> QED
    BY <1>1, <1>4, <2>1 DEF StagesInv
<1>6. Settled(DueItems)'
  BY <1>1, <1>5, SettledSame
<1>7. ASSUME ~cut, NEW f \in Indexed, NEW r \in blobs[f]
      PROVE  work[w].old[r.no] \in {None, r.price}
  <2>1. shown[r.no] = r.price
    BY <1>5, <1>7 DEF Settled, ShownRight
  <2>2. r.no \in Items
    BY <1>7, Holds DEF Indexed, Record
  <2> QED
    BY <1>1, <1>4, <2>1, <2>2 DEF StagesInv
<1>8. PatchInv(w)'
  BY <1>1, <1>2, <1>3, <1>6, <1>7 DEF PatchInv, Indexed
<1>9. CallbackInv(w)'
  BY <1>2, <1>3, <1>8
     DEF CallbackInv, StagesInv, RebuildInv, FamiliesInv, ShownInv
<1> QED
  BY <1>1, <1>2, <1>3, <1>9, CopiesGo

\* A record that a rebuild writes keeps its item, and is priced and stamped.
LEMMA FinalizeGives ==
  ASSUME NEW w \in Workers, NEW x \in Record
  PROVE  /\ Finalize(w, x).no = x.no /\ Finalize(w, x).at = x.at
         /\ Finalize(w, x).price = PriceOf(x.no, x.at, work[w].overlay)
         /\ work[w].prev[x.no] \notin {None, Finalize(w, x).price} =>
              Finalize(w, x).changed = work[w].start
<1> DEFINE price == PriceOf(x.no, x.at, work[w].overlay)
           changed == IF work[w].prev[x.no] \notin {None, price} THEN work[w].start
                      ELSE x.changed
<1>1. Finalize(w, x) = [x EXCEPT !.price = price, !.changed = changed]
  BY DEF Finalize
<1> HIDE DEF price, changed
<1>2. /\ Finalize(w, x).no = x.no /\ Finalize(w, x).at = x.at
      /\ Finalize(w, x).price = price /\ Finalize(w, x).changed = changed
  BY <1>1 DEF Record
<1> QED
  BY <1>2 DEF price, changed

\* A blob written without a failure is right: what it keeps was right, and the rest
\* is the delta.
LEMMA WrittenRight ==
  ASSUME TypeInv, NEW w \in Workers, work[w].pc = "families", FamiliesInv(w), Sound(w),
         NEW f \in BlobNames, f \in work[w].todo, NEW kept,
         kept = IF f \in work[w].known THEN Kept(w, f) ELSE {}
  PROVE  /\ \A r \in Written(w, f, kept) :
              /\ r.no \in Items /\ prices[r.no] = [at |-> r.at, fam |-> f]
              /\ r.price = PriceOf(r.no, r.at, work[w].overlay)
              /\ work[w].prev[r.no] \notin {None, r.price} => r.changed = work[w].start
         /\ \A i \in Items : prices[i].fam = f => \E r \in Written(w, f, kept) : r.no = i
<1>0. work[w] \in Work /\ blobs \in [BlobNames -> SUBSET Record]
  BY Holds
<1> DEFINE new == {FromBC(g) : g \in {h \in work[w].got : h.fam = f}}
<1>1. /\ \A g \in work[w].got : prices[g.no] = [at |-> g.at, fam |-> g.fam]
      /\ f \in work[w].known => Right(f, Unfetched(w))
      /\ \A i \in Unfetched(w) : prices[i].fam # Blocked => prices[i].fam \in work[w].known
  BY DEF FamiliesInv, Unfetched
<1>2. ASSUME NEW x \in kept
      PROVE  x \in Record /\ prices[x.no] = [at |-> x.at, fam |-> f]
  <2>1. x \in blobs[f] /\ f \in work[w].known /\ \A g \in work[w].got : g.no # x.no
    BY DEF Kept
  <2>2. x \in Record
    BY <1>0, <2>1
  <2>3. x.no \in Unfetched(w)
    BY <2>1, <2>2 DEF Unfetched, Record
  <2> QED
    BY <1>1, <2>1, <2>2, <2>3 DEF Right
<1>3. ASSUME NEW g \in work[w].got, g.fam = f
      PROVE  /\ FromBC(g) \in Record /\ FromBC(g).no = g.no
             /\ prices[g.no] = [at |-> FromBC(g).at, fam |-> f]
  <2>1. g \in Answer
    BY <1>0 DEF Work, Answer
  <2>2. FromBC(g) \in Record /\ FromBC(g).no = g.no /\ FromBC(g).at = g.at
    BY <2>1, TimeNat DEF Answer, FromBC, Record, Price
  <2>3. prices[g.no] = [at |-> g.at, fam |-> g.fam]
    BY <1>1
  <2> QED
    BY <1>3, <2>2, <2>3
<1>4. ASSUME NEW x \in kept \cup new
      PROVE  x \in Record /\ prices[x.no] = [at |-> x.at, fam |-> f]
  <2>1. CASE x \in kept
    BY <1>2, <2>1
  <2>2. CASE x \in new
    <3>1. PICK g \in work[w].got : g.fam = f /\ x = FromBC(g)
      BY <2>2
    <3> QED
      BY <1>3, <3>1
  <2> QED
    BY <2>1, <2>2
<1>5. Written(w, f, kept) = {Finalize(w, x) : x \in kept \cup new}
  BY DEF Written
<1>6. ASSUME NEW r \in Written(w, f, kept)
      PROVE  /\ r.no \in Items /\ prices[r.no] = [at |-> r.at, fam |-> f]
             /\ r.price = PriceOf(r.no, r.at, work[w].overlay)
             /\ work[w].prev[r.no] \notin {None, r.price} => r.changed = work[w].start
  <2>1. PICK x \in kept \cup new : r = Finalize(w, x)
    BY <1>5
  <2>2. x \in Record /\ x.no \in Items /\ prices[x.no] = [at |-> x.at, fam |-> f]
    BY <1>4 DEF Record
  <2>3. /\ r.no = x.no /\ r.at = x.at /\ r.price = PriceOf(x.no, x.at, work[w].overlay)
        /\ work[w].prev[x.no] \notin {None, r.price} => r.changed = work[w].start
    BY <2>1, <2>2, FinalizeGives
  <2> QED
    BY <2>2, <2>3
<1>7. ASSUME NEW i \in Items, prices[i].fam = f
      PROVE  \E r \in Written(w, f, kept) : r.no = i
  <2>1. \E x \in kept \cup new : x.no = i
    <3>1. CASE i \in Unfetched(w)
      <4>1. f \in work[w].known
        BY <1>1, <1>7, <3>1, ConstantsAssumption DEF BlobNames
      <4>2. PICK x \in blobs[f] : x.no = i
        BY <1>1, <1>7, <3>1, <4>1 DEF Right
      <4>3. x \in kept
        BY <3>1, <4>1, <4>2 DEF Kept, Unfetched
      <4> QED
        BY <4>2, <4>3
    <3>2. CASE i \notin Unfetched(w)
      <4>1. PICK g \in work[w].got : g.no = i
        BY <3>2 DEF Unfetched
      <4>2. prices[i] = [at |-> g.at, fam |-> g.fam]
        BY <1>1, <4>1, Zenon
      <4>3. g.fam = f
        BY <1>7, <4>2
      <4>4. FromBC(g) \in new /\ FromBC(g).no = i
        BY <1>3, <4>1, <4>3
      <4> QED
        BY <4>4
    <3> QED
      BY <3>1, <3>2
  <2>2. PICK x \in kept \cup new : x.no = i
    BY <2>1
  <2>3. x \in Record
    BY <1>4
  <2>4. Finalize(w, x) \in Written(w, f, kept) /\ Finalize(w, x).no = i
    BY <1>5, <2>2, <2>3, FinalizeGives
  <2> QED
    BY <2>4
<1> QED
  BY <1>6, <1>7

LEMMA CopiesSaveFamily ==
  ASSUME TypeInv, ItemsInv, CopiesInv, NEW w \in Workers, NEW f \in BlobNames, SaveFamily(w, f)
  PROVE  CopiesInv'
<1>0. work[w] \in Work /\ blobs \in [BlobNames -> SUBSET Record] /\ cut \in BOOLEAN
  BY Holds
<1>1. PICK noLoad, noSave \in BOOLEAN :
       /\ ~(noLoad /\ noSave)
       /\ noLoad => f \in work[w].known
       /\ Swallows(noLoad \/ noSave)
       /\ LET kept == IF f \in work[w].known /\ ~noLoad THEN Kept(w, f) ELSE {}
              raw == kept \cup {FromBC(g) : g \in {h \in work[w].got : h.fam = f}}
              final == {Finalize(w, r) : r \in raw}
          IN  /\ blobs' = IF noSave THEN blobs ELSE [blobs EXCEPT ![f] = final]
              /\ Goes(w, [work[w] EXCEPT
                   !.todo = @ \ {f}, !.hurt = @ \/ noLoad \/ noSave,
                   !.fresh = [i \in Items |->
                     IF \E r \in final : r.no = i THEN (CHOOSE r \in final : r.no = i).price
                                                  ELSE @[i]]])
  BY Zenon DEF SaveFamily
<1> DEFINE kept == IF f \in work[w].known /\ ~noLoad THEN Kept(w, f) ELSE {}
           final == Written(w, f, kept)
           fresh == Priced(w, final)
           todo == work[w].todo \ {f}
           hurt == work[w].hurt \/ noLoad \/ noSave
           r0 == [work[w] EXCEPT !.todo = todo, !.hurt = hurt, !.fresh = fresh]
<1>2. Goes(w, r0) /\ blobs' = IF noSave THEN blobs ELSE [blobs EXCEPT ![f] = final]
  BY <1>1 DEF Written, Priced
<1>3. /\ r0.pc = work[w].pc /\ r0.old = work[w].old /\ r0.got = work[w].got
      /\ r0.full = work[w].full /\ r0.known = work[w].known /\ r0.fams = work[w].fams
      /\ r0.prev = work[w].prev /\ r0.start = work[w].start
      /\ r0.todo = todo /\ r0.hurt = hurt /\ r0.fresh = fresh
  <2> HIDE DEF todo, hurt, fresh
  <2> QED
    BY <1>0 DEF Work
<1> HIDE DEF r0
<1>4. /\ UNCHANGED <<clock, item, prices, since, index, shown>>
      /\ work[w].pc = "families" /\ f \in work[w].todo
  BY DEF SaveFamily, bc, firestore
<1>5. work'[w] = r0 /\ \A v \in Workers : v # w => work'[v].pc = "idle"
  BY <1>2, <1>4, OneGoes
<1>6. cut' = (cut \/ noLoad \/ noSave)
  BY <1>0, <1>1 DEF Swallows
<1>7. RebuildInv(w) /\ FamiliesInv(w)
  BY DEF CopiesInv, CallbackInv
<1>8. Unfetched(w)' = Unfetched(w)
  BY <1>3, <1>5 DEF Unfetched
<1>9. RebuildInv(w)'
  <2>1. hurt => cut'
    BY <1>4, <1>6, <1>7 DEF RebuildInv
  <2>2. hurt \/ \A i \in Items : work[w].old[i] # None => work[w].prev[i] = work[w].old[i]
    BY <1>4, <1>7 DEF RebuildInv
  <2> HIDE DEF hurt
  <2> QED
    BY <1>3, <1>5, <2>1, <2>2 DEF RebuildInv
<1>10. ASSUME Sound(w)'
       PROVE  /\ \A e \in work[w].fams \ todo : Right(e, Items)' /\ Stamped(w, e)'
              /\ \A e \in todo \cap work[w].known : Right(e, Unfetched(w))'
  <2>1. ~noLoad /\ ~noSave /\ Sound(w)
    BY <1>3, <1>5, <1>6, <1>10 DEF Sound
  <2>2. /\ \A r \in final :
             /\ r.no \in Items /\ prices[r.no] = [at |-> r.at, fam |-> f]
             /\ r.price = PriceOf(r.no, r.at, work[w].overlay)
             /\ work[w].prev[r.no] \notin {None, r.price} => r.changed = work[w].start
        /\ \A i \in Items : prices[i].fam = f => \E r \in final : r.no = i
    <3>1. kept = IF f \in work[w].known THEN Kept(w, f) ELSE {}
      BY <2>1
    <3> HIDE DEF kept
    <3> QED
      BY <1>4, <1>7, <2>1, <3>1, WrittenRight
  <2> HIDE DEF final
  <2>3. blobs'[f] = final /\ \A e \in BlobNames \ {f} : blobs'[e] = blobs[e]
    BY <1>0, <1>2, <2>1
  <2>4. Right(f, Items)'
    BY <1>4, <2>2, <2>3 DEF Right
  <2>5. Stamped(w, f)'
    <3>1. ASSUME NEW r \in final
          PROVE  fresh[r.no] = r.price
      <4> DEFINE x == CHOOSE x \in final : x.no = r.no
      <4>1. x \in final /\ x.no = r.no
        OBVIOUS
      <4>2. fresh[r.no] = x.price
        BY <2>2 DEF Priced
      <4> HIDE DEF x
      <4>3. [at |-> x.at, fam |-> f] = [at |-> r.at, fam |-> f]
        BY <2>2, <4>1
      <4>4. x.at = r.at
        BY <4>3
      <4> QED
        BY <2>2, <4>1, <4>2, <4>4
    <3> HIDE DEF fresh
    <3> QED
      BY <1>3, <1>5, <2>2, <2>3, <3>1 DEF Stamped
  <2>6. ASSUME NEW e \in work[w].fams \ work[w].todo
        PROVE  Right(e, Items)' /\ Stamped(w, e)'
    <3>1. e \in BlobNames \ {f} /\ Right(e, Items) /\ Stamped(w, e)
      BY <1>0, <1>4, <1>7, <2>1 DEF FamiliesInv, Work
    <3>2. ASSUME NEW r \in blobs[e]
          PROVE  fresh[r.no] = work[w].fresh[r.no]
      <4>1. r.no \in Items /\ prices[r.no] = [at |-> r.at, fam |-> e]
        BY <1>0, <3>1 DEF Right, Record
      <4>2. ASSUME NEW x \in final, x.no = r.no
            PROVE  FALSE
        <5>1. [at |-> x.at, fam |-> f] = [at |-> r.at, fam |-> e]
          BY <2>2, <4>1, <4>2
        <5>2. e = f
          BY <5>1
        <5> QED
          BY <3>1, <5>2
      <4> QED
        BY <4>1, <4>2 DEF Priced
    <3> HIDE DEF fresh
    <3>3. Stamped(w, e)'
      BY <1>3, <1>5, <2>3, <3>1, <3>2 DEF Stamped
    <3>4. Right(e, Items)'
      BY <1>4, <2>3, <3>1 DEF Right
    <3> QED
      BY <3>3, <3>4
  <2>7. ASSUME NEW e \in todo \cap work[w].known
        PROVE  Right(e, Unfetched(w))'
    <3>1. e \in BlobNames \ {f} /\ Right(e, Unfetched(w))
      BY <1>0, <1>4, <1>7, <2>1 DEF FamiliesInv, Work
    <3> QED
      BY <1>4, <1>8, <2>3, <3>1 DEF Right
  <2> QED
    BY <2>4, <2>5, <2>6, <2>7
<1>11. FamiliesInv(w)'
  <2>1. Sound(w)' => Sound(w)
    BY <1>3, <1>5, <1>6 DEF Sound
  <2> HIDE DEF todo, hurt, fresh
  <2> QED
    BY <1>3, <1>4, <1>5, <1>7, <1>8, <1>10, <2>1 DEF FamiliesInv
<1>12. CallbackInv(w)'
  BY <1>3, <1>4, <1>5, <1>9, <1>11 DEF CallbackInv, StagesInv, ShownInv, PatchInv
<1> QED
  BY <1>3, <1>4, <1>5, <1>12, CopiesGo

LEMMA CopiesSaveIndex ==
  ASSUME TypeInv, ItemsInv, CopiesInv, NEW w \in Workers, SaveIndex(w)
  PROVE  CopiesInv'
<1>0. work[w] \in Work /\ cut \in BOOLEAN
  BY Holds
<1>1. PICK noSave \in BOOLEAN :
        /\ Swallows(noSave)
        /\ index' = IF noSave THEN index ELSE work[w].fams
        /\ Goes(w, [work[w] EXCEPT !.pc = "shown", !.hurt = @ \/ noSave])
  BY DEF SaveIndex
<1> DEFINE hurt == work[w].hurt \/ noSave
           r == [work[w] EXCEPT !.pc = "shown", !.hurt = hurt]
<1>2. Goes(w, r)
  BY <1>1
<1>3. /\ r.pc = "shown" /\ r.old = work[w].old /\ r.full = work[w].full
      /\ r.prev = work[w].prev /\ r.start = work[w].start /\ r.fresh = work[w].fresh
      /\ r.hurt = hurt
  <2> HIDE DEF hurt
  <2> QED
    BY <1>0 DEF Work
<1> HIDE DEF r
<1>4. /\ UNCHANGED <<clock, item, prices, since, blobs, shown>>
      /\ work[w].pc = "families" /\ work[w].todo = {}
  BY DEF SaveIndex, bc, firestore
<1>5. work'[w] = r /\ \A v \in Workers : v # w => work'[v].pc = "idle"
  BY <1>2, <1>4, OneGoes
<1>6. cut' = (cut \/ noSave)
  BY <1>0, <1>1 DEF Swallows
<1>7. RebuildInv(w) /\ FamiliesInv(w)
  BY DEF CopiesInv, CallbackInv
<1>8. RebuildInv(w)'
  <2>1. hurt => cut'
    BY <1>4, <1>6, <1>7 DEF RebuildInv
  <2>2. hurt \/ \A i \in Items : work[w].old[i] # None => work[w].prev[i] = work[w].old[i]
    BY <1>4, <1>7 DEF RebuildInv
  <2> HIDE DEF hurt
  <2> QED
    BY <1>3, <1>5, <2>1, <2>2 DEF RebuildInv
<1>9. ASSUME Sound(w)'
      PROVE  Agreed(Items)' /\ \A f \in Indexed' : Stamped(w, f)'
  <2>1. ~noSave /\ Sound(w)
    BY <1>3, <1>5, <1>6, <1>9 DEF Sound
  <2>2. Indexed' = work[w].fams
    <3>1. work[w].fams # None
      BY <1>0, ConstantsAssumption DEF Work, BlobNames
    <3> QED
      BY <1>1, <2>1, <3>1 DEF Indexed
  <2>3. ASSUME NEW f \in work[w].fams
        PROVE  Right(f, Items)' /\ Stamped(w, f)'
    <3>1. Right(f, Items) /\ Stamped(w, f)
      BY <1>4, <1>7, <2>1 DEF FamiliesInv
    <3> QED
      BY <1>3, <1>4, <1>5, <3>1 DEF Right, Stamped
  <2>4. \A i \in Items : prices'[i].fam = Blocked \/ prices'[i].fam \in work[w].fams
    BY <1>4, <1>7, <2>1 DEF FamiliesInv
  <2> QED
    BY <2>2, <2>3, <2>4 DEF Agreed
<1>10. CallbackInv(w)'
  BY <1>3, <1>5, <1>8, <1>9 DEF CallbackInv, StagesInv, FamiliesInv, ShownInv, PatchInv
<1> QED
  BY <1>3, <1>4, <1>5, <1>10, CopiesGo

LEMMA CopiesSaveShown ==
  ASSUME TypeInv, ItemsInv, CopiesInv, NEW w \in Workers, SaveShown(w)
  PROVE  CopiesInv'
<1>0. work[w] \in Work /\ cut \in BOOLEAN /\ blobs \in [BlobNames -> SUBSET Record]
      /\ index \in (SUBSET BlobNames) \cup {None}
  BY Holds
<1>1. /\ UNCHANGED <<clock, item, prices, since, blobs, index>>
      /\ work[w].pc = "shown" /\ Goes(w, ToPatch(w))
  BY DEF SaveShown, bc, firestore
<1>2. /\ ToPatch(w).pc = "patch" /\ ToPatch(w).old = work[w].old
      /\ ToPatch(w).start = work[w].start
  BY DEF ToPatch, Idle
<1>3. work'[w] = ToPatch(w) /\ \A v \in Workers : v # w => work'[v].pc = "idle"
  BY <1>1, OneGoes
<1>4. RebuildInv(w) /\ ShownInv(w)
  BY DEF CopiesInv, CallbackInv
<1>5. DueItems' = DueItems /\ Indexed' = Indexed
  BY <1>1 DEF DueItems, Indexed
<1>6. ASSUME ~cut'
      PROVE  Sound(w) /\ shown' = work[w].fresh
  <2>1. shown' = work[w].fresh /\ (~cut \/ (work[w].full /\ ~work[w].hurt))
    BY <1>0, <1>6 DEF SaveShown, Work
  <2>2. ~work[w].hurt
    BY <1>1, <1>4, <2>1 DEF RebuildInv
  <2> QED
    BY <2>1, <2>2 DEF Sound
<1>7. ASSUME ~cut'
      PROVE  /\ Agreed(Items) /\ \A f \in Indexed : Stamped(w, f)
             /\ \A i \in Items : work[w].old[i] # None => work[w].prev[i] = work[w].old[i]
  BY <1>1, <1>4, <1>6, <1>7 DEF ShownInv, RebuildInv, Sound
<1>8. Settled(DueItems)'
  <2>1. ASSUME ~cut'
        PROVE  ShownRight'
    BY <1>1, <1>5, <1>6, <1>7, <2>1 DEF ShownRight, Stamped
  <2>2. ASSUME ~cut'
        PROVE  Agreed(DueItems)'
    BY <1>1, <1>5, <1>7, <2>2 DEF Agreed, Right, DueItems
  <2> QED
    BY <2>1, <2>2 DEF Settled
<1>9. ASSUME ~cut', NEW f \in Indexed, NEW r \in blobs[f],
             work[w].old[r.no] \notin {None, r.price}
      PROVE  r.changed = work[w].start
  <2>1. r.no \in Items
    BY <1>0 DEF Indexed, Record
  <2>2. work[w].prev[r.no] = work[w].old[r.no]
    BY <1>7, <1>9, <2>1
  <2> QED
    BY <1>7, <1>9, <2>2 DEF Stamped
<1>10. PatchInv(w)'
  BY <1>1, <1>2, <1>3, <1>5, <1>8, <1>9 DEF PatchInv
<1>11. CallbackInv(w)'
  BY <1>2, <1>3, <1>10 DEF CallbackInv, StagesInv, RebuildInv, FamiliesInv, ShownInv
<1> QED
  BY <1>1, <1>2, <1>3, <1>11, CopiesGo

LEMMA CopiesPatch ==
  ASSUME TypeInv, ItemsInv, CopiesInv, NEW w \in Workers, Patch(w)
  PROVE  CopiesInv'
<1>1. /\ UNCHANGED <<clock, item, prices, since, blobs, index, shown, cut>>
      /\ work[w].pc = "patch" /\ Goes(w, Idle) /\ Idle.pc = "idle"
  BY DEF Patch, bc, gcs, Idle
<1>2. work'[w] = Idle /\ \A v \in Workers : v # w => work'[v].pc = "idle"
  BY <1>1, OneGoes
<1>3. Settled(DueItems)
  BY <1>1 DEF CopiesInv, CallbackInv, PatchInv
<1> QED
  BY <1>1, <1>2, <1>3, SettledSame, StagesGo

\* Steps of BC and of the clock.
LEMMA CopiesChange ==
  ASSUME TypeInv, CopiesInv, UNCHANGED <<since, firestore, gcs, work, cut>>,
         clock' # 0, \A i \in Items : item'[i].at # 0
  PROVE  CopiesInv'
<1>1. /\ UNCHANGED <<prices, since, blobs, index, shown, cut, work>>
      /\ AllIdle' = AllIdle /\ DueItems' = DueItems /\ Indexed' = Indexed
      /\ \A w \in Workers : Unfetched(w)' = Unfetched(w)
  BY DEF firestore, gcs, AllIdle, DueItems, Indexed, Unfetched
<1>2. AllIdle' => Settled(DueItems)'
  BY <1>1, SettledSame DEF CopiesInv
<1>3. ASSUME NEW w \in Workers
      PROVE  CallbackInv(w)'
  <2>1. CallbackInv(w)
    BY DEF CopiesInv
  <2>2. StagesInv(w)'
    BY <1>1, <2>1, StagesSame DEF CallbackInv, StagesInv
  <2>3. RebuildInv(w)' /\ ShownInv(w)'
    BY <1>1, <2>1 DEF CallbackInv, RebuildInv, ShownInv, Sound, Agreed, Right, Stamped
  <2>4. FamiliesInv(w)'
    BY <1>1, <2>1 DEF CallbackInv, FamiliesInv, Sound, Right, Stamped
  <2>5. PatchInv(w)'
    BY <1>1, <2>1, SettledSame DEF CallbackInv, PatchInv
  <2> QED
    BY <2>2, <2>3, <2>4, <2>5 DEF CallbackInv
<1> QED
  BY <1>2, <1>3 DEF CopiesInv

LEMMA CopiesStep ==
  ASSUME "overlap" \notin Faults, "omit" \notin Faults, TypeInv, ItemsInv, CopiesInv,
         [Next]_vars
  PROVE  CopiesInv'
<1>0. clock # 0 /\ \A i \in Items : item[i].at # 0
  BY DEF CopiesInv
<1>1. CASE UNCHANGED vars
  BY <1>0, <1>1, CopiesChange DEF vars, bc
<1>2. CASE NewSecond
  <2>1. clock' # 0
    BY <1>2, Holds DEF NewSecond
  <2> QED
    BY <1>0, <1>2, <2>1, CopiesChange DEF NewSecond, bc
<1>3. CASE \E l \in Lists : ChangeList(l) \/ DatePasses(l)
  BY <1>0, <1>3, CopiesChange DEF ChangeList, DatePasses, Change
<1>4. ASSUME NEW i \in Items, ChangeItem(i) PROVE CopiesInv'
  <2>1. PICK f \in Families \cup {Blocked} :
          item' = [item EXCEPT ![i] = [at |-> clock, fam |-> f]]
    BY <1>4 DEF ChangeItem
  <2>2. \A j \in Items : item'[j].at # 0
    BY <1>0, <2>1, Holds
  <2> QED
    BY <1>0, <1>4, <2>2, CopiesChange DEF ChangeItem, Change
<1>5. ASSUME NEW w \in Workers, NEW k \in Kinds, Start(w, k) PROVE CopiesInv'
  BY <1>5, CopiesStart
<1>6. ASSUME NEW w \in Workers, ItemStep(w) PROVE CopiesInv'
  BY <1>6, CopiesFetch, CopiesStore, CopiesFail DEF ItemStep
<1>7. ASSUME NEW w \in Workers, BlobStep(w) PROVE CopiesInv'
  BY <1>7, CopiesAssemble, CopiesSkip, CopiesSaveFamily, CopiesSaveIndex, CopiesSaveShown,
     CopiesPatch DEF BlobStep
<1>8. ASSUME NEW w \in Workers, ListStep(w) \/ Crash(w) PROVE CopiesInv'
  BY <1>8, CopiesListStep, CopiesCrash
<1> QED
  BY <1>1, <1>2, <1>3, <1>4, <1>5, <1>6, <1>7, <1>8 DEF Next

\* What is published of a product that no later delta brings again.
LEMMA AgreedIs ==
  ASSUME TypeInv, Agreed(DueItems), NEW i \in DueItems
  PROVE  {<<f, r.at>> : f \in {g \in Indexed : \E r \in blobs[g] : r.no = i}, r \in Records(i)}
           = IF prices[i].fam = Blocked THEN {} ELSE {<<prices[i].fam, prices[i].at>>}
<1> DEFINE homes == {g \in Indexed : \E r \in blobs[g] : r.no = i}
<1>0. /\ Indexed \subseteq BlobNames /\ Blocked \notin BlobNames
  BY Holds, ConstantsAssumption DEF Indexed, BlobNames
<1>1. ASSUME NEW f \in Indexed, NEW r \in blobs[f], r.no = i
      PROVE  prices[i] = [at |-> r.at, fam |-> f]
  BY <1>1 DEF Agreed, Right
<1>2. ASSUME NEW f \in Indexed, NEW r \in blobs[f], r.no = i
      PROVE  f = prices[i].fam /\ r.at = prices[i].at
  <2>1. prices[i] = [at |-> r.at, fam |-> f]
    BY <1>1, <1>2
  <2> QED
    BY <2>1
<1>3. \A f \in homes : f = prices[i].fam
  BY <1>2
<1>4. \A r \in Records(i) : r.at = prices[i].at /\ prices[i].fam \in homes
  <2> SUFFICES ASSUME NEW r \in Records(i)
               PROVE  r.at = prices[i].at /\ prices[i].fam \in homes
    OBVIOUS
  <2>1. PICK f \in Indexed : r \in blobs[f] /\ r.no = i
    BY DEF Records
  <2> QED
    BY <1>2, <2>1
<1>5. CASE prices[i].fam = Blocked
  <2>1. homes = {}
    BY <1>0, <1>3, <1>5
  <2> QED
    BY <1>5, <2>1
<1>6. CASE prices[i].fam # Blocked
  <2>1. prices[i].fam \in Indexed
    BY <1>6 DEF Agreed
  <2>2. PICK r \in blobs[prices[i].fam] : r.no = i
    BY <2>1 DEF Agreed, Right
  <2>3. r \in Records(i)
    BY <2>1, <2>2 DEF Records
  <2>4. prices[i].fam \in homes
    BY <1>4, <2>3
  <2> HIDE DEF homes
  <2>5. {<<f, x.at>> : f \in homes, x \in Records(i)} = {<<prices[i].fam, prices[i].at>>}
    BY <1>3, <1>4, <2>3, <2>4
  <2> QED
    BY <1>6, <2>5 DEF homes
<1> QED
  BY <1>5, <1>6

\* Between two syncs, and if no rebuild was cut short, the published blobs and
\* Firestore agree on every item that the next delta does not bring again: it is in
\* the blob of its family and in no other, whatever the syncs before went through
\* (_assemble_catalog).  One instance syncs the company at a time, and BC gives the
\* familyCode in incremental responses.
THEOREM CopiesAlwaysAgree ==
  ASSUME "overlap" \notin Faults, "omit" \notin Faults
  PROVE  Spec => []CopiesAgree
<1>1. Init => TypeInv /\ ItemsInv /\ CopiesInv
  BY TypeInit, ItemsInit, CopiesInit
<1>2. TypeInv /\ ItemsInv /\ CopiesInv /\ [Next]_vars => TypeInv' /\ ItemsInv' /\ CopiesInv'
  BY TypeStep, ItemsStep, CopiesStep
<1>3. TypeInv /\ CopiesInv => CopiesAgree
  <2> SUFFICES ASSUME TypeInv, CopiesInv, AllIdle, ~cut, NEW i \in Items,
                      prices[i].at # 0, prices[i].at < since.items
               PROVE  {<<f, r.at>> : f \in {g \in Indexed : \E r \in blobs[g] : r.no = i},
                                     r \in Records(i)}
                        = IF prices[i].fam = Blocked THEN {}
                          ELSE {<<prices[i].fam, prices[i].at>>}
    BY DEF CopiesAgree
  <2>1. Agreed(DueItems) /\ i \in DueItems
    BY DEF CopiesInv, Settled, DueItems
  <2> QED
    BY <2>1, AgreedIs
<1> QED
  BY <1>1, <1>2, <1>3, PTL DEF Spec

\* At the end of a sync that no failing call cut short, a published price that is not
\* the one from before the sync carries the sync's time stamp, so that the app finds
\* it: also if the sync resumed what a dead one had left, and if its price lists
\* failed (_assemble_catalog).  The conditions are those of CopiesAlwaysAgree.
THEOREM PriceChangesAreStamped ==
  ASSUME "overlap" \notin Faults, "omit" \notin Faults
  PROVE  Spec => PriceChangeStamped
<1>1. Init => TypeInv /\ ItemsInv /\ CopiesInv
  BY TypeInit, ItemsInit, CopiesInit
<1>2. TypeInv /\ ItemsInv /\ CopiesInv /\ [Next]_vars => TypeInv' /\ ItemsInv' /\ CopiesInv'
  BY TypeStep, ItemsStep, CopiesStep
<1>3. TypeInv /\ CopiesInv =>
        \A w \in Workers : Patch(w) /\ ~cut =>
          \A i \in Items : \A r \in Records(i) :
            work[w].old[i] \notin {None, r.price} => r.changed = work[w].start
  <2> SUFFICES ASSUME TypeInv, CopiesInv, NEW w \in Workers, Patch(w), ~cut,
                      NEW i \in Items, NEW r \in Records(i),
                      work[w].old[i] \notin {None, r.price}
               PROVE  r.changed = work[w].start
    OBVIOUS
  <2>1. PICK f \in Indexed : r \in blobs[f] /\ r.no = i
    BY DEF Records
  <2> QED
    BY <2>1 DEF CopiesInv, CallbackInv, PatchInv, Patch
<1> QED
  BY <1>1, <1>2, <1>3, PTL DEF Spec, PriceChangeStamped

================================================================================
