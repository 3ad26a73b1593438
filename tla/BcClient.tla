------------------------------- MODULE BcClient -------------------------------
(***************************************************************************)
(* The Business Central client (src/services/bc_client.py) under the       *)
(* threads of one process: the access token and the company list they      *)
(* share, the semaphore every request goes through, the retries of a       *)
(* request, and the two ways of reading a list that comes in pages.        *)
(*                                                                         *)
(* A call is one use of the client by one thread:                          *)
(*   post     _bc_request with something BC applies                        *)
(*   pages    _fetch_all_pages, which follows nextLink                     *)
(*   range    _fetch_range_with_offset_pagination                          *)
(*   company  get_company_id, of a company BC has                          *)
(*   missing  get_company_id, of one it does not have                      *)
(* Every request, and every wait for a lock or a slot, is a step.  BC may  *)
(* answer anything, and its list, the tokens it honours and the clock      *)
(* change at most MaxChanges times.                                        *)
(***************************************************************************)
EXTENDS Naturals, FiniteSets

CONSTANTS
  Calls,        \* calls, each by a thread of its own
  Slots,        \* permits of _bc_semaphore
  MaxRetries,   \* max_retries
  MaxRestarts,  \* _MAX_RESTARTS
  PageSize,     \* records of a page
  Items,        \* the keys records of the list may have, in its order
  Listed,       \* the records BC lists at the start
  MaxChanges,   \* bound of what changes around the client (for TLC)
  None          \* the absent value

Kinds == {"post", "pages", "range", "company", "missing"}

ASSUME ConstantsAssumption ==
  /\ Slots \in Nat \ {0}
  /\ MaxRetries \in Nat
  /\ MaxRestarts \in Nat
  /\ PageSize \in Nat \ {0}
  /\ Items \subseteq Nat /\ IsFiniteSet(Items)
  /\ Listed \subseteq Items
  /\ MaxChanges \in Nat
  /\ None \notin Calls

VARIABLES
  call,      \* Calls -> the locals of the call
  slots,     \* permits left
  tokens,    \* how many tokens were issued; the last one is the cached one
  fresh,     \* the cached token is not about to expire
  refused,   \* tokens up to this one are no longer honoured by BC
  authing,   \* the call that holds _token_lock, or None
  companies, \* the company list: "none", "fresh", "aged" (older than the TTL)
  listing,   \* the call that holds _companies_lock, or None
  items,     \* the records BC lists
  applied,   \* Calls -> how often BC applied the request of a post
  changes    \* what may still change around the client

bcVars == <<call, slots, tokens, fresh, refused, authing, companies, listing,
            items, applied, changes>>
shared == <<tokens, fresh, refused, authing, companies, listing>>

-----------------------------------------------------------------------------
PCs == {"idle", "company", "lock", "token", "force", "auth", "reauth", "wait",
        "flight", "done", "raised"}
Answers == {"none", "ok", "refused", "unauthorized", "busy", "gateway"}
Retried == {"unauthorized", "busy", "gateway"}

\* gateways: answers 502 and 503 to a post that were not its last; stale: the token a 401
\* was about; off, snap, got: the place in the list, what the cursor was opened
\* on, how often each record was received; base, gone: what BC listed at the
\* start, and whether it removed a record since.
Call == [kind : Kinds, pc : PCs, attempt : Nat, token : Nat, stale : Nat, answer : Answers,
         gateways : Nat, restarts : Nat, off : Nat, snap : SUBSET Items,
         got : [Items -> Nat], base : SUBSET Items, gone : BOOLEAN]

Nothing == [i \in Items |-> 0]
Fresh == [kind |-> "post", pc |-> "idle", attempt |-> 0, token |-> 0, stale |-> 0, answer |-> "none",
          gateways |-> 0, restarts |-> 0, off |-> 0, snap |-> {}, got |-> Nothing,
          base |-> {}, gone |-> FALSE]

\* The records of list S from place off on, as many as fit into a page.
Page(S, off) ==
  {i \in S : LET before == Cardinality({j \in S : j < i})
             IN off <= before /\ before < off + PageSize}

\* The records of page s come on top of those got before.
Plus(got, s) == [i \in Items |-> got[i] + (IF i \in s THEN 1 ELSE 0)]

BcInit ==
  /\ call = [c \in Calls |-> Fresh]
  /\ slots = Slots
  /\ tokens = 0 /\ fresh = FALSE /\ refused = 0 /\ authing = None
  /\ companies = "none" /\ listing = None
  /\ items = Listed
  /\ applied = [c \in Calls |-> 0]
  /\ changes = MaxChanges

Goes(c, r) == call' = [call EXCEPT ![c] = r]
Moves(c, pc) == Goes(c, [call[c] EXCEPT !.pc = pc])
Lists(c) == call[c].kind \in {"pages", "range"}
Asks == {"company", "missing"}

-----------------------------------------------------------------------------
(* The beginning of a call, and the company list.                           *)

Start(c) ==
  /\ call[c].pc = "idle"
  /\ \E k \in Kinds :
       Goes(c, [call[c] EXCEPT !.kind = k, !.base = items, !.gone = FALSE,
                               !.pc = IF k \in Asks THEN "company" ELSE "token"])
  /\ UNCHANGED <<slots, shared, items, applied, changes>>

\* get_company_id: an id that was cached once is good for ever; without one the
\* list is asked for, unless it is fresh and the company is not in it.
FindCompany(c) ==
  /\ call[c].pc = "company"
  /\ Moves(c, CASE companies # "none" /\ call[c].kind = "company"  -> "done"
                [] companies = "fresh" /\ call[c].kind = "missing" -> "raised"
                [] OTHER                                            -> "lock")
  /\ UNCHANGED <<slots, shared, items, applied, changes>>

\* Variant: the cache is not looked at again once the lock is there.
EnterListingBlindly(c) ==
  /\ call[c].pc = "lock"
  /\ listing = None
  /\ Moves(c, "token") /\ listing' = c
  /\ UNCHANGED <<slots, tokens, fresh, refused, authing, companies, items, applied, changes>>

\* _fetch_companies under its lock: the cache is looked at again.
EnterListing(c) ==
  /\ call[c].pc = "lock"
  /\ listing = None
  /\ IF companies = "fresh" THEN Moves(c, "company") /\ UNCHANGED listing
                            ELSE Moves(c, "token") /\ listing' = c
  /\ UNCHANGED <<slots, tokens, fresh, refused, authing, companies, items, applied, changes>>

\* The call is over with r; a with statement releases the list's lock.
Ends(c, r) ==
  /\ Goes(c, r)
  /\ listing' = IF listing = c THEN None ELSE listing

Raises(c) == Ends(c, [call[c] EXCEPT !.pc = "raised"])

-----------------------------------------------------------------------------
(* get_access_token.                                                        *)

\* The cached token is still good, and nobody is fetching another.
UseToken(c) ==
  /\ call[c].pc = "token"
  /\ authing = None
  /\ fresh
  /\ Goes(c, [call[c] EXCEPT !.pc = "wait", !.token = tokens])
  /\ UNCHANGED <<slots, shared, items, applied, changes>>

\* Variant: a refresh after a 401 is content with a cached token.
AskTokenUnforced(c) ==
  /\ authing = None
  /\ \/ /\ call[c].pc \in {"token", "force"} /\ ~fresh
        /\ Moves(c, IF call[c].pc = "force" THEN "reauth" ELSE "auth")
        /\ authing' = c
     \/ /\ call[c].pc = "force" /\ fresh
        /\ Goes(c, [call[c] EXCEPT !.pc = "wait", !.token = tokens])
        /\ UNCHANGED authing
  /\ UNCHANGED <<slots, tokens, fresh, refused, companies, listing, items, applied, changes>>

\* A token is fetched under the lock, always so after a 401.
AskToken(c) ==
  /\ \/ call[c].pc = "token" /\ ~fresh /\ Moves(c, "auth")
     \/ call[c].pc = "force" /\ Moves(c, "reauth")
  /\ authing = None
  /\ authing' = c
  /\ UNCHANGED <<slots, tokens, fresh, refused, companies, listing, items, applied, changes>>

\* The new token is cached.  _fetch_all_pages builds its headers anew for every
\* attempt and looks at the cache again.
TokenArrives(c) ==
  /\ call[c].pc \in {"auth", "reauth"}
  /\ tokens' = tokens + 1 /\ fresh' = TRUE /\ authing' = None
  /\ IF call[c].pc = "reauth" /\ call[c].kind = "pages"
       THEN Moves(c, "token")
       ELSE Goes(c, [call[c] EXCEPT !.pc = "wait", !.token = tokens + 1])
  /\ UNCHANGED <<slots, refused, companies, listing, items, applied, changes>>

TokenFails(c) ==
  /\ call[c].pc \in {"auth", "reauth"}
  /\ authing' = None
  /\ Raises(c)
  /\ UNCHANGED <<slots, tokens, fresh, refused, companies, items, applied, changes>>

-----------------------------------------------------------------------------
(* A request through the semaphore.                                         *)

\* Variant: a request does not wait for a slot.
SendWithoutSlot(c) ==
  /\ call[c].pc = "wait"
  /\ slots' = slots - 1
  /\ Moves(c, "flight")
  /\ UNCHANGED <<shared, items, applied, changes>>

Send(c) ==
  /\ call[c].pc = "wait"
  /\ slots > 0
  /\ slots' = slots - 1
  /\ Moves(c, "flight")
  /\ UNCHANGED <<shared, items, applied, changes>>

\* The answer is there and the slot is free again.
Lands(c) == call[c].pc = "flight" /\ slots' = slots + 1
Honoured(c) == call[c].token > refused

\* BC applied the request of a post, k times more.
Apply(c, k) == applied' = [applied EXCEPT ![c] = @ + k]

\* A success.  A post is returned; the company list is cached.
Succeeds(c) ==
  /\ Lands(c)
  /\ Honoured(c)
  /\ ~Lists(c)
  /\ IF call[c].kind = "post"
       THEN /\ Ends(c, [call[c] EXCEPT !.pc = "done", !.answer = "ok"])
            /\ Apply(c, 1)
            /\ UNCHANGED companies
       ELSE /\ Ends(c, [call[c] EXCEPT !.pc = IF call[c].kind = "missing" THEN "raised" ELSE "done"])
            /\ companies' = "fresh"
            /\ UNCHANGED applied
  /\ UNCHANGED <<tokens, fresh, refused, authing, items, changes>>

\* A page behind a nextLink.  The first one opens a cursor on the list as it is,
\* the next ones come from it.
PageArrives(c) ==
  LET snap == IF call[c].off = 0 THEN items ELSE call[c].snap
      next == call[c].off + PageSize
      more == next < Cardinality(snap)
  IN
  /\ Lands(c)
  /\ Honoured(c)
  /\ call[c].kind = "pages"
  /\ Goes(c, [call[c] EXCEPT !.pc = IF more THEN "token" ELSE "done",
                !.off = next, !.snap = snap, !.attempt = 0, !.stale = 0,
                !.got = Plus(@, Page(snap, call[c].off))])
  /\ UNCHANGED <<shared, items, applied, changes>>

\* Variant: one place is passed over with every page.
RangeArrivesPast(c) ==
  LET page == Page(items, call[c].off) IN
  /\ Lands(c)
  /\ Honoured(c)
  /\ call[c].kind = "range"
  /\ Goes(c, [call[c] EXCEPT !.pc = IF Cardinality(page) < PageSize THEN "done" ELSE "token",
                !.off = @ + PageSize + 1, !.attempt = 0, !.stale = 0, !.got = Plus(@, page)])
  /\ UNCHANGED <<shared, items, applied, changes>>

\* A page at an offset of the list as it is now; a short one is the last.
RangeArrives(c) ==
  LET page == Page(items, call[c].off) IN
  /\ Lands(c)
  /\ Honoured(c)
  /\ call[c].kind = "range"
  /\ Goes(c, [call[c] EXCEPT !.pc = IF Cardinality(page) < PageSize THEN "done" ELSE "token",
                !.off = @ + PageSize, !.attempt = 0, !.stale = 0, !.got = Plus(@, page)])
  /\ UNCHANGED <<shared, items, applied, changes>>

\* Variant: the records of the pages before the conflict are kept.
ConflictKeepsRecords(c) ==
  /\ Lands(c)
  /\ call[c].kind = "pages"
  /\ IF call[c].restarts < MaxRestarts
       THEN /\ Goes(c, [call[c] EXCEPT !.pc = "token", !.restarts = @ + 1, !.attempt = 0,
                          !.off = 0, !.stale = 0])
            /\ UNCHANGED listing
       ELSE Raises(c)
  /\ UNCHANGED <<tokens, fresh, refused, authing, companies, items, applied, changes>>

\* 409: the cursor is gone.  The paging begins again from the first page, a
\* bounded number of times.
Conflict(c) ==
  /\ Lands(c)
  /\ call[c].kind = "pages"
  /\ IF call[c].restarts < MaxRestarts
       THEN /\ Goes(c, [call[c] EXCEPT !.pc = "token", !.restarts = @ + 1, !.attempt = 0,
                          !.off = 0, !.stale = 0, !.got = Nothing])
            /\ UNCHANGED listing
       ELSE Raises(c)
  /\ UNCHANGED <<tokens, fresh, refused, authing, companies, items, applied, changes>>

\* The request ended with status s for good: a post returns it, everything else
\* raises on it.
Ended(c, s) ==
  IF call[c].kind = "post" THEN Ends(c, [call[c] EXCEPT !.pc = "done", !.answer = s])
                        ELSE Raises(c)

\* Any other status is not tried again.
Rejected(c) ==
  /\ Lands(c)
  /\ Ended(c, "refused")
  /\ UNCHANGED <<tokens, fresh, refused, authing, companies, items, applied, changes>>

\* Whether s leaves open if BC applied a post, and how many times more it did.
Gateway(c, s) == IF call[c].kind = "post" /\ s = "gateway" THEN 1 ELSE 0
Taken(c, s) == 0..Gateway(c, s)

\* 401, 429, 502 or 503.  The next attempt comes after a refresh of the token or
\* a pause, both without the slot.
TryAgain(c) ==
  /\ Lands(c)
  /\ \E s \in Retried :
       /\ s = "unauthorized" <=> ~Honoured(c)
       /\ \E k \in Taken(c, s) :
            /\ Apply(c, k)
            /\ IF call[c].attempt < MaxRetries
                 THEN /\ Goes(c, [call[c] EXCEPT
                           !.pc = IF s = "unauthorized" THEN "force"
                                  ELSE IF call[c].kind = "pages" THEN "token" ELSE "wait",
                           !.stale = IF s = "unauthorized" THEN call[c].token ELSE 0,
                           !.attempt = @ + 1, !.gateways = @ + Gateway(c, s)])
                      /\ UNCHANGED listing
                 ELSE Ended(c, s)
  /\ UNCHANGED <<tokens, fresh, refused, authing, companies, items, changes>>

\* Variant: a request that broke is sent once more.
BreaksAndRepeats(c) ==
  /\ Lands(c)
  /\ \E k \in Taken(c, "gateway") : Apply(c, k)
  /\ IF call[c].attempt < MaxRetries
       THEN Goes(c, [call[c] EXCEPT !.pc = "wait", !.attempt = @ + 1]) /\ UNCHANGED listing
       ELSE Raises(c)
  /\ UNCHANGED <<tokens, fresh, refused, authing, companies, items, changes>>

\* Variant: the slot of a request that broke is not given back.
BreaksWithSlot(c) ==
  /\ call[c].pc = "flight"
  /\ \E k \in Taken(c, "gateway") : Apply(c, k)
  /\ Raises(c)
  /\ UNCHANGED <<slots, tokens, fresh, refused, authing, companies, items, changes>>

\* The request raises: a timeout or a broken connection.
Breaks(c) ==
  /\ Lands(c)
  /\ \E k \in Taken(c, "gateway") : Apply(c, k)
  /\ Raises(c)
  /\ UNCHANGED <<tokens, fresh, refused, authing, companies, items, changes>>

-----------------------------------------------------------------------------
(* The surroundings, at most MaxChanges of them.                            *)

Changes == changes > 0 /\ changes' = changes - 1

\* The cached token comes within a minute of its end, or the company list
\* reaches its TTL.
TimePasses ==
  /\ Changes
  /\ \/ fresh' = FALSE /\ UNCHANGED companies
     \/ companies = "fresh" /\ companies' = "aged" /\ UNCHANGED fresh
  /\ UNCHANGED <<call, slots, tokens, refused, authing, listing, items, applied>>

\* BC stops honouring the tokens it issued so far.
Revoke ==
  /\ Changes
  /\ refused' = tokens
  /\ UNCHANGED <<call, slots, tokens, fresh, authing, companies, listing, items, applied>>

\* A record appears in the list, or one is removed from it.
Edit ==
  /\ Changes
  /\ \/ /\ \E i \in Items \ items : items' = items \cup {i}
        /\ UNCHANGED call
     \/ /\ \E i \in items : items' = items \ {i}
        /\ call' = [c \in Calls |-> [call[c] EXCEPT !.gone = TRUE]]
  /\ UNCHANGED <<slots, shared, applied>>

-----------------------------------------------------------------------------
ThreadStep(c) ==
  \/ Start(c) \/ FindCompany(c) \/ EnterListing(c)
  \/ UseToken(c) \/ AskToken(c) \/ TokenArrives(c) \/ TokenFails(c)
  \/ Send(c) \/ Succeeds(c) \/ PageArrives(c) \/ RangeArrives(c)
  \/ Conflict(c) \/ Rejected(c) \/ TryAgain(c) \/ Breaks(c)

BcNext == (\E c \in Calls : ThreadStep(c)) \/ TimePasses \/ Revoke \/ Edit

BcSpec == BcInit /\ [][BcNext]_bcVars

\* A thread keeps running, and requests have timeouts.
BcLiveSpec == BcSpec /\ \A c \in Calls : WF_bcVars(ThreadStep(c))

-----------------------------------------------------------------------------
(* Properties.                                                              *)

\* Every variable keeps its shape (the locals of _bc_request and
\* _fetch_all_pages, and what the module keeps for all threads).
BcTypeOK ==
  /\ call \in [Calls -> Call]
  /\ slots \in Nat
  /\ tokens \in Nat /\ refused \in Nat
  /\ fresh \in BOOLEAN
  /\ authing \in Calls \cup {None} /\ listing \in Calls \cup {None}
  /\ companies \in {"none", "fresh", "aged"}
  /\ items \subseteq Items
  /\ applied \in [Calls -> Nat]
  /\ changes \in Nat

\* A slot of _bc_semaphore is out exactly while a request is in flight, and never
\* during the pause before the next attempt or the refresh of the token; a
\* request that raises gives it back (_bc_request, _fetch_all_pages).
PermitsAccounted ==
  slots + Cardinality({c \in Calls : call[c].pc = "flight"}) = Slots

\* Nothing but a 502 or 503 makes BC apply a post again: not a 401, a 429, a
\* broken connection or a failed refresh of the token.  Its caller is told no
\* more than the last answer: success means at least once and at most once more
\* for every 502 or 503 before it, and even a refusal may come after one that BC
\* applied; the retries bound both (the loop of _bc_request).
OnlyGatewaysRepeat ==
  \A c \in Calls : call[c].kind = "post" =>
    LET open == call[c].answer \in {"ok", "gateway"} \/ call[c].pc = "raised"
        most == call[c].gateways + (IF open THEN 1 ELSE 0)
    IN  /\ applied[c] <= most
        /\ most <= MaxRetries + 1
        /\ call[c].answer = "ok" => applied[c] > 0

\* A list read through nextLink is the list of one moment, whole and without a
\* record twice, however often a page was asked for again and the paging begun
\* anew (_fetch_all_pages): the fourth conflict never returns a part.
PagesAreWhole ==
  \A c \in Calls : call[c].kind = "pages" /\ call[c].pc = "done" =>
    call[c].got = Plus(Nothing, call[c].snap)

\* A list read by offsets misses no record that was there all the time, although
\* records appear between two pages; only a removal during the reading may let
\* one slip (_fetch_range_with_offset_pagination, and the records it repeats are
\* dropped by _fetch_v3_catalog_for_date).
RangeMissesNothing ==
  \A c \in Calls : call[c].kind = "range" /\ call[c].pc = "done" /\ ~call[c].gone =>
    \A i \in call[c].base : call[c].got[i] > 0

\* After a 401 no request of the call carries the refused token again, whichever
\* threads refresh the shared token at the same time (get_access_token).
RefusedIsReplaced ==
  [][\A c \in Calls : Send(c) /\ call[c].stale # 0 => call[c].token > call[c].stale]_bcVars

\* The company list is not asked for again while it is fresh: of the threads
\* that miss it together, one fetches it for all (_fetch_companies).
ListedOnce ==
  [][\A c \in Calls : Send(c) /\ call[c].kind \in Asks => companies # "fresh"]_bcVars

\* Every call comes back: no thread is left waiting for a slot or one of the two
\* locks, whatever raised while another held it.
EveryCallReturns == \A c \in Calls : <>(call[c].pc \in {"done", "raised"})
=============================================================================
