---------------------------- MODULE BcClientProofs ----------------------------
(***************************************************************************)
(* What TLAPS proves about BcClient, for any number of threads, slots,     *)
(* retries, restarts and records: types, the account of the semaphore,     *)
(* how often BC may have applied a post, lists that are whole although     *)
(* read page by page (by cursor or by offset), no request with a refused   *)
(* token, and one fetch of the company list for all who wait for it.       *)
(*                                                                         *)
(* Apart from the semaphore, every property is one of a single call and of *)
(* what it shares, so the invariant is a conjunction over the calls; a     *)
(* step moves one call, and the others only have to bear what it shares.   *)
(***************************************************************************)
EXTENDS BcClient, FiniteSetTheorems, TLAPS

-----------------------------------------------------------------------------
(* The invariant of call c with locals k, given how often its request was   *)
(* applied (a), the tokens issued (t) and who holds the company lock (h).   *)

Over == {"done", "raised"}
Underway == {"token", "force", "auth", "reauth", "wait", "flight"}

Counted(k, a) ==
  /\ k.pc = "idle" => k.attempt = 0 /\ k.gateways = 0
  /\ k.pc \notin Over => k.answer = "none" /\ a <= k.gateways
  /\ k.kind = "post" =>
       /\ k.gateways <= k.attempt /\ k.attempt <= MaxRetries
       /\ k.pc = "raised" => k.answer = "none" /\ a <= k.gateways + 1
       /\ k.pc = "done" =>
            /\ a <= k.gateways + (IF k.answer \in {"ok", "gateway"} THEN 1 ELSE 0)
            /\ k.answer = "ok" => a > 0

\* The first n records of list S.
First(S, n) == {i \in S : Cardinality({j \in S : j < i}) < n}

Placed(k) ==
  /\ k.pc = "idle" => k.off = 0 /\ k.got = Nothing
  /\ k.kind = "pages" /\ k.pc # "raised" => k.got = Plus(Nothing, First(k.snap, k.off))
  /\ k.kind = "pages" /\ k.pc = "done" => k.off >= Cardinality(k.snap)

Current(k, t) ==
  /\ k.token <= t /\ k.stale <= t
  /\ k.pc \in {"idle", "company", "lock"} => k.stale = 0
  /\ k.pc \in {"token", "auth"} => k.stale = 0 \/ k.stale < t
  /\ k.pc = "wait" => k.stale = 0 \/ k.stale < k.token

Asking(c, k, h) == k.kind \in Asks /\ k.pc \in Underway => h = c

CallInv(c, k, a, t, h) == Counted(k, a) /\ Placed(k) /\ Current(k, t) /\ Asking(c, k, h)

ClientInv ==
  /\ BcTypeOK
  /\ \A c \in Calls : CallInv(c, call[c], applied[c], tokens, listing)
  /\ listing # None => companies # "fresh"

-----------------------------------------------------------------------------
(* Lists.                                                                   *)

LEMMA RankIsNat ==
  ASSUME NEW S \in SUBSET Items, NEW i
  PROVE  /\ IsFiniteSet(S) /\ Cardinality(S) \in Nat
         /\ Cardinality({j \in S : j < i}) \in Nat
         /\ i \in S => Cardinality({j \in S : j < i}) < Cardinality(S)
<1> DEFINE T == {j \in S : j < i}
<1>1. IsFiniteSet(S)
  BY FS_Subset, ConstantsAssumption
<1>2. T \subseteq S
  OBVIOUS
<1>3. IsFiniteSet(T)
  BY <1>1, <1>2, FS_Subset
<1>4. i \in S => i \notin T
  BY ConstantsAssumption
<1>5. i \in S => Cardinality(T) < Cardinality(S)
  <2>1. i \in S => T # S
    BY <1>4
  <2> HIDE DEF T
  <2> QED
    BY <1>1, <1>2, <1>3, <2>1, FS_Subset, FS_CardinalityType
<1> QED
  BY <1>1, <1>3, <1>5, FS_CardinalityType

LEMMA FirstAll ==
  ASSUME NEW S \in SUBSET Items, NEW n \in Nat, n >= Cardinality(S)
  PROVE  First(S, n) = S
<1>1. \A i \in S : Cardinality({j \in S : j < i}) < n
  BY RankIsNat
<1> QED
  BY <1>1 DEF First

\* A page takes up where the pages before it ended.
LEMMA NextPage ==
  ASSUME NEW S \in SUBSET Items, NEW n \in Nat
  PROVE  Plus(Plus(Nothing, First(S, n)), Page(S, n)) = Plus(Nothing, First(S, n + PageSize))
<1>1. \A i \in Items : Cardinality({j \in S : j < i}) \in Nat
  BY RankIsNat
<1>2. PageSize \in Nat
  BY ConstantsAssumption
<1>3. ASSUME NEW i \in Items
      PROVE  /\ i \in First(S, n + PageSize) <=> i \in First(S, n) \/ i \in Page(S, n)
             /\ ~(i \in First(S, n) /\ i \in Page(S, n))
  <2> DEFINE r == Cardinality({j \in S : j < i})
  <2>1. r \in Nat
    BY <1>1
  <2>2. i \in First(S, n) <=> i \in S /\ r < n
    BY DEF First
  <2>3. i \in First(S, n + PageSize) <=> i \in S /\ r < n + PageSize
    BY DEF First
  <2>4. i \in Page(S, n) <=> i \in S /\ n <= r /\ r < n + PageSize
    BY DEF Page
  <2> HIDE DEF r
  <2> QED
    BY <1>2, <2>1, <2>2, <2>3, <2>4
<1> QED
  BY <1>3 DEF Plus, Nothing

LEMMA NoFirst == ASSUME NEW S \in SUBSET Items PROVE Plus(Nothing, First(S, 0)) = Nothing
<1>1. First(S, 0) = {}
  <2>1. \A i \in S : ~(Cardinality({j \in S : j < i}) < 0)
    <3> TAKE i \in S
    <3>1. Cardinality({j \in S : j < i}) \in Nat
      BY RankIsNat
    <3> QED
      BY <3>1
  <2> QED
    BY <2>1 DEF First
<1> QED
  BY <1>1 DEF Plus, Nothing

LEMMA PlusType ==
  ASSUME NEW got \in [Items -> Nat], NEW s
  PROVE  Plus(got, s) \in [Items -> Nat] /\ Nothing \in [Items -> Nat]
  BY DEF Plus, Nothing

-----------------------------------------------------------------------------
(* One call moves.                                                          *)

LEMMA Bystanders ==
  ASSUME ClientInv, NEW c \in Calls, NEW k \in Call, Goes(c, k),
         tokens' \in Nat, tokens <= tokens',
         applied' = applied \/ \E j \in Nat : Apply(c, j),
         listing' = listing \/ listing \in {c, None},
         CallInv(c, k, applied'[c], tokens', listing')
  PROVE  /\ call' \in [Calls -> Call]
         /\ applied' \in [Calls -> Nat]
         /\ \A d \in Calls : CallInv(d, call'[d], applied'[d], tokens', listing')
<1>0. call \in [Calls -> Call] /\ applied \in [Calls -> Nat] /\ tokens \in Nat
  BY DEF ClientInv, BcTypeOK
<1>1. call' \in [Calls -> Call] /\ call'[c] = k
  BY <1>0 DEF Goes
<1>2. applied' \in [Calls -> Nat]
  BY <1>0 DEF Apply
<1>3. ASSUME NEW d \in Calls, d # c
      PROVE  CallInv(d, call'[d], applied'[d], tokens', listing')
  <2>1. call'[d] = call[d] /\ applied'[d] = applied[d]
    BY <1>0, <1>3 DEF Goes, Apply
  <2>2. CallInv(d, call[d], applied[d], tokens, listing)
    BY DEF ClientInv
  <2>3. call[d] \in Call
    BY <1>0
  <2>4. Counted(call'[d], applied'[d]) /\ Placed(call'[d])
    BY <2>1, <2>2 DEF CallInv
  <2>5. Current(call'[d], tokens')
    BY <1>0, <2>1, <2>2, <2>3 DEF CallInv, Current, Call
  <2>6. Asking(d, call'[d], listing')
    BY <1>3, <2>1, <2>2, ConstantsAssumption DEF CallInv, Asking
  <2> QED
    BY <2>4, <2>5, <2>6 DEF CallInv
<1> QED
  BY <1>1, <1>2, <1>3

\* What the call in hand is.
LEMMA InHand ==
  ASSUME ClientInv, NEW c \in Calls
  PROVE  /\ call[c] \in Call /\ applied[c] \in Nat /\ tokens \in Nat
         /\ CallInv(c, call[c], applied[c], tokens, listing)
  BY DEF ClientInv, BcTypeOK

\* A call moves on without a change but of its place in the code.
LEMMA MovedCall ==
  ASSUME NEW k \in Call, NEW pc \in PCs
  PROVE  LET r == [k EXCEPT !.pc = pc]
         IN /\ r \in Call /\ r.pc = pc /\ r.kind = k.kind /\ r.token = k.token
            /\ r.stale = k.stale /\ r.answer = k.answer
            /\ r.gateways = k.gateways /\ r.attempt = k.attempt
            /\ r.off = k.off /\ r.got = k.got /\ r.snap = k.snap
  BY DEF Call

\* A call that raises owes nothing any more.
LEMMA RaisedCall ==
  ASSUME NEW c \in Calls, NEW k \in Call, k.pc = "raised", NEW a, NEW t \in Nat, NEW h,
         k.token <= t /\ k.stale <= t, Counted(k, a)
  PROVE  CallInv(c, k, a, t, h)
  BY DEF CallInv, Counted, Placed, Current, Asking, Over, Underway

Steps(c) ==
  /\ call' \in [Calls -> Call]
  /\ applied' \in [Calls -> Nat]
  /\ \A d \in Calls : CallInv(d, call'[d], applied'[d], tokens', listing')

LEMMA StepRaises ==
  ASSUME ClientInv, NEW c \in Calls, Raises(c), UNCHANGED tokens, call[c].pc \notin Over,
         applied' = applied \/ \E j \in {0, 1} : Apply(c, j)
  PROVE  Steps(c)
<1> DEFINE k == [call[c] EXCEPT !.pc = "raised"]
<1>1. k \in Call /\ k.pc = "raised" /\ k.token <= tokens' /\ k.stale <= tokens'
  BY InHand, MovedCall, ZenonT(60) DEF PCs, CallInv, Current
<1>2. Goes(c, k) /\ (listing' = listing \/ listing \in {c, None})
  BY DEF Raises, Ends
<1>3. tokens \in Nat /\ applied \in [Calls -> Nat]
  BY InHand DEF ClientInv, BcTypeOK
<1>4. /\ k.kind = call[c].kind /\ k.answer = call[c].answer
      /\ k.gateways = call[c].gateways /\ k.attempt = call[c].attempt
  BY InHand, MovedCall, ZenonT(60) DEF PCs
<1> HIDE DEF k
<1>5. applied'[c] \in {applied[c], applied[c] + 1}
  BY <1>3 DEF Apply
<1>6. call[c].gateways \in Nat /\ applied[c] \in Nat
  BY InHand DEF Call
<1>7. Counted(call[c], applied[c])
  BY InHand DEF CallInv
<1>8. Counted(k, applied'[c])
  BY <1>1, <1>4, <1>5, <1>6, <1>7 DEF Counted, Over
<1>9. CallInv(c, k, applied'[c], tokens', listing')
  BY <1>1, <1>3, <1>8, RaisedCall
<1>10. applied' = applied \/ \E j \in Nat : Apply(c, j)
  OBVIOUS
<1> QED
  BY <1>1, <1>2, <1>3, <1>9, <1>10, Bystanders DEF Steps

LEMMA StepStarts ==
  ASSUME ClientInv, NEW c \in Calls, Start(c) PROVE Steps(c)
<1>1. PICK kind \in Kinds :
        Goes(c, [call[c] EXCEPT !.kind = kind, !.base = items, !.gone = FALSE,
                                !.pc = IF kind \in Asks THEN "company" ELSE "token"])
  BY DEF Start
<1> DEFINE k == [call[c] EXCEPT !.kind = kind, !.base = items, !.gone = FALSE,
                                !.pc = IF kind \in Asks THEN "company" ELSE "token"]
<1>2. items \subseteq Items /\ call[c].pc = "idle" /\ UNCHANGED <<tokens, listing, applied>>
  BY DEF Start, ClientInv, BcTypeOK, shared
<1>3. /\ k \in Call /\ k.kind = kind /\ k.token = call[c].token /\ k.stale = call[c].stale
      /\ k.answer = call[c].answer
      /\ k.gateways = call[c].gateways /\ k.attempt = call[c].attempt
      /\ k.off = call[c].off /\ k.got = call[c].got /\ k.snap = call[c].snap
      /\ k.pc = IF kind \in Asks THEN "company" ELSE "token"
  BY <1>2, InHand, ZenonT(60) DEF Call, PCs
<1> HIDE DEF k
<1>4. k.got = Plus(Nothing, First(k.snap, k.off))
  BY <1>2, <1>3, InHand, NoFirst DEF CallInv, Placed, Call
<1>5. CallInv(c, k, applied'[c], tokens', listing')
  <2>1. CallInv(c, call[c], applied[c], tokens, listing) /\ MaxRetries \in Nat
    BY InHand, ConstantsAssumption
  <2>2. Counted(k, applied'[c])
    BY <1>2, <1>3, <2>1 DEF CallInv, Counted, Over, Asks
  <2> QED
    BY <1>2, <1>3, <1>4, <2>1, <2>2 DEF CallInv, Placed, Current, Asking, Underway, Asks
<1>6. Goes(c, k)
  BY <1>1 DEF k
<1>7. tokens <= tokens'
  BY <1>2, InHand
<1> QED
  BY <1>2, <1>3, <1>5, <1>6, <1>7, InHand, Bystanders DEF Steps

LEMMA StepCompany ==
  ASSUME ClientInv, NEW c \in Calls, FindCompany(c) \/ EnterListing(c) PROVE Steps(c)
<1>1. PICK pc \in {"done", "raised", "lock", "company", "token"} :
        /\ Moves(c, pc)
        /\ pc = "done" => call[c].kind = "company"
        /\ pc = "token" => listing' = c
  BY DEF FindCompany, EnterListing
<1> DEFINE k == [call[c] EXCEPT !.pc = pc]
<1>2. /\ call[c].pc \in {"company", "lock"} /\ UNCHANGED <<tokens, applied>>
      /\ listing' = listing \/ listing = None
  BY DEF FindCompany, EnterListing, shared
<1>3. /\ k \in Call /\ k.pc = pc /\ k.kind = call[c].kind /\ k.token = call[c].token
      /\ k.stale = call[c].stale /\ k.answer = call[c].answer
      /\ k.gateways = call[c].gateways /\ k.attempt = call[c].attempt
      /\ k.off = call[c].off /\ k.got = call[c].got /\ k.snap = call[c].snap
  <2>1. pc \in PCs /\ call[c] \in Call
    BY InHand DEF PCs
  <2> QED
    BY <2>1, MovedCall
<1>4. Goes(c, k)
  BY <1>1 DEF Moves
<1> HIDE DEF k
<1>5. CallInv(c, k, applied'[c], tokens', listing')
  <2>1. /\ CallInv(c, call[c], applied[c], tokens, listing)
        /\ applied[c] \in Nat /\ call[c].gateways \in Nat
    BY InHand DEF Call
  <2>2. Counted(k, applied'[c])
    BY <1>1, <1>2, <1>3, <2>1 DEF CallInv, Counted, Over
  <2> QED
    BY <1>1, <1>2, <1>3, <2>1, <2>2 DEF CallInv, Placed, Current, Asking, Underway
<1> QED
  BY <1>2, <1>3, <1>4, <1>5, InHand, Bystanders DEF Steps

\* The token, and the request that carries it.
LEMMA StepToken ==
  ASSUME ClientInv, NEW c \in Calls, UseToken(c) \/ AskToken(c) \/ TokenArrives(c) \/ Send(c)
  PROVE  Steps(c)
<1>0. PICK pc \in Underway, t \in {call[c].token, tokens'} :
        /\ Goes(c, [call[c] EXCEPT !.pc = pc, !.token = t])
        /\ call[c].pc \in Underway
        /\ UNCHANGED <<listing, applied>>
        /\ tokens' \in {tokens, tokens + 1}
        /\ pc \in {"token", "auth"} => \/ call[c].pc = "token" /\ UNCHANGED tokens
                                       \/ tokens' = tokens + 1
        /\ pc = "wait" => \/ t = tokens' /\ tokens' = tokens + 1
                          \/ t = tokens' /\ call[c].pc = "token"
  <2>0. \A pc : [call[c] EXCEPT !.pc = pc] = [call[c] EXCEPT !.pc = pc, !.token = call[c].token]
    BY InHand DEF Call
  <2>1. CASE UseToken(c)
    BY <2>1 DEF UseToken, Underway, shared
  <2>2. CASE AskToken(c)
    BY <2>0, <2>2 DEF AskToken, Moves, Underway
  <2>3. CASE TokenArrives(c)
    <3>1. /\ tokens' = tokens + 1 /\ call[c].pc \in Underway
          /\ UNCHANGED <<listing, applied>>
      BY <2>3 DEF TokenArrives, Underway
    <3>2. \/ Moves(c, "token")
          \/ Goes(c, [call[c] EXCEPT !.pc = "wait", !.token = tokens + 1])
      BY <2>3 DEF TokenArrives
    <3>3. CASE Moves(c, "token")
      BY <2>0, <3>1, <3>3 DEF Moves, Underway
    <3>4. CASE Goes(c, [call[c] EXCEPT !.pc = "wait", !.token = tokens + 1])
      BY <3>1, <3>4 DEF Underway
    <3> QED
      BY <3>2, <3>3, <3>4
  <2>4. CASE Send(c)
    BY <2>0, <2>4 DEF Send, Moves, Underway, shared
  <2> QED
    BY <2>1, <2>2, <2>3, <2>4
<1> DEFINE k == [call[c] EXCEPT !.pc = pc, !.token = t]
<1>1. tokens \in Nat /\ tokens' \in Nat /\ tokens <= tokens'
  BY <1>0, InHand
<1>2. /\ k \in Call /\ k.pc = pc /\ k.kind = call[c].kind /\ k.token = t
      /\ k.stale = call[c].stale /\ k.answer = call[c].answer
      /\ k.gateways = call[c].gateways /\ k.attempt = call[c].attempt
      /\ k.off = call[c].off /\ k.got = call[c].got /\ k.snap = call[c].snap
  BY <1>1, InHand, ZenonT(60) DEF Call, PCs, Underway
<1>3. Goes(c, k)
  BY <1>0
<1> HIDE DEF k
<1>4. call[c].stale \in Nat /\ call[c].token \in Nat
  BY InHand DEF Call
<1>5. CallInv(c, call[c], applied[c], tokens, listing)
  BY InHand
<1>6. Counted(k, applied'[c]) /\ Placed(k) /\ Asking(c, k, listing')
  BY <1>0, <1>2, <1>5 DEF CallInv, Counted, Placed, Asking, Over, Underway
<1>7. Current(k, tokens')
  BY <1>0, <1>1, <1>2, <1>4, <1>5 DEF CallInv, Current, Underway
<1> QED
  BY <1>0, <1>1, <1>2, <1>3, <1>6, <1>7, Bystanders DEF Steps, CallInv

\* A call that ends with an answer.
LEMMA StepEnds ==
  ASSUME ClientInv, NEW c \in Calls, NEW pc \in Over, NEW s \in Answers,
         Ends(c, [call[c] EXCEPT !.pc = pc, !.answer = s]),
         call[c].kind # "pages", UNCHANGED tokens, call[c].pc = "flight",
         applied' = applied \/ \E j \in Nat : Apply(c, j),
         call[c].kind = "post" =>
           /\ pc = "done"
           /\ applied'[c] <= applied[c] + (IF s \in {"ok", "gateway"} THEN 1 ELSE 0)
           /\ s = "ok" => applied'[c] > 0
  PROVE  Steps(c)
<1> DEFINE k == [call[c] EXCEPT !.pc = pc, !.answer = s]
<1>1. /\ k \in Call /\ k.pc = pc /\ k.kind = call[c].kind /\ k.token = call[c].token
      /\ k.stale = call[c].stale /\ k.answer = s
      /\ k.gateways = call[c].gateways /\ k.attempt = call[c].attempt
  BY InHand, ZenonT(60) DEF Call, PCs, Over
<1>2. Goes(c, k) /\ (listing' = listing \/ listing \in {c, None})
  BY DEF Ends
<1> HIDE DEF k
<1>3. Counted(k, applied'[c])
  <2>1. Counted(call[c], applied[c]) /\ call[c].gateways \in Nat /\ applied[c] \in Nat
    BY InHand DEF CallInv, Call
  <2>2. applied'[c] \in Nat
    BY DEF Apply, ClientInv, BcTypeOK
  <2> QED
    BY <1>1, <2>1, <2>2 DEF Counted, Over
<1>4. CallInv(c, k, applied'[c], tokens', listing')
  BY <1>1, <1>3, InHand DEF CallInv, Placed, Current, Asking, Over, Underway
<1>5. tokens \in Nat
  BY InHand
<1> QED
  BY <1>1, <1>2, <1>4, <1>5, Bystanders DEF Steps

LEMMA StepSucceeds ==
  ASSUME ClientInv, NEW c \in Calls, Succeeds(c) PROVE Steps(c)
<1>1. call[c].kind # "pages" /\ UNCHANGED tokens /\ call[c].pc = "flight"
  BY DEF Succeeds, Lists, Lands
<1>2. applied \in [Calls -> Nat]
  BY DEF ClientInv, BcTypeOK
<1>3. CASE call[c].kind = "post"
  <2>1. Ends(c, [call[c] EXCEPT !.pc = "done", !.answer = "ok"]) /\ Apply(c, 1)
    BY <1>3 DEF Succeeds
  <2>2. applied'[c] = applied[c] + 1 /\ applied[c] \in Nat
    BY <1>2, <2>1 DEF Apply
  <2>3. "done" \in Over /\ "ok" \in Answers
        /\ applied'[c] <= applied[c] + (IF "ok" \in {"ok", "gateway"} THEN 1 ELSE 0)
        /\ applied'[c] > 0
    BY <2>2 DEF Over, Answers
  <2>4. \E j \in Nat : Apply(c, j)
    BY <2>1
  <2> QED
    BY <1>1, <2>1, <2>3, <2>4, StepEnds
<1>4. CASE call[c].kind # "post"
  <2>1. PICK pc \in Over : Ends(c, [call[c] EXCEPT !.pc = pc]) /\ UNCHANGED applied
    BY <1>4 DEF Succeeds, Over
  <2>2. [call[c] EXCEPT !.pc = pc] = [call[c] EXCEPT !.pc = pc, !.answer = call[c].answer]
        /\ call[c].answer \in Answers
    BY InHand DEF Call
  <2> QED
    BY <1>1, <1>4, <2>1, <2>2, StepEnds
<1> QED
  BY <1>3, <1>4

\* A page is added, or the paging begins again.
LEMMA StepPage ==
  ASSUME ClientInv, NEW c \in Calls, call[c].pc = "flight",
         NEW pc \in {"token", "done"}, NEW off \in Nat, NEW snap \in SUBSET Items,
         NEW restarts \in Nat, NEW got \in [Items -> Nat],
         Goes(c, [call[c] EXCEPT !.pc = pc, !.off = off, !.snap = snap, !.restarts = restarts,
                                 !.attempt = 0, !.stale = 0, !.got = got]),
         UNCHANGED <<tokens, listing, applied>>,
         call[c].kind \in {"pages", "range"},
         call[c].kind = "pages" => /\ got = Plus(Nothing, First(snap, off))
                                   /\ pc = "done" => off >= Cardinality(snap)
  PROVE  Steps(c)
<1> DEFINE k == [call[c] EXCEPT !.pc = pc, !.off = off, !.snap = snap, !.restarts = restarts,
                                !.attempt = 0, !.stale = 0, !.got = got]
<1>1. /\ k \in Call /\ k.pc = pc /\ k.kind = call[c].kind /\ k.token = call[c].token
      /\ k.stale = 0 /\ k.answer = call[c].answer
      /\ k.gateways = call[c].gateways /\ k.attempt = 0
      /\ k.off = off /\ k.got = got /\ k.snap = snap
  BY InHand, ZenonT(60) DEF Call, PCs
<1> HIDE DEF k
<1>2. CallInv(c, k, applied'[c], tokens', listing')
  BY <1>1, InHand DEF CallInv, Counted, Placed, Current, Asking, Over, Underway, Asks
<1>3. Goes(c, k)
  BY DEF k
<1> QED
  BY <1>1, <1>2, <1>3, InHand, Bystanders DEF Steps

LEMMA StepPageArrives ==
  ASSUME ClientInv, NEW c \in Calls, PageArrives(c) PROVE Steps(c)
<1> DEFINE k == call[c]
           snap == IF k.off = 0 THEN items ELSE k.snap
           next == k.off + PageSize
           pc == IF next < Cardinality(snap) THEN "token" ELSE "done"
           got == Plus(k.got, Page(snap, k.off))
<1>1. k \in Call /\ items \subseteq Items /\ PageSize \in Nat
  BY ConstantsAssumption DEF ClientInv, BcTypeOK
<1>2. /\ k.off \in Nat /\ snap \in SUBSET Items /\ next \in Nat /\ k.restarts \in Nat
      /\ got \in [Items -> Nat] /\ Cardinality(snap) \in Nat
  <2>1. k.off \in Nat /\ k.snap \in SUBSET Items /\ k.restarts \in Nat /\ k.got \in [Items -> Nat]
    BY <1>1 DEF Call
  <2>2. snap \in SUBSET Items /\ next \in Nat
    BY <1>1, <2>1
  <2>3. got \in [Items -> Nat]
    BY <2>1, PlusType
  <2> HIDE DEF snap, got, next
  <2>4. Cardinality(snap) \in Nat
    BY <2>2, RankIsNat
  <2> QED
    BY <2>1, <2>2, <2>3, <2>4
<1>3. k.kind = "pages" /\ k.pc = "flight" /\ UNCHANGED <<tokens, listing, applied>>
  BY DEF PageArrives, Lands, shared
<1>4. k.got = Plus(Nothing, First(snap, k.off))
  <2>1. k.got = Plus(Nothing, First(k.snap, k.off))
    BY <1>3, InHand DEF CallInv, Placed
  <2>2. CASE k.off = 0
    BY <1>1, <2>1, <2>2, NoFirst DEF Call
  <2>3. CASE k.off # 0
    BY <2>1, <2>3
  <2> QED
    BY <2>2, <2>3
<1>5. got = Plus(Nothing, First(snap, next))
  BY <1>2, <1>4, NextPage
<1>6. pc = "done" => next >= Cardinality(snap)
  BY <1>2
<1>7. Goes(c, [k EXCEPT !.pc = pc, !.off = next, !.snap = snap, !.restarts = k.restarts,
                        !.attempt = 0, !.stale = 0, !.got = got])
  <2>1. Goes(c, [k EXCEPT !.pc = pc, !.off = next, !.snap = snap,
                          !.attempt = 0, !.stale = 0, !.got = got])
    BY DEF PageArrives
  <2> HIDE DEF pc, snap, next, got, k
  <2>2. [k EXCEPT !.pc = pc, !.off = next, !.snap = snap, !.attempt = 0, !.stale = 0,
                  !.got = got]
           = [k EXCEPT !.pc = pc, !.off = next, !.snap = snap, !.restarts = k.restarts,
                       !.attempt = 0, !.stale = 0, !.got = got]
    BY <1>1 DEF Call
  <2> QED
    BY <2>1, <2>2
<1>8. pc \in {"token", "done"}
  OBVIOUS
<1> HIDE DEF k, snap, next, pc, got
<1> QED
  BY <1>2, <1>3, <1>5, <1>6, <1>7, <1>8, StepPage DEF k

LEMMA StepRangeArrives ==
  ASSUME ClientInv, NEW c \in Calls, RangeArrives(c) PROVE Steps(c)
<1> DEFINE k == call[c]
           page == Page(items, k.off)
           next == k.off + PageSize
           pc == IF Cardinality(page) < PageSize THEN "done" ELSE "token"
           got == Plus(k.got, page)
<1>1. k \in Call /\ PageSize \in Nat
  BY ConstantsAssumption DEF ClientInv, BcTypeOK
<1>2. k.snap \in SUBSET Items /\ next \in Nat /\ k.restarts \in Nat /\ got \in [Items -> Nat]
  BY <1>1, PlusType DEF Call
<1>3. k.kind = "range" /\ k.pc = "flight" /\ UNCHANGED <<tokens, listing, applied>>
  BY DEF RangeArrives, Lands, shared
<1>4. Goes(c, [k EXCEPT !.pc = pc, !.off = next, !.snap = k.snap, !.restarts = k.restarts,
                        !.attempt = 0, !.stale = 0, !.got = got])
  <2>1. Goes(c, [k EXCEPT !.pc = pc, !.off = next, !.attempt = 0, !.stale = 0, !.got = got])
    BY DEF RangeArrives
  <2> HIDE DEF pc, page, next, got, k
  <2>2. [k EXCEPT !.pc = pc, !.off = next, !.attempt = 0, !.stale = 0, !.got = got]
           = [k EXCEPT !.pc = pc, !.off = next, !.snap = k.snap, !.restarts = k.restarts,
                       !.attempt = 0, !.stale = 0, !.got = got]
    BY <1>1 DEF Call
  <2> QED
    BY <2>1, <2>2
<1>5. pc \in {"token", "done"}
  OBVIOUS
<1> HIDE DEF k, page, next, pc, got
<1> QED
  BY <1>2, <1>3, <1>4, <1>5, StepPage DEF k

LEMMA StepConflict ==
  ASSUME ClientInv, NEW c \in Calls, Conflict(c) PROVE Steps(c)
<1> DEFINE k == call[c]
<1>1. k \in Call
  BY InHand
<1>2. k.kind = "pages" /\ k.pc = "flight" /\ UNCHANGED <<tokens, applied>>
  BY DEF Conflict, Lands
<1>3. CASE k.restarts < MaxRestarts
  <2>1. Goes(c, [k EXCEPT !.pc = "token", !.off = 0, !.snap = k.snap, !.restarts = k.restarts + 1,
                          !.attempt = 0, !.stale = 0, !.got = Nothing])
    <3>1. Goes(c, [k EXCEPT !.pc = "token", !.restarts = k.restarts + 1, !.attempt = 0,
                            !.off = 0, !.stale = 0, !.got = Nothing])
      BY <1>3 DEF Conflict
    <3>2. [k EXCEPT !.pc = "token", !.restarts = k.restarts + 1, !.attempt = 0, !.off = 0,
                    !.stale = 0, !.got = Nothing]
           = [k EXCEPT !.pc = "token", !.off = 0, !.snap = k.snap, !.restarts = k.restarts + 1,
                       !.attempt = 0, !.stale = 0, !.got = Nothing]
      BY <1>1 DEF Call
    <3> QED
      BY <3>1, <3>2
  <2>2. k.snap \in SUBSET Items /\ k.restarts + 1 \in Nat /\ Nothing \in [Items -> Nat]
    BY <1>1 DEF Call, Nothing
  <2>3. Nothing = Plus(Nothing, First(k.snap, 0))
    BY <2>2, NoFirst
  <2>4. UNCHANGED listing
    BY <1>3 DEF Conflict
  <2> HIDE DEF k
  <2> QED
    BY <1>2, <2>1, <2>2, <2>3, <2>4, StepPage DEF k
<1>4. CASE ~(k.restarts < MaxRestarts)
  BY <1>2, <1>4, StepRaises DEF Conflict, Over
<1> QED
  BY <1>3, <1>4

LEMMA StepRejected ==
  ASSUME ClientInv, NEW c \in Calls, Rejected(c) PROVE Steps(c)
<1>1. UNCHANGED <<tokens, applied>> /\ call[c].pc = "flight" /\ applied[c] \in Nat
  BY InHand DEF Rejected, Lands
<1>2. CASE call[c].kind = "post"
  <2>1. Ends(c, [call[c] EXCEPT !.pc = "done", !.answer = "refused"])
    BY <1>2 DEF Rejected, Ended
  <2>2. "done" \in Over /\ "refused" \in Answers
        /\ applied'[c] <= applied[c] + (IF "refused" \in {"ok", "gateway"} THEN 1 ELSE 0)
    BY <1>1 DEF Over, Answers
  <2> QED
    BY <1>1, <1>2, <2>1, <2>2, StepEnds
<1>3. CASE call[c].kind # "post"
  BY <1>1, <1>3, StepRaises DEF Rejected, Ended, Over
<1> QED
  BY <1>2, <1>3

LEMMA StepTryAgain ==
  ASSUME ClientInv, NEW c \in Calls, TryAgain(c) PROVE Steps(c)
<1>0. \A s : Gateway(c, s) \in {0, 1} /\ Taken(c, s) \subseteq {0, 1}
  BY DEF Gateway, Taken
<1>1. PICK s \in Retried, j \in {0, 1} :
        /\ j \in Taken(c, s)
        /\ Apply(c, j)
        /\ IF call[c].attempt < MaxRetries
             THEN /\ Goes(c, [call[c] EXCEPT
                       !.pc = IF s = "unauthorized" THEN "force"
                              ELSE IF call[c].kind = "pages" THEN "token" ELSE "wait",
                       !.stale = IF s = "unauthorized" THEN call[c].token ELSE 0,
                       !.attempt = @ + 1, !.gateways = @ + Gateway(c, s)])
                  /\ UNCHANGED listing
             ELSE Ended(c, s)
  BY <1>0 DEF TryAgain
<1>2. UNCHANGED tokens /\ call[c].pc = "flight"
  BY DEF TryAgain, Lands
<1>3. applied \in [Calls -> Nat] /\ call[c] \in Call
  BY InHand DEF ClientInv, BcTypeOK
<1>4. /\ j \in {0, 1} /\ j <= Gateway(c, s)
      /\ s # "gateway" \/ call[c].kind # "post" => j = 0
  BY <1>1 DEF Gateway, Taken
<1>5. applied'[c] = applied[c] + j
  BY <1>1, <1>3 DEF Apply
<1>6. CASE call[c].attempt < MaxRetries
  <2> DEFINE pc == IF s = "unauthorized" THEN "force"
                   ELSE IF call[c].kind = "pages" THEN "token" ELSE "wait"
             stale == IF s = "unauthorized" THEN call[c].token ELSE 0
             k == [call[c] EXCEPT !.pc = pc, !.stale = stale, !.attempt = @ + 1,
                                 !.gateways = @ + Gateway(c, s)]
  <2>1. Goes(c, k) /\ UNCHANGED listing
    BY <1>1, <1>6
  <2>2. pc \in {"force", "token", "wait"} /\ (pc # "force" => stale = 0)
    OBVIOUS
  <2>3. stale \in {0, call[c].token}
    OBVIOUS
  <2> HIDE DEF pc, stale
  <2>4. /\ k \in Call /\ k.pc = pc /\ k.kind = call[c].kind /\ k.token = call[c].token
        /\ k.stale = stale /\ k.answer = call[c].answer
        /\ k.gateways = call[c].gateways + Gateway(c, s) /\ k.attempt = call[c].attempt + 1
        /\ k.off = call[c].off /\ k.got = call[c].got /\ k.snap = call[c].snap
    <3>1. /\ pc \in PCs /\ stale \in Nat
          /\ call[c].attempt + 1 \in Nat /\ call[c].gateways + Gateway(c, s) \in Nat
      BY <1>0, <1>3, <2>2, <2>3 DEF Call, PCs
    <3> QED
      BY <1>3, <3>1 DEF Call
  <2> HIDE DEF k
  <2>5. CallInv(c, call[c], applied[c], tokens, listing) /\ tokens \in Nat
    BY InHand
  <2>6. Counted(k, applied'[c])
    <3>1. /\ call[c].gateways \in Nat /\ call[c].attempt \in Nat /\ applied[c] \in Nat
          /\ MaxRetries \in Nat
      BY InHand, ConstantsAssumption DEF Call
    <3> QED
      BY <1>0, <1>2, <1>4, <1>5, <1>6, <2>2, <2>4, <2>5, <3>1 DEF CallInv, Counted, Over
  <2>7. Placed(k)
    BY <1>2, <2>2, <2>4, <2>5 DEF CallInv, Placed
  <2>8. Current(k, tokens')
    BY <1>2, <2>2, <2>3, <2>4, <2>5 DEF CallInv, Current
  <2>9. Asking(c, k, listing')
    BY <1>2, <2>1, <2>2, <2>4, <2>5 DEF CallInv, Asking, Underway
  <2>10. \E i \in Nat : Apply(c, i)
    BY <1>1, <1>4
  <2>11. tokens' \in Nat /\ tokens <= tokens'
    BY <1>2, <2>5
  <2> QED
    BY <2>1, <2>4, <2>6, <2>7, <2>8, <2>9, <2>10, <2>11, Bystanders DEF Steps, CallInv
<1>7. CASE ~(call[c].attempt < MaxRetries)
  <2>1. Ended(c, s)
    BY <1>1, <1>7
  <2>2. \E i \in Nat : Apply(c, i)
    BY <1>1, <1>4
  <2>3. CASE call[c].kind = "post"
    <3>1. Ends(c, [call[c] EXCEPT !.pc = "done", !.answer = s])
      BY <2>1, <2>3 DEF Ended
    <3>2. s \in Answers /\ s # "ok"
      BY DEF Retried, Answers
    <3>3. applied'[c] <= applied[c] + (IF s = "gateway" THEN 1 ELSE 0)
      BY <1>3, <1>4, <1>5, <2>3
    <3> QED
      BY <1>2, <2>2, <2>3, <3>1, <3>2, <3>3, StepEnds DEF Over
  <2>4. CASE call[c].kind # "post"
    BY <1>1, <1>2, <2>1, <2>4, StepRaises DEF Ended, Over
  <2> QED
    BY <2>3, <2>4
<1> QED
  BY <1>6, <1>7

LEMMA StepBreaks ==
  ASSUME ClientInv, NEW c \in Calls, TokenFails(c) \/ Breaks(c) PROVE Steps(c)
<1>1. UNCHANGED tokens /\ Raises(c) /\ call[c].pc \notin Over
  BY DEF TokenFails, Breaks, Lands, Over
<1>2. applied' = applied \/ \E j \in {0, 1} : Apply(c, j)
  BY DEF TokenFails, Breaks, Taken, Gateway
<1> QED
  BY <1>1, <1>2, StepRaises

-----------------------------------------------------------------------------
(* The invariant.                                                           *)

LEMMA ClientInit == BcInit => ClientInv
<1> SUFFICES ASSUME BcInit PROVE ClientInv
  OBVIOUS
<1>1. Fresh \in Call
  BY DEF Fresh, Call, Kinds, PCs, Answers, Nothing
<1>2. BcTypeOK
  BY <1>1, ConstantsAssumption DEF BcInit, BcTypeOK
<1>3. \A c \in Calls : CallInv(c, Fresh, 0, 0, None)
  BY ConstantsAssumption DEF CallInv, Counted, Placed, Current, Asking, Fresh, Over, Underway
<1>4. \A c \in Calls : call[c] = Fresh /\ applied[c] = 0
  BY DEF BcInit
<1> QED
  BY <1>2, <1>3, <1>4 DEF ClientInv, BcInit

LEMMA ClientThread ==
  ASSUME ClientInv, NEW c \in Calls, ThreadStep(c) PROVE Steps(c)
  BY StepStarts, StepCompany, StepToken, StepSucceeds, StepPageArrives, StepRangeArrives,
     StepConflict, StepRejected, StepTryAgain, StepBreaks
  DEF ThreadStep

\* The shared variables keep their types, and the list's lock is only taken
\* while the list has to be fetched.
LEMMA ClientShared ==
  ASSUME ClientInv, NEW c \in Calls, ThreadStep(c)
  PROVE  /\ slots' \in Nat /\ tokens' \in Nat /\ refused' \in Nat /\ fresh' \in BOOLEAN
         /\ authing' \in Calls \cup {None} /\ listing' \in Calls \cup {None}
         /\ companies' \in {"none", "fresh", "aged"} /\ items' \subseteq Items /\ changes' \in Nat
         /\ listing' # None => companies' # "fresh"
<1> USE DEF ClientInv, BcTypeOK
<1>1. CASE Start(c) \/ FindCompany(c) \/ UseToken(c) \/ AskToken(c) \/ TokenArrives(c)
  <2>1. CASE Start(c) \/ FindCompany(c) \/ UseToken(c)
    BY <2>1 DEF Start, FindCompany, UseToken, shared
  <2>2. CASE AskToken(c)
    BY <2>2 DEF AskToken
  <2>3. CASE TokenArrives(c)
    BY <2>3 DEF TokenArrives
  <2> QED
    BY <1>1, <2>1, <2>2, <2>3
<1>2. CASE EnterListing(c)
  BY <1>2 DEF EnterListing
<1>3. CASE Send(c) \/ PageArrives(c) \/ RangeArrives(c)
  BY <1>3 DEF Send, Lands, PageArrives, RangeArrives, shared
<1>4. CASE TokenFails(c) \/ Conflict(c) \/ Rejected(c) \/ TryAgain(c) \/ Breaks(c)
  <2>1. listing' \in {listing, None}
    BY <1>4 DEF TokenFails, Conflict, Rejected, TryAgain, Breaks, Ended, Raises, Ends
  <2>2. /\ UNCHANGED <<tokens, fresh, refused, companies, items, changes>>
        /\ authing' \in {authing, None} /\ slots' \in {slots, slots + 1}
    BY <1>4 DEF TokenFails, Conflict, Rejected, TryAgain, Breaks, Lands
  <2> QED
    BY <2>1, <2>2
<1>5. CASE Succeeds(c)
  <2>1. /\ UNCHANGED <<tokens, fresh, refused, authing, items, changes>> /\ slots' = slots + 1
        /\ listing' = IF listing = c THEN None ELSE listing
    BY <1>5 DEF Succeeds, Lands, Ends
  <2>2. CASE call[c].kind = "post"
    BY <1>5, <2>1, <2>2 DEF Succeeds
  <2>3. CASE call[c].kind # "post"
    <3>1. companies' = "fresh"
      BY <1>5, <2>3 DEF Succeeds
    <3>2. call[c].kind \in Asks /\ call[c].pc = "flight"
      BY <1>5, <2>3, InHand DEF Succeeds, Lists, Asks, Call, Kinds, Lands
    <3>3. listing = c
      BY <3>2, InHand DEF CallInv, Asking, Underway
    <3> QED
      BY <2>1, <3>1, <3>3
  <2> QED
    BY <2>2, <2>3
<1> QED
  BY <1>1, <1>2, <1>3, <1>4, <1>5 DEF ThreadStep

LEMMA ClientStep == ClientInv /\ [BcNext]_bcVars => ClientInv'
<1> SUFFICES ASSUME ClientInv, [BcNext]_bcVars PROVE ClientInv'
  OBVIOUS
<1>1. ASSUME NEW c \in Calls, ThreadStep(c) PROVE ClientInv'
  BY <1>1, ClientThread, ClientShared DEF Steps, ClientInv, BcTypeOK
<1>2. CASE TimePasses \/ Revoke
  <2>1. UNCHANGED <<call, applied, tokens, listing>>
    BY <1>2 DEF TimePasses, Revoke
  <2>2. \A c \in Calls : CallInv(c, call'[c], applied'[c], tokens', listing')
    BY <2>1 DEF ClientInv
  <2>3. BcTypeOK'
    <3>1. fresh' \in {fresh, FALSE} /\ companies' \in {companies, "aged"}
      BY <1>2 DEF TimePasses, Revoke
    <3>2. refused' \in {refused, tokens} /\ changes > 0 /\ changes' = changes - 1
      BY <1>2 DEF TimePasses, Revoke, Changes
    <3>3. UNCHANGED <<call, slots, tokens, authing, listing, items, applied>>
      BY <1>2 DEF TimePasses, Revoke
    <3>4. BcTypeOK
      BY DEF ClientInv
    <3>5. fresh' \in BOOLEAN
      BY <3>1, <3>4, Zenon DEF BcTypeOK
    <3>6. companies' \in {"none", "fresh", "aged"} /\ refused' \in Nat /\ changes' \in Nat
      BY <3>1, <3>2, <3>4 DEF BcTypeOK
    <3> QED
      BY <3>3, <3>4, <3>5, <3>6, Zenon DEF BcTypeOK
  <2>4. listing' # None => companies' # "fresh"
    BY <1>2 DEF TimePasses, Revoke, ClientInv
  <2> QED
    BY <2>2, <2>3, <2>4 DEF ClientInv
<1>3. CASE Edit
  <2>1. call \in [Calls -> Call] /\ items \subseteq Items /\ changes \in Nat
    BY DEF ClientInv, BcTypeOK
  <2>2. items' \subseteq Items /\ changes' \in Nat
        /\ UNCHANGED <<slots, shared, applied>>
    BY <1>3, <2>1 DEF Edit, Changes
  <2>3. \A c \in Calls : /\ call'[c] \in {call[c], [call[c] EXCEPT !.gone = TRUE]}
    BY <1>3 DEF Edit
  <2>4. call' \in [Calls -> Call]
    <3>1. \A c \in Calls : [call[c] EXCEPT !.gone = TRUE] \in Call
      BY <2>1, ZenonT(60) DEF Call
    <3>2. \/ call' = call
          \/ call' = [c \in Calls |-> [call[c] EXCEPT !.gone = TRUE]]
      BY <1>3 DEF Edit
    <3> QED
      BY <2>1, <3>1, <3>2
  <2>5. ASSUME NEW c \in Calls
        PROVE  CallInv(c, call'[c], applied'[c], tokens', listing')
    <3> DEFINE k == [call[c] EXCEPT !.gone = TRUE]
    <3>1. /\ k.pc = call[c].pc /\ k.kind = call[c].kind /\ k.token = call[c].token
          /\ k.stale = call[c].stale /\ k.answer = call[c].answer
      /\ k.gateways = call[c].gateways /\ k.attempt = call[c].attempt
          /\ k.off = call[c].off /\ k.got = call[c].got /\ k.snap = call[c].snap
      BY <2>1 DEF Call
    <3>2. CallInv(c, call[c], applied[c], tokens, listing)
      BY InHand
    <3>3. CallInv(c, k, applied[c], tokens, listing)
      <4> HIDE DEF k
      <4> QED
        BY <3>1, <3>2 DEF CallInv, Counted, Placed, Current, Asking
    <3> QED
      BY <2>2, <2>3, <3>2, <3>3 DEF shared
  <2> QED
    BY <2>2, <2>4, <2>5 DEF shared, ClientInv, BcTypeOK
<1>4. CASE UNCHANGED bcVars
  BY <1>4 DEF bcVars, ClientInv, BcTypeOK
<1> QED
  BY <1>1, <1>2, <1>3, <1>4 DEF BcNext

-----------------------------------------------------------------------------
(* What follows from it.                                                    *)

\* The client's variables keep their types.
THEOREM BcTypeCorrect == BcSpec => []BcTypeOK
<1>1. ClientInv => BcTypeOK
  BY DEF ClientInv
<1> QED
  BY <1>1, ClientInit, ClientStep, PTL DEF BcSpec

\* Only a 502 or 503 can make BC apply a post again; what its caller is told
\* bounds how often BC did.
THEOREM OnlyGatewaysRepeatPosts == BcSpec => []OnlyGatewaysRepeat
<1>1. ClientInv => OnlyGatewaysRepeat
  <2> SUFFICES ASSUME ClientInv, NEW c \in Calls, call[c].kind = "post"
               PROVE  LET open == call[c].answer \in {"ok", "gateway"} \/ call[c].pc = "raised"
                          most == call[c].gateways + (IF open THEN 1 ELSE 0)
                      IN  /\ applied[c] <= most
                          /\ most <= MaxRetries + 1
                          /\ call[c].answer = "ok" => applied[c] > 0
    BY DEF OnlyGatewaysRepeat
  <2>1. /\ Counted(call[c], applied[c]) /\ MaxRetries \in Nat /\ applied[c] \in Nat
        /\ call[c].gateways \in Nat /\ call[c].attempt \in Nat
    BY InHand, ConstantsAssumption DEF CallInv, Call
  <2> QED
    BY <2>1 DEF Counted, Over
<1> QED
  BY <1>1, ClientInit, ClientStep, PTL DEF BcSpec

\* A list read through nextLink is whole and holds no record twice.
THEOREM ListsAreWhole == BcSpec => []PagesAreWhole
<1>1. ClientInv => PagesAreWhole
  <2> SUFFICES ASSUME ClientInv, NEW c \in Calls, call[c].kind = "pages", call[c].pc = "done"
               PROVE  call[c].got = Plus(Nothing, call[c].snap)
    BY DEF PagesAreWhole
  <2>1. /\ call[c].got = Plus(Nothing, First(call[c].snap, call[c].off))
        /\ call[c].off >= Cardinality(call[c].snap)
    BY InHand DEF CallInv, Placed
  <2>2. call[c].snap \in SUBSET Items /\ call[c].off \in Nat
    BY InHand DEF Call
  <2> QED
    BY <2>1, <2>2, FirstAll
<1> QED
  BY <1>1, ClientInit, ClientStep, PTL DEF BcSpec

\* No request carries a token BC refused to the same call before.
THEOREM RefusedNotSentAgain == BcSpec => RefusedIsReplaced
<1>1. ClientInv => \A c \in Calls : Send(c) /\ call[c].stale # 0 => call[c].token > call[c].stale
  <2> SUFFICES ASSUME ClientInv, NEW c \in Calls, Send(c), call[c].stale # 0
               PROVE  call[c].token > call[c].stale
    OBVIOUS
  <2>1. call[c].pc = "wait" /\ call[c].token \in Nat /\ call[c].stale \in Nat
    BY InHand DEF Send, Call
  <2> QED
    BY <2>1, InHand DEF CallInv, Current
<1> QED
  BY <1>1, ClientInit, ClientStep, PTL DEF BcSpec, RefusedIsReplaced

\* The company list is fetched once for all the threads that miss it.
THEOREM OneListing == BcSpec => ListedOnce
<1>1. ClientInv => \A c \in Calls : Send(c) /\ call[c].kind \in Asks => companies # "fresh"
  <2> SUFFICES ASSUME ClientInv, NEW c \in Calls, Send(c), call[c].kind \in Asks
               PROVE  companies # "fresh"
    OBVIOUS
  <2>1. listing = c
    BY InHand DEF Send, CallInv, Asking, Underway
  <2> QED
    BY <2>1, ConstantsAssumption DEF ClientInv
<1> QED
  BY <1>1, ClientInit, ClientStep, PTL DEF BcSpec, ListedOnce

-----------------------------------------------------------------------------
(* The semaphore.                                                           *)

Flying == {c \in Calls : call[c].pc = "flight"}
PermitInv == BcTypeOK /\ IsFiniteSet(Flying) /\ PermitsAccounted

\* What a step of one call does to the requests in flight.
LEMMA FlightMoves ==
  ASSUME BcTypeOK, NEW c \in Calls, NEW k, Goes(c, k)
  PROVE  Flying' = IF k.pc = "flight" THEN Flying \cup {c} ELSE Flying \ {c}
  BY DEF BcTypeOK, Goes, Flying

LEMMA PermitThread ==
  ASSUME BcTypeOK, NEW c \in Calls, ThreadStep(c)
  PROVE  \/ c \notin Flying /\ Flying' = Flying /\ slots' = slots
         \/ c \notin Flying /\ Flying' = Flying \cup {c} /\ slots' = slots - 1
         \/ c \in Flying /\ Flying' = Flying \ {c} /\ slots' = slots + 1
<1>0. call[c] \in Call
  BY DEF BcTypeOK
<1>1. ASSUME NEW k, Goes(c, k), k.pc # "flight", Lands(c)
      PROVE  c \in Flying /\ Flying' = Flying \ {c} /\ slots' = slots + 1
  BY <1>1, FlightMoves DEF Lands, Flying
<1>2. ASSUME NEW k, Goes(c, k), k.pc # "flight", call[c].pc # "flight", UNCHANGED slots
      PROVE  c \notin Flying /\ Flying' = Flying /\ slots' = slots
  BY <1>2, FlightMoves DEF Flying
<1>3. \A pc : [call[c] EXCEPT !.pc = pc].pc = pc
  BY <1>0 DEF Call
<1>4. CASE Start(c) \/ FindCompany(c) \/ EnterListing(c) \/ UseToken(c) \/ AskToken(c)
           \/ TokenArrives(c) \/ TokenFails(c)
  <2>1. UNCHANGED slots /\ call[c].pc # "flight"
    BY <1>4 DEF Start, FindCompany, EnterListing, UseToken, AskToken, TokenArrives, TokenFails
  <2>2. \E k : Goes(c, k) /\ k.pc # "flight"
    <3>1. CASE Start(c)
      <4>1. PICK kind \in Kinds :
              Goes(c, [call[c] EXCEPT !.kind = kind, !.base = items, !.gone = FALSE,
                                      !.pc = IF kind \in Asks THEN "company" ELSE "token"])
        BY <3>1 DEF Start
      <4>2. [call[c] EXCEPT !.kind = kind, !.base = items, !.gone = FALSE,
                            !.pc = IF kind \in Asks THEN "company" ELSE "token"].pc # "flight"
        BY <1>0 DEF Call
      <4> QED
        BY <4>1, <4>2
    <3>2. CASE UseToken(c) \/ TokenArrives(c)
      <4>1. \A t : [call[c] EXCEPT !.pc = "wait", !.token = t].pc = "wait"
        BY <1>0 DEF Call
      <4>2. \/ Moves(c, "token")
            \/ \E t : Goes(c, [call[c] EXCEPT !.pc = "wait", !.token = t])
        BY <3>2 DEF UseToken, TokenArrives
      <4> QED
        BY <1>3, <4>1, <4>2 DEF Moves
    <3>3. CASE FindCompany(c) \/ EnterListing(c) \/ AskToken(c) \/ TokenFails(c)
      <4>1. \E pc : Moves(c, pc) /\ pc # "flight"
        BY <3>3, SMTT(30) DEF FindCompany, EnterListing, AskToken, TokenFails, Raises, Ends, Moves
      <4> QED
        BY <1>3, <4>1 DEF Moves
    <3> QED
      BY <1>4, <3>1, <3>2, <3>3
  <2> QED
    BY <1>2, <2>1, <2>2
<1>5. CASE Send(c)
  <2>1. c \notin Flying /\ slots' = slots - 1
    BY <1>5 DEF Send, Flying
  <2>2. Goes(c, [call[c] EXCEPT !.pc = "flight"]) /\ [call[c] EXCEPT !.pc = "flight"].pc = "flight"
    BY <1>3, <1>5 DEF Send, Moves
  <2> QED
    BY <2>1, <2>2, FlightMoves
<1>6. CASE Succeeds(c) \/ PageArrives(c) \/ RangeArrives(c) \/ Conflict(c) \/ Rejected(c)
           \/ TryAgain(c) \/ Breaks(c)
  <2>1. Lands(c)
    BY <1>6 DEF Succeeds, PageArrives, RangeArrives, Conflict, Rejected, TryAgain, Breaks
  <2>2. \E k : Goes(c, k) /\ k.pc # "flight"
    <3>1. ASSUME NEW s, Ended(c, s) \/ Raises(c) PROVE \E k : Goes(c, k) /\ k.pc # "flight"
      <4>1. [call[c] EXCEPT !.pc = "done", !.answer = s].pc = "done"
        BY <1>0 DEF Call
      <4> QED
        BY <1>3, <3>1, <4>1 DEF Ended, Raises, Ends
    <3>2. CASE Rejected(c) \/ Breaks(c)
      BY <3>1, <3>2 DEF Rejected, Breaks
    <3>3. CASE Succeeds(c)
      <4>1. [call[c] EXCEPT !.pc = "done", !.answer = "ok"].pc = "done"
        BY <1>0 DEF Call
      <4> QED
        BY <1>3, <3>3, <4>1 DEF Succeeds, Ends
    <3>4. CASE PageArrives(c)
      <4>1. PICK pc \in {"token", "done"} : \E off, snap, got :
              Goes(c, [call[c] EXCEPT !.pc = pc, !.off = off, !.snap = snap, !.attempt = 0,
                                      !.stale = 0, !.got = got])
        BY <3>4 DEF PageArrives
      <4>2. \A off, snap, got :
              [call[c] EXCEPT !.pc = pc, !.off = off, !.snap = snap, !.attempt = 0,
                              !.stale = 0, !.got = got].pc = pc
        BY <1>0 DEF Call
      <4> QED
        BY <4>1, <4>2
    <3>5. CASE RangeArrives(c)
      <4>1. PICK pc \in {"token", "done"} : \E off, got :
              Goes(c, [call[c] EXCEPT !.pc = pc, !.off = off, !.attempt = 0, !.stale = 0,
                                      !.got = got])
        BY <3>5 DEF RangeArrives
      <4>2. \A off, got :
              [call[c] EXCEPT !.pc = pc, !.off = off, !.attempt = 0, !.stale = 0,
                              !.got = got].pc = pc
        BY <1>0 DEF Call
      <4> QED
        BY <4>1, <4>2
    <3>6. CASE Conflict(c)
      <4>1. [call[c] EXCEPT !.pc = "token", !.restarts = call[c].restarts + 1, !.attempt = 0,
                            !.off = 0, !.stale = 0, !.got = Nothing].pc = "token"
        BY <1>0 DEF Call
      <4> QED
        BY <3>1, <3>6, <4>1 DEF Conflict
    <3>7. CASE TryAgain(c)
      <4>1. \/ \E s : Ended(c, s)
            \/ \E pc \in {"force", "token", "wait"} : \E stale, n, u :
                 Goes(c, [call[c] EXCEPT !.pc = pc, !.stale = stale, !.attempt = n, !.gateways = u])
        BY <3>7 DEF TryAgain
      <4>2. CASE \E s : Ended(c, s)
        BY <3>1, <4>2
      <4>3. ASSUME NEW pc \in {"force", "token", "wait"}, NEW stale, NEW n, NEW u,
                   Goes(c, [call[c] EXCEPT !.pc = pc, !.stale = stale, !.attempt = n, !.gateways = u])
            PROVE  \E k : Goes(c, k) /\ k.pc # "flight"
        <5>1. [call[c] EXCEPT !.pc = pc, !.stale = stale, !.attempt = n, !.gateways = u].pc = pc
          BY <1>0 DEF Call
        <5> QED
          BY <4>3, <5>1
      <4> QED
        BY <4>1, <4>2, <4>3
    <3> QED
      BY <1>6, <3>2, <3>3, <3>4, <3>5, <3>6, <3>7
  <2> QED
    BY <1>1, <2>1, <2>2
<1> QED
  BY <1>4, <1>5, <1>6 DEF ThreadStep

LEMMA PermitStep == ClientInv /\ PermitInv /\ [BcNext]_bcVars => PermitInv'
<1> SUFFICES ASSUME ClientInv, PermitInv, [BcNext]_bcVars PROVE PermitInv'
  OBVIOUS
<1>0. BcTypeOK'
  BY ClientStep DEF ClientInv
<1>1. /\ IsFiniteSet(Flying) /\ Cardinality(Flying) \in Nat
      /\ slots \in Nat /\ Slots \in Nat /\ slots + Cardinality(Flying) = Slots
  BY FS_CardinalityType, ConstantsAssumption DEF PermitInv, PermitsAccounted, Flying, BcTypeOK
<1>2. SUFFICES IsFiniteSet(Flying') /\ slots' + Cardinality(Flying') = Slots
  BY <1>0 DEF PermitInv, PermitsAccounted, Flying
<1>3. CASE Flying' = Flying /\ slots' = slots
  BY <1>1, <1>3
<1>4. ASSUME NEW c \in Calls, ThreadStep(c)
      PROVE  IsFiniteSet(Flying') /\ slots' + Cardinality(Flying') = Slots
  <2>1. CASE c \notin Flying /\ Flying' = Flying \cup {c} /\ slots' = slots - 1
    <3>1. IsFiniteSet(Flying') /\ Cardinality(Flying') = Cardinality(Flying) + 1
      BY <1>1, <2>1, FS_AddElement
    <3> QED
      BY <1>1, <2>1, <3>1
  <2>2. CASE c \in Flying /\ Flying' = Flying \ {c} /\ slots' = slots + 1
    <3>1. IsFiniteSet(Flying') /\ Cardinality(Flying') = Cardinality(Flying) - 1
      BY <1>1, <2>2, FS_RemoveElement
    <3> QED
      BY <1>1, <2>2, <3>1
  <2> QED
    BY <1>3, <1>4, <2>1, <2>2, PermitThread DEF PermitInv
<1>5. CASE TimePasses \/ Revoke \/ UNCHANGED bcVars
  BY <1>3, <1>5 DEF TimePasses, Revoke, bcVars, Flying
<1>6. CASE Edit
  <2>1. \A c \in Calls : call'[c].pc = call[c].pc
    <3>1. call \in [Calls -> Call]
      BY DEF PermitInv, BcTypeOK
    <3>2. \A c \in Calls : [call[c] EXCEPT !.gone = TRUE].pc = call[c].pc
      BY <3>1 DEF Call
    <3>3. \/ call' = call
          \/ call' = [c \in Calls |-> [call[c] EXCEPT !.gone = TRUE]]
      BY <1>6 DEF Edit
    <3> QED
      BY <3>2, <3>3
  <2>2. UNCHANGED slots
    BY <1>6 DEF Edit
  <2>3. Flying' = Flying
    BY <2>1 DEF Flying
  <2> QED
    BY <1>3, <2>2, <2>3
<1> QED
  BY <1>4, <1>5, <1>6 DEF BcNext

\* The permits left and the requests in flight make up the semaphore at every
\* moment: none is lost to a request that raised, and none is given back twice.
THEOREM PermitsAdd == BcSpec => []PermitsAccounted
<1>1. BcInit => PermitInv
  <2> SUFFICES ASSUME BcInit PROVE PermitInv
    OBVIOUS
  <2>1. Flying = {}
    BY DEF BcInit, Flying, Fresh
  <2>2. IsFiniteSet(Flying) /\ Cardinality(Flying) = 0
    BY <2>1, FS_EmptySet
  <2>3. slots = Slots /\ Slots \in Nat
    BY ConstantsAssumption DEF BcInit
  <2>4. BcTypeOK
    BY ClientInit DEF ClientInv
  <2>5. PermitsAccounted
    BY <2>2, <2>3 DEF PermitsAccounted, Flying
  <2> QED
    BY <2>2, <2>4, <2>5 DEF PermitInv
<1>2. PermitInv => PermitsAccounted
  BY DEF PermitInv
<1> QED
  BY <1>1, <1>2, ClientInit, ClientStep, PermitStep, PTL DEF BcSpec

-----------------------------------------------------------------------------
(* Lists read by offsets.  The place of a record among the others is a      *)
(* bijection onto 0 .. n - 1, so a page that is not full is the last one.    *)

Rank(S, i) == Cardinality({j \in S : j < i})

LEMMA RankGrows ==
  ASSUME NEW S \in SUBSET Items, NEW i \in S, NEW k \in S, i < k
  PROVE  Rank(S, i) < Rank(S, k)
<1> DEFINE A == {j \in S : j < i}
           B == {j \in S : j < k}
<1>1. IsFiniteSet(B)
  <2>1. IsFiniteSet(S) /\ B \in SUBSET S
    BY RankIsNat
  <2> QED
    BY <2>1, FS_Subset
<1>2. A \in SUBSET B /\ i \in B /\ i \notin A
  <2>1. i \in Nat /\ k \in Nat /\ \A j \in S : j \in Nat
    BY ConstantsAssumption
  <2>2. \A j \in S : j < i => j < k
    BY <2>1
  <2>3. A \in SUBSET B
    BY <2>2
  <2>4. i \in B /\ i \notin A
    BY <2>1
  <2> QED
    BY <2>3, <2>4
<1> HIDE DEF A, B
<1>3. Cardinality(A) <= Cardinality(B) /\ Cardinality(A) # Cardinality(B)
  BY <1>1, <1>2, FS_Subset
<1>4. Cardinality(A) \in Nat /\ Cardinality(B) \in Nat
  BY <1>1, <1>2, FS_Subset, FS_CardinalityType
<1>5. Cardinality(A) < Cardinality(B)
  BY <1>3, <1>4
<1> QED
  BY <1>5 DEF Rank, A, B

\* Every place below the size of the list is that of a record.
LEMMA RanksFill ==
  ASSUME NEW S \in SUBSET Items, NEW r \in Nat, r < Cardinality(S)
  PROVE  \E i \in S : Rank(S, i) = r
<1> DEFINE n == Cardinality(S)
           T == 0 .. n - 1
           f == [i \in S |-> Rank(S, i)]
<1>1. IsFiniteSet(S) /\ n \in Nat
  BY RankIsNat
<1>2. IsFiniteSet(T) /\ Cardinality(T) = n
  <2> HIDE DEF n
  <2>1. 0 \in Int /\ n - 1 \in Int
    BY <1>1
  <2>2. IsFiniteSet(T) /\ Cardinality(T) = IF 0 > n - 1 THEN 0 ELSE (n - 1) - 0 + 1
    BY <2>1, FS_Interval
  <2> QED
    BY <1>1, <2>2
<1>3. f \in Injection(S, T)
  <2>1. \A i \in S : Rank(S, i) \in T
    <3> TAKE i \in S
    <3>1. Rank(S, i) \in Nat /\ Rank(S, i) < n
      BY RankIsNat DEF Rank
    <3> HIDE DEF n
    <3> QED
      BY <1>1, <3>1
  <2>2. ASSUME NEW i \in S, NEW k \in S, Rank(S, i) = Rank(S, k) PROVE i = k
    <3>1. i \in Nat /\ k \in Nat
      BY ConstantsAssumption
    <3>2. Rank(S, i) \in Nat
      BY RankIsNat DEF Rank
    <3>3. ~(i < k) /\ ~(k < i)
      BY <2>2, <3>2, RankGrows
    <3> QED
      BY <3>1, <3>3
  <2> HIDE DEF T
  <2> QED
    BY <2>1, <2>2 DEF Injection, IsInjective
<1> HIDE DEF T, f
<1>4. f \in Surjection(S, T)
  BY <1>1, <1>2, <1>3, FS_Injection
<1>5. r \in T
  BY <1>1 DEF T
<1>6. \E i \in S : f[i] = r
  BY <1>4, <1>5 DEF Surjection
<1> QED
  BY <1>6 DEF f

\* A page that is not full leaves no record behind it.
LEMMA ShortPageIsLast ==
  ASSUME NEW S \in SUBSET Items, NEW n \in Nat, Cardinality(Page(S, n)) < PageSize
  PROVE  \A i \in S : Rank(S, i) < n + PageSize
<1> SUFFICES ASSUME NEW i \in S, ~(Rank(S, i) < n + PageSize) PROVE FALSE
  OBVIOUS
<1> DEFINE P == Page(S, n)
           U == n .. n + PageSize - 1
           g == [r \in U |-> CHOOSE k \in S : Rank(S, k) = r]
<1>1. Rank(S, i) \in Nat /\ PageSize \in Nat \ {0} /\ Cardinality(S) \in Nat
  BY RankIsNat, ConstantsAssumption DEF Rank
<1>2. n + PageSize <= Cardinality(S)
  BY <1>1, RankIsNat DEF Rank
<1>3. ASSUME NEW r \in U PROVE g[r] \in P /\ Rank(S, g[r]) = r
  <2>1. r \in Nat /\ n <= r /\ r < n + PageSize /\ r < Cardinality(S)
    BY <1>1, <1>2
  <2>2. g[r] \in S /\ Rank(S, g[r]) = r
    BY <2>1, RanksFill
  <2> QED
    BY <2>1, <2>2 DEF Page, Rank
<1>4. IsFiniteSet(P)
  <2>1. IsFiniteSet(S) /\ P \in SUBSET S
    BY RankIsNat DEF Page
  <2> QED
    BY <2>1, FS_Subset
<1>5. IsFiniteSet(U) /\ Cardinality(U) = PageSize
  <2>1. n \in Int /\ n + PageSize - 1 \in Int
    BY <1>1
  <2>2. IsFiniteSet(U) /\ Cardinality(U) = IF n > n + PageSize - 1 THEN 0
                                            ELSE (n + PageSize - 1) - n + 1
    BY <2>1, FS_Interval
  <2> QED
    BY <1>1, <2>2
<1> HIDE DEF P, U
<1>6. g \in Injection(U, P)
  BY <1>3 DEF Injection, IsInjective
<1> HIDE DEF g
<1>7. Cardinality(U) <= Cardinality(P)
  BY <1>4, <1>6, FS_Injection
<1>8. Cardinality(P) < PageSize /\ Cardinality(P) \in Nat
  BY <1>4, FS_CardinalityType DEF P
<1> QED
  BY <1>1, <1>5, <1>7, <1>8

\* Records that appear only push the others further on.
LEMMA RankOfMore ==
  ASSUME NEW S \in SUBSET Items, NEW R \in SUBSET S, NEW i
  PROVE  Rank(R, i) <= Rank(S, i)
<1> DEFINE A == {j \in R : j < i}
           B == {j \in S : j < i}
<1>1. IsFiniteSet(B)
  <2>1. IsFiniteSet(S) /\ B \in SUBSET S
    BY RankIsNat
  <2> QED
    BY <2>1, FS_Subset
<1>2. A \in SUBSET B
  OBVIOUS
<1> HIDE DEF A, B
<1>3. Cardinality(A) <= Cardinality(B)
  BY <1>1, <1>2, FS_Subset
<1> QED
  BY <1>3 DEF Rank, A, B

\* What a reading by offsets has received so far: whatever of the start it still
\* misses lies ahead of it.
Reading(k, S) ==
  k.kind = "range" /\ k.pc \notin {"idle", "raised"} /\ ~k.gone =>
    /\ k.base \subseteq S
    /\ IF k.pc = "done" THEN \A i \in k.base : k.got[i] > 0
       ELSE \A i \in k.base : k.got[i] = 0 => Rank(S, i) >= k.off

RangeInv == \A c \in Calls : Reading(call[c], items)

\* What every step of a call but the start and a page by offset leaves of a
\* reading by offsets.
Undisturbed(k, r) ==
  \/ r.pc = "raised"
  \/ r.kind = k.kind /\ k.kind # "range"
  \/ /\ r.pc # "done" /\ k.pc \notin {"idle", "done", "raised"}
     /\ r.kind = k.kind /\ r.base = k.base /\ r.gone = k.gone
     /\ r.off = k.off /\ r.got = k.got

LEMMA RangeBystander ==
  ASSUME BcTypeOK, NEW c \in Calls, ThreadStep(c), ~Start(c), ~RangeArrives(c)
  PROVE  \E r : Goes(c, r) /\ Undisturbed(call[c], r)
<1>0. call[c] \in Call
  BY DEF BcTypeOK
<1>1. \A pc : LET r == [call[c] EXCEPT !.pc = pc]
              IN /\ r.pc = pc /\ r.kind = call[c].kind /\ r.base = call[c].base
                 /\ r.gone = call[c].gone /\ r.off = call[c].off /\ r.got = call[c].got
  BY <1>0 DEF Call
<1>2. ASSUME NEW pc, Moves(c, pc), call[c].pc \notin {"idle", "done", "raised"},
             pc = "done" => call[c].kind # "range"
      PROVE  \E r : Goes(c, r) /\ Undisturbed(call[c], r)
  <2> DEFINE r == [call[c] EXCEPT !.pc = pc]
  <2>1. /\ r.pc = pc /\ r.kind = call[c].kind /\ r.base = call[c].base
        /\ r.gone = call[c].gone /\ r.off = call[c].off /\ r.got = call[c].got
    BY <1>1
  <2>2. Goes(c, r)
    BY <1>2 DEF Moves
  <2> HIDE DEF r
  <2>3. Undisturbed(call[c], r)
    BY <1>2, <2>1 DEF Undisturbed
  <2> QED
    BY <2>2, <2>3
<1>3. ASSUME Raises(c) PROVE \E r : Goes(c, r) /\ Undisturbed(call[c], r)
  BY <1>1, <1>3 DEF Raises, Ends, Undisturbed
<1>4. ASSUME NEW s, Ended(c, s) PROVE \E r : Goes(c, r) /\ Undisturbed(call[c], r)
  <2>1. CASE call[c].kind = "post"
    <3>1. Goes(c, [call[c] EXCEPT !.pc = "done", !.answer = s])
      BY <1>4, <2>1 DEF Ended, Ends
    <3>2. [call[c] EXCEPT !.pc = "done", !.answer = s].kind = "post"
      BY <1>0, <2>1 DEF Call
    <3> QED
      BY <2>1, <3>1, <3>2 DEF Undisturbed
  <2>2. CASE call[c].kind # "post"
    BY <1>3, <1>4, <2>2 DEF Ended
  <2> QED
    BY <2>1, <2>2
<1>5. CASE FindCompany(c) \/ EnterListing(c) \/ AskToken(c) \/ Send(c)
  <2>1. \E pc : /\ Moves(c, pc) /\ call[c].pc \notin {"idle", "done", "raised"}
                /\ pc = "done" => call[c].kind # "range"
    BY <1>5 DEF FindCompany, EnterListing, AskToken, Send
  <2> QED
    BY <1>2, <2>1
<1>6. CASE UseToken(c) \/ TokenArrives(c)
  <2>0. call[c].pc \notin {"idle", "done", "raised"}
    BY <1>6 DEF UseToken, TokenArrives
  <2>1. \/ Moves(c, "token")
        \/ \E t : Goes(c, [call[c] EXCEPT !.pc = "wait", !.token = t])
    BY <1>6 DEF UseToken, TokenArrives
  <2>2. ASSUME NEW t, Goes(c, [call[c] EXCEPT !.pc = "wait", !.token = t])
        PROVE  \E r : Goes(c, r) /\ Undisturbed(call[c], r)
    <3> DEFINE r == [call[c] EXCEPT !.pc = "wait", !.token = t]
    <3>1. /\ r.pc = "wait" /\ r.kind = call[c].kind /\ r.base = call[c].base
          /\ r.gone = call[c].gone /\ r.off = call[c].off /\ r.got = call[c].got
      BY <1>0 DEF Call
    <3> HIDE DEF r
    <3>2. Undisturbed(call[c], r)
      BY <2>0, <3>1 DEF Undisturbed
    <3> QED
      BY <2>2, <3>2 DEF r
  <2> QED
    BY <1>2, <2>0, <2>1, <2>2
<1>7. CASE TokenFails(c) \/ Breaks(c)
  BY <1>3, <1>7 DEF TokenFails, Breaks
<1>8. CASE Rejected(c)
  BY <1>4, <1>8 DEF Rejected
<1>9. CASE Succeeds(c)
  <2>1. call[c].kind # "range" /\ call[c].pc = "flight"
    BY <1>9 DEF Succeeds, Lists, Lands
  <2>2. CASE call[c].kind = "post"
    <3>1. Ended(c, "ok")
      BY <1>9, <2>2 DEF Succeeds, Ended
    <3> QED
      BY <1>4, <3>1
  <2>3. CASE call[c].kind # "post"
    <3>1. \E pc : Moves(c, pc)
      BY <1>9, <2>3 DEF Succeeds, Ends, Moves
    <3> QED
      BY <1>2, <2>1, <3>1
  <2> QED
    BY <2>2, <2>3
<1>10. CASE PageArrives(c)
  <2>1. call[c].kind = "pages"
    BY <1>10 DEF PageArrives
  <2>2. PICK pc, off, snap, got :
          Goes(c, [call[c] EXCEPT !.pc = pc, !.off = off, !.snap = snap, !.attempt = 0,
                                  !.stale = 0, !.got = got])
    BY <1>10 DEF PageArrives
  <2> DEFINE r == [call[c] EXCEPT !.pc = pc, !.off = off, !.snap = snap, !.attempt = 0,
                                  !.stale = 0, !.got = got]
  <2>3. r.kind = call[c].kind
    BY <1>0 DEF Call
  <2> HIDE DEF r
  <2>4. Undisturbed(call[c], r)
    BY <2>1, <2>3 DEF Undisturbed
  <2> QED
    BY <2>2, <2>4 DEF r
<1>11. CASE Conflict(c)
  <2>1. call[c].kind = "pages"
    BY <1>11 DEF Conflict
  <2>2. [call[c] EXCEPT !.pc = "token", !.restarts = call[c].restarts + 1, !.attempt = 0,
                        !.off = 0, !.stale = 0, !.got = Nothing].kind = call[c].kind
    BY <1>0 DEF Call
  <2> QED
    BY <1>3, <1>11, <2>1, <2>2 DEF Conflict, Undisturbed
<1>12. CASE TryAgain(c)
  <2>1. call[c].pc = "flight"
    BY <1>12 DEF TryAgain, Lands
  <2>2. \/ \E s : Ended(c, s)
        \/ \E pc \in {"force", "token", "wait"} : \E stale, n, u :
             Goes(c, [call[c] EXCEPT !.pc = pc, !.stale = stale, !.attempt = n, !.gateways = u])
    BY <1>12 DEF TryAgain
  <2>3. ASSUME NEW pc \in {"force", "token", "wait"}, NEW stale, NEW n, NEW u,
               Goes(c, [call[c] EXCEPT !.pc = pc, !.stale = stale, !.attempt = n, !.gateways = u])
        PROVE  \E r : Goes(c, r) /\ Undisturbed(call[c], r)
    <3> DEFINE r == [call[c] EXCEPT !.pc = pc, !.stale = stale, !.attempt = n, !.gateways = u]
    <3>1. /\ r.pc = pc /\ r.kind = call[c].kind /\ r.base = call[c].base
          /\ r.gone = call[c].gone /\ r.off = call[c].off /\ r.got = call[c].got
      BY <1>0 DEF Call
    <3> HIDE DEF r
    <3>2. Undisturbed(call[c], r)
      BY <2>1, <3>1 DEF Undisturbed
    <3> QED
      BY <2>3, <3>2 DEF r
  <2> QED
    BY <1>4, <2>2, <2>3
<1> QED
  BY <1>5, <1>6, <1>7, <1>8, <1>9, <1>10, <1>11, <1>12 DEF ThreadStep

LEMMA ReadingStarts ==
  ASSUME ClientInv, NEW c \in Calls, Start(c) PROVE Reading(call'[c], items')
<1>1. call \in [Calls -> Call] /\ items \in SUBSET Items /\ items' = items
  BY DEF ClientInv, BcTypeOK, Start
<1>2. call'[c].base = items /\ call'[c].off = 0 /\ call'[c].pc # "done"
  <2>1. call[c].off = 0
    BY InHand DEF CallInv, Placed, Start
  <2>2. PICK kind \in Kinds :
          Goes(c, [call[c] EXCEPT !.kind = kind, !.base = items, !.gone = FALSE,
                                  !.pc = IF kind \in Asks THEN "company" ELSE "token"])
    BY DEF Start
  <2> QED
    BY <1>1, <2>1, <2>2 DEF Goes, Call
<1>3. \A i \in items : Rank(items, i) >= 0
  BY <1>1, RankIsNat DEF Rank
<1> QED
  BY <1>1, <1>2, <1>3 DEF Reading

LEMMA ReadingGoesOn ==
  ASSUME ClientInv, NEW c \in Calls, RangeArrives(c), Reading(call[c], items)
  PROVE  Reading(call'[c], items')
<1> DEFINE page == Page(items, call[c].off)
           k == call[c]
           r == call'[c]
<1>1. /\ call \in [Calls -> Call] /\ k \in Call /\ items \in SUBSET Items /\ items' = items
      /\ k.off \in Nat /\ k.got \in [Items -> Nat] /\ PageSize \in Nat
  BY ConstantsAssumption DEF ClientInv, BcTypeOK, RangeArrives, shared, Call
<1>2. k.kind = "range" /\ k.pc = "flight"
  BY DEF RangeArrives, Lands
<1>3. /\ r.kind = k.kind /\ r.base = k.base /\ r.gone = k.gone
      /\ r.pc = IF Cardinality(page) < PageSize THEN "done" ELSE "token"
      /\ r.off = k.off + PageSize /\ r.got = Plus(k.got, page)
  BY <1>1 DEF RangeArrives, Goes, Call
<1> SUFFICES ASSUME ~k.gone
             PROVE  /\ k.base \subseteq items
                    /\ IF r.pc = "done" THEN \A i \in k.base : r.got[i] > 0
                       ELSE \A i \in k.base : r.got[i] = 0 => Rank(items, i) >= r.off
  BY <1>1, <1>3 DEF Reading
<1>4. k.base \subseteq items /\ \A i \in k.base : k.got[i] = 0 => Rank(items, i) >= k.off
  BY <1>2 DEF Reading
\* What is still missing lies behind this page.
<1>5. ASSUME NEW i \in k.base, r.got[i] = 0 PROVE Rank(items, i) >= k.off + PageSize
  <2>1. i \in items /\ i \in Items
    BY <1>1, <1>4
  <2>2. k.got[i] = 0 /\ i \notin page
    BY <1>1, <1>3, <1>5, <2>1 DEF Plus
  <2>3. Rank(items, i) >= k.off /\ Rank(items, i) \in Nat
    BY <1>1, <1>4, <2>2, RankIsNat DEF Rank
  <2>4. ~(k.off <= Rank(items, i) /\ Rank(items, i) < k.off + PageSize)
    BY <2>1, <2>2 DEF Page, Rank
  <2> QED
    BY <1>1, <2>3, <2>4
<1>6. CASE r.pc = "done"
  <2> SUFFICES ASSUME NEW i \in k.base, ~(r.got[i] > 0) PROVE FALSE
    BY <1>4, <1>6
  <2>1. r.got[i] \in Nat
    BY <1>1, <1>3, <1>4, PlusType
  <2>2. Rank(items, i) >= k.off + PageSize
    BY <1>5, <2>1
  <2>3. Rank(items, i) < k.off + PageSize
    BY <1>1, <1>3, <1>4, <1>6, ShortPageIsLast
  <2>4. Rank(items, i) \in Nat
    BY <1>1, RankIsNat DEF Rank
  <2> QED
    BY <1>1, <2>2, <2>3, <2>4
<1>7. CASE r.pc # "done"
  BY <1>3, <1>4, <1>5, <1>7
<1> QED
  BY <1>6, <1>7

LEMMA RangeStep == ClientInv /\ RangeInv /\ [BcNext]_bcVars => RangeInv'
<1> SUFFICES ASSUME ClientInv, RangeInv, [BcNext]_bcVars, NEW d \in Calls
             PROVE  Reading(call'[d], items')
  BY DEF RangeInv
<1>0. call \in [Calls -> Call] /\ call[d] \in Call /\ items \in SUBSET Items
      /\ Reading(call[d], items)
  BY DEF ClientInv, BcTypeOK, RangeInv
<1>1. ASSUME NEW c \in Calls, ThreadStep(c) PROVE Reading(call'[d], items')
  <2>1. CASE Start(c) /\ c = d
    BY <2>1, ReadingStarts
  <2>2. CASE RangeArrives(c) /\ c = d
    BY <1>0, <2>2, ReadingGoesOn
  <2>3. CASE c # d \/ ~(Start(c) \/ RangeArrives(c))
    <3>1. items' = items
      BY <1>1 DEF ThreadStep, Start, FindCompany, EnterListing, UseToken, AskToken, TokenArrives,
                  TokenFails, Send, Succeeds, PageArrives, RangeArrives, Conflict, Rejected,
                  TryAgain, Breaks
    <3>2. CASE c # d
      <4>1. call'[d] = call[d]
        <5>1. \E r : Goes(c, r)
          <6>1. CASE Start(c) \/ RangeArrives(c)
            BY <6>1 DEF Start, RangeArrives
          <6>2. CASE ~(Start(c) \/ RangeArrives(c))
            BY <1>1, <6>2, RangeBystander DEF ClientInv
          <6> QED
            BY <6>1, <6>2
        <5> QED
          BY <1>0, <3>2, <5>1 DEF Goes
      <4> QED
        BY <1>0, <3>1, <4>1
    <3>3. CASE c = d
      <4>1. PICK r : Goes(c, r) /\ Undisturbed(call[c], r)
        BY <1>1, <2>3, <3>3, RangeBystander DEF ClientInv
      <4>2. call'[d] = r
        BY <1>0, <3>3, <4>1 DEF Goes
      <4> QED
        BY <1>0, <3>1, <3>3, <4>1, <4>2 DEF Undisturbed, Reading
    <3> QED
      BY <3>2, <3>3
  <2> QED
    BY <2>1, <2>2, <2>3
<1>2. CASE TimePasses \/ Revoke \/ UNCHANGED bcVars
  BY <1>0, <1>2 DEF TimePasses, Revoke, bcVars
<1>3. CASE Edit
  <2>1. CASE call' = [c \in Calls |-> [call[c] EXCEPT !.gone = TRUE]]
    <3>1. call'[d].gone
      BY <1>0, <2>1 DEF Call
    <3> QED
      BY <3>1 DEF Reading
  <2>2. CASE UNCHANGED call /\ \E i \in Items \ items : items' = items \cup {i}
    <3>1. items' \in SUBSET Items /\ items \in SUBSET items'
      BY <1>0, <2>2
    <3>2. \A i : /\ Rank(items, i) <= Rank(items', i)
                 /\ Rank(items, i) \in Nat /\ Rank(items', i) \in Nat
      BY <1>0, <3>1, RankOfMore, RankIsNat DEF Rank
    <3>3. call'[d].off \in Nat
      BY <1>0, <2>2 DEF Call
    <3> QED
      BY <1>0, <2>2, <3>1, <3>2, <3>3 DEF Reading
  <2> QED
    BY <1>3, <2>1, <2>2 DEF Edit
<1> QED
  BY <1>1, <1>2, <1>3 DEF BcNext

\* A list read by offsets holds every record that was there all the time, however
\* many others appear between its pages.
THEOREM RangesMissNothing == BcSpec => []RangeMissesNothing
<1>1. BcInit => RangeInv
  BY DEF BcInit, RangeInv, Reading, Fresh
<1>2. RangeInv => RangeMissesNothing
  BY DEF RangeInv, Reading, RangeMissesNothing
<1> QED
  BY <1>1, <1>2, ClientInit, ClientStep, RangeStep, PTL DEF BcSpec
===============================================================================
