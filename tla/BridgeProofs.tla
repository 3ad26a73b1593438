------------------------------ MODULE BridgeProofs ------------------------------
(***************************************************************************)
(* Proofs about Bridge: its type invariant, that the watermarks pass over  *)
(* no header (also when runs overlap) and no detail (while they do not),   *)
(* that the details of a header are staged before it, and that a reference *)
(* recorded as promoted is in CustomerPOUL.                                *)
(***************************************************************************)
EXTENDS Bridge, TLAPS

-----------------------------------------------------------------------------
(* Type correctness. *)

\* What is about to be inserted comes from the fetched tables.
Sound(u) ==
  /\ u.pc \in {"checkH", "insertD", "insertH"} => u.newD \subseteq In(u.detail)
  /\ u.pc \in {"insertD", "insertH"} => u.newH \subseteq In(u.header)

TypeInv ==
  /\ TypeOK
  /\ \A w \in Workers : Sound(work[w])

LEMMA IdleSound == Idle \in Work /\ Sound(Idle) /\ Idle.pc = "idle"
BY ConstantsAssumption DEF Idle, Work, Sound, In, Times

LEMMA InitType == ASSUME Init PROVE TypeInv
BY ConstantsAssumption, IdleSound DEF Init, TypeInv, TypeOK, Times, Rows, Staged

LEMMA GoesType ==
  ASSUME TypeInv, NEW w \in Workers, NEW u \in Work, Goes(w, u), Sound(u)
  PROVE  /\ work' \in [Workers -> Work]
         /\ \A v \in Workers : Sound(work'[v])
BY DEF TypeInv, TypeOK, Goes

LEMMA LeaveType ==
  ASSUME TypeInv, NEW w \in Workers, Leave(w)
  PROVE  /\ work' \in [Workers -> Work]
         /\ \A v \in Workers : Sound(work'[v])
BY IdleSound, GoesType DEF Leave

\* Inserting rows with their stamps keeps what is staged.
LEMMA InsertType ==
  ASSUME stage \in [Rows -> Times], NEW S, NEW table, Insert(S, table),
         S \subseteq Rows, \A r \in S : table[r] \in Times /\ table[r] # 0
  PROVE  /\ stage' \in [Rows -> Times]
         /\ \A r \in Rows : stage'[r] # 0 <=> Staged(r) \/ r \in S
         /\ \A r \in S : stage'[r] = table[r]
         /\ \A r \in Rows \ S : stage'[r] = stage[r]
BY DEF Insert, Staged

LEMMA PromoteType ==
  ASSUME poul \subseteq {h \in Headers : Staged(h)}, NEW S \in SUBSET Headers, Promote(S),
         \A h \in Headers : Staged(h) \/ h \in S => stage'[h] # 0
  PROVE  poul' \subseteq {h \in Headers : stage'[h] # 0}
BY DEF Promote

LEMMA MishapType ==
  ASSUME mishaps \in 0..MaxMishaps, NEW k, Mishap(k)
  PROVE  mishaps' \in 0..MaxMishaps
BY ConstantsAssumption DEF Mishap

LEMMA LeftoverType ==
  ASSUME NEW S, NEW T \in Leftover(S)
  PROVE  T \subseteq S
BY DEF Leftover

LEMMA RecordsType ==
  ASSUME TypeInv, NEW w \in Workers, NEW s \in [Refs -> Status], Records(w, s)
  PROVE  handoff' \in [Refs -> SUBSET Status]
BY DEF Records, TypeInv, TypeOK

\* The locals after each of the two fetches.
LEMMA FetchedWork ==
  ASSUME NEW v \in Work, NEW H \in [Headers -> Times], NEW D \in [Details -> Times]
  PROVE  /\ [v EXCEPT !.pc = "fetchD", !.markH = 0, !.header = H] \in Work
         /\ [v EXCEPT !.pc = "checkD", !.markD = 0, !.detail = D, !.header = H] \in Work
<1>1. 0 \in 0..(MaxTime + 1)
  BY ConstantsAssumption
<1>2. [v EXCEPT !.pc = "fetchD", !.markH = 0, !.header = H] \in Work
  BY <1>1 DEF Work
<1>3. [v EXCEPT !.pc = "checkD", !.markD = 0, !.detail = D, !.header = H] \in Work
  BY <1>1 DEF Work
<1> QED
  BY <1>2, <1>3

\* The locals after the other steps.
Fit(u) == u \in Work /\ Sound(u)

LEMMA MovedWork ==
  ASSUME NEW v \in Work, NEW m \in 0..(MaxTime + 1), NEW R \in SUBSET Refs
  PROVE  /\ Fit([v EXCEPT !.pc = "fetchH"])
         /\ Fit([v EXCEPT !.pc = "markD", !.markH = m])
         /\ Fit([v EXCEPT !.pc = "fetchH", !.markD = m])
         /\ Fit([v EXCEPT !.pc = "verify", !.newD = {}])
         /\ Fit([v EXCEPT !.pc = "publish", !.checked = TRUE, !.promoted = R])
         /\ Fit([v EXCEPT !.pc = "publish"])
<1>0. \A u \in Work : u.pc \notin {"checkH", "insertD", "insertH"} => Fit(u)
  BY DEF Fit, Sound
<1>1. /\ [v EXCEPT !.pc = "fetchH"] \in Work
      /\ [v EXCEPT !.pc = "fetchH"].pc = "fetchH"
  BY DEF Work
<1>2. /\ [v EXCEPT !.pc = "markD", !.markH = m] \in Work
      /\ [v EXCEPT !.pc = "markD", !.markH = m].pc = "markD"
  BY DEF Work
<1>3. /\ [v EXCEPT !.pc = "fetchH", !.markD = m] \in Work
      /\ [v EXCEPT !.pc = "fetchH", !.markD = m].pc = "fetchH"
  BY DEF Work
<1>4. /\ [v EXCEPT !.pc = "verify", !.newD = {}] \in Work
      /\ [v EXCEPT !.pc = "verify", !.newD = {}].pc = "verify"
  BY DEF Work
<1>5. /\ [v EXCEPT !.pc = "publish", !.checked = TRUE, !.promoted = R] \in Work
      /\ [v EXCEPT !.pc = "publish", !.checked = TRUE, !.promoted = R].pc = "publish"
  BY DEF Work
<1>6. /\ [v EXCEPT !.pc = "publish"] \in Work
      /\ [v EXCEPT !.pc = "publish"].pc = "publish"
  BY DEF Work
<1> QED
  BY <1>0, <1>1, <1>2, <1>3, <1>4, <1>5, <1>6

LEMMA PrunedWork ==
  ASSUME NEW v \in Work, Sound(v)
  PROVE  /\ \A D \in SUBSET In(v.detail) : Fit([v EXCEPT !.pc = "checkH", !.newD = D])
         /\ v.pc = "checkH" =>
              \A H \in SUBSET In(v.header) : Fit([v EXCEPT !.pc = "insertD", !.newH = H])
         /\ v.pc = "insertD" => Fit([v EXCEPT !.pc = "insertH"])
         /\ v.pc = "insertD" =>
              \A D \in SUBSET In(v.detail) : Fit([v EXCEPT !.newD = D])
<1>0. In(v.detail) \subseteq Details /\ In(v.header) \subseteq Headers
  BY DEF In, Work
<1>1. ASSUME NEW D \in SUBSET In(v.detail)
      PROVE  Fit([v EXCEPT !.pc = "checkH", !.newD = D])
  BY <1>0 DEF Fit, Work, Sound
<1>2. ASSUME NEW H \in SUBSET In(v.header), v.pc = "checkH"
      PROVE  Fit([v EXCEPT !.pc = "insertD", !.newH = H])
  BY <1>0, <1>2 DEF Fit, Work, Sound
<1>3. ASSUME v.pc = "insertD" PROVE Fit([v EXCEPT !.pc = "insertH"])
  BY <1>3 DEF Fit, Work, Sound
<1>4. ASSUME NEW D \in SUBSET In(v.detail), v.pc = "insertD"
      PROVE  Fit([v EXCEPT !.newD = D])
  BY <1>0, <1>4 DEF Fit, Work, Sound
<1> QED
  BY <1>1, <1>2, <1>3, <1>4

LEMMA StepType ==
  ASSUME TypeInv, [Next]_vars
  PROVE  TypeInv'
<1> USE DEF TypeInv, TypeOK, bigquery, mssql, bc
<1>0. 0 \in Times /\ 0 \in 0..(MaxTime + 1) /\ Times \subseteq 0..(MaxTime + 1)
  BY ConstantsAssumption DEF Times
<1>1. CASE Tick
  BY <1>1, ConstantsAssumption DEF Tick, Times, Staged
<1>2. CASE \E r \in Rows : ServeAgain(r) \/ \E t \in Times : Appear(r, t)
  BY <1>2 DEF ServeAgain, Appear, Staged
<1>3. CASE Request
  BY <1>3 DEF Request, Staged
<1>4. CASE \E w \in Workers : Start(w)
  <2>1. PICK w \in Workers : Start(w)
    BY <1>4
  <2>2. [Idle EXCEPT !.pc = "markH"] \in Work /\ Sound([Idle EXCEPT !.pc = "markH"])
    BY <1>0 DEF Idle, Work, Sound
  <2> QED
    BY <2>1, <2>2, GoesType DEF Start, Staged
<1>5. CASE \E w \in Workers : Crash(w) \/ FetchFails(w) \/ CheckFails(w)
  <2>1. PICK w \in Workers : Crash(w) \/ FetchFails(w) \/ CheckFails(w)
    BY <1>5
  <2> QED
    BY <2>1, LeaveType, MishapType DEF Crash, FetchFails, CheckFails, Return, Staged
<1>6. CASE \E w \in Workers : MarksFail(w)
  <2>1. PICK w \in Workers : MarksFail(w)
    BY <1>6
  <2>2. [work[w] EXCEPT !.pc = "fetchH"] \in Work /\ Sound([work[w] EXCEPT !.pc = "fetchH"])
    BY <1>0, MovedWork DEF Fit
  <2> QED
    BY <2>1, <2>2, GoesType, MishapType DEF MarksFail, Staged
<1>7. CASE \E w \in Workers : ReadHeaderMark(w)
  <2>1. PICK w \in Workers, m \in 0..(MaxTime + 1) :
          ReadHeaderMark(w) /\ Goes(w, [work[w] EXCEPT !.pc = "markD", !.markH = m])
    BY <1>7 DEF ReadHeaderMark
  <2>2. /\ [work[w] EXCEPT !.pc = "markD", !.markH = m] \in Work
        /\ Sound([work[w] EXCEPT !.pc = "markD", !.markH = m])
    BY MovedWork DEF Fit
  <2> QED
    BY <2>1, <2>2, GoesType DEF ReadHeaderMark, Staged
<1>8. CASE \E w \in Workers : ReadDetailMark(w)
  <2>1. PICK w \in Workers, m \in 0..(MaxTime + 1) :
          /\ ReadDetailMark(w)
          /\ Goes(w, [work[w] EXCEPT !.pc = "fetchH",
                                     !.markD = IF m = 0 THEN work[w].markH ELSE m])
    BY <1>8 DEF ReadDetailMark
  <2> DEFINE n == IF m = 0 THEN work[w].markH ELSE m
  <2>2. n \in 0..(MaxTime + 1)
    BY DEF Work
  <2> HIDE DEF n
  <2>3. /\ [work[w] EXCEPT !.pc = "fetchH", !.markD = n] \in Work
        /\ Sound([work[w] EXCEPT !.pc = "fetchH", !.markD = n])
    BY <2>2, MovedWork DEF Fit
  <2> QED
    BY <2>1, <2>3, GoesType DEF ReadDetailMark, Staged, n
<1>9. CASE \E w \in Workers : FetchHeaders(w)
  <2>1. PICK w \in Workers : FetchHeaders(w)
    BY <1>9
  <2> DEFINE table == Since(Headers, work[w].markH)
             u == [work[w] EXCEPT !.pc = "fetchD", !.markH = 0, !.header = table]
  <2>2. table \in [Headers -> Times]
    BY <1>0 DEF Since, Rows
  <2> HIDE DEF table
  <2>3. work[w] \in Work /\ work[w].detail \in [Details -> Times]
    BY DEF Work
  <2>4. u \in Work
    BY <2>2, <2>3, FetchedWork
  <2>5. u.pc = "fetchD"
    BY <2>3 DEF Work
  <2>6. Sound(u)
    BY <2>5 DEF Sound
  <2> QED
    BY <2>1, <2>4, <2>6, GoesType DEF FetchHeaders, Staged, table
<1>10. CASE \E w \in Workers : FetchDetails(w)
  <2>1. PICK w \in Workers : FetchDetails(w)
    BY <1>10
  <2>2. CASE Leave(w)
    BY <2>1, <2>2, LeaveType DEF FetchDetails, Staged
  <2>3. CASE ~Leave(w)
    <3> DEFINE found == Since(Details, work[w].markD)
    <3>1. PICK K \in SUBSET In(work[w].header) :
            Goes(w, [work[w] EXCEPT !.pc = "checkD", !.markD = 0, !.detail = found,
                                    !.header = [h \in Headers |-> IF h \in K THEN @[h] ELSE 0]])
      BY <2>1, <2>3 DEF FetchDetails
    <3> DEFINE table == [h \in Headers |-> IF h \in K THEN work[w].header[h] ELSE 0]
               u == [work[w] EXCEPT !.pc = "checkD", !.markD = 0, !.detail = found,
                                    !.header = table]
    <3>2. found \in [Details -> Times]
      BY <1>0 DEF Since, Rows
    <3>3. table \in [Headers -> Times]
      BY <1>0 DEF Work
    <3>4. Goes(w, u)
      BY <3>1
    <3> HIDE DEF found, table
    <3>5. work[w] \in Work
      OBVIOUS
    <3>6. u \in Work
      BY <3>2, <3>3, <3>5, FetchedWork
    <3>7. u.pc = "checkD"
      BY <3>5 DEF Work
    <3>8. Sound(u)
      BY <3>7 DEF Sound
    <3> QED
      BY <2>1, <3>4, <3>6, <3>8, GoesType DEF FetchDetails, Staged
  <2> QED
    BY <2>2, <2>3
<1>11. CASE \E w \in Workers : CheckDetails(w)
  <2>1. PICK w \in Workers : CheckDetails(w)
    BY <1>11
  <2> DEFINE new == {d \in In(work[w].detail) : ~Staged(d)}
             u == [work[w] EXCEPT !.pc = "checkH", !.newD = new]
  <2>2. new \subseteq In(work[w].detail) /\ In(work[w].detail) \subseteq Details
    BY DEF In, Work
  <2> HIDE DEF new
  <2>3. u \in Work /\ Sound(u)
    BY <2>2, PrunedWork DEF Fit
  <2> QED
    BY <2>1, <2>3, GoesType DEF CheckDetails, Staged, new
<1>12. CASE \E w \in Workers : CheckHeaders(w)
  <2>1. PICK w \in Workers : CheckHeaders(w)
    BY <1>12
  <2> DEFINE new == In(work[w].header) \ {h \in In(work[w].header) : Staged(h)}
             u == [work[w] EXCEPT !.pc = "insertD", !.newH = new]
  <2>2. new \subseteq In(work[w].header) /\ In(work[w].header) \subseteq Headers
    BY DEF In, Work
  <2>3. work[w].newD \subseteq In(work[w].detail)
    BY <2>1 DEF CheckHeaders, Sound, At
  <2>4. Goes(w, u)
    BY <2>1 DEF CheckHeaders
  <2> HIDE DEF new
  <2>5. u \in Work /\ Sound(u)
    <3>1. work[w].pc = "checkH"
      BY <2>1 DEF CheckHeaders, At
    <3> QED
      BY <2>2, <3>1, PrunedWork DEF Fit
  <2> QED
    BY <2>1, <2>4, <2>5, GoesType DEF CheckHeaders, Staged
<1>13. CASE \E w \in Workers : InsertDetails(w)
  <2>1. PICK w \in Workers : InsertDetails(w)
    BY <1>13
  <2>2. work[w].newD \subseteq In(work[w].detail)
    BY <2>1 DEF InsertDetails, At, Sound
  <2>3. /\ stage' \in [Rows -> Times]
        /\ \A r \in Rows : stage'[r] # 0 <=> Staged(r) \/ r \in work[w].newD
    <3>1. /\ work[w].newD \subseteq Rows
          /\ \A d \in work[w].newD : work[w].detail[d] \in Times /\ work[w].detail[d] # 0
      BY <2>2 DEF Work, In, Rows
    <3> QED
      BY <2>1, <3>1, InsertType DEF InsertDetails
  <2>4. /\ [work[w] EXCEPT !.pc = "insertH"] \in Work
        /\ Sound([work[w] EXCEPT !.pc = "insertH"])
    <3>1. work[w].pc = "insertD"
      BY <2>1 DEF InsertDetails, At
    <3> QED
      BY <3>1, PrunedWork DEF Fit
  <2> QED
    BY <2>1, <2>3, <2>4, GoesType DEF InsertDetails, Staged, Rows
<1>14. CASE \E w \in Workers : DetailConflict(w)
  <2>0. PICK w \in Workers : DetailConflict(w)
    BY <1>14
  <2>a. PICK c \in work[w].newD :
          /\ \E S \in Leftover(work[w].newD) : Insert(S, work[w].detail)
          /\ Goes(w, [work[w] EXCEPT !.newD = Pruned(@, c)])
    BY <2>0 DEF DetailConflict
  <2>1. PICK S \in Leftover(work[w].newD) : Insert(S, work[w].detail)
    BY <2>a
  <2>2. work[w].newD \subseteq In(work[w].detail) /\ S \subseteq work[w].newD
    BY <2>0, LeftoverType DEF DetailConflict, At, Sound
  <2>3. /\ stage' \in [Rows -> Times]
        /\ \A r \in Rows : stage'[r] # 0 <=> Staged(r) \/ r \in S
    <3>1. S \subseteq Rows /\ \A d \in S : work[w].detail[d] \in Times /\ work[w].detail[d] # 0
      BY <2>2 DEF Work, In, Rows
    <3> QED
      BY <2>1, <3>1, InsertType
  <2> DEFINE new == Pruned(work[w].newD, c)
             u == [work[w] EXCEPT !.newD = new]
  <2>4. new \subseteq work[w].newD
    BY DEF Pruned
  <2>5. Goes(w, u)
    BY <2>a
  <2> HIDE DEF new
  <2>6. u \in Work /\ Sound(u)
    <3>1. work[w].pc = "insertD"
      BY <2>0 DEF DetailConflict, At
    <3>2. new \subseteq In(work[w].detail)
      BY <2>2, <2>4
    <3> QED
      BY <3>1, <3>2, PrunedWork DEF Fit
  <2> QED
    BY <2>0, <2>3, <2>5, <2>6, GoesType DEF DetailConflict, Staged, Rows
<1>15. CASE \E w \in Workers : InsertHeaders(w)
  <2>1. PICK w \in Workers : InsertHeaders(w)
    BY <1>15
  <2>2. work[w].newH \subseteq In(work[w].header) /\ work[w].newH \subseteq Headers
    BY <2>1 DEF InsertHeaders, At, Sound, Work
  <2>3. /\ stage' \in [Rows -> Times]
        /\ \A r \in Rows : stage'[r] # 0 <=> Staged(r) \/ r \in work[w].newH
    <3>1. /\ work[w].newH \subseteq Rows
          /\ \A h \in work[w].newH : work[w].header[h] \in Times /\ work[w].header[h] # 0
      BY <2>2 DEF Work, In, Rows
    <3> QED
      BY <2>1, <3>1, InsertType DEF InsertHeaders
  <2>4. poul' \subseteq {h \in Headers : stage'[h] # 0}
    BY <2>1, <2>2, <2>3, PromoteType DEF InsertHeaders, Rows
  <2>5. /\ [work[w] EXCEPT !.pc = "verify", !.newD = {}] \in Work
        /\ Sound([work[w] EXCEPT !.pc = "verify", !.newD = {}])
    BY <1>0, MovedWork DEF Fit
  <2> QED
    BY <2>1, <2>3, <2>4, <2>5, GoesType DEF InsertHeaders, Staged
<1>16. CASE \E w \in Workers : HeaderConflict(w)
  <2>0. PICK w \in Workers : HeaderConflict(w)
    BY <1>16
  <2>a. PICK c \in work[w].newH :
          /\ \E S \in Leftover(work[w].newH) : Insert(S, work[w].header) /\ Promote(S)
          /\ Goes(w, [work[w] EXCEPT !.pc = "insertD", !.newH = Pruned(@, c)])
    BY <2>0 DEF HeaderConflict
  <2>1. PICK S \in Leftover(work[w].newH) : Insert(S, work[w].header) /\ Promote(S)
    BY <2>a
  <2>2. /\ work[w].newH \subseteq In(work[w].header) /\ work[w].newH \subseteq Headers
        /\ work[w].newD \subseteq In(work[w].detail)
        /\ S \subseteq work[w].newH
    BY <2>0, LeftoverType DEF HeaderConflict, At, Sound, Work
  <2>3. /\ stage' \in [Rows -> Times]
        /\ \A r \in Rows : stage'[r] # 0 <=> Staged(r) \/ r \in S
    <3>1. S \subseteq Rows /\ \A h \in S : work[w].header[h] \in Times /\ work[w].header[h] # 0
      BY <2>2 DEF Work, In, Rows
    <3> QED
      BY <2>1, <3>1, InsertType
  <2>4. poul' \subseteq {h \in Headers : stage'[h] # 0}
    BY <2>1, <2>2, <2>3, PromoteType DEF Rows
  <2> DEFINE new == Pruned(work[w].newH, c)
             u == [work[w] EXCEPT !.pc = "insertD", !.newH = new]
  <2>5. new \subseteq work[w].newH
    BY DEF Pruned
  <2>6. Goes(w, u)
    BY <2>a
  <2> HIDE DEF new
  <2>7. u \in Work /\ Sound(u)
    <3>1. work[w] \in Work /\ new \in SUBSET Headers
      BY <2>2, <2>5
    <3>2. u \in Work
      BY <3>1 DEF Work
    <3>3. u.newD = work[w].newD /\ u.detail = work[w].detail
          /\ u.newH = new /\ u.header = work[w].header
      BY <3>1 DEF Work
    <3> QED
      BY <3>2, <3>3, <2>2, <2>5 DEF Sound
  <2> QED
    BY <2>0, <2>3, <2>4, <2>6, <2>7, GoesType DEF HeaderConflict, Staged
<1>17. CASE \E w \in Workers : InsertFails(w)
  <2>1. PICK w \in Workers : InsertFails(w)
    BY <1>17
  <2>2. handoff' \in [Refs -> SUBSET Status] /\ mishaps' \in 0..MaxMishaps
    BY <2>1, RecordsType, MishapType DEF InsertFails, Error, Status
  <2>3. CASE At(w, "insertD")
    <3>1. PICK S \in Leftover(work[w].newD) : Insert(S, work[w].detail) /\ UNCHANGED poul
      BY <2>1, <2>3 DEF InsertFails, At
    <3>2. S \subseteq In(work[w].detail)
      BY <2>3, LeftoverType DEF Sound, At
    <3>3. S \subseteq Rows /\ \A d \in S : work[w].detail[d] \in Times /\ work[w].detail[d] # 0
      BY <3>2 DEF Work, In, Rows
    <3>4. /\ stage' \in [Rows -> Times]
          /\ \A r \in Rows : stage'[r] # 0 <=> Staged(r) \/ r \in S
      BY <3>1, <3>3, InsertType
    <3> QED
      BY <2>1, <2>2, <3>1, <3>4, LeaveType DEF InsertFails, Staged, Rows
  <2>4. CASE At(w, "insertH")
    <3>1. PICK S \in Leftover(work[w].newH) : Insert(S, work[w].header) /\ Promote(S)
      BY <2>1, <2>4 DEF InsertFails, At
    <3>2. S \subseteq In(work[w].header)
      BY <2>4, LeftoverType DEF Sound, At
    <3>3. /\ S \subseteq Rows /\ S \subseteq Headers
          /\ \A h \in S : work[w].header[h] \in Times /\ work[w].header[h] # 0
      BY <3>2 DEF Work, In, Rows
    <3>4. /\ stage' \in [Rows -> Times]
          /\ \A r \in Rows : stage'[r] # 0 <=> Staged(r) \/ r \in S
      BY <3>1, <3>3, InsertType
    <3>5. poul' \subseteq {h \in Headers : stage'[h] # 0}
      BY <3>1, <3>3, <3>4, PromoteType DEF Rows
    <3> QED
      BY <2>1, <2>2, <3>4, <3>5, LeaveType DEF InsertFails, Staged
  <2> QED
    BY <2>1, <2>3, <2>4 DEF InsertFails
<1>18. CASE \E w \in Workers : Verify(w)
  <2>1. PICK w \in Workers : Verify(w)
    BY <1>18
  <2> DEFINE u == [work[w] EXCEPT !.pc = "publish", !.checked = TRUE,
                                  !.promoted = PromotedRefs(w)]
             v == [work[w] EXCEPT !.pc = "publish"]
  <2>2. PromotedRefs(w) \subseteq Refs
    BY ConstantsAssumption DEF PromotedRefs, RefsOf, Work, Rows
  <2>3. u \in Work /\ Sound(u)
    BY <1>0, <2>2, MovedWork DEF Fit
  <2>4. v \in Work /\ Sound(v)
    BY <1>0, MovedWork DEF Fit
  <2>5. mishaps' \in 0..MaxMishaps
    BY <2>1, MishapType DEF Verify
  <2>6. Goes(w, u) \/ Goes(w, v)
    BY <2>1 DEF Verify
  <2> QED
    BY <2>1, <2>3, <2>4, <2>5, <2>6, GoesType DEF Verify, Staged
<1>19. CASE \E w \in Workers : Publish(w)
  <2>1. PICK w \in Workers : Publish(w)
    BY <1>19
  <2> DEFINE u == [work[w] EXCEPT !.pc = "record", !.header = Idle.header, !.detail = Idle.detail]
  <2>2. u \in Work /\ Sound(u)
    BY <1>0, IdleSound DEF Work, Sound
  <2>3. OrdersOf(w) \subseteq Order
    BY ConstantsAssumption DEF OrdersOf, Order, Of, In, Work, Rows
  <2>4. topic' \subseteq Order /\ mishaps' \in 0..MaxMishaps
    BY <2>1, <2>3, MishapType DEF Publish
  <2> QED
    BY <2>1, <2>2, <2>4, GoesType DEF Publish, Staged
<1>20. CASE \E w \in Workers : PublishFails(w)
  <2>1. PICK w \in Workers : PublishFails(w)
    BY <1>20
  <2>2. handoff' \in [Refs -> SUBSET Status] /\ mishaps' \in 0..MaxMishaps
    BY <2>1, RecordsType, MishapType DEF PublishFails, Error, Status
  <2> QED
    BY <2>1, <2>2, LeaveType DEF PublishFails, Staged
<1>21. CASE \E w \in Workers : Record(w)
  <2>1. PICK w \in Workers : Record(w)
    BY <1>21
  <2>2. Promotion(w) \in [Refs -> Status]
    BY DEF Promotion, Status
  <2>3. handoff' \in [Refs -> SUBSET Status] /\ mishaps' \in 0..MaxMishaps
    BY <2>1, <2>2, RecordsType, MishapType DEF Record
  <2> QED
    BY <2>1, <2>3, LeaveType DEF Record, Staged
<1>22. CASE \E o \in topic : Import(o)
  BY <1>22 DEF Import, Order, Staged
<1>23. CASE \E h \in Headers : Backfill(h)
  <2>1. PICK h \in Headers : Backfill(h)
    BY <1>23
  <2>2. RefOf[h] \in Refs
    BY ConstantsAssumption DEF Rows
  <2>3. lines' \subseteq Details /\ mishaps' \in 0..MaxMishaps
    BY <2>1, MishapType DEF Backfill, Of
  <2> QED
    BY <2>1, <2>2, <2>3 DEF Backfill, Staged
<1>24. CASE UNCHANGED vars
  BY <1>24 DEF vars, Staged
<1> QED
  BY <1>1, <1>2, <1>3, <1>4, <1>5, <1>6, <1>7, <1>8, <1>9, <1>10, <1>11, <1>12, <1>13,
     <1>14, <1>15, <1>16, <1>17, <1>18, <1>19, <1>20, <1>21, <1>22, <1>23, <1>24
     DEF Next, Step, Fail

THEOREM TypeCorrect == Spec => []TypeOK
<1>1. Init => TypeInv
  BY InitType
<1>2. TypeInv /\ [Next]_vars => TypeInv'
  BY StepType
<1>3. TypeInv => TypeOK
  BY DEF TypeInv
<1> QED
  BY <1>1, <1>2, <1>3, PTL DEF Spec

-----------------------------------------------------------------------------
(* What is recorded as promoted is in CustomerPOUL. *)

Known(r) == \E h \in poul : RefOf[h] = r

PromInv ==
  /\ PromotedIsTrue
  /\ \A w \in Workers : \A r \in work[w].promoted : Known(r)

\* Nothing leaves CustomerPOUL; a run takes a reference for promoted only if it is
\* there; and the history takes it from the run.
LEMMA PromotionSteps ==
  ASSUME TypeInv, [Next]_vars
  PROVE  /\ poul \subseteq poul'
         /\ \A w \in Workers : \A r \in work'[w].promoted : r \in work[w].promoted \/ Known(r)
         /\ \A r \in Refs : "promoted" \in handoff'[r] =>
              "promoted" \in handoff[r] \/ \E w \in Workers : r \in work[w].promoted
<1> DEFINE Kept(v) == \A w \in Workers : \A r \in v[w].promoted : r \in work[w].promoted \/ Known(r)
           Told == \A r \in Refs : "promoted" \in handoff'[r] =>
              "promoted" \in handoff[r] \/ \E w \in Workers : r \in work[w].promoted
<1> USE DEF TypeInv, TypeOK, bigquery, mssql, bc
<1>1. ASSUME UNCHANGED <<poul, work, handoff>>
      PROVE  poul \subseteq poul' /\ Kept(work') /\ Told
  BY <1>1
<1>2. ASSUME NEW w \in Workers, NEW u, Goes(w, u),
             \A r \in u.promoted : r \in work[w].promoted \/ Known(r)
      PROVE  Kept(work')
  BY <1>2 DEF Goes
<1>3. ASSUME NEW w \in Workers, Leave(w)
      PROVE  Kept(work')
  BY <1>2, <1>3 DEF Leave, Idle
<1>4. ASSUME NEW w \in Workers, Records(w, Error)
      PROVE  Told
  BY <1>4 DEF Records, Error
<1>5. ASSUME NEW S, Promote(S)
      PROVE  poul \subseteq poul'
  BY <1>5 DEF Promote
<1> HIDE DEF Kept, Told
<1>6. CASE \/ Tick \/ Request \/ UNCHANGED vars
           \/ \E r \in Rows : ServeAgain(r) \/ \E t \in Times : Appear(r, t)
           \/ \E o \in topic : Import(o)
           \/ \E h \in Headers : Backfill(h)
  BY <1>1, <1>6 DEF Tick, Request, ServeAgain, Appear, Import, Backfill, vars
<1>7. CASE \E w \in Workers : Start(w) \/ Fail(w)
  <2>1. PICK w \in Workers : Start(w) \/ Fail(w)
    BY <1>7
  <2>2. CASE Start(w) \/ MarksFail(w)
    <3>1. \/ Goes(w, [Idle EXCEPT !.pc = "markH"])
          \/ Goes(w, [work[w] EXCEPT !.pc = "fetchH"])
      BY <2>2 DEF Start, MarksFail
    <3>2. [Idle EXCEPT !.pc = "markH"].promoted = {}
      BY DEF Idle
    <3>3. [work[w] EXCEPT !.pc = "fetchH"].promoted = work[w].promoted
      BY DEF Work
    <3>4. Kept(work')
      BY <1>2, <3>1, <3>2, <3>3
    <3> QED
      BY <2>2, <3>4 DEF Start, MarksFail, Told, Kept
  <2>3. CASE Crash(w) \/ FetchFails(w) \/ CheckFails(w)
    BY <1>3, <2>3 DEF Crash, FetchFails, CheckFails, Told, Kept
  <2>4. CASE InsertFails(w) \/ PublishFails(w)
    BY <1>3, <1>4, <1>5, <2>4 DEF InsertFails, PublishFails, Told, Kept
  <2> QED
    BY <2>1, <2>2, <2>3, <2>4 DEF Fail
<1>8. CASE \E w \in Workers : Step(w)
  <2>1. PICK w \in Workers : Step(w)
    BY <1>8
  <2>0. work[w] \in Work
    OBVIOUS
  <2>2. CASE Verify(w)
    <3>1. [work[w] EXCEPT !.pc = "publish", !.checked = TRUE,
                          !.promoted = PromotedRefs(w)].promoted = PromotedRefs(w)
      BY <2>0 DEF Work
    <3>2. [work[w] EXCEPT !.pc = "publish"].promoted = work[w].promoted
      BY <2>0 DEF Work
    <3>3. \A r \in PromotedRefs(w) : Known(r)
      BY DEF PromotedRefs, Known
    <3>4. Kept(work')
      BY <1>2, <2>2, <3>1, <3>2, <3>3 DEF Verify
    <3> QED
      BY <2>2, <3>4 DEF Verify, Told, Kept
  <2>3. CASE Record(w)
    <3>1. \A r \in Refs : "promoted" \in handoff'[r] =>
            "promoted" \in handoff[r] \/ r \in work[w].promoted
      BY <2>3 DEF Record, Records, Promotion
    <3> QED
      BY <1>3, <2>3, <3>1 DEF Record, Told, Kept
  <2>4. CASE FetchDetails(w)
    <3>1. CASE Leave(w)
      BY <1>3, <2>4, <3>1 DEF FetchDetails, Told, Kept
    <3>2. CASE ~Leave(w)
      <4>1. PICK D, H : Goes(w, [work[w] EXCEPT !.pc = "checkD", !.markD = 0, !.detail = D,
                                                !.header = H])
        BY <2>4, <3>2 DEF FetchDetails
      <4>2. [work[w] EXCEPT !.pc = "checkD", !.markD = 0, !.detail = D,
                            !.header = H].promoted = work[w].promoted
        BY <2>0 DEF Work
      <4>3. Kept(work')
        BY <1>2, <4>1, <4>2
      <4> QED
        BY <2>4, <4>3 DEF FetchDetails, Told, Kept
    <3> QED
      BY <3>1, <3>2
  <2>5. CASE ReadHeaderMark(w) \/ ReadDetailMark(w) \/ FetchHeaders(w)
    <3>1. \A v \in Workers : work'[v].promoted = work[v].promoted
      <4>1. CASE ReadHeaderMark(w)
        BY <2>0, <4>1 DEF ReadHeaderMark, Work, Goes
      <4>2. CASE ReadDetailMark(w)
        BY <2>0, <4>2 DEF ReadDetailMark, Work, Goes
      <4>3. CASE FetchHeaders(w)
        BY <2>0, <4>3 DEF FetchHeaders, Work, Goes
      <4> QED
        BY <2>5, <4>1, <4>2, <4>3
    <3>2. Kept(work')
      BY <3>1 DEF Kept
    <3> QED
      BY <2>5, <3>2 DEF ReadHeaderMark, ReadDetailMark, FetchHeaders, Told, Kept
  <2>6. CASE CheckDetails(w) \/ CheckHeaders(w)
    <3>1. \A v \in Workers : work'[v].promoted = work[v].promoted
      <4>1. CASE CheckDetails(w)
        BY <2>0, <4>1 DEF CheckDetails, Work, Goes
      <4>2. CASE CheckHeaders(w)
        BY <2>0, <4>2 DEF CheckHeaders, Work, Goes
      <4> QED
        BY <2>6, <4>1, <4>2
    <3>2. Kept(work')
      BY <3>1 DEF Kept
    <3> QED
      BY <2>6, <3>2 DEF CheckDetails, CheckHeaders, Told, Kept
  <2>7. CASE InsertDetails(w) \/ DetailConflict(w) \/ InsertHeaders(w) \/ HeaderConflict(w)
    <3>1. \A v \in Workers : work'[v].promoted = work[v].promoted
      <4>1. CASE InsertDetails(w)
        BY <2>0, <4>1 DEF InsertDetails, Work, Goes
      <4>2. CASE DetailConflict(w)
        <5>1. PICK c : Goes(w, [work[w] EXCEPT !.newD = Pruned(@, c)])
          BY <4>2 DEF DetailConflict
        <5> QED
          BY <2>0, <5>1 DEF Work, Goes
      <4>3. CASE InsertHeaders(w)
        BY <2>0, <4>3 DEF InsertHeaders, Work, Goes
      <4>4. CASE HeaderConflict(w)
        <5>1. PICK c : Goes(w, [work[w] EXCEPT !.pc = "insertD", !.newH = Pruned(@, c)])
          BY <4>4 DEF HeaderConflict
        <5> QED
          BY <2>0, <5>1 DEF Work, Goes
      <4> QED
        BY <2>7, <4>1, <4>2, <4>3, <4>4
    <3>2. Kept(work')
      BY <3>1 DEF Kept
    <3>3. poul \subseteq poul'
      BY <1>5, <2>7 DEF InsertDetails, DetailConflict, InsertHeaders, HeaderConflict
    <3> QED
      BY <2>7, <3>2, <3>3 DEF InsertDetails, DetailConflict, InsertHeaders, HeaderConflict, Told, Kept
  <2>8. CASE Publish(w)
    <3>1. Goes(w, [work[w] EXCEPT !.pc = "record", !.header = Idle.header, !.detail = Idle.detail])
      BY <2>8 DEF Publish
    <3>2. [work[w] EXCEPT !.pc = "record", !.header = Idle.header,
                          !.detail = Idle.detail].promoted = work[w].promoted
      BY <2>0 DEF Work
    <3>3. Kept(work')
      BY <1>2, <3>1, <3>2
    <3> QED
      BY <2>8, <3>3 DEF Publish, Told, Kept
  <2> QED
    BY <2>1, <2>2, <2>3, <2>4, <2>5, <2>6, <2>7, <2>8 DEF Step
<1> QED
  BY <1>6, <1>7, <1>8 DEF Next, Told, Kept

\* Whatever fails and however runs overlap, the history calls a reference promoted
\* only if it is in CustomerPOUL.
THEOREM PromotedIsTrueAlways == Spec => []PromotedIsTrue
<1>1. Init => PromInv
  BY ConstantsAssumption DEF Init, PromInv, PromotedIsTrue, Idle
<1>2. TypeInv /\ PromInv /\ [Next]_vars => PromInv'
  <2> SUFFICES ASSUME TypeInv, PromInv, [Next]_vars PROVE PromInv'
    OBVIOUS
  <2>1. PromotedIsTrue'
    BY PromotionSteps DEF PromInv, PromotedIsTrue, Known
  <2>2. \A w \in Workers : \A r \in work'[w].promoted : Known(r)'
    BY PromotionSteps DEF PromInv, Known
  <2> QED
    BY <2>1, <2>2 DEF PromInv
<1>3. Init => TypeInv
  BY InitType
<1>4. TypeInv /\ [Next]_vars => TypeInv'
  BY StepType
<1>5. PromInv => PromotedIsTrue
  BY DEF PromInv
<1> QED
  BY <1>1, <1>2, <1>3, <1>4, <1>5, PTL DEF Spec

-----------------------------------------------------------------------------
(* No header is passed over.  A state is given by the stamps st, the stage sg, the
   time f of the last fetch and the time c. *)

Pending(h, st, sg) == st[h] # 0 /\ sg[h] = 0

\* A header of the same reference and at least as good a company is staged.
Outranked(h, sg) == \E k \in Headers : sg[k] # 0 /\ RefOf[k] = RefOf[h] /\ Rank[k] >= Rank[h]

\* Stamp x is beyond the watermark that the headers of table t leave.
Later(x, t) == \A k \in Headers : t[k] # 0 => x > t[k] + 1

\* Whatever happens to the run that holds the table, h is not lost.
Covered(h, table, st, sg) ==
  \/ Outranked(h, sg)
  \/ \E k \in In(table) : RefOf[k] = RefOf[h] /\ Rank[k] >= Rank[h]
  \/ Later(st[h], table)

ToFetch == {"markH", "markD", "fetchH"}
ToMerge == {"fetchD"}
ToInsert == {"checkD", "checkH", "insertD", "insertH"}

RunKept(u, st, sg, f) ==
  /\ \A k \in Headers : u.header[k] <= f
  /\ u.pc \in ToFetch =>
       /\ u.markH <= f + 1
       /\ \A h \in Headers : Pending(h, st, sg) => st[h] > u.markH \/ Outranked(h, sg)
  /\ u.pc \in ToMerge \cup ToInsert =>
       \A h \in Headers : Pending(h, st, sg) => Covered(h, u.header, st, sg)
  /\ u.pc \in ToInsert => \A h, k \in In(u.header) : RefOf[h] = RefOf[k] => h = k
  /\ u.pc \in {"insertD", "insertH"} => \A k \in In(u.header) \ u.newH : sg[k] # 0

Kept(st, sg, f, c) ==
  /\ f <= c
  /\ \A h \in Headers : st[h] <= c /\ sg[h] <= f
  /\ \A h \in Headers : Pending(h, st, sg) => Later(st[h], sg) \/ Outranked(h, sg)

KeptInv ==
  /\ Kept(stamp, stage, fetched, clock)
  /\ \A w \in Workers : RunKept(work[w], stamp, stage, fetched)

\* What every step does to the state: nothing leaves the stage, and what becomes
\* pending is younger than every fetch.
Grows(st, sg, f, st2, sg2, f2) ==
  /\ f <= f2
  /\ \A k \in Headers : sg[k] # 0 => sg2[k] # 0
  /\ \A h \in Headers : Pending(h, st2, sg2) =>
       \/ Pending(h, st, sg) /\ st2[h] >= st[h]
       \/ st2[h] > f + 1

LEMMA TimesNat == Times \subseteq Nat
BY ConstantsAssumption DEF Times

LEMMA OutrankedGrows ==
  ASSUME NEW st, NEW sg, NEW f, NEW st2, NEW sg2, NEW f2, NEW h,
         Grows(st, sg, f, st2, sg2, f2), Outranked(h, sg)
  PROVE  Outranked(h, sg2)
BY DEF Grows, Outranked

LEMMA RunKeptGrows ==
  ASSUME NEW u \in Work, NEW st \in [Rows -> Nat], NEW sg \in [Rows -> Nat], NEW f \in Nat,
         NEW st2 \in [Rows -> Nat], NEW sg2 \in [Rows -> Nat], NEW f2 \in Nat,
         Grows(st, sg, f, st2, sg2, f2), RunKept(u, st, sg, f)
  PROVE  RunKept(u, st2, sg2, f2)
<1>1. /\ u.header \in [Headers -> Nat] /\ u.markH \in Nat
      /\ f <= f2
      /\ \A h \in Headers : st[h] \in Nat /\ st2[h] \in Nat
  <2>1. u.header \in [Headers -> Times] /\ u.markH \in 0..(MaxTime + 1)
    BY DEF Work
  <2>2. u.header \in [Headers -> Nat]
    BY <2>1, TimesNat
  <2>3. u.markH \in Nat
    BY <2>1
  <2> QED
    BY <2>2, <2>3 DEF Grows, Rows
<1>2. \A k \in Headers : u.header[k] <= f2
  BY <1>1 DEF RunKept
<1>3. ASSUME u.pc \in ToFetch, NEW h \in Headers, Pending(h, st2, sg2)
      PROVE  st2[h] > u.markH \/ Outranked(h, sg2)
  <2>1. CASE Pending(h, st, sg) /\ st2[h] >= st[h]
    BY <1>1, <1>3, <2>1, OutrankedGrows DEF RunKept
  <2>2. CASE st2[h] > f + 1
    BY <1>1, <1>3, <2>2 DEF RunKept
  <2> QED
    BY <1>3, <2>1, <2>2 DEF Grows
<1>4. ASSUME u.pc \in ToMerge \cup ToInsert, NEW h \in Headers, Pending(h, st2, sg2)
      PROVE  Covered(h, u.header, st2, sg2)
  <2>1. CASE Pending(h, st, sg) /\ st2[h] >= st[h]
    <3>1. Covered(h, u.header, st, sg)
      BY <1>4, <2>1 DEF RunKept
    <3>2. Later(st[h], u.header) => Later(st2[h], u.header)
      BY <1>1, <2>1 DEF Later
    <3> QED
      BY <3>1, <3>2, OutrankedGrows DEF Covered
  <2>2. CASE st2[h] > f + 1
    <3>1. \A k \in Headers : u.header[k] <= f /\ u.header[k] \in Nat
      BY <1>1 DEF RunKept
    <3>2. Later(st2[h], u.header)
      BY <1>1, <2>2, <3>1 DEF Later
    <3> QED
      BY <3>2 DEF Covered
  <2> QED
    BY <1>4, <2>1, <2>2 DEF Grows
<1>5. u.pc \in {"insertD", "insertH"} => \A k \in In(u.header) \ u.newH : sg2[k] # 0
  BY <1>1 DEF RunKept, Grows, In
<1> QED
  BY <1>1, <1>2, <1>3, <1>4, <1>5 DEF RunKept

\* A step that inserts no header.
LEMMA KeptGrows ==
  ASSUME stamp \in [Rows -> Nat], stage \in [Rows -> Nat], fetched \in Nat, clock \in Nat,
         stamp' \in [Rows -> Nat], stage' \in [Rows -> Nat], fetched' \in Nat, clock' \in Nat,
         Grows(stamp, stage, fetched, stamp', stage', fetched'),
         Kept(stamp, stage, fetched, clock),
         fetched' <= clock', \A h \in Headers : stamp'[h] <= clock' /\ stage'[h] = stage[h]
  PROVE  Kept(stamp', stage', fetched', clock')
<1>1. \A h \in Headers : /\ stamp[h] \in Nat /\ stamp'[h] \in Nat /\ stage[h] \in Nat
                         /\ stage[h] <= fetched /\ fetched <= fetched'
  BY DEF Rows, Kept, Grows
<1>2. \A h \in Headers : stage'[h] <= fetched'
  BY <1>1
<1>3. ASSUME NEW h \in Headers, Pending(h, stamp', stage')
      PROVE  Later(stamp'[h], stage') \/ Outranked(h, stage')
  <2>1. CASE Pending(h, stamp, stage) /\ stamp'[h] >= stamp[h]
    <3>1. Later(stamp[h], stage) => Later(stamp'[h], stage')
      BY <1>1, <2>1 DEF Later
    <3>2. Outranked(h, stage) => Outranked(h, stage')
      BY DEF Outranked
    <3> QED
      BY <2>1, <3>1, <3>2 DEF Kept
  <2>2. CASE stamp'[h] > fetched + 1
    BY <1>1, <2>2 DEF Later
  <2> QED
    BY <1>3, <2>1, <2>2 DEF Grows
<1> QED
  BY <1>2, <1>3 DEF Kept

\* The headers of a run are inserted: those left out are staged already.
LEMMA KeptInsert ==
  ASSUME NEW u \in Work, NEW st \in [Rows -> Nat], NEW sg \in [Rows -> Nat], NEW f \in Nat,
         NEW c \in Nat, NEW sg2 \in [Rows -> Nat],
         Kept(st, sg, f, c), RunKept(u, st, sg, f), u.pc = "insertH",
         u.newH \subseteq In(u.header),
         \A h \in Headers : sg2[h] = IF h \in u.newH THEN u.header[h] ELSE sg[h]
  PROVE  Kept(st, sg2, f, c) /\ Grows(st, sg, f, st, sg2, f)
<1>1. /\ u.header \in [Headers -> Nat]
      /\ \A h \in Headers : st[h] \in Nat /\ sg[h] \in Nat /\ u.header[h] \in Nat
  BY TimesNat DEF Work, Rows
<1>2. /\ \A k \in Headers : u.header[k] <= f
      /\ \A h \in Headers : Pending(h, st, sg) => Covered(h, u.header, st, sg)
      /\ \A k \in In(u.header) \ u.newH : sg[k] # 0
  BY DEF RunKept, ToInsert
<1>3. /\ \A k \in In(u.header) : sg2[k] # 0
      /\ \A k \in Headers : sg[k] # 0 => sg2[k] # 0
      /\ \A h \in Headers : Pending(h, st, sg2) => Pending(h, st, sg)
  BY <1>1, <1>2 DEF In, Pending
<1>4. Grows(st, sg, f, st, sg2, f)
  BY <1>1, <1>3 DEF Grows
<1>5. \A h \in Headers : sg2[h] <= f
  BY <1>2 DEF Kept
<1>6. ASSUME NEW h \in Headers, Pending(h, st, sg2)
      PROVE  Later(st[h], sg2) \/ Outranked(h, sg2)
  <2>1. Pending(h, st, sg) /\ Covered(h, u.header, st, sg)
    BY <1>2, <1>3, <1>6
  <2>2. CASE Outranked(h, sg)
    BY <1>4, <2>2, OutrankedGrows
  <2>3. CASE \E k \in In(u.header) : RefOf[k] = RefOf[h] /\ Rank[k] >= Rank[h]
    BY <1>1, <1>3, <2>3 DEF Outranked, In
  <2>4. CASE Later(st[h], u.header) /\ ~Outranked(h, sg)
    <3>1. Later(st[h], sg)
      BY <2>1, <2>4 DEF Kept
    <3> QED
      BY <1>1, <2>4, <3>1 DEF Later
  <2> QED
    BY <2>1, <2>2, <2>3, <2>4 DEF Covered
<1> QED
  BY <1>4, <1>5, <1>6 DEF Kept

\* The parts of a step that matter here, for the steps whose new locals are computed.
LEMMA ReadHeaderMarkShape ==
  ASSUME NEW w \in Workers, ReadHeaderMark(w)
  PROVE  /\ \E m \in 0..(MaxTime + 1) :
              IsMark(m, Headers) /\ Goes(w, [work[w] EXCEPT !.pc = "markD", !.markH = m])
         /\ UNCHANGED <<stamp, stage, fetched, clock>>
BY DEF ReadHeaderMark, bigquery, mssql

LEMMA ReadDetailMarkShape ==
  ASSUME NEW w \in Workers, ReadDetailMark(w)
  PROVE  /\ \E m \in 0..(MaxTime + 1) :
              /\ IsMark(m, Details)
              /\ Goes(w, [work[w] EXCEPT !.pc = "fetchH",
                                         !.markD = IF m = 0 THEN work[w].markH ELSE m])
         /\ UNCHANGED <<stamp, stage, fetched, clock>>
BY DEF ReadDetailMark, bigquery, mssql

LEMMA FetchDetailsShape ==
  ASSUME NEW w \in Workers, FetchDetails(w)
  PROVE  /\ work[w].pc = "fetchD"
         /\ UNCHANGED <<stamp, stage, clock>> /\ fetched' = clock
         /\ \/ Leave(w)
            \/ \E K \in SUBSET In(work[w].header) :
                 /\ IsMerge(K, work[w].header)
                 /\ Goes(w, [work[w] EXCEPT !.pc = "checkD", !.markD = 0,
                               !.detail = Since(Details, work[w].markD),
                               !.header = [h \in Headers |-> IF h \in K THEN @[h] ELSE 0]])
BY DEF FetchDetails, bigquery, mssql, At

LEMMA CheckDetailsShape ==
  ASSUME NEW w \in Workers, CheckDetails(w)
  PROVE  \E D : Goes(w, [work[w] EXCEPT !.pc = "checkH", !.newD = D])
BY DEF CheckDetails

LEMMA HeaderConflictShape ==
  ASSUME NEW w \in Workers, HeaderConflict(w)
  PROVE  \E c \in work[w].newH :
           /\ Staged(c)
           /\ \E S \in Leftover(work[w].newH) : Insert(S, work[w].header)
           /\ Goes(w, [work[w] EXCEPT !.pc = "insertD", !.newH = Pruned(@, c)])
BY DEF HeaderConflict

LEMMA KeptStep ==
  ASSUME TypeInv, TypeInv', KeptInv, [Next]_vars, "close" \notin Faults, "chunks" \notin Faults
  PROVE  KeptInv'
<1> DEFINE Mono == Grows(stamp, stage, fetched, stamp', stage', fetched')
           Core == Kept(stamp', stage', fetched', clock')
           Run(u) == RunKept(u, stamp', stage', fetched')
<1>1. /\ stamp \in [Rows -> Nat] /\ stamp' \in [Rows -> Nat]
      /\ stage \in [Rows -> Nat] /\ stage' \in [Rows -> Nat]
      /\ fetched \in Nat /\ fetched' \in Nat /\ clock \in Nat /\ clock' \in Nat
  BY TimesNat DEF TypeInv, TypeOK
<1>2. /\ work \in [Workers -> Work] /\ work' \in [Workers -> Work]
      /\ \A w \in Workers : work[w] \in Work
  BY DEF TypeInv, TypeOK
<1>3. /\ Kept(stamp, stage, fetched, clock)
      /\ \A w \in Workers : RunKept(work[w], stamp, stage, fetched)
      /\ fetched <= clock /\ \A h \in Headers : stamp[h] <= clock /\ stage[h] <= fetched
  BY DEF KeptInv, Kept
<1>0. /\ \A h \in Headers : /\ stamp[h] \in Nat /\ stamp'[h] \in Nat
                            /\ stage[h] \in Nat /\ stage'[h] \in Nat
  BY <1>1 DEF Rows
<1>4. ASSUME Mono, NEW w \in Workers
      PROVE  Run(work[w])
  BY <1>1, <1>2, <1>3, <1>4, RunKeptGrows
<1>5. ASSUME Mono, Core, UNCHANGED work
      PROVE  KeptInv'
  BY <1>4, <1>5 DEF KeptInv
<1>6. ASSUME Mono, Core, NEW w \in Workers, NEW u, Goes(w, u), Run(u)
      PROVE  KeptInv'
  <2>1. \A v \in Workers : work'[v] = IF v = w THEN u ELSE work[v]
    BY <1>2, <1>6 DEF Goes
  <2> HIDE DEF Run, Mono, Core
  <2>2. \A v \in Workers : Run(work'[v])
    BY <1>4, <1>6, <2>1
  <2> QED
    BY <1>6, <2>2 DEF KeptInv, Run, Core
<1>7. ASSUME UNCHANGED stamp, UNCHANGED clock, \A h \in Headers : stage'[h] = stage[h],
             fetched' = fetched \/ fetched' = clock
      PROVE  Mono /\ Core
  <2>1. Mono
    BY <1>0, <1>1, <1>3, <1>7 DEF Grows, Pending
  <2>2. fetched' <= clock' /\ \A h \in Headers : stamp'[h] <= clock'
    BY <1>1, <1>3, <1>7
  <2> HIDE DEF Mono
  <2>3. Core
    BY <1>1, <1>3, <1>7, <2>1, <2>2, KeptGrows DEF Mono
  <2> QED
    BY <2>1, <2>3
<1>8. Run(Idle)
  BY <1>1 DEF RunKept, Idle, In, ToFetch, ToMerge, ToInsert
<1>9. ASSUME Mono, Core, NEW w \in Workers, Leave(w)
      PROVE  KeptInv'
  BY <1>6, <1>8, <1>9 DEF Leave
<1>10. ASSUME NEW S, NEW T \in Leftover(S), NEW table, Insert(T, table)
       PROVE  \A h \in Headers : stage'[h] = stage[h]
  BY <1>10 DEF Leftover, Insert, Rows
<1> USE DEF bigquery, mssql, bc
<1>11. CASE Tick
  <2>1. Mono
    BY <1>0, <1>1, <1>11 DEF Tick, Grows, Pending
  <2>2. fetched' <= clock' /\ \A h \in Headers : stamp'[h] <= clock' /\ stage'[h] = stage[h]
    BY <1>0, <1>1, <1>3, <1>11 DEF Tick
  <2> HIDE DEF Mono
  <2>3. Core
    BY <1>1, <1>3, <2>1, <2>2, KeptGrows DEF Mono
  <2> QED
    BY <1>5, <1>11, <2>1, <2>3 DEF Tick
<1>12. CASE \E r \in Rows : ServeAgain(r) \/ \E t \in Times : Appear(r, t)
  <2>1. PICK r \in Rows, t \in Nat :
          /\ stamp' = [stamp EXCEPT ![r] = t] /\ t = clock /\ t > fetched + 1
          /\ UNCHANGED <<clock, fetched, stage, work>>
    BY <1>1, <1>12, TimesNat DEF ServeAgain, Appear, Orderly
  <2>2. \A h \in Headers : stamp'[h] = IF h = r THEN t ELSE stamp[h]
    BY <1>1, <2>1 DEF Rows
  <2>3. Mono
    BY <1>0, <1>1, <2>1, <2>2 DEF Grows, Pending
  <2>4. fetched' <= clock' /\ \A h \in Headers : stamp'[h] <= clock' /\ stage'[h] = stage[h]
    BY <1>0, <1>1, <1>3, <2>1, <2>2
  <2> HIDE DEF Mono
  <2>5. Core
    BY <1>1, <1>3, <2>3, <2>4, KeptGrows DEF Mono
  <2> QED
    BY <1>5, <2>1, <2>3, <2>5
<1>13. CASE Request \/ (\E o \in topic : Import(o)) \/ (\E h \in Headers : Backfill(h)) \/ UNCHANGED vars
  BY <1>5, <1>7, <1>13 DEF Request, Import, Backfill, vars
<1> HIDE DEF Mono, Core
<1>14. CASE \E w \in Workers : Start(w)
  <2>1. PICK w \in Workers : Start(w)
    BY <1>14
  <2> DEFINE u == [Idle EXCEPT !.pc = "markH"]
  <2>2. u.pc = "markH" /\ u.markH = 0 /\ u.header = Idle.header
    BY DEF Idle
  <2>3. Run(u)
    BY <1>0, <1>1, <2>2 DEF RunKept, Pending, Idle, ToFetch, ToMerge, ToInsert
  <2> QED
    BY <1>6, <1>7, <2>1, <2>3 DEF Start
<1>15. CASE \E w \in Workers : Fail(w)
  <2>1. PICK w \in Workers : Fail(w)
    BY <1>15
  <2>2. CASE Crash(w) \/ FetchFails(w) \/ CheckFails(w) \/ PublishFails(w)
    BY <1>7, <1>9, <2>2 DEF Crash, FetchFails, CheckFails, PublishFails
  <2>3. CASE InsertFails(w)
    <3>1. \A h \in Headers : stage'[h] = stage[h]
      BY <1>10, <2>3 DEF InsertFails
    <3> QED
      BY <1>7, <1>9, <2>3, <3>1 DEF InsertFails
  <2>4. CASE MarksFail(w)
    <3> DEFINE u == [work[w] EXCEPT !.pc = "fetchH"]
    <3>1. work[w].pc \in ToFetch
      BY <2>4 DEF MarksFail, At, ToFetch
    <3>2. u.pc = "fetchH" /\ u.markH = work[w].markH /\ u.header = work[w].header
      BY <1>2 DEF Work
    <3>3. Mono /\ Core
      BY <1>7, <2>4 DEF MarksFail
    <3>4. Run(work[w])
      BY <1>4, <3>3
    <3>5. Run(u)
      BY <3>1, <3>2, <3>4 DEF RunKept, ToFetch, ToMerge, ToInsert
    <3> QED
      BY <1>6, <2>4, <3>3, <3>5 DEF MarksFail
  <2> QED
    BY <2>1, <2>2, <2>3, <2>4 DEF Fail
<1>16. CASE \E w \in Workers : Step(w)
  <2>1. PICK w \in Workers : Step(w)
    BY <1>16
  <2>2. work[w] \in Work /\ RunKept(work[w], stamp, stage, fetched)
    BY <1>2, <1>3
  <2>3. CASE ReadHeaderMark(w)
    <3>1. PICK m \in 0..(MaxTime + 1) :
            IsMark(m, Headers) /\ Goes(w, [work[w] EXCEPT !.pc = "markD", !.markH = m])
      BY <2>3, ReadHeaderMarkShape
    <3> DEFINE u == [work[w] EXCEPT !.pc = "markD", !.markH = m]
    <3>2. u.pc = "markD" /\ u.markH = m /\ u.header = work[w].header
      BY <2>2 DEF Work
    <3>3. m <= fetched + 1
      BY <1>0, <1>1, <1>3, <3>1 DEF IsMark, Staged
    <3>4. \A h \in Headers : Pending(h, stamp, stage) => stamp[h] > m \/ Outranked(h, stage)
      BY <1>0, <1>1, <1>3, <3>1 DEF IsMark, Staged, Kept, Later, Pending
    <3>5. stamp' = stamp /\ stage' = stage /\ fetched' = fetched /\ clock' = clock
      BY <2>3 DEF ReadHeaderMark
    <3>6. Run(u)
      BY <2>2, <3>2, <3>3, <3>4, <3>5 DEF RunKept, ToFetch, ToMerge, ToInsert
    <3> QED
      BY <1>6, <1>7, <3>1, <3>5, <3>6
  <2>4. CASE ReadDetailMark(w)
    <3>1. PICK n : Goes(w, [work[w] EXCEPT !.pc = "fetchH", !.markD = n])
      BY <2>4, ReadDetailMarkShape
    <3> DEFINE u == [work[w] EXCEPT !.pc = "fetchH", !.markD = n]
    <3>2. u.pc = "fetchH" /\ u.markH = work[w].markH /\ u.header = work[w].header
      BY <2>2 DEF Work
    <3>3. stamp' = stamp /\ stage' = stage /\ fetched' = fetched /\ clock' = clock
          /\ work[w].pc \in ToFetch
      BY <2>4 DEF ReadDetailMark, At, ToFetch
    <3>4. Run(u)
      BY <2>2, <3>2, <3>3 DEF RunKept, ToFetch, ToMerge, ToInsert
    <3> QED
      BY <1>6, <1>7, <3>1, <3>3, <3>4
  <2>5. CASE FetchHeaders(w)
    <3> DEFINE table == Since(Headers, work[w].markH)
               u == [work[w] EXCEPT !.pc = "fetchD", !.markH = 0, !.header = table]
    <3>1. u.pc = "fetchD" /\ u.header = table
      BY <2>2 DEF Work
    <3>2. stamp' = stamp /\ stage' = stage /\ fetched' = clock /\ clock' = clock
          /\ Goes(w, u) /\ work[w].pc \in ToFetch
      BY <2>5 DEF FetchHeaders, At, ToFetch
    <3>3. \A k \in Headers : table[k] <= clock
      BY <1>0, <1>1, <1>3 DEF Since
    <3>4. ASSUME NEW h \in Headers, Pending(h, stamp, stage)
          PROVE  Covered(h, table, stamp, stage)
      <4>1. stamp[h] > work[w].markH \/ Outranked(h, stage)
        BY <2>2, <3>2, <3>4 DEF RunKept
      <4>2. stamp[h] > work[w].markH => h \in In(table)
        BY <3>4 DEF Since, In, Pending
      <4>3. Rank[h] >= Rank[h]
        BY ConstantsAssumption
      <4> QED
        BY <4>1, <4>2, <4>3 DEF Covered
    <3> HIDE DEF table
    <3>5. Run(u)
      BY <3>1, <3>2, <3>3, <3>4 DEF RunKept, ToFetch, ToMerge, ToInsert
    <3> QED
      BY <1>6, <1>7, <3>2, <3>5
  <2>6. CASE FetchDetails(w)
    <3>1. CASE Leave(w)
      BY <1>7, <1>9, <2>6, <3>1, FetchDetailsShape
    <3>2. CASE ~Leave(w)
      <4>1. PICK K \in SUBSET In(work[w].header) :
              /\ IsMerge(K, work[w].header)
              /\ Goes(w, [work[w] EXCEPT !.pc = "checkD", !.markD = 0,
                            !.detail = Since(Details, work[w].markD),
                            !.header = [h \in Headers |-> IF h \in K THEN @[h] ELSE 0]])
        BY <2>6, <3>2, FetchDetailsShape
      <4> DEFINE table == [h \in Headers |-> IF h \in K THEN work[w].header[h] ELSE 0]
                 D == Since(Details, work[w].markD)
                 u == [work[w] EXCEPT !.pc = "checkD", !.markD = 0, !.detail = D,
                                      !.header = table]
      <4>2. Goes(w, u)
        BY <4>1
      <4>3. stamp' = stamp /\ stage' = stage /\ fetched' = clock /\ clock' = clock
            /\ work[w].pc = "fetchD"
        BY <2>6, FetchDetailsShape
      <4>4. work[w].header \in [Headers -> Times]
        BY <2>2 DEF Work
      <4>5. In(table) = K /\ \A h \in K : table[h] = work[w].header[h] /\ h \in Headers
        BY <4>1, <4>4 DEF In
      <4>6. \A k \in Headers : table[k] <= clock
        <5>1. \A k \in Headers : work[w].header[k] <= fetched /\ work[w].header[k] \in Nat
          BY <2>2, <4>4, TimesNat DEF RunKept
        <5> QED
          BY <1>1, <1>3, <5>1
      <4>7. \A h, k \in In(table) : RefOf[h] = RefOf[k] => h = k
        BY <4>1, <4>5 DEF IsMerge
      <4>8. ASSUME NEW h \in Headers, Pending(h, stamp, stage)
            PROVE  Covered(h, table, stamp, stage)
        <5>1. Covered(h, work[w].header, stamp, stage)
          BY <2>2, <4>3, <4>8 DEF RunKept, ToMerge
        <5>2. CASE \E k \in In(work[w].header) : RefOf[k] = RefOf[h] /\ Rank[k] >= Rank[h]
          <6>1. PICK k \in In(work[w].header) : RefOf[k] = RefOf[h] /\ Rank[k] >= Rank[h]
            BY <5>2
          <6>2. PICK j \in K : RefOf[j] = RefOf[k] /\ AtLeastAsGood(j, k, work[w].header)
            BY <4>1 DEF IsMerge
          <6>3. Rank[j] \in Nat /\ Rank[k] \in Nat /\ Rank[h] \in Nat
            BY <4>4, <4>5, ConstantsAssumption DEF In
          <6>4. Rank[j] >= Rank[h]
            BY <6>1, <6>2, <6>3 DEF AtLeastAsGood
          <6> QED
            BY <4>5, <6>1, <6>2, <6>4 DEF Covered
        <5>3. CASE Later(stamp[h], work[w].header)
          <6>1. Later(stamp[h], table)
            BY <5>3 DEF Later
          <6> QED
            BY <6>1 DEF Covered
        <5> QED
          BY <5>1, <5>2, <5>3 DEF Covered
      <4> HIDE DEF table, D
      <4>9. u.pc = "checkD" /\ u.header = table
        BY <2>2 DEF Work
      <4>10. Run(u)
        BY <4>3, <4>6, <4>7, <4>8, <4>9 DEF RunKept, ToFetch, ToMerge, ToInsert
      <4> QED
        BY <1>6, <1>7, <4>2, <4>3, <4>10
    <3> QED
      BY <3>1, <3>2
  <2>7. CASE CheckDetails(w)
    <3>1. PICK D : Goes(w, [work[w] EXCEPT !.pc = "checkH", !.newD = D])
      BY <2>7, CheckDetailsShape
    <3> DEFINE u == [work[w] EXCEPT !.pc = "checkH", !.newD = D]
    <3>2. u.pc = "checkH" /\ u.header = work[w].header
      BY <2>2 DEF Work
    <3>3. stamp' = stamp /\ stage' = stage /\ fetched' = fetched /\ clock' = clock
          /\ work[w].pc = "checkD"
      BY <2>7 DEF CheckDetails, At
    <3>4. Run(u)
      BY <2>2, <3>2, <3>3 DEF RunKept, ToFetch, ToMerge, ToInsert
    <3> QED
      BY <1>6, <1>7, <3>1, <3>3, <3>4
  <2>8. CASE CheckHeaders(w)
    <3> DEFINE new == In(work[w].header) \ {h \in In(work[w].header) : Staged(h)}
               u == [work[w] EXCEPT !.pc = "insertD", !.newH = new]
    <3>1. Goes(w, u)
      BY <2>8 DEF CheckHeaders
    <3>2. u.pc = "insertD" /\ u.header = work[w].header /\ u.newH = new
      BY <2>2 DEF Work
    <3>3. stamp' = stamp /\ stage' = stage /\ fetched' = fetched /\ clock' = clock
          /\ work[w].pc = "checkH"
      BY <2>8 DEF CheckHeaders, At
    <3>4. \A k \in In(work[w].header) \ new : stage[k] # 0
      BY DEF Staged
    <3> HIDE DEF new
    <3>5. Run(u)
      BY <2>2, <3>2, <3>3, <3>4 DEF RunKept, ToFetch, ToMerge, ToInsert
    <3> QED
      BY <1>6, <1>7, <3>1, <3>3, <3>5
  <2>9. CASE InsertDetails(w)
    <3> DEFINE u == [work[w] EXCEPT !.pc = "insertH"]
    <3>1. Goes(w, u) /\ work[w].pc = "insertD"
      BY <2>9 DEF InsertDetails, At
    <3>2. u.pc = "insertH" /\ u.header = work[w].header /\ u.newH = work[w].newH
      BY <2>2 DEF Work
    <3>3. \A h \in Headers : stage'[h] = stage[h]
      <4>1. work[w].newD \subseteq Details
        BY <2>2 DEF Work
      <4> QED
        BY <2>9, <4>1, ConstantsAssumption DEF InsertDetails, Insert, Rows
    <3>4. Mono /\ Core
      BY <1>7, <2>9, <3>3 DEF InsertDetails
    <3>5. Run(work[w])
      BY <1>4, <3>4
    <3>6. Run(u)
      BY <3>1, <3>2, <3>5 DEF RunKept, ToFetch, ToMerge, ToInsert
    <3> QED
      BY <1>6, <3>1, <3>4, <3>6
  <2>10. CASE DetailConflict(w)
    <3>1. PICK c : /\ \E S \in Leftover(work[w].newD) : Insert(S, work[w].detail)
                   /\ Goes(w, [work[w] EXCEPT !.newD = Pruned(@, c)])
      BY <2>10 DEF DetailConflict
    <3> DEFINE new == Pruned(work[w].newD, c)
               u == [work[w] EXCEPT !.newD = new]
    <3>2. Goes(w, u) /\ work[w].pc = "insertD"
      BY <2>10, <3>1 DEF DetailConflict, At
    <3> HIDE DEF new
    <3>3. u.pc = "insertD" /\ u.header = work[w].header /\ u.newH = work[w].newH
      BY <2>2, <3>2 DEF Work
    <3>4. Mono /\ Core
      BY <1>7, <1>10, <2>10, <3>1 DEF DetailConflict
    <3>5. Run(work[w])
      BY <1>4, <3>4
    <3>6. Run(u)
      BY <3>2, <3>3, <3>5 DEF RunKept, ToFetch, ToMerge, ToInsert
    <3> QED
      BY <1>6, <3>2, <3>4, <3>6
  <2>11. CASE InsertHeaders(w)
    <3> DEFINE u == [work[w] EXCEPT !.pc = "verify", !.newD = {}]
    <3>1. /\ Goes(w, u) /\ work[w].pc = "insertH"
          /\ stamp' = stamp /\ fetched' = fetched /\ clock' = clock
      BY <2>11 DEF InsertHeaders, At
    <3>2. u.pc = "verify" /\ u.header = work[w].header
      BY <2>2 DEF Work
    <3>3. work[w].newH \subseteq In(work[w].header)
      BY <3>1 DEF TypeInv, Sound
    <3>4. \A h \in Headers :
            stage'[h] = IF h \in work[w].newH THEN work[w].header[h] ELSE stage[h]
      BY <2>11 DEF InsertHeaders, Insert, Rows
    <3>5. Mono /\ Core
      BY <1>1, <1>3, <2>2, <3>1, <3>3, <3>4, KeptInsert DEF Mono, Core
    <3>6. Run(u)
      BY <2>2, <3>1, <3>2 DEF RunKept, ToFetch, ToMerge, ToInsert
    <3> QED
      BY <1>6, <3>1, <3>5, <3>6
  <2>12. CASE HeaderConflict(w)
    <3>1. PICK c \in work[w].newH :
            /\ Staged(c)
            /\ \E S \in Leftover(work[w].newH) : Insert(S, work[w].header)
            /\ Goes(w, [work[w] EXCEPT !.pc = "insertD", !.newH = Pruned(@, c)])
      BY <2>12, HeaderConflictShape
    <3> DEFINE new == Pruned(work[w].newH, c)
               u == [work[w] EXCEPT !.pc = "insertD", !.newH = new]
    <3>2. Goes(w, u) /\ work[w].pc = "insertH"
      BY <2>12, <3>1 DEF HeaderConflict, At
    <3>3. work[w].newH \subseteq In(work[w].header)
      BY <3>2 DEF TypeInv, Sound
    <3>4. \A k \in work[w].newH \ new : k = c
      BY <2>2, <3>2, <3>3 DEF Pruned, Of, RunKept, ToInsert
    <3> HIDE DEF new
    <3>5. u.pc = "insertD" /\ u.header = work[w].header /\ u.newH = new
      BY <2>2 DEF Work
    <3>6. Mono /\ Core
      BY <1>7, <1>10, <2>12, <3>1 DEF HeaderConflict
    <3>7. \A h \in Headers : stage'[h] = stage[h]
      BY <1>10, <3>1
    <3>8. Run(work[w])
      BY <1>4, <3>6
    <3>9. \A k \in In(u.header) \ u.newH : stage'[k] # 0
      <4>1. c \in Headers /\ stage'[c] # 0
        BY <2>2, <3>1, <3>7 DEF Work, Staged
      <4>2. \A k \in In(work[w].header) \ work[w].newH : stage'[k] # 0
        BY <3>2, <3>8 DEF RunKept
      <4> QED
        BY <3>4, <3>5, <4>1, <4>2
    <3>10. Run(u)
      BY <3>2, <3>5, <3>8, <3>9 DEF RunKept, ToFetch, ToMerge, ToInsert
    <3> QED
      BY <1>6, <3>2, <3>6, <3>10
  <2>13. CASE Verify(w)
    <3> DEFINE u == [work[w] EXCEPT !.pc = "publish", !.checked = TRUE,
                                    !.promoted = PromotedRefs(w)]
               v == [work[w] EXCEPT !.pc = "publish"]
    <3>1. u.pc = "publish" /\ u.header = work[w].header /\ v.pc = "publish" /\ v.header = work[w].header
      BY <2>2 DEF Work
    <3>2. stamp' = stamp /\ stage' = stage /\ fetched' = fetched /\ clock' = clock
          /\ (Goes(w, u) \/ Goes(w, v))
      BY <2>13 DEF Verify
    <3>3. Run(u) /\ Run(v)
      BY <2>2, <3>1, <3>2 DEF RunKept, ToFetch, ToMerge, ToInsert
    <3> QED
      BY <1>6, <1>7, <3>2, <3>3
  <2>14. CASE Publish(w)
    <3> DEFINE u == [work[w] EXCEPT !.pc = "record", !.header = Idle.header, !.detail = Idle.detail]
    <3>1. u.pc = "record" /\ u.header = Idle.header
      BY <2>2 DEF Work
    <3>2. stamp' = stamp /\ stage' = stage /\ fetched' = fetched /\ clock' = clock /\ Goes(w, u)
      BY <2>14 DEF Publish
    <3>3. Run(u)
      BY <1>1, <3>1 DEF RunKept, ToFetch, ToMerge, ToInsert, Idle
    <3> QED
      BY <1>6, <1>7, <3>2, <3>3
  <2>15. CASE Record(w)
    BY <1>7, <1>9, <2>15 DEF Record
  <2> QED
    BY <2>1, <2>3, <2>4, <2>5, <2>6, <2>7, <2>8, <2>9, <2>10, <2>11, <2>12, <2>13, <2>14,
       <2>15 DEF Step
<1> QED
  BY <1>11, <1>12, <1>13, <1>14, <1>15, <1>16 DEF Next

LEMMA KeptInit == Init => KeptInv
BY ConstantsAssumption
   DEF Init, KeptInv, Kept, RunKept, Pending, Rows, Idle, ToFetch, ToMerge, ToInsert

\* If a row never becomes visible with a stamp that a fetch has passed, and an insert
\* that fails leaves nothing behind, no header is passed over: whatever else fails and
\* however many runs overlap.
THEOREM HeadersAreKept ==
  ASSUME "close" \notin Faults, "chunks" \notin Faults
  PROVE  Spec => []HeadersKept
<1>1. Init => TypeInv /\ KeptInv
  BY InitType, KeptInit
<1>2. TypeInv /\ KeptInv /\ [Next]_vars => TypeInv' /\ KeptInv'
  BY StepType, KeptStep
<1>3. TypeInv /\ KeptInv => HeadersKept
  <2> SUFFICES ASSUME TypeInv, KeptInv, NEW h \in Headers, Visible(h), ~Staged(h)
               PROVE  \/ Newer(h, Headers)
                      \/ \E k \in Headers : Staged(k) /\ RefOf[k] = RefOf[h] /\ Rank[k] >= Rank[h]
    BY DEF HeadersKept
  <2>1. Later(stamp[h], stage) \/ Outranked(h, stage)
    BY DEF KeptInv, Kept, Pending, Visible, Staged
  <2>2. CASE Outranked(h, stage)
    BY <2>2 DEF Outranked, Staged
  <2>3. CASE Later(stamp[h], stage)
    <3>1. stamp[h] \in Nat /\ stamp[h] # 0
      BY TimesNat DEF TypeInv, TypeOK, Visible, Rows
    <3> QED
      BY <2>3, <3>1 DEF Newer, IsMark, Later, Staged
  <2> QED
    BY <2>1, <2>2, <2>3
<1> QED
  BY <1>1, <1>2, <1>3, PTL DEF Spec

-----------------------------------------------------------------------------
(* No detail is passed over, while runs do not overlap. *)

OneRun ==
  \A v, w \in Workers : work[v].pc # "idle" /\ work[w].pc # "idle" => v = w

\* Stamp x is beyond the watermark that the details of table t leave.
LaterDetail(x, t) == \A e \in Details : t[e] # 0 => x > t[e] + 1

NoneStaged(sg) == \A e \in Details : sg[e] = 0

DetailsCore(st, sg, f, c) ==
  /\ \A d \in Details : st[d] <= c /\ sg[d] <= f
  /\ \A d \in Details : Pending(d, st, sg) =>
       /\ LaterDetail(st[d], sg)
       /\ NoneStaged(sg) => Later(st[d], sg)

\* Until it is inserted, a detail is ahead of the run: beyond its watermark, in its
\* tables, or younger than its fetches.
DetailsRun(u, st, sg, f) ==
  /\ \A d \in Details : u.detail[d] <= f
  /\ u.pc \in {"markH", "markD"} => u.markD = 0
  /\ u.pc = "markD" /\ NoneStaged(sg) =>
       \A d \in Details : Pending(d, st, sg) => st[d] > u.markH
  /\ u.pc \in {"fetchH", "fetchD"} =>
       /\ u.markD <= f + 1
       /\ \A d \in Details : Pending(d, st, sg) => st[d] > u.markD
  /\ u.pc = "checkD" =>
       \A d \in Details : Pending(d, st, sg) => d \in In(u.detail) \/ st[d] > f + 1
  /\ u.pc \in {"checkH", "insertD"} =>
       /\ \A d \in Details : Pending(d, st, sg) => d \in u.newD \/ st[d] > f + 1
       /\ \A d \in u.newD : sg[d] = 0
  /\ u.pc = "insertH" => \A d \in Details : Pending(d, st, sg) => st[d] > f + 1
  /\ u.pc \in {"insertD", "insertH"} => \A h \in u.newH : sg[h] = 0

DetailsInv ==
  /\ OneRun
  /\ DetailsCore(stamp, stage, fetched, clock)
  /\ \A w \in Workers : DetailsRun(work[w], stamp, stage, fetched)

\* Only the stamps change, and what becomes pending is younger than every fetch.
LEMMA DetailsRunYounger ==
  ASSUME NEW u \in Work, NEW st \in [Rows -> Nat], NEW sg \in [Rows -> Nat], NEW f \in Nat,
         NEW st2 \in [Rows -> Nat],
         DetailsRun(u, st, sg, f), RunKept(u, st, sg, f),
         \A d \in Details : Pending(d, st2, sg) =>
           (Pending(d, st, sg) /\ st2[d] = st[d]) \/ st2[d] > f + 1
  PROVE  DetailsRun(u, st2, sg, f)
<1>1. u.markH \in 0..(MaxTime + 1) /\ u.markD \in 0..(MaxTime + 1)
  BY DEF Work
<1>2. u.markH \in Nat /\ u.markD \in Nat
  BY <1>1
<1>3. \A d \in Details : st2[d] \in Nat /\ st[d] \in Nat
  BY DEF Rows
<1>4. u.pc = "markD" /\ NoneStaged(sg) =>
        \A d \in Details : Pending(d, st2, sg) => st2[d] > u.markH
  BY <1>2, <1>3 DEF DetailsRun, RunKept, ToFetch
<1>5. u.pc \in {"fetchH", "fetchD"} =>
        /\ u.markD <= f + 1
        /\ \A d \in Details : Pending(d, st2, sg) => st2[d] > u.markD
  BY <1>2, <1>3 DEF DetailsRun
<1> QED
  BY <1>4, <1>5 DEF DetailsRun

LEMMA DetailsStep ==
  ASSUME TypeInv, TypeInv', KeptInv, KeptInv', DetailsInv, [Next]_vars,
         "close" \notin Faults, "chunks" \notin Faults, "overlap" \notin Faults
  PROVE  DetailsInv'
<1> DEFINE Core == DetailsCore(stamp', stage', fetched', clock')
           Run(u) == DetailsRun(u, stamp', stage', fetched')
<1>1. /\ stamp \in [Rows -> Nat] /\ stamp' \in [Rows -> Nat]
      /\ stage \in [Rows -> Nat] /\ stage' \in [Rows -> Nat]
      /\ fetched \in Nat /\ fetched' \in Nat /\ clock \in Nat /\ clock' \in Nat
  BY TimesNat DEF TypeInv, TypeOK
<1>2. /\ work \in [Workers -> Work] /\ work' \in [Workers -> Work]
      /\ \A w \in Workers : work[w] \in Work
  BY DEF TypeInv, TypeOK
<1>3. /\ OneRun
      /\ DetailsCore(stamp, stage, fetched, clock)
      /\ \A w \in Workers : /\ DetailsRun(work[w], stamp, stage, fetched)
                            /\ RunKept(work[w], stamp, stage, fetched)
      /\ fetched <= clock /\ fetched' <= clock'
      /\ \A h \in Headers : stage[h] <= fetched /\ stage'[h] <= fetched'
      /\ \A d \in Details : stamp[d] <= clock /\ stage[d] <= fetched
  BY DEF KeptInv, Kept, DetailsInv, DetailsCore
<1>0. /\ \A d \in Details : /\ stamp[d] \in Nat /\ stamp'[d] \in Nat
                            /\ stage[d] \in Nat /\ stage'[d] \in Nat
      /\ \A h \in Headers : stage[h] \in Nat /\ stage'[h] \in Nat
  BY <1>1 DEF Rows
<1>4. ASSUME UNCHANGED <<stage, fetched, work>>, Core,
             \A d \in Details : Pending(d, stamp', stage) =>
               (Pending(d, stamp, stage) /\ stamp'[d] = stamp[d]) \/ stamp'[d] > fetched + 1
      PROVE  DetailsInv'
  <2>1. \A w \in Workers : Run(work[w])
    BY <1>1, <1>2, <1>3, <1>4, DetailsRunYounger
  <2> QED
    BY <1>3, <1>4, <2>1 DEF DetailsInv, OneRun
<1>5. ASSUME NEW u, u.pc \in {"idle", "verify", "publish", "record"},
             \A d \in Details : u.detail[d] <= fetched'
      PROVE  Run(u)
  BY <1>5 DEF DetailsRun
<1>6. Run(Idle) /\ Idle.pc = "idle"
  BY <1>1, <1>5 DEF Idle
<1>7. ASSUME NEW w \in Workers, NEW u, Goes(w, u), Run(u), Core,
             \A v \in Workers \ {w} : work[v].pc = "idle",
             fetched' = fetched \/ fetched' = clock
      PROVE  DetailsInv'
  <2>1. \A v \in Workers : work'[v] = IF v = w THEN u ELSE work[v]
    BY <1>2, <1>7 DEF Goes
  <2>2. ASSUME NEW v \in Workers \ {w}
        PROVE  Run(work[v])
    <3>1. \A d \in Details : work[v].detail[d] <= fetched
      BY <1>3 DEF DetailsRun
    <3>2. \A d \in Details : work[v].detail[d] \in Nat
      BY <1>2, TimesNat DEF Work
    <3>3. \A d \in Details : work[v].detail[d] <= fetched'
      BY <1>1, <1>3, <1>7, <3>1, <3>2
    <3> QED
      BY <1>5, <1>7, <3>3
  <2> HIDE DEF Run, Core
  <2>3. \A v \in Workers : Run(work'[v])
    BY <1>7, <2>1, <2>2
  <2>4. OneRun'
    BY <1>7, <2>1 DEF OneRun
  <2> QED
    BY <1>7, <2>3, <2>4 DEF DetailsInv, Run, Core
<1>8. ASSUME UNCHANGED <<stamp, clock>>, \A d \in Details : stage'[d] = stage[d],
             \A h \in Headers : stage'[h] = stage[h], fetched' = fetched \/ fetched' = clock
      PROVE  Core
  <2>1. \A d \in Details : stamp'[d] <= clock' /\ stage'[d] <= fetched'
    BY <1>0, <1>1, <1>3, <1>8
  <2>2. \A d \in Details : Pending(d, stamp', stage') =>
          LaterDetail(stamp'[d], stage') /\ (NoneStaged(stage') => Later(stamp'[d], stage'))
    BY <1>3, <1>8 DEF DetailsCore, Pending, LaterDetail, NoneStaged, Later
  <2> QED
    BY <2>1, <2>2 DEF DetailsCore
<1>9. ASSUME NEW w \in Workers, work[w].pc # "idle"
      PROVE  \A v \in Workers \ {w} : work[v].pc = "idle"
  BY <1>3, <1>9 DEF OneRun
<1>10. ASSUME NEW w \in Workers, Leave(w), work[w].pc # "idle", Core,
              fetched' = fetched \/ fetched' = clock
       PROVE  DetailsInv'
  BY <1>6, <1>7, <1>9, <1>10 DEF Leave
<1>11. ASSUME NEW S, NEW T \in Leftover(S), NEW table, Insert(T, table)
       PROVE  /\ \A h \in Headers : stage'[h] = stage[h]
              /\ \A d \in Details : stage'[d] = stage[d]
  BY <1>11 DEF Leftover, Insert, Rows
<1> USE DEF bigquery, mssql, bc
<1>12. CASE Tick \/ Request \/ (\E o \in topic : Import(o)) \/ (\E h \in Headers : Backfill(h))
            \/ UNCHANGED vars
  <2>1. UNCHANGED <<stamp, stage, fetched, work>> /\ clock' >= clock
    BY <1>1, <1>12 DEF Tick, Request, Import, Backfill, vars
  <2>2. Core
    BY <1>0, <1>1, <1>3, <2>1 DEF DetailsCore
  <2> HIDE DEF Core
  <2> QED
    BY <1>4, <2>1, <2>2 DEF Pending
<1>13. CASE \E r \in Rows : ServeAgain(r) \/ \E t \in Times : Appear(r, t)
  <2>1. PICK r \in Rows, t \in Nat :
          /\ stamp' = [stamp EXCEPT ![r] = t] /\ t = clock /\ t > fetched + 1
          /\ UNCHANGED <<clock, fetched, stage, work>>
    BY <1>1, <1>13, TimesNat DEF ServeAgain, Appear, Orderly
  <2>2. \A d \in Details : stamp'[d] = IF d = r THEN t ELSE stamp[d]
    BY <1>1, <2>1 DEF Rows
  <2>3. \A d \in Details : Pending(d, stamp', stage) =>
          (Pending(d, stamp, stage) /\ stamp'[d] = stamp[d]) \/ stamp'[d] > fetched + 1
    BY <2>1, <2>2 DEF Pending
  <2>4. \A d \in Details : stamp'[d] <= clock' /\ stage'[d] <= fetched'
    BY <1>0, <1>1, <1>3, <2>1, <2>2
  <2>5. ASSUME NEW d \in Details, Pending(d, stamp', stage')
        PROVE  LaterDetail(stamp'[d], stage') /\ (NoneStaged(stage') => Later(stamp'[d], stage'))
    <3>1. CASE Pending(d, stamp, stage) /\ stamp'[d] = stamp[d]
      BY <1>3, <2>1, <3>1 DEF DetailsCore
    <3>2. CASE stamp'[d] > fetched + 1
      BY <1>0, <1>1, <1>3, <2>1, <3>2 DEF LaterDetail, Later
    <3> QED
      BY <2>1, <2>3, <2>5, <3>1, <3>2
  <2>6. Core
    BY <2>4, <2>5 DEF DetailsCore
  <2> HIDE DEF Core
  <2> QED
    BY <1>4, <2>1, <2>3, <2>6
<1> HIDE DEF Core
<1>14. CASE \E w \in Workers : Start(w)
  <2>1. PICK w \in Workers : Start(w)
    BY <1>14
  <2> DEFINE u == [Idle EXCEPT !.pc = "markH"]
  <2>2. u.pc = "markH" /\ u.markD = 0 /\ u.detail = Idle.detail
    BY DEF Idle
  <2>3. Run(u)
    BY <1>1, <2>2 DEF DetailsRun, Idle
  <2>4. \A v \in Workers : work[v].pc = "idle"
    BY <2>1 DEF Start, At
  <2> QED
    BY <1>7, <1>8, <2>1, <2>3, <2>4 DEF Start
<1>15. CASE \E w \in Workers : Fail(w)
  <2>1. PICK w \in Workers : Fail(w)
    BY <1>15
  <2>2. CASE Crash(w) \/ FetchFails(w) \/ CheckFails(w) \/ PublishFails(w)
    <3>1. work[w].pc # "idle"
      BY <2>2 DEF Crash, FetchFails, CheckFails, PublishFails, At
    <3> QED
      BY <1>8, <1>10, <2>2, <3>1 DEF Crash, FetchFails, CheckFails, PublishFails
  <2>3. CASE InsertFails(w)
    <3>1. /\ \A h \in Headers : stage'[h] = stage[h]
          /\ \A d \in Details : stage'[d] = stage[d]
      BY <1>11, <2>3 DEF InsertFails
    <3>2. work[w].pc # "idle"
      BY <2>3 DEF InsertFails, At
    <3> QED
      BY <1>8, <1>10, <2>3, <3>1, <3>2 DEF InsertFails
  <2>4. CASE MarksFail(w)
    <3> DEFINE u == [work[w] EXCEPT !.pc = "fetchH"]
    <3>1. work[w].pc \in {"markH", "markD"}
      BY <2>4 DEF MarksFail, At
    <3>2. u.pc = "fetchH" /\ u.markD = work[w].markD /\ u.detail = work[w].detail
      BY <1>2 DEF Work
    <3>3. stamp' = stamp /\ stage' = stage /\ fetched' = fetched /\ clock' = clock /\ Goes(w, u)
      BY <2>4 DEF MarksFail
    <3>4. u.markD = 0
      BY <1>3, <3>1, <3>2 DEF DetailsRun
    <3>5. \A d \in Details : Pending(d, stamp, stage) => stamp[d] > 0
      BY <1>0 DEF Pending
    <3>6. Run(u)
      BY <1>1, <1>3, <3>2, <3>3, <3>4, <3>5 DEF DetailsRun
    <3> QED
      BY <1>7, <1>8, <1>9, <3>1, <3>3, <3>6
  <2> QED
    BY <2>1, <2>2, <2>3, <2>4 DEF Fail
<1>16. CASE \E w \in Workers : Step(w)
  <2>1. PICK w \in Workers : Step(w)
    BY <1>16
  <2>2. work[w] \in Work /\ DetailsRun(work[w], stamp, stage, fetched)
        /\ RunKept(work[w], stamp, stage, fetched)
    BY <1>2, <1>3
  <2>3. CASE ReadHeaderMark(w)
    <3>1. PICK m \in 0..(MaxTime + 1) :
            IsMark(m, Headers) /\ Goes(w, [work[w] EXCEPT !.pc = "markD", !.markH = m])
      BY <2>3, ReadHeaderMarkShape
    <3> DEFINE u == [work[w] EXCEPT !.pc = "markD", !.markH = m]
    <3>2. u.pc = "markD" /\ u.markH = m /\ u.markD = work[w].markD /\ u.detail = work[w].detail
      BY <2>2 DEF Work
    <3>3. stamp' = stamp /\ stage' = stage /\ fetched' = fetched /\ clock' = clock
      BY <2>3, ReadHeaderMarkShape
    <3>4. work[w].pc = "markH"
      BY <2>3 DEF ReadHeaderMark, At
    <3>5. ASSUME NoneStaged(stage), NEW d \in Details, Pending(d, stamp, stage)
          PROVE  stamp[d] > m
      <4>1. Later(stamp[d], stage) /\ stamp[d] # 0 /\ stamp[d] \in Nat
        BY <1>0, <1>3, <3>5 DEF DetailsCore, Pending
      <4> QED
        BY <1>0, <3>1, <4>1 DEF IsMark, Staged, Later
    <3>6. Run(u)
      BY <2>2, <3>2, <3>3, <3>4, <3>5 DEF DetailsRun
    <3> QED
      BY <1>7, <1>8, <1>9, <3>1, <3>3, <3>4, <3>6
  <2>4. CASE ReadDetailMark(w)
    <3>1. PICK m \in 0..(MaxTime + 1) :
            /\ IsMark(m, Details)
            /\ Goes(w, [work[w] EXCEPT !.pc = "fetchH",
                                       !.markD = IF m = 0 THEN work[w].markH ELSE m])
      BY <2>4, ReadDetailMarkShape
    <3> DEFINE n == IF m = 0 THEN work[w].markH ELSE m
               u == [work[w] EXCEPT !.pc = "fetchH", !.markD = n]
    <3>2. Goes(w, u)
      BY <3>1
    <3>3. stamp' = stamp /\ stage' = stage /\ fetched' = fetched /\ clock' = clock
      BY <2>4, ReadDetailMarkShape
    <3>4. work[w].pc = "markD"
      BY <2>4 DEF ReadDetailMark, At
    <3>5. n <= fetched + 1 /\ \A d \in Details : Pending(d, stamp, stage) => stamp[d] > n
      <4>1. CASE m = 0
        <5>1. NoneStaged(stage)
          BY <1>0, <3>1, <4>1 DEF IsMark, Staged, NoneStaged
        <5>2. work[w].markH <= fetched + 1
          BY <2>2, <3>4 DEF RunKept, ToFetch
        <5> QED
          BY <2>2, <3>4, <4>1, <5>1, <5>2 DEF DetailsRun
      <4>2. CASE m # 0
        <5>1. PICK e \in Details : Staged(e) /\ m = stage[e] + 1
          BY <3>1, <4>2 DEF IsMark
        <5>2. m <= fetched + 1
          BY <1>0, <1>1, <1>3, <5>1
        <5>3. \A d \in Details : Pending(d, stamp, stage) => stamp[d] > m
          BY <1>3, <5>1 DEF DetailsCore, LaterDetail, Staged
        <5> QED
          BY <4>2, <5>2, <5>3
      <4> QED
        BY <4>1, <4>2
    <3> HIDE DEF n
    <3>6. u.pc = "fetchH" /\ u.markD = n /\ u.detail = work[w].detail
      BY <2>2 DEF Work
    <3>7. Run(u)
      BY <2>2, <3>3, <3>5, <3>6 DEF DetailsRun
    <3> QED
      BY <1>7, <1>8, <1>9, <3>2, <3>3, <3>4, <3>7
  <2>5. CASE FetchHeaders(w)
    <3> DEFINE table == Since(Headers, work[w].markH)
               u == [work[w] EXCEPT !.pc = "fetchD", !.markH = 0, !.header = table]
    <3>1. u.pc = "fetchD" /\ u.markD = work[w].markD /\ u.detail = work[w].detail
      BY <2>2 DEF Work
    <3>2. stamp' = stamp /\ stage' = stage /\ fetched' = clock /\ clock' = clock
          /\ Goes(w, u) /\ work[w].pc = "fetchH"
      BY <2>5 DEF FetchHeaders, At
    <3>3. work[w].markD \in Nat /\ \A d \in Details : work[w].detail[d] \in Nat
      <4>1. work[w].markD \in 0..(MaxTime + 1)
        BY <2>2 DEF Work
      <4>2. work[w].detail \in [Details -> Times]
        BY <2>2 DEF Work
      <4>3. work[w].markD \in Nat
        BY <4>1, ConstantsAssumption
      <4>4. \A d \in Details : work[w].detail[d] \in Nat
        BY <4>2, TimesNat
      <4> QED
        BY <4>3, <4>4
    <3>4. work[w].markD <= clock + 1 /\ \A d \in Details : work[w].detail[d] <= clock
      BY <1>1, <1>3, <2>2, <3>2, <3>3 DEF DetailsRun
    <3>5. Run(u)
      BY <2>2, <3>1, <3>2, <3>4 DEF DetailsRun
    <3> QED
      BY <1>7, <1>8, <1>9, <3>2, <3>5
  <2>6. CASE FetchDetails(w)
    <3>0. stamp' = stamp /\ stage' = stage /\ fetched' = clock /\ clock' = clock
          /\ work[w].pc = "fetchD"
      BY <2>6, FetchDetailsShape
    <3>1. CASE Leave(w)
      BY <1>8, <1>10, <3>0, <3>1
    <3>2. CASE ~Leave(w)
      <4> DEFINE D == Since(Details, work[w].markD)
      <4>1. PICK H : Goes(w, [work[w] EXCEPT !.pc = "checkD", !.markD = 0, !.detail = D,
                                             !.header = H])
        BY <2>6, <3>2, FetchDetailsShape
      <4> DEFINE u == [work[w] EXCEPT !.pc = "checkD", !.markD = 0, !.detail = D, !.header = H]
      <4>2. \A d \in Details : D[d] <= clock
        BY <1>0, <1>1, <1>3 DEF Since
      <4>3. \A d \in Details : Pending(d, stamp, stage) => d \in In(D)
        <5>1. \A d \in Details : Pending(d, stamp, stage) => stamp[d] > work[w].markD
          BY <2>2, <3>0 DEF DetailsRun
        <5> QED
          BY <5>1 DEF Since, In, Pending
      <4> HIDE DEF D
      <4>4. u.pc = "checkD" /\ u.detail = D
        BY <2>2 DEF Work
      <4>5. Run(u)
        BY <3>0, <4>2, <4>3, <4>4 DEF DetailsRun
      <4> QED
        BY <1>7, <1>8, <1>9, <3>0, <4>1, <4>5
    <3> QED
      BY <3>1, <3>2
  <2>7. CASE CheckDetails(w)
    <3> DEFINE new == {d \in In(work[w].detail) : ~Staged(d)}
               u == [work[w] EXCEPT !.pc = "checkH", !.newD = new]
    <3>1. Goes(w, u) /\ work[w].pc = "checkD"
          /\ stamp' = stamp /\ stage' = stage /\ fetched' = fetched /\ clock' = clock
      BY <2>7 DEF CheckDetails, At
    <3>2. \A d \in Details : Pending(d, stamp, stage) => d \in new \/ stamp[d] > fetched + 1
      BY <2>2, <3>1 DEF DetailsRun, Pending, Staged
    <3>3. \A d \in new : stage[d] = 0
      BY DEF Staged
    <3> HIDE DEF new
    <3>4. u.pc = "checkH" /\ u.newD = new /\ u.detail = work[w].detail
      BY <2>2 DEF Work
    <3>5. Run(u)
      BY <2>2, <3>1, <3>2, <3>3, <3>4 DEF DetailsRun
    <3> QED
      BY <1>7, <1>8, <1>9, <3>1, <3>5
  <2>8. CASE CheckHeaders(w)
    <3> DEFINE new == In(work[w].header) \ {h \in In(work[w].header) : Staged(h)}
               u == [work[w] EXCEPT !.pc = "insertD", !.newH = new]
    <3>1. Goes(w, u)
      BY <2>8 DEF CheckHeaders
    <3>2. stamp' = stamp /\ stage' = stage /\ fetched' = fetched /\ clock' = clock
          /\ work[w].pc = "checkH"
      BY <2>8 DEF CheckHeaders, At
    <3>3. \A h \in new : stage[h] = 0
      BY DEF Staged
    <3> HIDE DEF new
    <3>4. u.pc = "insertD" /\ u.newD = work[w].newD /\ u.newH = new /\ u.detail = work[w].detail
      BY <2>2 DEF Work
    <3>5. Run(u)
      BY <2>2, <3>2, <3>3, <3>4 DEF DetailsRun
    <3> QED
      BY <1>7, <1>8, <1>9, <3>1, <3>2, <3>5
  <2>9. CASE InsertDetails(w)
    <3> DEFINE u == [work[w] EXCEPT !.pc = "insertH"]
    <3>1. /\ Goes(w, u) /\ work[w].pc = "insertD"
          /\ stamp' = stamp /\ fetched' = fetched /\ clock' = clock
      BY <2>9 DEF InsertDetails, At
    <3>2. u.pc = "insertH" /\ u.newH = work[w].newH /\ u.detail = work[w].detail
      BY <2>2 DEF Work
    <3>3. work[w].newD \subseteq In(work[w].detail) /\ work[w].newD \subseteq Details
      BY <2>2, <3>1 DEF TypeInv, Sound, Work
    <3>4. /\ \A d \in Details : stage'[d] = IF d \in work[w].newD THEN work[w].detail[d] ELSE stage[d]
          /\ \A h \in Headers : stage'[h] = stage[h]
      BY <2>9, <3>3, ConstantsAssumption DEF InsertDetails, Insert, Rows
    <3>5. \A d \in Details : stage'[d] <= fetched'
      BY <1>3, <2>2, <3>1, <3>4 DEF DetailsRun
    <3>6. ASSUME NEW d \in Details, Pending(d, stamp', stage')
          PROVE  stamp'[d] > fetched' + 1
      <4>1. d \notin work[w].newD
        BY <3>3, <3>4, <3>6 DEF Pending, In
      <4>2. Pending(d, stamp, stage)
        BY <3>1, <3>4, <3>6, <4>1 DEF Pending
      <4> QED
        BY <2>2, <3>1, <4>1, <4>2 DEF DetailsRun
    <3>7. Core
      <4>1. \A d \in Details : Pending(d, stamp', stage') =>
              LaterDetail(stamp'[d], stage') /\ Later(stamp'[d], stage')
        BY <1>0, <1>1, <1>3, <3>5, <3>6 DEF LaterDetail, Later
      <4>2. \A d \in Details : stamp'[d] <= clock'
        BY <1>3, <3>1
      <4> QED
        BY <3>5, <4>1, <4>2 DEF Core, DetailsCore
    <3>8. \A h \in work[w].newH : stage'[h] = 0
      BY <2>2, <3>1, <3>4 DEF DetailsRun, Work
    <3>9. Run(u)
      BY <2>2, <3>1, <3>2, <3>6, <3>8 DEF DetailsRun
    <3> QED
      BY <1>7, <1>9, <3>1, <3>7, <3>9
  <2>10. CASE DetailConflict(w)
    <3>1. work[w].pc = "insertD" /\ \E c \in work[w].newD : Staged(c)
      BY <2>10 DEF DetailConflict, At
    <3> QED
      BY <2>2, <3>1 DEF DetailsRun, Staged
  <2>11. CASE InsertHeaders(w)
    <3> DEFINE u == [work[w] EXCEPT !.pc = "verify", !.newD = {}]
    <3>1. /\ Goes(w, u) /\ work[w].pc = "insertH"
          /\ stamp' = stamp /\ fetched' = fetched /\ clock' = clock
      BY <2>11 DEF InsertHeaders, At
    <3>2. u.pc = "verify" /\ u.detail = work[w].detail
      BY <2>2 DEF Work
    <3>3. work[w].newH \subseteq Headers
      BY <2>2 DEF Work
    <3>4. \A d \in Details : stage'[d] = stage[d]
      BY <2>11, <3>3, ConstantsAssumption DEF InsertHeaders, Insert, Rows
    <3>5. \A d \in Details : Pending(d, stamp', stage') => stamp'[d] > fetched' + 1
      BY <2>2, <3>1, <3>4 DEF DetailsRun, Pending
    <3>6. Core
      <4>1. \A d \in Details : stage'[d] <= fetched' /\ stamp'[d] <= clock'
        BY <1>3, <3>1, <3>4
      <4>2. \A d \in Details : Pending(d, stamp', stage') =>
              LaterDetail(stamp'[d], stage') /\ Later(stamp'[d], stage')
        BY <1>0, <1>1, <1>3, <3>5, <4>1 DEF LaterDetail, Later
      <4> QED
        BY <4>1, <4>2 DEF Core, DetailsCore
    <3>7. Run(u)
      BY <1>5, <2>2, <3>1, <3>2 DEF DetailsRun
    <3> QED
      BY <1>7, <1>9, <3>1, <3>6, <3>7
  <2>12. CASE HeaderConflict(w)
    <3>1. work[w].pc = "insertH" /\ \E c \in work[w].newH : Staged(c)
      BY <2>12 DEF HeaderConflict, At
    <3> QED
      BY <2>2, <3>1 DEF DetailsRun, Staged
  <2>13. CASE Verify(w)
    <3> DEFINE u == [work[w] EXCEPT !.pc = "publish", !.checked = TRUE,
                                    !.promoted = PromotedRefs(w)]
               v == [work[w] EXCEPT !.pc = "publish"]
    <3>1. u.pc = "publish" /\ u.detail = work[w].detail /\ v.pc = "publish" /\ v.detail = work[w].detail
      BY <2>2 DEF Work
    <3>2. stamp' = stamp /\ stage' = stage /\ fetched' = fetched /\ clock' = clock
          /\ (Goes(w, u) \/ Goes(w, v)) /\ work[w].pc = "verify"
      BY <2>13 DEF Verify, At
    <3>3. \A d \in Details : work[w].detail[d] <= fetched'
      BY <2>2, <3>2 DEF DetailsRun
    <3>4. Run(u)
      BY <3>1, <3>3 DEF DetailsRun
    <3>5. Run(v)
      BY <3>1, <3>3 DEF DetailsRun
    <3> QED
      BY <1>7, <1>8, <1>9, <3>2, <3>4, <3>5
  <2>14. CASE Publish(w)
    <3> DEFINE u == [work[w] EXCEPT !.pc = "record", !.header = Idle.header, !.detail = Idle.detail]
    <3>1. u.pc = "record" /\ u.detail = Idle.detail
      BY <2>2 DEF Work
    <3>2. stamp' = stamp /\ stage' = stage /\ fetched' = fetched /\ clock' = clock /\ Goes(w, u)
          /\ work[w].pc = "publish"
      BY <2>14 DEF Publish, At
    <3>3. \A d \in Details : u.detail[d] = 0
      BY <3>1 DEF Idle, Rows
    <3>4. Run(u)
      BY <1>1, <3>1, <3>3 DEF DetailsRun
    <3> QED
      BY <1>7, <1>8, <1>9, <3>2, <3>4
  <2>15. CASE Record(w)
    <3>1. work[w].pc # "idle"
      BY <2>15 DEF Record, At
    <3> QED
      BY <1>8, <1>10, <2>15, <3>1 DEF Record
  <2> QED
    BY <2>1, <2>3, <2>4, <2>5, <2>6, <2>7, <2>8, <2>9, <2>10, <2>11, <2>12, <2>13, <2>14,
       <2>15 DEF Step
<1> QED
  BY <1>12, <1>13, <1>14, <1>15, <1>16 DEF Next

\* What DetailsKept and LinesBeforeHeader rest on.
DetailsAll == TypeInv /\ KeptInv /\ DetailsInv

LEMMA DetailsAlways ==
  ASSUME "close" \notin Faults, "chunks" \notin Faults, "overlap" \notin Faults
  PROVE  Spec => []DetailsAll
<1>1. Init => DetailsAll
  <2>1. Init => DetailsInv
    BY ConstantsAssumption
       DEF Init, DetailsInv, OneRun, DetailsCore, DetailsRun, Pending, Rows, Idle
  <2> QED
    BY <2>1, KeptInit, InitType DEF DetailsAll
<1>2. DetailsAll /\ [Next]_vars => DetailsAll'
  BY StepType, KeptStep, DetailsStep DEF DetailsAll
<1> QED
  BY <1>1, <1>2, PTL DEF Spec

\* Under the conditions of HeadersAreKept, and if runs do not overlap, no detail is
\* passed over: neither by its own watermark nor by the one borrowed from the headers.
THEOREM DetailsAreKept ==
  ASSUME "close" \notin Faults, "chunks" \notin Faults, "overlap" \notin Faults
  PROVE  Spec => []DetailsKept
<1>1. DetailsAll => DetailsKept
  <2> SUFFICES ASSUME TypeInv, DetailsInv, NEW d \in Details, Visible(d), ~Staged(d)
               PROVE  /\ Newer(d, Details)
                      /\ (\A e \in Details : ~Staged(e)) => Newer(d, Headers)
    BY DEF DetailsKept, DetailsAll
  <2>1. LaterDetail(stamp[d], stage) /\ (NoneStaged(stage) => Later(stamp[d], stage))
    BY DEF DetailsInv, DetailsCore, Pending, Visible, Staged
  <2>2. stamp[d] \in Nat /\ stamp[d] # 0
    BY TimesNat DEF TypeInv, TypeOK, Visible, Rows
  <2>3. Newer(d, Details)
    BY <2>1, <2>2 DEF Newer, IsMark, LaterDetail, Staged
  <2>4. ASSUME \A e \in Details : ~Staged(e)
        PROVE  Newer(d, Headers)
    BY <2>1, <2>2, <2>4 DEF Newer, IsMark, Later, Staged, NoneStaged
  <2> QED
    BY <2>3, <2>4
<1> QED
  BY <1>1, DetailsAlways, PTL

\* A header is only staged by InsertHeaders, when the run has inserted its details.
LEMMA HeadersStagedLate ==
  ASSUME DetailsAll, [Next]_vars, "chunks" \notin Faults,
         NEW h \in Headers, ~Staged(h), stage'[h] # 0
  PROVE  \E w \in Workers : work[w].pc = "insertH" /\ stage'[h] = work[w].header[h]
<1>1. /\ stage \in [Rows -> Times] /\ h \in Rows
      /\ \A w \in Workers : work[w] \in Work /\ Sound(work[w])
  BY DEF DetailsAll, TypeInv, TypeOK, Rows
<1>2. stage' # stage
  BY <1>1 DEF Staged
<1>3. ASSUME NEW S, NEW T \in Leftover(S), NEW table, Insert(T, table) PROVE FALSE
  BY <1>1, <1>2, <1>3 DEF Leftover, Insert
<1>4. PICK w \in Workers :
        \/ InsertDetails(w) \/ DetailConflict(w) \/ InsertHeaders(w) \/ HeaderConflict(w)
        \/ InsertFails(w)
  <2>1. UNCHANGED vars => stage' = stage
    BY DEF vars, mssql
  <2>2. /\ ~Tick /\ ~Request
        /\ \A r \in Rows : ~ServeAgain(r) /\ \A t \in Times : ~Appear(r, t)
    BY <1>2 DEF Tick, Request, ServeAgain, Appear, mssql
  <2>3. (\A o \in topic : ~Import(o)) /\ (\A k \in Headers : ~Backfill(k))
    BY <1>2 DEF Import, Backfill, mssql
  <2>4. PICK w \in Workers : Start(w) \/ Step(w) \/ Fail(w)
    <3>1. Next
      BY <1>2, <2>1
    <3>2. \/ Tick \/ Request
          \/ \E r \in Rows : ServeAgain(r) \/ \E t \in Times : Appear(r, t)
          \/ \E w \in Workers : Start(w) \/ Step(w) \/ Fail(w)
          \/ \E o \in topic : Import(o)
          \/ \E k \in Headers : Backfill(k)
      BY <3>1, Zenon DEF Next
    <3> QED
      BY <2>2, <2>3, <3>2
  <2>5. ~Start(w) /\ ~ReadHeaderMark(w) /\ ~ReadDetailMark(w)
    BY <1>2, ReadHeaderMarkShape, ReadDetailMarkShape, Zenon DEF Start, mssql
  <2>8. ~FetchHeaders(w) /\ ~FetchDetails(w)
    BY <1>2, FetchDetailsShape, Zenon DEF FetchHeaders, mssql
  <2>9. ~CheckDetails(w) /\ ~CheckHeaders(w)
    BY <1>2, Zenon DEF CheckDetails, CheckHeaders, mssql
  <2>6. ~Verify(w) /\ ~Publish(w) /\ ~Record(w)
    BY <1>2 DEF Verify, Publish, Record, mssql
  <2>7. /\ ~Crash(w) /\ ~MarksFail(w) /\ ~FetchFails(w) /\ ~CheckFails(w)
        /\ ~PublishFails(w)
    BY <1>2 DEF Crash, MarksFail, FetchFails, CheckFails, PublishFails, mssql
  <2> QED
    BY <2>4, <2>5, <2>6, <2>7, <2>8, <2>9 DEF Step, Fail
<1>5. CASE InsertDetails(w)
  <2>1. work[w].newD \subseteq Details /\ h \notin work[w].newD
    BY <1>1, ConstantsAssumption DEF Work
  <2>2. stage'[h] = stage[h]
    BY <1>1, <1>5, <2>1 DEF InsertDetails, Insert
  <2> QED
    BY <2>2 DEF Staged
<1>6. CASE DetailConflict(w)
  BY <1>3, <1>6 DEF DetailConflict
<1>7. CASE HeaderConflict(w)
  BY <1>3, <1>7 DEF HeaderConflict
<1>8. CASE InsertFails(w)
  BY <1>3, <1>8 DEF InsertFails
<1>9. CASE InsertHeaders(w)
  BY <1>1, <1>9 DEF InsertHeaders, Insert, At, Staged
<1> QED
  BY <1>4, <1>5, <1>6, <1>7, <1>8, <1>9

\* Whoever sees a header in the staging table finds the details of its reference
\* there too, all that BigQuery had when the header was served: under the same
\* conditions, for any number of references, headers and details.
THEOREM DetailsComeFirst ==
  ASSUME "close" \notin Faults, "chunks" \notin Faults, "overlap" \notin Faults
  PROVE  Spec => LinesBeforeHeader
<1> DEFINE A == \A h \in Headers : ~Staged(h) /\ stage'[h] # 0 =>
                  \A d \in Of(Details, RefOf[h]) :
                    Visible(d) /\ stamp[d] <= stage'[h] => Staged(d)
<1>1. DetailsAll /\ [Next]_vars => A
  <2> SUFFICES ASSUME DetailsAll, [Next]_vars, NEW h \in Headers, ~Staged(h), stage'[h] # 0,
                      NEW d \in Details, Visible(d), stamp[d] <= stage'[h], ~Staged(d)
               PROVE  FALSE
    BY DEF Of
  <2>1. PICK w \in Workers : work[w].pc = "insertH" /\ stage'[h] = work[w].header[h]
    BY HeadersStagedLate
  <2>2. work[w].header[h] <= fetched
    BY DEF DetailsAll, KeptInv, RunKept
  <2>3. stamp[d] > fetched + 1
    BY <2>1 DEF DetailsAll, DetailsInv, DetailsRun, Pending, Visible, Staged
  <2>4. stamp[d] \in Nat /\ fetched \in Nat
    BY TimesNat DEF DetailsAll, TypeInv, TypeOK, Rows
  <2>5. work[w] \in Work
    BY DEF DetailsAll, TypeInv, TypeOK
  <2>6. work[w].header[h] \in Nat
    BY <2>5, TimesNat DEF Work
  <2> QED
    BY <2>1, <2>2, <2>3, <2>4, <2>6
<1> QED
  BY <1>1, DetailsAlways, PTL DEF Spec, LinesBeforeHeader
===============================================================================
