--------------------------- MODULE OrderWorkerProofs ---------------------------
(***************************************************************************)
(* Proofs about OrderWorker: its type invariant, that a task reported as   *)
(* done names a whole order of its own (DoneTasksAreWhole), and that an    *)
(* acked task was reported (AckedTasksAreReported).                        *)
(***************************************************************************)
EXTENDS OrderWorker, SequenceTheorems, TLAPS

(* Type correctness. *)

\* What a callback knows at each of its stages.
Sound(r) ==
  /\ r.pc # "idle" => r.task \in Tasks
  /\ r.pc \in {"lines", "rollback"} => r.order \in OrderIds
  /\ r.pc \in {"rollback", "reject", "error"} => r.cause \in Causes
  /\ r.pc = "lines" => r.next \in 1..(Size[r.task] + 1)

TypeInv == TypeOK /\ \A w \in Workers : Sound(work[w])

LEMMA InitType == ASSUME Init PROVE TypeInv
BY ConstantsAssumption
DEF Init, TypeInv, TypeOK, Sound, Work, Idle, Order, NoOrder, Task, PCs

LEMMA GoesType ==
  ASSUME TypeInv, NEW w \in Workers, NEW r \in Work, Goes(w, r), Sound(r)
  PROVE  work' \in [Workers -> Work] /\ \A v \in Workers : Sound(work'[v])
BY DEF TypeInv, TypeOK, Goes

LEMMA IdleType == Idle \in Work /\ Sound(Idle) /\ Idle.pc = "idle"
BY DEF Idle, Work, PCs, Sound

LEMMA LeaveType ==
  ASSUME TypeInv, NEW w \in Workers, NEW s \in {"pending", "leased", "acked"},
         Leave(w, s), work[w].pc # "idle"
  PROVE  /\ work' \in [Workers -> Work] /\ \A v \in Workers : Sound(work'[v])
         /\ msgs' \in [Tasks -> {"pending", "leased", "acked"}]
BY IdleType, GoesType DEF Leave, TypeInv, TypeOK, Sound

LEMMA RaiseType ==
  ASSUME TypeInv, NEW w \in Workers, NEW e \in Causes, Raise(w, e), work[w].pc # "idle"
  PROVE  work' \in [Workers -> Work] /\ \A v \in Workers : Sound(work'[v])
<1>1. work[w] \in Work /\ Sound(work[w])
  BY DEF TypeInv, TypeOK
<1>2. [work[w] EXCEPT !.pc = "error", !.cause = e] \in Work
  BY <1>1 DEF Work, PCs
<1>3. Sound([work[w] EXCEPT !.pc = "error", !.cause = e])
  BY <1>1 DEF Work, Sound
<1> QED
  BY <1>2, <1>3, GoesType DEF Raise

LEMMA WithNewType ==
  ASSUME TypeInv, NEW ns \in SUBSET OrderIds, NEW t \in Tasks, orders' = WithNew(ns, t)
  PROVE  orders' \in [OrderIds -> Order]
<1>1. [NoOrder EXCEPT !.task = t] = [task |-> t, lines |-> <<>>]
  BY DEF NoOrder
<1>2. [task |-> t, lines |-> <<>>] \in Order
  BY DEF Order
<1> QED
  BY <1>1, <1>2 DEF WithNew, TypeInv, TypeOK

LEMMA WithLineType ==
  ASSUME TypeInv, NEW n \in OrderIds, NEW i \in Nat, NEW k \in {1, 2},
         orders' = WithLine(n, i, k)
  PROVE  /\ orders' \in [OrderIds -> Order]
         /\ orders'[n].task = orders[n].task
         /\ orders'[n].lines = orders[n].lines \o [j \in 1..k |-> i]
         /\ \A m \in OrderIds \ {n} : orders'[m] = orders[m]
<1> DEFINE more == orders[n].lines \o [j \in 1..k |-> i]
<1>1. orders[n] \in Order
  BY DEF TypeInv, TypeOK
<1>2. more \in Seq(Nat)
  BY <1>1 DEF Order
<1>3. orders' = [orders EXCEPT ![n] = [orders[n] EXCEPT !.lines = more]]
  BY DEF WithLine
<1> HIDE DEF more
<1>4. /\ [orders[n] EXCEPT !.lines = more] \in Order
      /\ [orders[n] EXCEPT !.lines = more].task = orders[n].task
      /\ [orders[n] EXCEPT !.lines = more].lines = more
  BY <1>1, <1>2 DEF Order
<1> QED
  BY <1>3, <1>4 DEF TypeInv, TypeOK, more

\* The documents keep their shape.
LEMMA DocumentType ==
  ASSUME TypeInv, NEW t \in Tasks
  PROVE  /\ \A n \in OrderIds : Done(t, n) => tasks' \in [Tasks -> Task]
         /\ \A e \in Causes : Failed(t, e) => tasks' \in [Tasks -> Task]
         /\ [tasks EXCEPT ![t].status = "processing"] \in [Tasks -> Task]
BY DEF Done, Failed, TypeInv, TypeOK, Task

LEMMA BeginType ==
  ASSUME TypeInv, NEW w \in Workers, Begin(w)
  PROVE  TypeInv'
<1>1. work[w] \in Work /\ Sound(work[w]) /\ work[w].task \in Tasks
  BY DEF TypeInv, TypeOK, Begin, Sound
<1>2. CASE Goes(w, [work[w] EXCEPT !.pc = "header"])
  <2>1. [work[w] EXCEPT !.pc = "header"] \in Work
    BY <1>1 DEF Work, PCs
  <2>2. Sound([work[w] EXCEPT !.pc = "header"])
    BY <1>1 DEF Work, Sound
  <2>3. work' \in [Workers -> Work] /\ \A v \in Workers : Sound(work'[v])
    BY <1>2, <2>1, <2>2, GoesType
  <2>4. tasks' \in [Tasks -> Task]
    BY <1>1, DocumentType DEF Begin, TypeInv, TypeOK
  <2> QED
    BY <2>3, <2>4 DEF Begin, TypeInv, TypeOK
<1>3. CASE Raise(w, "firestore") /\ UNCHANGED tasks
  <2>1. work' \in [Workers -> Work] /\ \A v \in Workers : Sound(work'[v])
    BY <1>3, RaiseType DEF Begin, Causes
  <2> QED
    BY <1>3, <2>1 DEF Begin, TypeInv, TypeOK
<1> QED
  BY <1>2, <1>3 DEF Begin

LEMMA CreateHeaderType ==
  ASSUME TypeInv, NEW w \in Workers, CreateHeader(w)
  PROVE  TypeInv'
<1>1. work[w] \in Work /\ Sound(work[w]) /\ work[w].task \in Tasks
  BY DEF TypeInv, TypeOK, CreateHeader, Sound
<1>2. ASSUME NEW n \in OrderIds,
             Goes(w, [work[w] EXCEPT !.pc = "lines", !.order = n, !.next = 1])
      PROVE  work' \in [Workers -> Work] /\ \A v \in Workers : Sound(work'[v])
  <2> DEFINE r == [work[w] EXCEPT !.pc = "lines", !.order = n, !.next = 1]
  <2>1. r \in Work /\ r.pc = "lines" /\ r.order = n /\ r.next = 1 /\ r.task = work[w].task
    BY <1>1 DEF Work, PCs
  <2>2. Sound(r)
    BY <1>1, <2>1, ConstantsAssumption DEF Sound
  <2> QED
    BY <1>2, <2>1, <2>2, GoesType
<1>3. ASSUME NEW e \in Refusals,
             Goes(w, [work[w] EXCEPT !.pc = "reject", !.cause = e])
      PROVE  work' \in [Workers -> Work] /\ \A v \in Workers : Sound(work'[v])
  <2> DEFINE r == [work[w] EXCEPT !.pc = "reject", !.cause = e]
  <2>1. r \in Work /\ r.pc = "reject" /\ r.cause \in Causes /\ r.task = work[w].task
    BY <1>1 DEF Work, PCs, Refusals, Causes
  <2>2. Sound(r)
    BY <1>1, <2>1 DEF Sound
  <2> QED
    BY <1>3, <2>1, <2>2, GoesType
<1>4. Raise(w, "network") =>
        work' \in [Workers -> Work] /\ \A v \in Workers : Sound(work'[v])
  BY RaiseType DEF CreateHeader, Causes
<1>5. work' \in [Workers -> Work] /\ \A v \in Workers : Sound(work'[v])
  BY <1>2, <1>3, <1>4 DEF CreateHeader, Unused
<1>6. (\E ns \in SUBSET OrderIds : orders' = WithNew(ns, work[w].task)) \/ UNCHANGED orders
  BY DEF CreateHeader, Unused
<1>7. orders' \in [OrderIds -> Order]
  BY <1>1, <1>6, WithNewType DEF TypeInv, TypeOK
<1> QED
  BY <1>5, <1>7 DEF CreateHeader, TypeInv, TypeOK

\* A line POST: either the line is on the order and the next one follows, or
\* the callback turns to the rollback or to the error handler.
LEMMA PostLineMoves ==
  ASSUME TypeInv, NEW w \in Workers, PostLine(w)
  PROVE  /\ work[w] \in Work /\ Sound(work[w]) /\ work[w].pc = "lines"
         /\ work[w].task \in Tasks /\ work[w].order \in OrderIds
         /\ work[w].next \in 1..Size[work[w].task]
         /\ \/ /\ Goes(w, [work[w] EXCEPT !.next = work[w].next + 1])
               /\ \/ orders' = WithLine(work[w].order, work[w].next, 1)
                  \/ "resend" \in Faults /\ orders' = WithLine(work[w].order, work[w].next, 2)
            \/ /\ \/ \E e \in Refusals : Goes(w, [work[w] EXCEPT !.pc = "rollback", !.cause = e])
                  \/ Raise(w, "network")
               /\ \/ orders' = WithLine(work[w].order, work[w].next, 1)
                  \/ UNCHANGED orders
<1>1. /\ work[w] \in Work /\ Sound(work[w]) /\ work[w].pc = "lines"
      /\ work[w].task \in Tasks /\ work[w].order \in OrderIds
      /\ work[w].next <= Size[work[w].task]
  BY DEF TypeInv, TypeOK, PostLine, Sound
<1>2. work[w].next \in 1..Size[work[w].task]
  BY <1>1, ConstantsAssumption DEF Sound
<1> QED
  BY <1>1, <1>2 DEF PostLine

LEMMA PostLineType ==
  ASSUME TypeInv, NEW w \in Workers, PostLine(w)
  PROVE  TypeInv'
<1>1. /\ work[w] \in Work /\ Sound(work[w]) /\ work[w].pc = "lines"
      /\ work[w].task \in Tasks /\ work[w].order \in OrderIds
      /\ work[w].next \in 1..Size[work[w].task] /\ Size[work[w].task] \in Nat
  BY PostLineMoves, ConstantsAssumption
<1>2. ASSUME Goes(w, [work[w] EXCEPT !.next = work[w].next + 1])
      PROVE  work' \in [Workers -> Work] /\ \A v \in Workers : Sound(work'[v])
  <2> DEFINE r == [work[w] EXCEPT !.next = work[w].next + 1]
  <2>1. /\ r \in Work /\ r.pc = "lines" /\ r.order = work[w].order
        /\ r.next = work[w].next + 1 /\ r.task = work[w].task
    BY <1>1 DEF Work
  <2>2. Sound(r)
    BY <1>1, <2>1 DEF Sound
  <2> QED
    BY <1>2, <2>1, <2>2, GoesType
<1>3. ASSUME NEW e \in Refusals,
             Goes(w, [work[w] EXCEPT !.pc = "rollback", !.cause = e])
      PROVE  work' \in [Workers -> Work] /\ \A v \in Workers : Sound(work'[v])
  <2> DEFINE r == [work[w] EXCEPT !.pc = "rollback", !.cause = e]
  <2>1. /\ r \in Work /\ r.pc = "rollback" /\ r.cause \in Causes
        /\ r.order = work[w].order /\ r.task = work[w].task
    BY <1>1 DEF Work, PCs, Refusals, Causes
  <2>2. Sound(r)
    BY <1>1, <2>1 DEF Sound
  <2> QED
    BY <1>3, <2>1, <2>2, GoesType
<1>4. Raise(w, "network") =>
        work' \in [Workers -> Work] /\ \A v \in Workers : Sound(work'[v])
  BY <1>1, RaiseType DEF Causes
<1>5. work' \in [Workers -> Work] /\ \A v \in Workers : Sound(work'[v])
  BY <1>2, <1>3, <1>4, PostLineMoves
<1>6. work[w].next \in Nat
  BY <1>1
<1>7. \A k \in {1, 2} : orders' = WithLine(work[w].order, work[w].next, k) =>
        orders' \in [OrderIds -> Order]
  BY <1>1, <1>6, WithLineType
<1>8. orders' \in [OrderIds -> Order]
  BY <1>7, PostLineMoves DEF TypeInv, TypeOK
<1> QED
  BY <1>5, <1>8 DEF PostLine, TypeInv, TypeOK

LEMMA RollbackType ==
  ASSUME TypeInv, NEW w \in Workers, Rollback(w)
  PROVE  TypeInv'
<1>1. work[w] \in Work /\ Sound(work[w]) /\ work[w].pc = "rollback"
  BY DEF TypeInv, TypeOK, Rollback
<1> DEFINE r == [work[w] EXCEPT !.pc = "reject", !.order = None]
<1>2. r \in Work /\ r.pc = "reject" /\ r.cause = work[w].cause /\ r.task = work[w].task
  BY <1>1 DEF Work, PCs
<1>3. Sound(r)
  BY <1>1, <1>2 DEF Sound
<1>4. NoOrder \in Order
  BY DEF NoOrder, Order
<1>5. orders' \in [OrderIds -> Order]
  BY <1>4 DEF Rollback, TypeInv, TypeOK
<1> QED
  BY <1>2, <1>3, <1>5, GoesType DEF Rollback, TypeInv, TypeOK

\* Going on to the ack.
LEMMA ToAckType ==
  ASSUME TypeInv, NEW w \in Workers, work[w].pc # "idle"
  PROVE  /\ Goes(w, [work[w] EXCEPT !.pc = "ack"]) =>
              work' \in [Workers -> Work] /\ \A v \in Workers : Sound(work'[v])
         /\ Goes(w, [work[w] EXCEPT !.pc = "ack", !.order = None]) =>
              work' \in [Workers -> Work] /\ \A v \in Workers : Sound(work'[v])
<1>1. work[w] \in Work /\ Sound(work[w])
  BY DEF TypeInv, TypeOK
<1>2. /\ [work[w] EXCEPT !.pc = "ack"] \in Work
      /\ [work[w] EXCEPT !.pc = "ack", !.order = None] \in Work
  BY <1>1 DEF Work, PCs
<1>3. /\ Sound([work[w] EXCEPT !.pc = "ack"])
      /\ Sound([work[w] EXCEPT !.pc = "ack", !.order = None])
  BY <1>1 DEF Work, Sound
<1> QED
  BY <1>2, <1>3, GoesType

LEMMA OutcomeType ==
  ASSUME TypeInv, NEW w \in Workers, Finish(w) \/ Reject(w) \/ HandleError(w) \/ Ack(w)
  PROVE  TypeInv'
<1>1. /\ work[w].pc # "idle" /\ work[w].task \in Tasks
      /\ work[w].pc = "lines" => work[w].order \in OrderIds
      /\ work[w].pc \in {"reject", "error"} => work[w].cause \in Causes
  BY DEF Finish, Reject, HandleError, Ack, TypeInv, Sound
<1>2. CASE Finish(w)
  <2>1. tasks' \in [Tasks -> Task]
    BY <1>1, <1>2, DocumentType DEF Finish, TypeInv, TypeOK
  <2>2. work' \in [Workers -> Work] /\ \A v \in Workers : Sound(work'[v])
    BY <1>1, <1>2, ToAckType, RaiseType DEF Finish, Causes
  <2> QED
    BY <1>2, <2>1, <2>2 DEF Finish, TypeInv, TypeOK
<1>3. CASE Reject(w) \/ HandleError(w)
  <2>1. tasks' \in [Tasks -> Task]
    BY <1>1, <1>3, DocumentType DEF Reject, HandleError, TypeInv, TypeOK
  <2>2. /\ work' \in [Workers -> Work] /\ \A v \in Workers : Sound(work'[v])
        /\ msgs' \in [Tasks -> {"pending", "leased", "acked"}]
    BY <1>1, <1>3, ToAckType, LeaveType DEF Reject, HandleError, TypeInv, TypeOK
  <2> QED
    BY <1>3, <2>1, <2>2 DEF Reject, HandleError, TypeInv, TypeOK
<1>4. CASE Ack(w)
  <2>1. PICK s \in {"pending", "leased", "acked"} : Leave(w, s)
    BY <1>1, <1>4 DEF Ack, TypeInv, TypeOK
  <2> QED
    BY <1>1, <1>4, <2>1, LeaveType DEF Ack, TypeInv, TypeOK
<1> QED
  BY <1>2, <1>3, <1>4

LEMMA DeliveryType ==
  ASSUME TypeInv, NEW w \in Workers, NEW t \in Tasks,
         Deliver(w, t)
  PROVE  TypeInv'
<1> DEFINE r == [Idle EXCEPT !.pc = "begin", !.task = t]
<1>1. r \in Work /\ Sound(r)
  BY DEF Idle, Work, PCs, Sound
<1> QED
  BY <1>1, GoesType DEF Deliver, TypeInv, TypeOK

LEMMA StepType ==
  ASSUME TypeInv, [Next]_vars
  PROVE  TypeInv'
<1>1. CASE UNCHANGED vars
  BY <1>1 DEF vars, TypeInv, TypeOK
<1>2. ASSUME NEW t \in Tasks, LeaseExpires(t)
      PROVE  TypeInv'
  BY <1>2 DEF LeaseExpires, TypeInv, TypeOK
<1>3. ASSUME NEW w \in Workers, Crash(w)
      PROVE  TypeInv'
  BY <1>3, LeaveType DEF Crash, TypeInv, TypeOK
<1> QED
  BY <1>1, <1>2, <1>3, BeginType, CreateHeaderType, PostLineType, RollbackType,
     OutcomeType, DeliveryType DEF Next, Step

LEMMA TypeInvariance == Spec => []TypeInv
BY InitType, StepType, PTL DEF Spec

\* Every reachable state has the declared shape, under every fault.
THEOREM TypeCorrect == Spec => []TypeOK
<1>1. TypeInv => TypeOK
  BY DEF TypeInv
<1> QED
  BY <1>1, TypeInvariance, PTL

-----------------------------------------------------------------------------
(* A task reported as done names a whole order. *)

\* BC applies a POST at most once.
AppliedOnce == "resend" \notin Faults

Holds(w) == work[w].pc \in {"lines", "rollback"}
Counted(k) == [i \in 1..k |-> i]

\* A callback works on an order of its own task that holds the lines before the
\* next one.
OwnOrder ==
  \A w \in Workers : Holds(w) =>
    /\ orders[work[w].order].task = work[w].task
    /\ work[w].pc = "lines" =>
         orders[work[w].order].lines = Counted(work[w].next - 1)

\* No other callback works on it, and no document names it as a result.
Apart ==
  /\ \A v, w \in Workers :
       Holds(v) /\ Holds(w) /\ work[v].order = work[w].order => v = w
  /\ \A w \in Workers, t \in Tasks :
       Holds(w) /\ tasks[t].status = "done" => tasks[t].result # work[w].order

WholeInv == TypeInv /\ OwnOrder /\ Apart /\ DoneIsWhole

LEMMA WholeHolds ==
  ASSUME WholeInv
  PROVE  /\ \A w \in Workers : Holds(w) =>
              /\ work[w].order \in OrderIds \ Unused
              /\ work[w].task \in Tasks
         /\ \A t \in Tasks : tasks[t].status = "done" =>
              /\ tasks[t].result \in OrderIds \ Unused
              /\ orders[tasks[t].result].task = t
              /\ orders[tasks[t].result].lines = AllLines(t)
<1>1. \A w \in Workers : Holds(w) => work[w].order \in OrderIds /\ work[w].task \in Tasks
  BY DEF WholeInv, TypeInv, Sound, Holds
<1>2. \A t \in Tasks : t # None
  BY ConstantsAssumption
<1> QED
  BY <1>1, <1>2 DEF WholeInv, OwnOrder, DoneIsWhole, OrdersOf, Unused

\* Steps that leave BC alone, start no order and report no task as done.
LEMMA FrameWhole ==
  ASSUME WholeInv, TypeInv', UNCHANGED orders,
         \A w \in Workers : Holds(w)' => work'[w] = work[w],
         \A t \in Tasks : tasks'[t].status = "done" =>
           tasks[t].status = "done" /\ tasks'[t].result = tasks[t].result
  PROVE  WholeInv'
<1>1. \A w \in Workers : Holds(w)' => Holds(w)
  BY DEF Holds
<1>2. OwnOrder'
  BY <1>1 DEF WholeInv, OwnOrder, Holds, Counted
<1>3. Apart'
  BY <1>1 DEF WholeInv, Apart, Holds
<1>4. DoneIsWhole'
  BY DEF WholeInv, DoneIsWhole, OrdersOf, AllLines
<1> QED
  BY <1>2, <1>3, <1>4 DEF WholeInv

\* A result stays whole as long as its order is left alone.
LEMMA DoneKept ==
  ASSUME WholeInv, UNCHANGED tasks,
         \A t \in Tasks : tasks[t].status = "done" =>
           orders'[tasks[t].result] = orders[tasks[t].result]
  PROVE  DoneIsWhole'
<1> SUFFICES ASSUME NEW t \in Tasks, tasks[t].status = "done"
             PROVE  \E n \in OrdersOf(t)' : n = tasks[t].result /\ orders'[n].lines = AllLines(t)
  BY DEF DoneIsWhole, AllLines
<1>1. tasks[t].result \in OrdersOf(t)'
  BY WholeHolds DEF OrdersOf
<1> QED
  BY <1>1, WholeHolds

LEMMA CreateHeaderWhole ==
  ASSUME AppliedOnce, WholeInv, NEW w \in Workers, CreateHeader(w)
  PROVE  WholeInv'
<1> USE DEF WholeInv
<1>1. TypeInv'
  BY CreateHeaderType
<1>2. /\ work[w].task \in Tasks /\ work[w] \in Work
      /\ \A v \in Workers \ {w} : work'[v] = work[v]
      /\ UNCHANGED tasks
  BY DEF CreateHeader, Goes, Raise, TypeInv, TypeOK, Sound
<1>3. CASE \E n \in Unused :
             /\ orders' = WithNew({n}, work[w].task)
             /\ Goes(w, [work[w] EXCEPT !.pc = "lines", !.order = n, !.next = 1])
  <2>1. PICK n \in Unused :
             /\ orders' = WithNew({n}, work[w].task)
             /\ Goes(w, [work[w] EXCEPT !.pc = "lines", !.order = n, !.next = 1])
    BY <1>3
  <2>2. /\ n \in OrderIds
        /\ orders'[n].task = work[w].task /\ orders'[n].lines = <<>>
        /\ \A k \in OrderIds \ {n} : orders'[k] = orders[k]
    BY <2>1 DEF WithNew, Unused, NoOrder
  <2>3. /\ work'[w].pc = "lines" /\ work'[w].order = n /\ work'[w].next = 1
        /\ work'[w].task = work[w].task
    BY <1>2, <2>1 DEF Goes, Work, TypeInv, TypeOK
  <2>4. \A v \in Workers \ {w} : Holds(v)' => Holds(v) /\ work[v].order # n
    BY <1>2, <2>1, WholeHolds DEF Holds
  <2>5. <<>> = Counted(0)
    BY DEF Counted
  <2>6. OwnOrder'
    BY <1>2, <2>2, <2>3, <2>4, <2>5, WholeHolds DEF OwnOrder, Holds, Counted
  <2>7. Apart'
    BY <1>2, <2>1, <2>3, <2>4, WholeHolds DEF Apart, Holds
  <2>8. DoneIsWhole'
    BY <1>2, <2>1, <2>2, WholeHolds, DoneKept
  <2> QED
    BY <1>1, <2>6, <2>7, <2>8
<1>4. CASE /\ (\E n \in Unused : orders' = WithNew({n}, work[w].task)) \/ UNCHANGED orders
           /\ ~Holds(w)'
  <2>1. \A k \in OrderIds \ Unused : orders'[k] = orders[k]
    BY <1>4 DEF WithNew
  <2>2. \A v \in Workers : Holds(v)' => Holds(v) /\ work'[v] = work[v]
    BY <1>2, <1>4 DEF Holds
  <2>3. OwnOrder'
    BY <2>1, <2>2, WholeHolds DEF OwnOrder, Holds, Counted
  <2>4. Apart'
    BY <1>2, <2>2 DEF Apart, Holds
  <2>5. DoneIsWhole'
    BY <1>2, <2>1, WholeHolds, DoneKept
  <2> QED
    BY <1>1, <2>3, <2>4, <2>5
<1>5. Raise(w, "network") => ~Holds(w)'
  BY <1>2 DEF Raise, Goes, Holds, TypeInv, TypeOK, Work
<1>6. \A e \in Refusals :
        Goes(w, [work[w] EXCEPT !.pc = "reject", !.cause = e]) => ~Holds(w)'
  BY <1>2 DEF Goes, Holds, TypeInv, TypeOK, Work
<1> QED
  BY <1>3, <1>4, <1>5, <1>6 DEF CreateHeader, AppliedOnce

LEMMA PostLineWhole ==
  ASSUME AppliedOnce, WholeInv, NEW w \in Workers, PostLine(w)
  PROVE  WholeInv'
<1> USE DEF WholeInv
<1>1. TypeInv'
  BY PostLineType
<1>2. /\ work[w].order \in OrderIds /\ work[w].task \in Tasks /\ work[w] \in Work
      /\ work[w].pc = "lines" /\ work[w].next \in Nat \ {0} /\ Holds(w)
      /\ \A v \in Workers \ {w} : work'[v] = work[v]
      /\ UNCHANGED tasks
  <2>1. /\ work[w].order \in OrderIds /\ work[w].task \in Tasks /\ work[w] \in Work
        /\ work[w].pc = "lines" /\ work[w].next \in 1..Size[work[w].task]
    BY PostLineMoves
  <2>2. Size[work[w].task] \in Nat
    BY <2>1, ConstantsAssumption
  <2>3. \A v \in Workers \ {w} : work'[v] = work[v]
    BY DEF PostLine, Goes, Raise, TypeInv, TypeOK
  <2>4. UNCHANGED tasks
    BY DEF PostLine
  <2>5. work[w].next \in Nat \ {0}
    BY <2>1, <2>2
  <2> QED
    BY <2>1, <2>3, <2>4, <2>5 DEF Holds
<1>3. \/ orders' = WithLine(work[w].order, work[w].next, 1)
      \/ UNCHANGED orders
  BY PostLineMoves DEF AppliedOnce
<1>4. /\ \A k \in OrderIds \ {work[w].order} : orders'[k] = orders[k]
      /\ orders'[work[w].order].task = orders[work[w].order].task
  BY <1>2, <1>3, WithLineType
<1>5. CASE /\ Goes(w, [work[w] EXCEPT !.next = work[w].next + 1])
           /\ orders' = WithLine(work[w].order, work[w].next, 1)
  <2>1. /\ work'[w].pc = "lines" /\ work'[w].order = work[w].order
        /\ work'[w].task = work[w].task /\ work'[w].next = work[w].next + 1
    BY <1>2, <1>5 DEF Goes, Work, TypeInv, TypeOK
  <2>2. orders'[work[w].order].lines = Counted(work'[w].next - 1)
    <3> DEFINE k == work[w].next - 1
    <3>1. k \in Nat /\ work[w].next = k + 1 /\ work'[w].next - 1 = k + 1
      BY <1>2, <2>1
    <3>2. orders'[work[w].order].lines = Counted(k) \o [j \in 1..1 |-> k + 1]
      <4>1. orders'[work[w].order].lines =
              orders[work[w].order].lines \o [j \in 1..1 |-> work[w].next]
        BY <1>2, <1>5, WithLineType
      <4>2. orders[work[w].order].lines = Counted(k)
        BY <1>2 DEF OwnOrder
      <4> QED
        BY <3>1, <4>1, <4>2
    <3> HIDE DEF k
    <3>3. Counted(k) \o [j \in 1..1 |-> k + 1] = Counted(k + 1)
      BY <3>1 DEF Counted
    <3> QED
      BY <3>1, <3>2, <3>3
  <2>3. OwnOrder'
    <3>1. ASSUME NEW v \in Workers \ {w}, Holds(v)'
          PROVE  /\ orders'[work'[v].order].task = work'[v].task
                 /\ work'[v].pc = "lines" =>
                      orders'[work'[v].order].lines = Counted(work'[v].next - 1)
      <4>1. Holds(v) /\ work'[v] = work[v] /\ work[v].order # work[w].order
        BY <1>2, <3>1 DEF Holds, Apart
      <4> QED
        BY <1>4, <4>1, WholeHolds DEF OwnOrder
    <3> QED
      BY <1>2, <1>4, <2>1, <2>2, <3>1 DEF OwnOrder, Counted
  <2>4. Apart'
    BY <1>2, <2>1 DEF Apart, Holds
  <2>5. DoneIsWhole'
    BY <1>2, <1>4, WholeHolds, DoneKept DEF Apart
  <2> QED
    BY <1>1, <2>3, <2>4, <2>5
<1>6. CASE \/ \E e \in Refusals : Goes(w, [work[w] EXCEPT !.pc = "rollback", !.cause = e])
           \/ Raise(w, "network")
  <2>1. /\ work'[w].pc \in {"rollback", "error"} /\ work'[w].order = work[w].order
        /\ work'[w].task = work[w].task
    <3>1. PICK p \in {"rollback", "error"}, e \in Refusals \cup {"network"} :
            work' = [work EXCEPT ![w] = [work[w] EXCEPT !.pc = p, !.cause = e]]
      BY <1>6 DEF Goes, Raise
    <3>2. work'[w] = [work[w] EXCEPT !.pc = p, !.cause = e]
      BY <3>1 DEF TypeInv, TypeOK
    <3> QED
      BY <1>2, <3>2 DEF Work
  <2>2. OwnOrder'
    <3>1. ASSUME NEW v \in Workers \ {w}, Holds(v)'
          PROVE  /\ orders'[work'[v].order].task = work'[v].task
                 /\ work'[v].pc = "lines" =>
                      orders'[work'[v].order].lines = Counted(work'[v].next - 1)
      <4>1. Holds(v) /\ work'[v] = work[v] /\ work[v].order # work[w].order
        BY <1>2, <3>1 DEF Holds, Apart
      <4> QED
        BY <1>4, <4>1, WholeHolds DEF OwnOrder
    <3> QED
      BY <1>2, <1>4, <2>1, <3>1 DEF OwnOrder, Counted
  <2>3. Apart'
    BY <1>2, <2>1 DEF Apart, Holds
  <2>4. DoneIsWhole'
    BY <1>2, <1>4, WholeHolds, DoneKept DEF Apart
  <2> QED
    BY <1>1, <2>2, <2>3, <2>4
<1> QED
  BY <1>5, <1>6, PostLineMoves DEF AppliedOnce

LEMMA RollbackWhole ==
  ASSUME WholeInv, NEW w \in Workers, Rollback(w)
  PROVE  WholeInv'
<1> USE DEF WholeInv
<1>1. TypeInv'
  BY RollbackType
<1>2. /\ Holds(w) /\ ~Holds(w)'
      /\ \A v \in Workers \ {w} : work'[v] = work[v]
      /\ UNCHANGED tasks
  BY DEF Rollback, Goes, Holds, TypeInv, TypeOK, Work
<1>3. \A k \in OrderIds \ {work[w].order} : orders'[k] = orders[k]
  BY DEF Rollback, TypeInv, TypeOK
<1>4. \A v \in Workers : Holds(v)' =>
        Holds(v) /\ work'[v] = work[v] /\ work[v].order # work[w].order
  BY <1>2 DEF Holds, Apart
<1>5. OwnOrder'
  BY <1>3, <1>4, WholeHolds DEF OwnOrder, Counted, Holds
<1>6. Apart'
  BY <1>2, <1>4 DEF Apart, Holds
<1>7. DoneIsWhole'
  BY <1>2, <1>3, WholeHolds, DoneKept DEF Apart
<1> QED
  BY <1>1, <1>5, <1>6, <1>7

LEMMA FinishWhole ==
  ASSUME WholeInv, NEW w \in Workers, Finish(w)
  PROVE  WholeInv'
<1> USE DEF WholeInv
<1>1. TypeInv'
  BY OutcomeType
<1>2. /\ Holds(w) /\ ~Holds(w)' /\ UNCHANGED orders
      /\ \A v \in Workers \ {w} : work'[v] = work[v]
  <2>1. work[w] \in Work
    BY DEF TypeInv, TypeOK
  <2>2. CASE Raise(w, "firestore")
    BY <2>1, <2>2 DEF Finish, Raise, Goes, Holds, TypeInv, TypeOK, Work
  <2>3. CASE Goes(w, [work[w] EXCEPT !.pc = "ack", !.order = None])
    BY <2>1, <2>3 DEF Finish, Goes, Holds, TypeInv, TypeOK, Work
  <2> QED
    BY <2>2, <2>3 DEF Finish
<1>3. CASE UNCHANGED tasks
  BY <1>1, <1>2, <1>3, FrameWhole
<1>4. CASE Done(work[w].task, work[w].order)
  <2> DEFINE t == work[w].task
             n == work[w].order
  <2>1. /\ t \in Tasks /\ n \in OrderIds
        /\ tasks'[t].status = "done" /\ tasks'[t].result = n
        /\ \A u \in Tasks \ {t} : tasks'[u] = tasks[u]
    BY <1>2, <1>4, WholeHolds DEF Done, TypeInv, TypeOK, Task
  <2>2. work[w].next - 1 = Size[t]
    BY <2>1, ConstantsAssumption DEF Finish, TypeInv, Sound
  <2>3. orders[n].task = t /\ orders[n].lines = AllLines(t)
    BY <1>2, <2>2 DEF Finish, OwnOrder, Counted, AllLines
  <2>4. \A v \in Workers : Holds(v)' => Holds(v) /\ work'[v] = work[v] /\ work[v].order # n
    BY <1>2 DEF Holds, Apart
  <2>5. OwnOrder'
    BY <1>2, <2>4 DEF OwnOrder, Counted, Holds
  <2>6. Apart'
    BY <2>1, <2>4 DEF Apart, Holds
  <2>7. ASSUME NEW u \in Tasks, tasks'[u].status = "done"
        PROVE  /\ tasks'[u].result \in OrderIds
               /\ orders[tasks'[u].result].task = u
               /\ orders[tasks'[u].result].lines = AllLines(u)
    BY <2>1, <2>3, <2>7, WholeHolds
  <2>8. DoneIsWhole'
    BY <1>2, <2>7 DEF DoneIsWhole, OrdersOf, AllLines
  <2> QED
    BY <1>1, <2>5, <2>6, <2>8
<1> QED
  BY <1>3, <1>4 DEF Finish

LEMMA StepWhole ==
  ASSUME AppliedOnce, WholeInv, [Next]_vars
  PROVE  WholeInv'
<1> USE DEF WholeInv
<1>1. TypeInv'
  BY StepType
<1>2. CASE UNCHANGED vars
  BY <1>1, <1>2, FrameWhole DEF vars
<1>3. CASE \E w \in Workers, t \in Tasks : Deliver(w, t)
  <2>1. PICK w \in Workers, t \in Tasks : Deliver(w, t)
    BY <1>3
  <2>2. \A v \in Workers : Holds(v)' => work'[v] = work[v]
    BY <2>1 DEF Deliver, Goes, Idle, Holds, TypeInv, TypeOK
  <2> QED
    BY <1>1, <2>1, <2>2, FrameWhole DEF Deliver
<1>4. CASE \E t \in Tasks : LeaseExpires(t)
  BY <1>1, <1>4, FrameWhole DEF LeaseExpires
<1>5. CASE \E w \in Workers : Crash(w)
  <2>1. PICK w \in Workers : Crash(w)
    BY <1>5
  <2>2. \A v \in Workers : Holds(v)' => work'[v] = work[v]
    BY <2>1 DEF Crash, Leave, Goes, Idle, Holds, TypeInv, TypeOK
  <2> QED
    BY <1>1, <2>1, <2>2, FrameWhole DEF Crash
<1>6. CASE \E w \in Workers : Begin(w)
  <2>1. PICK w \in Workers : Begin(w)
    BY <1>6
  <2>2. work[w] \in Work /\ work[w].task \in Tasks
    BY <2>1 DEF Begin, TypeInv, TypeOK, Sound
  <2>3. ~Holds(w)' /\ \A v \in Workers \ {w} : work'[v] = work[v]
    <3>1. CASE Raise(w, "firestore")
      BY <2>2, <3>1 DEF Raise, Goes, Holds, TypeInv, TypeOK, Work
    <3>2. CASE Goes(w, [work[w] EXCEPT !.pc = "header"])
      BY <2>2, <3>2 DEF Goes, Holds, TypeInv, TypeOK, Work
    <3> QED
      BY <2>1, <3>1, <3>2 DEF Begin
  <2>4. \A t \in Tasks : tasks'[t].status = "done" =>
          tasks[t].status = "done" /\ tasks'[t].result = tasks[t].result
    BY <2>1, <2>2 DEF Begin, TypeInv, TypeOK, Task
  <2> QED
    BY <1>1, <2>1, <2>3, <2>4, FrameWhole DEF Begin
<1>7. CASE \E w \in Workers : Reject(w) \/ HandleError(w) \/ Ack(w)
  <2>1. PICK w \in Workers : Reject(w) \/ HandleError(w) \/ Ack(w)
    BY <1>7
  <2>2. work[w] \in Work /\ work[w].task \in Tasks
    BY <2>1 DEF Reject, HandleError, Ack, TypeInv, TypeOK, Sound
  <2>3. ~Holds(w)' /\ \A v \in Workers \ {w} : work'[v] = work[v]
    <3>1. CASE Goes(w, Idle)
      BY <3>1 DEF Goes, Holds, Idle, TypeInv, TypeOK
    <3>2. CASE Goes(w, [work[w] EXCEPT !.pc = "ack"])
      BY <2>2, <3>2 DEF Goes, Holds, TypeInv, TypeOK, Work
    <3>3. CASE Goes(w, [work[w] EXCEPT !.pc = "ack", !.order = None])
      BY <2>2, <3>3 DEF Goes, Holds, TypeInv, TypeOK, Work
    <3> QED
      BY <2>1, <3>1, <3>2, <3>3 DEF Reject, HandleError, Ack, Leave
  <2>4. \A t \in Tasks : tasks'[t].status = "done" =>
          tasks[t].status = "done" /\ tasks'[t].result = tasks[t].result
    BY <2>1, <2>2 DEF Reject, HandleError, Ack, Failed, TypeInv, TypeOK, Task
  <2> QED
    BY <1>1, <2>1, <2>3, <2>4, FrameWhole DEF Reject, HandleError, Ack
<1> QED
  BY <1>2, <1>3, <1>4, <1>5, <1>6, <1>7, CreateHeaderWhole, PostLineWhole,
     RollbackWhole, FinishWhole DEF Next, Step

\* A task reported as done names an order of its own with all its lines in
\* order, if BC applies a POST at most once: whatever crashes, overlaps, fails
\* or gets lost, and for tasks of any size.
THEOREM DoneTasksAreWhole == ASSUME AppliedOnce PROVE Spec => []DoneIsWhole
<1>1. Init => WholeInv
  <2>1. Init => OwnOrder /\ Apart /\ DoneIsWhole
    BY DEF Init, OwnOrder, Apart, DoneIsWhole, Holds, Idle
  <2> QED
    BY <2>1, InitType DEF WholeInv
<1>2. WholeInv /\ [Next]_vars => WholeInv'
  BY StepWhole
<1>3. WholeInv => DoneIsWhole
  BY DEF WholeInv
<1> QED
  BY <1>1, <1>2, <1>3, PTL DEF Spec

-----------------------------------------------------------------------------
(* An acked task was reported. *)

\* No two callbacks of one task run at once.
NoOverlap == "overlap" \notin Faults

\* The message of a running callback is leased to it alone, and a callback only
\* acks after its report.
ReportInv ==
  /\ TypeInv
  /\ \A v, w \in Workers :
       work[v].pc # "idle" /\ work[w].pc # "idle" /\ work[v].task = work[w].task => v = w
  /\ \A w \in Workers : work[w].pc # "idle" => msgs[work[w].task] = "leased"
  /\ \A w \in Workers : work[w].pc = "ack" =>
       tasks[work[w].task].status \in {"done", "failed"}
  /\ AckedIsTerminal

\* The callback goes on with its task.
Advances(w) ==
  /\ work[w].pc # "idle"
  /\ UNCHANGED msgs
  /\ \A v \in Workers \ {w} : work'[v] = work[v]
  /\ work'[w].pc # "idle" /\ work'[w].task = work[w].task
  /\ \A t \in Tasks \ {work[w].task} : tasks'[t] = tasks[t]
  /\ work'[w].pc = "ack" => tasks'[work[w].task].status \in {"done", "failed"}

\* The callback ends.
Ends(w) ==
  /\ work[w].pc # "idle"
  /\ UNCHANGED tasks
  /\ Leave(w, "pending") \/ (work[w].pc = "ack" /\ Leave(w, "acked"))

LEMMA StepAdvances ==
  ASSUME NoOverlap, TypeInv, NEW w \in Workers, Step(w) \/ Crash(w)
  PROVE  Advances(w) \/ Ends(w)
<1> USE DEF TypeInv, TypeOK
<1>1. /\ work[w] \in Work /\ Sound(work[w]) /\ work[w].pc # "idle"
      /\ work[w].task \in Tasks
  BY DEF Step, Crash, Begin, CreateHeader, PostLine, Rollback, Finish, Reject,
         HandleError, Ack, Sound
<1>2. ASSUME NEW r, Goes(w, r), r.pc # "idle", r.task = work[w].task,
             r.pc # "ack", UNCHANGED <<msgs, tasks>>
      PROVE  Advances(w)
  BY <1>1, <1>2 DEF Goes, Advances
<1>3. ASSUME NEW e \in Causes, Raise(w, e), UNCHANGED <<msgs, tasks>>
      PROVE  Advances(w)
  <2>1. [work[w] EXCEPT !.pc = "error", !.cause = e] \in Work
    BY <1>1 DEF Work, PCs
  <2> QED
    BY <1>1, <1>3, <2>1 DEF Raise, Goes, Advances, Work
<1>4. CASE Begin(w)
  <2>1. CASE Raise(w, "firestore") /\ UNCHANGED tasks
    BY <1>3, <1>4, <2>1 DEF Begin, Causes
  <2>2. CASE /\ Goes(w, [work[w] EXCEPT !.pc = "header"])
             /\ tasks' = [tasks EXCEPT ![work[w].task].status = "processing"]
    BY <1>1, <1>4, <2>2 DEF Begin, Goes, Advances, Work
  <2> QED
    BY <1>4, <2>1, <2>2 DEF Begin
<1>5. CASE CreateHeader(w)
  <2>1. CASE Raise(w, "network")
    BY <1>3, <1>5, <2>1 DEF CreateHeader, Causes
  <2>2. ASSUME NEW n, Goes(w, [work[w] EXCEPT !.pc = "lines", !.order = n, !.next = 1])
        PROVE  Advances(w)
    <3>1. /\ [work[w] EXCEPT !.pc = "lines", !.order = n, !.next = 1].pc = "lines"
          /\ [work[w] EXCEPT !.pc = "lines", !.order = n, !.next = 1].task = work[w].task
      BY <1>1 DEF Work
    <3> QED
      BY <1>2, <1>5, <2>2, <3>1 DEF CreateHeader
  <2>3. ASSUME NEW e, Goes(w, [work[w] EXCEPT !.pc = "reject", !.cause = e])
        PROVE  Advances(w)
    <3>1. /\ [work[w] EXCEPT !.pc = "reject", !.cause = e].pc = "reject"
          /\ [work[w] EXCEPT !.pc = "reject", !.cause = e].task = work[w].task
      BY <1>1 DEF Work
    <3> QED
      BY <1>2, <1>5, <2>3, <3>1 DEF CreateHeader
  <2> QED
    BY <1>5, <2>1, <2>2, <2>3 DEF CreateHeader
<1>6. CASE PostLine(w)
  <2>1. CASE Raise(w, "network")
    BY <1>3, <1>6, <2>1 DEF PostLine, Causes
  <2>2. CASE Goes(w, [work[w] EXCEPT !.next = work[w].next + 1])
    BY <1>1, <1>6, <2>2 DEF PostLine, Goes, Advances, Work
  <2>3. ASSUME NEW e, Goes(w, [work[w] EXCEPT !.pc = "rollback", !.cause = e])
        PROVE  Advances(w)
    <3>1. /\ [work[w] EXCEPT !.pc = "rollback", !.cause = e].pc = "rollback"
          /\ [work[w] EXCEPT !.pc = "rollback", !.cause = e].task = work[w].task
      BY <1>1 DEF Work
    <3> QED
      BY <1>2, <1>6, <2>3, <3>1 DEF PostLine
  <2> QED
    BY <1>6, <2>1, <2>2, <2>3 DEF PostLine
<1>7. CASE Rollback(w)
  BY <1>1, <1>7 DEF Rollback, Goes, Advances, Work
<1>8. CASE Finish(w)
  <2>1. CASE Raise(w, "firestore") /\ UNCHANGED tasks
    BY <1>3, <1>8, <2>1 DEF Finish, Causes
  <2>2. CASE /\ Goes(w, [work[w] EXCEPT !.pc = "ack", !.order = None])
             /\ Done(work[w].task, work[w].order)
    BY <1>1, <1>8, <2>2 DEF Finish, Goes, Done, Advances, Work, Task
  <2> QED
    BY <1>8, <2>1, <2>2 DEF Finish
<1>9. CASE Reject(w) \/ HandleError(w)
  <2>1. CASE Leave(w, "pending") /\ UNCHANGED tasks
    BY <1>1, <2>1 DEF Ends
  <2>2. CASE /\ \/ Goes(w, [work[w] EXCEPT !.pc = "ack"])
                \/ Goes(w, [work[w] EXCEPT !.pc = "ack", !.order = None])
             /\ Failed(work[w].task, work[w].cause)
             /\ UNCHANGED msgs
    <3>1. /\ tasks'[work[w].task].status = "failed"
          /\ \A t \in Tasks \ {work[w].task} : tasks'[t] = tasks[t]
      BY <1>1, <2>2 DEF Failed, Task
    <3>2. CASE Goes(w, [work[w] EXCEPT !.pc = "ack"])
      BY <1>1, <2>2, <3>1, <3>2 DEF Goes, Advances, Work
    <3>3. CASE Goes(w, [work[w] EXCEPT !.pc = "ack", !.order = None])
      BY <1>1, <2>2, <3>1, <3>3 DEF Goes, Advances, Work
    <3> QED
      BY <2>2, <3>2, <3>3
  <2> QED
    BY <1>9, <2>1, <2>2 DEF Reject, HandleError
<1>10. CASE Ack(w) \/ Crash(w)
  BY <1>1, <1>10 DEF Ack, Crash, Ends, NoOverlap
<1> QED
  BY <1>4, <1>5, <1>6, <1>7, <1>8, <1>9, <1>10 DEF Step

LEMMA StepReport ==
  ASSUME NoOverlap, ReportInv, [Next]_vars
  PROVE  ReportInv'
<1> USE DEF ReportInv
<1>1. TypeInv'
  BY StepType
<1>2. CASE UNCHANGED vars
  BY <1>1, <1>2 DEF vars, AckedIsTerminal
<1>3. CASE \E t \in Tasks : LeaseExpires(t)
  BY <1>3 DEF LeaseExpires, NoOverlap
<1>4. CASE \E w \in Workers, t \in Tasks : Deliver(w, t)
  <2>1. PICK w \in Workers, t \in Tasks : Deliver(w, t)
    BY <1>4
  <2>2. /\ work'[w].pc = "begin" /\ work'[w].task = t
        /\ \A v \in Workers \ {w} : work'[v] = work[v] /\ work[v].task # t
        /\ msgs'[t] = "leased" /\ \A u \in Tasks \ {t} : msgs'[u] = msgs[u]
        /\ UNCHANGED tasks
    BY <2>1 DEF Deliver, Goes, Idle, NoOverlap, TypeInv, TypeOK
  <2>3. \A v \in Workers : work[v].pc # "idle" => work[v].task \in Tasks
    BY DEF TypeInv, Sound
  <2> QED
    BY <1>1, <2>2, <2>3 DEF AckedIsTerminal
<1>5. CASE \E w \in Workers : Step(w) \/ Crash(w)
  <2>1. PICK w \in Workers : Advances(w) \/ Ends(w)
    BY <1>5, StepAdvances
  <2>2. \A v \in Workers : work[v].pc # "idle" => work[v].task \in Tasks
    BY DEF TypeInv, Sound
  <2>3. CASE Advances(w)
    BY <1>1, <2>2, <2>3 DEF Advances, AckedIsTerminal
  <2>4. CASE Ends(w)
    <3>1. /\ work'[w].pc = "idle" /\ \A v \in Workers \ {w} : work'[v] = work[v]
          /\ \A t \in Tasks \ {work[w].task} : msgs'[t] = msgs[t]
          /\ msgs'[work[w].task] = "acked" => work[w].pc = "ack"
          /\ UNCHANGED tasks
      BY <2>2, <2>4 DEF Ends, Leave, Goes, Idle, TypeInv, TypeOK
    <3> QED
      BY <1>1, <2>2, <2>4, <3>1 DEF Ends, AckedIsTerminal
  <2> QED
    BY <2>1, <2>3, <2>4
<1> QED
  BY <1>2, <1>3, <1>4, <1>5 DEF Next

\* A message is acked only after its task was reported as done or failed, if no
\* two callbacks of one task run at once: whatever crashes, fails or gets lost.
THEOREM AckedTasksAreReported == ASSUME NoOverlap PROVE Spec => []AckedIsTerminal
<1>1. Init => ReportInv
  <2>1. Init => AckedIsTerminal /\ \A w \in Workers : work[w].pc = "idle"
    BY DEF Init, AckedIsTerminal, Idle
  <2> QED
    BY <2>1, InitType DEF ReportInv
<1>2. ReportInv /\ [Next]_vars => ReportInv'
  BY StepReport
<1>3. ReportInv => AckedIsTerminal
  BY DEF ReportInv
<1> QED
  BY <1>1, <1>2, <1>3, PTL DEF Spec
=============================================================================
