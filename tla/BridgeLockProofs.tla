--------------------------- MODULE BridgeLockProofs ---------------------------
(***************************************************************************)
(* Proofs about BridgeLock: its type invariant, and the two directions of  *)
(* what the lock promises.  A trigger is dropped only if an automated run  *)
(* began recently (SkipJustified), and the cooldown is kept from the first *)
(* long quiet on, until callbacks overlap or the lock cannot be read or    *)
(* marked (CooldownHolds).                                                 *)
(***************************************************************************)
EXTENDS BridgeLock, TLAPS

(* Arithmetic of ages. *)

LEMMA OlderAge ==
  ASSUME NEW a \in Ages, NEW b \in Ages, a <= b
  PROVE  Older(a) \in Ages /\ Older(a) <= Older(b)
BY ConstantsAssumption DEF Older, Ages, Old

\* The invariant works with a lock age of its own: a document without a start
\* time is as old as can be.
LockAge == IF lock.age = None THEN Old ELSE lock.age

-----------------------------------------------------------------------------
(* Type correctness. *)

\* A callback that is not idle is working on a message, and only an automated
\* run is about to mark the lock.
Sound(r) ==
  /\ r.pc # "idle" => r.msg \in Messages
  /\ r.pc = "mark" => r.msg \in Automated

TypeInv ==
  /\ TypeOK
  /\ \A w \in Workers : Sound(work[w])

LEMMA InitType == ASSUME Init PROVE TypeInv
<1>1. Idle \in Work /\ Sound(Idle)
  BY ConstantsAssumption DEF Idle, Work, Sound, Ages, Old
<1>2. lock \in Lock /\ lock.status # "running"
  BY DEF Init, Lock
<1>3. quiet \in Ages
  BY ConstantsAssumption DEF Init, Ages, Old
<1>4. work \in [Workers -> Work] /\ \A w \in Workers : Sound(work[w])
  BY <1>1 DEF Init
<1> QED
  BY <1>2, <1>3, <1>4 DEF Init, TypeInv, TypeOK

\* A callback may go on with any record of the right shape that names a message.
LEMMA GoesType ==
  ASSUME TypeInv, NEW w \in Workers, NEW r \in Work, Goes(w, r),
         Sound(r)
  PROVE  /\ work' \in [Workers -> Work]
         /\ \A v \in Workers : Sound(work'[v])
BY DEF TypeInv, TypeOK, Goes

LEMMA IdleGoesType ==
  ASSUME TypeInv, NEW w \in Workers, Goes(w, Idle)
  PROVE  /\ work' \in [Workers -> Work]
         /\ \A v \in Workers : Sound(work'[v])
<1>1. Idle \in Work /\ Idle.pc = "idle"
  BY ConstantsAssumption DEF Idle, Work, Ages, Old
<1> QED
  BY <1>1, GoesType DEF Sound

LEMMA BeginRunType ==
  ASSUME TypeInv, NEW w \in Workers, NEW a \in Ages, BeginRun(w, a),
         work[w].pc # "idle"
  PROVE  /\ work' \in [Workers -> Work]
         /\ \A v \in Workers : Sound(work'[v])
         /\ quiet' \in Ages
<1>1. [work[w] EXCEPT !.pc = "run"] \in Work /\ work[w].msg \in Messages
  BY DEF TypeInv, TypeOK, Work, Sound
<1>2. Sound([work[w] EXCEPT !.pc = "run"])
  BY <1>1 DEF TypeInv, TypeOK, Work, Sound
<1> QED
  BY <1>1, <1>2, GoesType DEF BeginRun, TypeInv, TypeOK

LEMMA TickType ==
  ASSUME TypeInv, Tick
  PROVE  TypeInv'
<1> USE DEF TypeInv, TypeOK
<1>1. \A a \in Ages : Older(a) \in Ages /\ a # None
  BY OlderAge, ConstantsAssumption DEF Ages, Older, Old
<1>2. work' \in [Workers -> Work]
  BY <1>1 DEF Tick, Work
<1>3. \A w \in Workers : Sound(work'[w])
  BY DEF Tick, Work, Sound
<1>4. lock' \in Lock /\ (lock.age # None => lock'.age # None) /\ lock'.status = lock.status
  BY <1>1 DEF Tick, Lock
<1>5. quiet' \in Ages
  BY <1>1 DEF Tick
<1> QED
  BY <1>2, <1>3, <1>4, <1>5 DEF Tick

LEMMA StepType ==
  ASSUME TypeInv, [Next]_vars
  PROVE  TypeInv'
<1>0. 0 \in Ages
  BY ConstantsAssumption DEF Ages, Old
<1>1. CASE Tick
  BY <1>1, TickType
<1>2. CASE \E w \in Workers, m \in Messages : Deliver(w, m)
  <2>1. PICK w \in Workers, m \in Messages : Deliver(w, m)
    BY <1>2
  <2>2. [Idle EXCEPT !.pc = "start", !.msg = m] \in Work
    BY <1>0 DEF Idle, Work
  <2>3. Sound([Idle EXCEPT !.pc = "start", !.msg = m])
    BY DEF Idle, Sound
  <2> QED
    BY <2>1, <2>2, <2>3, GoesType DEF Deliver, Settle, TypeInv, TypeOK
<1>3. CASE \E w \in Workers : Crash(w)
  BY <1>3, IdleGoesType DEF Crash, Settle, TypeInv, TypeOK
<1>4. CASE \E m \in Messages : Trigger(m)
  BY <1>4 DEF Trigger, Settle, TypeInv, TypeOK
<1>5. CASE \E w \in Workers : StartManual(w) \/ PassOpen(w)
  <2>1. PICK w \in Workers : StartManual(w) \/ PassOpen(w)
    BY <1>5
  <2> QED
    BY <1>0, <2>1, BeginRunType DEF StartManual, PassOpen, TypeInv, TypeOK
<1>6. CASE \E w \in Workers : Skip(w)
  BY <1>6, IdleGoesType DEF Skip, Settle, TypeInv, TypeOK
<1>7. CASE \E w \in Workers : Pass(w)
  <2>1. PICK w \in Workers : Pass(w)
    BY <1>7
  <2>2. [work[w] EXCEPT !.pc = "mark", !.age = 0] \in Work
    BY <1>0 DEF Work, TypeInv, TypeOK
  <2>3. Sound([work[w] EXCEPT !.pc = "mark", !.age = 0])
    BY <2>1, ConstantsAssumption DEF Pass, Work, TypeInv, TypeOK, Sound
  <2> QED
    BY <2>1, <2>2, <2>3, GoesType DEF Pass, TypeInv, TypeOK
<1>8. CASE \E w \in Workers : Mark(w)
  <2>1. PICK w \in Workers : Mark(w)
    BY <1>8
  <2>2. work[w].age \in Ages /\ work[w].age # None
    BY ConstantsAssumption DEF TypeInv, TypeOK, Work, Ages, Old
  <2>3. lock' \in Lock /\ (lock'.status = "running" => lock'.age # None)
    BY <2>1, <2>2 DEF Mark, Lock, TypeInv, TypeOK
  <2> QED
    BY <2>1, <2>2, <2>3, BeginRunType DEF Mark, TypeInv, TypeOK
<1>9. CASE \E w \in Workers : RunReturns(w) \/ RunRaises(w)
  <2>1. PICK w \in Workers : RunReturns(w) \/ RunRaises(w)
    BY <1>9
  <2>2. work[w].msg \in Messages
    BY <2>1 DEF RunReturns, RunRaises, TypeInv, Sound
  <2>3. CASE work[w].msg \in Automated
    <3>1. /\ [work[w] EXCEPT !.pc = "finish"] \in Work
          /\ Sound([work[w] EXCEPT !.pc = "finish"])
      BY <2>2 DEF Work, TypeInv, TypeOK, Sound
    <3> QED
      BY <2>1, <2>2, <2>3, <3>1, GoesType
      DEF RunReturns, RunRaises, After, Settle, TypeInv, TypeOK
  <2>4. CASE work[w].msg \notin Automated
    BY <2>1, <2>2, <2>4, IdleGoesType
    DEF RunReturns, RunRaises, After, Settle, TypeInv, TypeOK
  <2> QED
    BY <2>3, <2>4
<1>10. CASE \E w \in Workers : Finish(w)
  <2>1. PICK w \in Workers : Finish(w)
    BY <1>10
  <2>2. lock' \in Lock /\ (lock'.status = "running" => lock'.age # None)
    BY <2>1 DEF Finish, Lock, TypeInv, TypeOK
  <2> QED
    BY <2>1, <2>2, IdleGoesType DEF Finish, TypeInv, TypeOK
<1>11. CASE UNCHANGED vars
  BY <1>11 DEF vars, TypeInv, TypeOK
<1> QED
  BY <1>1, <1>2, <1>3, <1>4, <1>5, <1>6, <1>7, <1>8, <1>9, <1>10, <1>11 DEF Next, Step

LEMMA TypeInvariance == Spec => []TypeInv
BY InitType, StepType, PTL DEF Spec

\* Every reachable state has the declared shape, and a lock recorded as running
\* always has a start time, whatever fails.
THEOREM TypeCorrect == Spec => []TypeOK
<1>1. TypeInv => TypeOK
  BY DEF TypeInv
<1> QED
  BY <1>1, TypeInvariance, PTL

-----------------------------------------------------------------------------
(* Skips are justified. *)

\* The run that the document speaks of began no longer ago than it says, or a
\* later one did.
Recent == quiet <= LockAge
RecentInv == TypeInv /\ Recent

LEMMA AgeFacts ==
  ASSUME TypeInv
  PROVE  /\ LockAge \in Ages /\ quiet \in Ages
         /\ \A w \in Workers : work[w].age \in Ages /\ work[w].age # None
         /\ \A a \in Ages : a \in Nat /\ a <= Old
         /\ 0 \in Ages /\ Old \in Ages
BY ConstantsAssumption DEF TypeInv, TypeOK, LockAge, Lock, Work, Ages, Old

\* quiet never grows without a tick.
LEMMA BeginRunQuiet ==
  ASSUME TypeInv, NEW w \in Workers, NEW a \in Ages, BeginRun(w, a)
  PROVE  /\ quiet' \in Ages /\ quiet' <= quiet
         /\ work[w].msg \in Automated => quiet' <= a
BY AgeFacts DEF BeginRun

\* What the steps other than Tick do to the lock document and to quiet.
LEMMA LockMoves ==
  ASSUME TypeInv, Next, ~Tick
  PROVE  \/ quiet' = quiet /\ LockAge' = LockAge
         \/ \E w \in Workers : PassOpen(w)
         \/ \E w \in Workers : Mark(w)
<1>1. \A w \in Workers : StartManual(w) => UNCHANGED <<quiet, lock>>
  BY DEF StartManual, BeginRun
<1>2. \A w \in Workers : Finish(w) => quiet' = quiet /\ lock'.age = lock.age
  BY DEF Finish, TypeInv, TypeOK, Lock
<1> QED
  BY <1>1, <1>2
  DEF Next, Step, Deliver, Crash, Trigger, Skip, Pass, RunReturns, RunRaises, LockAge

LEMMA TickMoves ==
  ASSUME TypeInv, Tick
  PROVE  quiet' = Older(quiet) /\ LockAge' = Older(LockAge)
<1>1. quiet' = Older(quiet)
  BY DEF Tick
<1>2. CASE lock.age = None
  <2>1. lock'.age = None
    BY <1>2 DEF Tick, TypeInv, TypeOK, Lock
  <2>2. Older(Old) = Old
    BY ConstantsAssumption DEF Older, Old
  <2> QED
    BY <1>1, <1>2, <2>1, <2>2 DEF LockAge
<1>3. CASE lock.age # None
  <2>1. lock'.age = Older(lock.age) /\ lock.age \in Ages
    BY <1>3 DEF Tick, TypeInv, TypeOK, Lock
  <2>2. Older(lock.age) # None
    BY <2>1, AgeFacts, OlderAge, ConstantsAssumption DEF Ages, Older, Old
  <2> QED
    BY <1>1, <1>3, <2>1, <2>2 DEF LockAge
<1> QED
  BY <1>2, <1>3

LEMMA StepRecent ==
  ASSUME RecentInv, [Next]_vars
  PROVE  Recent'
<1> USE DEF RecentInv
<1>1. CASE Tick
  BY <1>1, TickMoves, AgeFacts, OlderAge DEF Recent
<1>2. CASE Next /\ ~Tick
  <2>1. CASE quiet' = quiet /\ LockAge' = LockAge
    BY <2>1 DEF Recent
  <2>2. CASE \E w \in Workers : PassOpen(w)
    <3>1. quiet' <= quiet /\ quiet' \in Ages /\ LockAge' = LockAge
      BY <2>2, AgeFacts, BeginRunQuiet DEF PassOpen, LockAge
    <3> QED
      BY <3>1, AgeFacts DEF Recent, Ages
  <2>3. CASE \E w \in Workers : Mark(w)
    <3>1. PICK w \in Workers : Mark(w)
      BY <2>3
    <3>2. quiet' <= quiet /\ quiet' \in Ages
      BY <3>1, AgeFacts, BeginRunQuiet DEF Mark
    <3>3. CASE UNCHANGED lock
      BY <3>2, <3>3, AgeFacts DEF Recent, LockAge, Ages
    <3>4. CASE lock' = [status |-> "running", age |-> work[w].age]
      <4>1. LockAge' = work[w].age
        BY <3>4, AgeFacts DEF LockAge
      <4>2. work[w].msg \in Automated
        BY <3>1 DEF Mark, TypeInv, Sound
      <4> QED
        BY <3>1, <4>1, <4>2, AgeFacts, BeginRunQuiet DEF Mark, Recent
    <3> QED
      BY <3>1, <3>3, <3>4 DEF Mark
  <2> QED
    BY <1>2, <2>1, <2>2, <2>3, LockMoves
<1>3. CASE UNCHANGED vars
  BY <1>3 DEF vars, Recent, LockAge
<1> QED
  BY <1>1, <1>2, <1>3

LEMMA RecentInvariance == Spec => []RecentInv
<1>1. Init => Recent
  BY ConstantsAssumption DEF Init, Recent, LockAge, Old
<1>2. RecentInv /\ [Next]_vars => RecentInv'
  BY StepRecent, StepType DEF RecentInv
<1>3. Init => RecentInv
  BY <1>1, InitType DEF RecentInv
<1> QED
  BY <1>2, <1>3, PTL DEF Spec

\* A trigger is dropped only if an automated run began within STALE_AFTER,
\* whatever crashes, fails or overlaps.
THEOREM SkipJustified == Spec => SkipIsJustified
<1>1. ASSUME RecentInv, NEW w \in Workers, Skip(w)
      PROVE  quiet <= StaleAfter
  <2>1. lock.age # None => lock.age \in Ages
    BY <1>1 DEF RecentInv, TypeInv, TypeOK, Lock
  <2>2. lock.age # None /\ lock.age <= StaleAfter
    BY <1>1, <2>1, ConstantsAssumption
    DEF Skip, Locked, RecentInv, TypeInv, TypeOK, Ages, Old
  <2>3. quiet <= lock.age
    BY <1>1, <2>2 DEF RecentInv, Recent, LockAge
  <2> QED
    BY <1>1, <2>1, <2>2, <2>3, AgeFacts, ConstantsAssumption DEF RecentInv, Ages, Old
<1>2. RecentInv /\ [Next]_vars => [\A w \in Workers : Skip(w) => quiet <= StaleAfter]_vars
  BY <1>1
<1> QED
  BY <1>2, RecentInvariance, PTL DEF Spec, SkipIsJustified

-----------------------------------------------------------------------------
(* The cooldown, while nothing spoilt it. *)

Serial == \A v, w \in Workers : work[v].pc # "idle" /\ work[w].pc # "idle" => v = w

\* One callback runs at a time, the document tells exactly when the last
\* automated run began, and a run that passed the lock read the clock after that.
Cool ==
  /\ Serial
  /\ quiet = LockAge
  /\ \A w \in Workers : work[w].pc = "mark" => work[w].age <= quiet

\* Recent is what lets a long quiet make good what was spoilt before it.
CoolInv == RecentInv /\ (spoilt \/ Cool)

\* A delivery that leaves the history unspoilt finds everybody idle, and the
\* document in step with the latest begin.
LEMMA DeliverCool ==
  ASSUME CoolInv, NEW w \in Workers, NEW m \in Messages, Deliver(w, m), ~spoilt'
  PROVE  Cool'
<1> USE DEF CoolInv, RecentInv
<1>1. AllIdle /\ (~spoilt \/ quiet = Old)
  BY DEF Deliver
<1>2. quiet = LockAge
  BY <1>1, AgeFacts DEF Cool, Recent, Ages
<1>3. \A v \in Workers : v # w => work'[v].pc = "idle"
  BY <1>1 DEF Deliver, AllIdle, Goes, TypeInv, TypeOK
<1>4. work'[w].pc = "start"
  BY DEF Deliver, Goes, Idle, TypeInv, TypeOK
<1>5. quiet' = quiet /\ LockAge' = LockAge
  BY DEF Deliver, LockAge
<1> QED
  BY <1>2, <1>3, <1>4, <1>5 DEF Cool, Serial

LEMMA StepSerial ==
  ASSUME TypeInv, Serial, [Next]_vars, ~\E w \in Workers, m \in Messages : Deliver(w, m)
  PROVE  Serial'
<1> USE DEF Serial, TypeInv, TypeOK
<1>1. CASE Tick
  BY <1>1 DEF Tick, Work
<1>2. CASE \E w \in Workers : Crash(w)
  BY <1>2 DEF Crash, Goes, Idle
<1>3. CASE \E m \in Messages : Trigger(m)
  BY <1>3 DEF Trigger
<1>4. CASE \E w \in Workers : Step(w)
  <2>1. PICK w \in Workers : Step(w)
    BY <1>4
  <2>2. work[w].pc # "idle"
    BY <2>1 DEF Step, StartManual, Skip, Pass, PassOpen, Mark, RunReturns, RunRaises,
                Finish
  <2>3. \A v \in Workers \ {w} : work'[v] = work[v]
    BY <2>1 DEF Step, StartManual, Skip, Pass, PassOpen, Mark, RunReturns, RunRaises,
                Finish, BeginRun, Goes
  <2> QED
    BY <2>2, <2>3
<1>5. CASE UNCHANGED vars
  BY <1>5 DEF vars
<1> QED
  BY <1>1, <1>2, <1>3, <1>4, <1>5 DEF Next

\* Whoever is about to mark the lock was so before, or has just read the clock.
LEMMA MarkMoves ==
  ASSUME TypeInv, Next, ~Tick, ~\E w \in Workers : Mark(w),
         NEW w \in Workers, work'[w].pc = "mark"
  PROVE  work'[w] = work[w] \/ work'[w].age = 0
<1> USE DEF Goes, TypeInv, TypeOK
<1>1. CASE \E v \in Workers, m \in Messages : Deliver(v, m)
  BY <1>1 DEF Deliver, Idle
<1>2. CASE \E v \in Workers : Crash(v) \/ Skip(v) \/ Finish(v)
  BY <1>2 DEF Crash, Skip, Finish, Idle
<1>3. CASE \E m \in Messages : Trigger(m)
  BY <1>3 DEF Trigger
<1>4. CASE \E v \in Workers : StartManual(v) \/ PassOpen(v)
  <2>1. PICK v \in Workers : work' = [work EXCEPT ![v] = [work[v] EXCEPT !.pc = "run"]]
    BY <1>4 DEF StartManual, PassOpen, BeginRun
  <2>2. [work[v] EXCEPT !.pc = "run"].pc = "run"
    BY DEF Work
  <2> QED
    BY <2>1, <2>2
<1>5. CASE \E v \in Workers : Pass(v)
  BY <1>5 DEF Pass, Work
<1>6. CASE \E v \in Workers : RunReturns(v) \/ RunRaises(v)
  <2>1. PICK v \in Workers : work' = [work EXCEPT ![v] = After(v)]
    BY <1>6 DEF RunReturns, RunRaises
  <2>2. After(v).pc # "mark"
    BY DEF After, Idle, Work
  <2> QED
    BY <2>1, <2>2
<1> QED
  BY <1>1, <1>2, <1>3, <1>4, <1>5, <1>6 DEF Next, Step

\* Nothing but a delivery makes the history unspoilt again, and a failing write
\* of the lock spoils it.
LEMMA SpoiltStays ==
  ASSUME [Next]_vars, ~spoilt', ~\E w \in Workers, m \in Messages : Deliver(w, m)
  PROVE  ~spoilt /\ ~\E w \in Workers : PassOpen(w)
<1>1. ~\E w \in Workers : PassOpen(w)
  BY DEF PassOpen
<1>2. CASE \E w \in Workers : Step(w)
  <2>1. PICK w \in Workers : Step(w)
    BY <1>2
  <2>2. spoilt' = spoilt \/ spoilt' = TRUE
    BY <2>1 DEF Step, StartManual, Skip, Pass, PassOpen, Mark, RunReturns, RunRaises,
                Finish
  <2> QED
    BY <1>1, <2>2
<1>3. CASE Tick \/ (\E w \in Workers : Crash(w)) \/ (\E m \in Messages : Trigger(m))
           \/ UNCHANGED vars
  <2>1. spoilt' = spoilt
    BY <1>3 DEF Tick, Crash, Trigger, vars
  <2> QED
    BY <1>1, <2>1
<1> QED
  BY <1>2, <1>3 DEF Next

LEMMA StepCool ==
  ASSUME CoolInv, [Next]_vars, ~spoilt'
  PROVE  Cool'
<1> USE DEF CoolInv, RecentInv, Cool
<1>1. CASE \E w \in Workers, m \in Messages : Deliver(w, m)
  BY <1>1, DeliverCool
<1>2. CASE ~\E w \in Workers, m \in Messages : Deliver(w, m)
  <2>1. Cool /\ ~\E w \in Workers : PassOpen(w)
    BY <1>2, SpoiltStays
  <2>2. Serial'
    BY <1>2, <2>1, StepSerial
  <2>3. CASE Tick
    <3>1. \A w \in Workers :
            work'[w].pc = work[w].pc /\ work'[w].age = Older(work[w].age)
      BY <2>3 DEF Tick, TypeInv, TypeOK, Work
    <3>2. \A w \in Workers : work'[w].pc = "mark" => work'[w].age <= quiet'
      BY <2>1, <2>3, <3>1, TickMoves, AgeFacts, OlderAge
    <3> QED
      BY <2>1, <2>2, <2>3, <3>2, TickMoves
  <2>4. CASE \E w \in Workers : Mark(w)
    <3>1. PICK w \in Workers : Mark(w)
      BY <2>4
    <3>2. lock' = [status |-> "running", age |-> work[w].age]
      BY <3>1 DEF Mark
    <3>3. LockAge' = work[w].age
      BY <3>2, AgeFacts DEF LockAge
    <3>4. work[w].msg \in Automated /\ work[w].age <= quiet
      BY <2>1, <3>1 DEF Mark, TypeInv, Sound
    <3>5. quiet' = work[w].age
      BY <3>1, <3>4, AgeFacts DEF Mark, BeginRun, Ages
    <3>6. \A v \in Workers : work'[v].pc # "mark"
      BY <2>1, <3>1 DEF Mark, BeginRun, Goes, Serial, TypeInv, TypeOK
    <3> QED
      BY <2>2, <3>3, <3>5, <3>6
  <2>5. CASE Next /\ ~Tick /\ ~\E w \in Workers : Mark(w)
    <3>1. quiet' = quiet /\ LockAge' = LockAge
      BY <2>1, <2>5, LockMoves
    <3>2. \A w \in Workers : work'[w].pc = "mark" => work'[w].age <= quiet'
      BY <2>1, <2>5, <3>1, MarkMoves, AgeFacts
    <3> QED
      BY <2>1, <2>2, <3>1, <3>2
  <2>6. CASE UNCHANGED vars
    BY <2>1, <2>2, <2>6 DEF vars, LockAge
  <2> QED
    BY <2>3, <2>4, <2>5, <2>6
<1> QED
  BY <1>1, <1>2

LEMMA CoolInvariance == Spec => []CoolInv
<1>1. Init => CoolInv
  <2>1. ASSUME Init PROVE Recent /\ Cool
    BY <2>1, ConstantsAssumption DEF Init, Cool, Serial, Idle, LockAge, Old, Recent
  <2> QED
    BY <2>1, InitType DEF CoolInv, RecentInv
<1>2. CoolInv /\ [Next]_vars => CoolInv'
  BY StepCool, StepRecent, StepType DEF CoolInv, RecentInv
<1> QED
  BY <1>1, <1>2, PTL DEF Spec

\* The lock keeps the cooldown, whatever crashes and is delivered again, until
\* callbacks overlap or the document cannot be read or marked, and keeps it again
\* after STALE_AFTER without a run, for every cooldown not longer than that.
THEOREM CooldownHolds == Spec => CooldownKept
<1>1. ASSUME CoolInv, ~spoilt, NEW w \in Workers, Pass(w)
      PROVE  quiet >= Cooldown
  <2>1. quiet = LockAge /\ TypeOK
    BY <1>1 DEF CoolInv, Cool, RecentInv, TypeInv
  <2>2. CASE lock.age = None
    BY <2>1, <2>2, ConstantsAssumption DEF LockAge, Old
  <2>3. CASE lock.age # None
    <3>1. quiet = lock.age /\ lock.age \in Nat
      BY <2>1, <2>3, ConstantsAssumption DEF LockAge, TypeOK, Lock, Ages, Old
    <3> QED
      BY <1>1, <2>3, <3>1, ConstantsAssumption DEF Pass, Locked
  <2> QED
    BY <2>2, <2>3
<1>2. CoolInv /\ [Next]_vars
        => [\A w \in Workers : Pass(w) /\ ~spoilt => quiet >= Cooldown]_vars
  BY <1>1
<1> QED
  BY <1>2, CoolInvariance, PTL DEF Spec, CooldownKept

=============================================================================
