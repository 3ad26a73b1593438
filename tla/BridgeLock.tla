------------------------------- MODULE BridgeLock -------------------------------
(***************************************************************************)
(* The bridge worker (src/workers/bigquery_bridge_worker.py) and the run   *)
(* lock of its automated runs (src/services/bridge_run_lock.py).           *)
(*                                                                         *)
(* A message asks for one bridge run of a group code.  A manual run always *)
(* happens; a triggered run is skipped while another automated run of the  *)
(* group code is recorded as running, and for COOLDOWN after the last one  *)
(* began.  One group code is modelled: the lock documents of different     *)
(* group codes have nothing in common.  What a run does is left to its     *)
(* outcome here: it returns, or it raises.                                 *)
(*                                                                         *)
(* Time is counted in ticks and only kept as ages, the time since          *)
(* something happened, up to the first tick at which every age means the   *)
(* same to the lock.                                                       *)
(***************************************************************************)
EXTENDS Naturals

CONSTANTS
  Workers,    \* callbacks of the subscription, over all instances of the process
  Messages,   \* Pub/Sub messages
  Automated,  \* the messages with method = "triggered"
  Cooldown,   \* COOLDOWN in ticks
  StaleAfter, \* STALE_AFTER in ticks
  Faults,     \* what the environment may do, a subset of FaultKinds
  None        \* the absent value

(* crash      a callback dies between two steps                             *)
(* overlap    two callbacks run at once: in two instances of the process,   *)
(*            or in one, where settling a message frees its place before    *)
(*            the finally clause is through                                 *)
(* firestore  a read or a write of the lock document fails                  *)
FaultKinds == {"crash", "overlap", "firestore"}

ASSUME ConstantsAssumption ==
  /\ Automated \subseteq Messages
  /\ Cooldown \in Nat \ {0}
  /\ StaleAfter \in Nat
  /\ Cooldown <= StaleAfter
  /\ Faults \subseteq FaultKinds
  /\ None \notin Messages \cup Nat

VARIABLES
  msgs,   \* Messages -> "pending", "leased" (delivered, not settled), "acked"
  work,   \* Workers -> the locals of the callback
  lock,   \* the lock document: its status and the age of started_at
  quiet,  \* the age of the latest begin of an automated run
  spoilt  \* since the last long quiet, callbacks overlapped, or the lock could
          \* not be read or marked

vars == <<msgs, work, lock, quiet, spoilt>>

-----------------------------------------------------------------------------
Old == StaleAfter + 1
Ages == 0..Old
Older(a) == IF a < Old THEN a + 1 ELSE a

Lock == [status : {"none", "running", "idle"}, age : Ages \cup {None}]
Work == [pc : {"idle", "start", "mark", "run", "finish"},
         msg : Messages \cup {None}, age : Ages]
Idle == [pc |-> "idle", msg |-> None, age |-> 0]

Init ==
  /\ msgs = [m \in Messages |-> "pending"]
  /\ work = [w \in Workers |-> Idle]
  /\ lock = [status |-> "none", age |-> None]
  /\ quiet = Old
  /\ spoilt = FALSE

-----------------------------------------------------------------------------
Goes(w, r) == work' = [work EXCEPT ![w] = r]
Settle(m, s) == msgs' = [msgs EXCEPT ![m] = s]

\* One tick passes for everything that is timed.
Tick ==
  /\ work' = [w \in Workers |-> [work[w] EXCEPT !.age = Older(@)]]
  /\ lock' = [lock EXCEPT !.age = IF @ = None THEN None ELSE Older(@)]
  /\ quiet' = Older(quiet)
  /\ UNCHANGED <<msgs, spoilt>>

AllIdle == \A w \in Workers : work[w].pc = "idle"

Deliver(w, m) ==
  /\ msgs[m] = "pending"
  /\ work[w].pc = "idle"
  /\ "overlap" \in Faults \/ AllIdle
  /\ Settle(m, "leased")
  /\ Goes(w, [Idle EXCEPT !.pc = "start", !.msg = m])
  /\ spoilt' = (~AllIdle \/ (spoilt /\ quiet # Old))
  /\ UNCHANGED <<lock, quiet>>

\* The process dies in the middle of a callback; the message comes back unless
\* it was settled before.
Crash(w) ==
  /\ "crash" \in Faults
  /\ work[w].pc # "idle"
  /\ IF work[w].pc = "finish" THEN UNCHANGED msgs ELSE Settle(work[w].msg, "pending")
  /\ Goes(w, Idle)
  /\ UNCHANGED <<lock, quiet, spoilt>>

\* Somebody uploads to BigQuery, or asks for a run, again.
Trigger(m) ==
  /\ msgs[m] = "acked"
  /\ Settle(m, "pending")
  /\ UNCHANGED <<work, lock, quiet, spoilt>>

-----------------------------------------------------------------------------
(* try_start. *)

\* Variant: a lock that was left behind is never reclaimed.
LockedForGood ==
  \/ lock.status = "running"
  \/ lock.age # None /\ lock.age < Cooldown

\* Variant: once a run is over, nothing keeps the next one back.
LockedWhileRunning == lock.status = "running" /\ lock.age <= StaleAfter

\* The lock document keeps an automated run from starting.
Locked ==
  IF lock.status = "running"
    THEN lock.age = None \/ lock.age <= StaleAfter
    ELSE lock.age # None /\ lock.age < Cooldown

\* The callback goes on to BigqueryBridge.main; an automated run counts as begun
\* at the "now" of its look at the lock, a ticks ago.
BeginRun(w, a) ==
  /\ Goes(w, [work[w] EXCEPT !.pc = "run"])
  /\ quiet' = IF work[w].msg \in Automated /\ a < quiet THEN a ELSE quiet

\* A manual run does not look at the lock.
StartManual(w) ==
  /\ work[w].pc = "start"
  /\ work[w].msg \notin Automated
  /\ BeginRun(w, 0)
  /\ UNCHANGED <<msgs, lock, spoilt>>

\* The document is read and blocks the run: the message is acked unserved.
Skip(w) ==
  /\ work[w].pc = "start"
  /\ work[w].msg \in Automated
  /\ Locked
  /\ Settle(work[w].msg, "acked")
  /\ Goes(w, Idle)
  /\ UNCHANGED <<lock, quiet, spoilt>>

\* The document is read and leaves the way free; "now" is taken at this point.
Pass(w) ==
  /\ work[w].pc = "start"
  /\ work[w].msg \in Automated
  /\ ~Locked
  /\ Goes(w, [work[w] EXCEPT !.pc = "mark", !.age = 0])
  /\ UNCHANGED <<msgs, lock, quiet, spoilt>>

\* The read fails, which counts as a free lock.
PassOpen(w) ==
  /\ "firestore" \in Faults
  /\ work[w].pc = "start"
  /\ work[w].msg \in Automated
  /\ BeginRun(w, 0)
  /\ spoilt' = TRUE
  /\ UNCHANGED <<msgs, lock>>

\* Variant: the start time of the document is left as it was.
MarkStatusOnly(w) ==
  /\ work[w].pc = "mark"
  /\ lock' = [lock EXCEPT !.status = "running"]
  /\ BeginRun(w, work[w].age)
  /\ UNCHANGED <<msgs, spoilt>>

\* The document is written, with the "now" of the read; a failing write does
\* not keep the run from starting.
Mark(w) ==
  /\ work[w].pc = "mark"
  /\ \/ lock' = [status |-> "running", age |-> work[w].age] /\ UNCHANGED spoilt
     \/ "firestore" \in Faults /\ UNCHANGED lock /\ spoilt' = TRUE
  /\ BeginRun(w, work[w].age)
  /\ UNCHANGED msgs

-----------------------------------------------------------------------------
(* The run and its end. *)

After(w) ==
  IF work[w].msg \in Automated THEN [work[w] EXCEPT !.pc = "finish"] ELSE Idle

\* main() returns, with whatever status: the message is acked.
RunReturns(w) ==
  /\ work[w].pc = "run"
  /\ Settle(work[w].msg, "acked")
  /\ Goes(w, After(w))
  /\ UNCHANGED <<lock, quiet, spoilt>>

\* The constructor or main() raises: the message is nacked.
RunRaises(w) ==
  /\ work[w].pc = "run"
  /\ Settle(work[w].msg, "pending")
  /\ Goes(w, After(w))
  /\ UNCHANGED <<lock, quiet, spoilt>>

\* The finally clause of an automated run.  Whose lock it clears is not looked
\* at.
Finish(w) ==
  /\ work[w].pc = "finish"
  /\ \/ lock' = [lock EXCEPT !.status = "idle"]
     \/ "firestore" \in Faults /\ UNCHANGED lock
  /\ Goes(w, Idle)
  /\ UNCHANGED <<msgs, quiet, spoilt>>

-----------------------------------------------------------------------------
Step(w) ==
  \/ StartManual(w) \/ Skip(w) \/ Pass(w) \/ PassOpen(w) \/ Mark(w)
  \/ RunReturns(w) \/ RunRaises(w) \/ Finish(w)

Next ==
  \/ Tick
  \/ \E w \in Workers : Step(w) \/ Crash(w) \/ \E m \in Messages : Deliver(w, m)
  \/ \E m \in Messages : Trigger(m)

Spec == Init /\ [][Next]_vars

-----------------------------------------------------------------------------
(* Properties. *)

\* Every variable keeps its shape; a lock recorded as running always says since
\* when, so that it can be found abandoned (try_start).
TypeOK ==
  /\ msgs \in [Messages -> {"pending", "leased", "acked"}]
  /\ work \in [Workers -> Work]
  /\ lock \in Lock
  /\ quiet \in Ages
  /\ spoilt \in BOOLEAN
  /\ lock.status = "running" => lock.age # None

\* While one callback runs at a time and the lock can be read and marked, no
\* automated run passes the lock within COOLDOWN of the begin of another, whatever
\* crashes in between and whichever messages are delivered again (try_start); and
\* what did go wrong is forgotten after STALE_AFTER without a run.
CooldownKept ==
  [][\A w \in Workers : Pass(w) /\ ~spoilt => quiet >= Cooldown]_vars

\* A trigger is dropped only if an automated run began within the last
\* STALE_AFTER: a lock whose owner died blocks nobody for longer than that.
SkipIsJustified == [][\A w \in Workers : Skip(w) => quiet <= StaleAfter]_vars

=============================================================================
