------------------------------ MODULE OrderWorker ------------------------------
(***************************************************************************)
(* Order submission (src/workers/order_worker.py) and its task documents   *)
(* (src/services/task_service.py).                                         *)
(*                                                                         *)
(* A Pub/Sub message carries one order task.  The callback reports the     *)
(* task as processing, creates the order header in BC, posts the lines one *)
(* after another, and deletes the header again if BC turns a line down.    *)
(* Up to five callbacks run at once in one process, each on a message of   *)
(* its own.                                                                *)
(*                                                                         *)
(* Faults names what the environment may do beyond turning a header or a   *)
(* line down, which it always may.                                         *)
(***************************************************************************)
EXTENDS Naturals, Sequences

CONSTANTS
  Workers,   \* callbacks of the subscription, over all instances of the process
  Tasks,     \* order tasks, one Pub/Sub message each
  OrderIds,  \* the ids BC may hand out (a bound for TLC)
  Size,      \* Tasks -> Nat, the number of lines of a task
  Faults,    \* what the environment may do, a subset of FaultKinds
  None       \* the absent value

(* crash      a callback dies between two steps                             *)
(* overlap    a message is delivered again while its callback still runs    *)
(* network    a request to BC raises before BC applied it                   *)
(* lost       BC applies a request and the caller sees an exception or an   *)
(*            error status                                                  *)
(* busy       BC still answers 429, 502 or 503 after the client's retries   *)
(* resend     BC applies a POST, answers 502 or 503, and it is sent again   *)
(* undelete   the deletion of the header raises or is refused               *)
(* firestore  a write of the task document raises                           *)
FaultKinds == {"crash", "overlap", "network", "lost", "busy", "resend",
               "undelete", "firestore"}

ASSUME ConstantsAssumption ==
  /\ Size \in [Tasks -> Nat]
  /\ Faults \subseteq FaultKinds
  /\ None \notin Tasks \cup OrderIds

VARIABLES
  msgs,    \* Tasks -> "pending", "leased" (delivered, not settled), "acked"
  work,    \* Workers -> the locals of the callback
  orders,  \* OrderIds -> the orders in BC
  tasks    \* Tasks -> the task documents

vars == <<msgs, work, orders, tasks>>

-----------------------------------------------------------------------------
PCs == {"idle", "begin", "header", "lines", "rollback", "reject", "error", "ack"}
Causes == {"rejected", "busy", "network", "firestore"}

Order == [task : Tasks \cup {None}, lines : Seq(Nat)]
NoOrder == [task |-> None, lines |-> <<>>]

Task == [status : {"none", "processing", "done", "failed"},
         result : OrderIds \cup {None}, error : Causes \cup {None}]

Work == [pc : PCs, task : Tasks \cup {None}, order : OrderIds \cup {None},
         next : Nat, cause : Causes \cup {None}]
Idle == [pc |-> "idle", task |-> None, order |-> None, next |-> 0, cause |-> None]

\* Ids that name no order in BC.
Unused == {n \in OrderIds : orders[n].task = None}
OrdersOf(t) == {n \in OrderIds : orders[n].task = t}

\* The lines of task t, in order.
AllLines(t) == [i \in 1..Size[t] |-> i]

Init ==
  /\ msgs = [t \in Tasks |-> "pending"]
  /\ work = [w \in Workers |-> Idle]
  /\ orders = [n \in OrderIds |-> NoOrder]
  /\ tasks = [t \in Tasks |-> [status |-> "none", result |-> None, error |-> None]]

-----------------------------------------------------------------------------
(* Delivery and settlement. *)

Goes(w, r) == work' = [work EXCEPT ![w] = r]

\* The callback is over, its message in state s.
Leave(w, s) ==
  /\ msgs' = [msgs EXCEPT ![work[w].task] = s]
  /\ Goes(w, Idle)

Deliver(w, t) ==
  /\ msgs[t] = "pending"
  /\ work[w].pc = "idle"
  /\ "overlap" \in Faults \/ \A v \in Workers : work[v].task # t
  /\ msgs' = [msgs EXCEPT ![t] = "leased"]
  /\ Goes(w, [Idle EXCEPT !.pc = "begin", !.task = t])
  /\ UNCHANGED <<orders, tasks>>

LeaseExpires(t) ==
  /\ "overlap" \in Faults
  /\ msgs[t] = "leased"
  /\ msgs' = [msgs EXCEPT ![t] = "pending"]
  /\ UNCHANGED <<work, orders, tasks>>

\* The process dies in the middle of a callback; the message comes back.
Crash(w) ==
  /\ "crash" \in Faults
  /\ work[w].pc # "idle"
  /\ Leave(w, "pending")
  /\ UNCHANGED <<orders, tasks>>

-----------------------------------------------------------------------------
(* The task document. *)

\* update_task merges the given fields; the others keep what earlier writes,
\* or earlier deliveries, put there.
Done(t, n) == tasks' = [tasks EXCEPT ![t].status = "done", ![t].result = n]
Failed(t, e) == tasks' = [tasks EXCEPT ![t].status = "failed", ![t].error = e]

\* A request raises: the outer exception handler goes on.
Raise(w, e) == Goes(w, [work[w] EXCEPT !.pc = "error", !.cause = e])

\* The try block opens: the task is reported as processing.
Begin(w) ==
  /\ work[w].pc = "begin"
  /\ \/ /\ tasks' = [tasks EXCEPT ![work[w].task].status = "processing"]
        /\ Goes(w, [work[w] EXCEPT !.pc = "header"])
     \/ /\ "firestore" \in Faults
        /\ Raise(w, "firestore")
        /\ UNCHANGED tasks
  /\ UNCHANGED <<msgs, orders>>

-----------------------------------------------------------------------------
(* The order in BC. *)

\* The causes an answer that is no success, or no answer, may have.
Refusals == {"rejected"} \cup ({"busy"} \cap Faults)

\* Orders after BC created one for task t under each id of ns.
WithNew(ns, t) ==
  [n \in OrderIds |-> IF n \in ns THEN [NoOrder EXCEPT !.task = t] ELSE orders[n]]

\* POST the header.
CreateHeader(w) ==
  LET t == work[w].task
      Holding(n) == [work[w] EXCEPT !.pc = "lines", !.order = n, !.next = 1]
  IN
  /\ work[w].pc = "header"
  /\ \/ \E n \in Unused :
          /\ orders' = WithNew({n}, t)
          /\ Goes(w, Holding(n))
     \/ /\ "resend" \in Faults
        /\ \E n, k \in Unused :
             /\ n # k
             /\ orders' = WithNew({n, k}, t)
             /\ Goes(w, Holding(n))
     \/ /\ "lost" \in Faults
        /\ \E n \in Unused : orders' = WithNew({n}, t)
        /\ Raise(w, "network")
     \* any other answer is a ValueError, with nothing to roll back
     \/ /\ \E e \in Refusals : Goes(w, [work[w] EXCEPT !.pc = "reject", !.cause = e])
        /\ UNCHANGED orders
     \/ /\ "network" \in Faults
        /\ Raise(w, "network")
        /\ UNCHANGED orders
  /\ UNCHANGED <<msgs, tasks>>

\* Orders after BC accepted line i on order n, k times.
WithLine(n, i, k) ==
  [orders EXCEPT ![n].lines = @ \o [j \in 1..k |-> i]]

\* Variant: a line that BC turned down is passed over.
PostLineOver(w) ==
  LET i == work[w].next IN
  /\ work[w].pc = "lines"
  /\ i <= Size[work[w].task]
  /\ \/ orders' = WithLine(work[w].order, i, 1)
     \/ UNCHANGED orders
  /\ Goes(w, [work[w] EXCEPT !.next = i + 1])
  /\ UNCHANGED <<msgs, tasks>>

\* POST the next line; up to four times as long as BC answers 409.
PostLine(w) ==
  LET i == work[w].next IN
  /\ work[w].pc = "lines"
  /\ i <= Size[work[w].task]
  /\ \/ /\ \E k \in {1} \cup (IF "resend" \in Faults THEN {2} ELSE {}) :
             orders' = WithLine(work[w].order, i, k)
        /\ Goes(w, [work[w] EXCEPT !.next = i + 1])
     \/ /\ \/ UNCHANGED orders
           \/ "lost" \in Faults /\ orders' = WithLine(work[w].order, i, 1)
        /\ \E e \in Refusals : Goes(w, [work[w] EXCEPT !.pc = "rollback", !.cause = e])
     \/ /\ "lost" \in Faults
        /\ orders' = WithLine(work[w].order, i, 1)
        /\ Raise(w, "network")
     \/ /\ "network" \in Faults
        /\ Raise(w, "network")
        /\ UNCHANGED orders
  /\ UNCHANGED <<msgs, tasks>>

\* DELETE the header.  Neither an exception nor the status of the answer makes
\* a difference to what follows.
Rollback(w) ==
  /\ work[w].pc = "rollback"
  /\ Goes(w, [work[w] EXCEPT !.pc = "reject", !.order = None])
  /\ \/ orders' = [orders EXCEPT ![work[w].order] = NoOrder]
     \/ "undelete" \in Faults /\ UNCHANGED orders
  /\ UNCHANGED <<msgs, tasks>>

-----------------------------------------------------------------------------
(* The outcome. *)

\* All lines are in: report the task as done.
Finish(w) ==
  /\ work[w].pc = "lines"
  /\ work[w].next > Size[work[w].task]
  /\ \/ /\ Done(work[w].task, work[w].order)
        /\ Goes(w, [work[w] EXCEPT !.pc = "ack", !.order = None])
     \/ /\ "firestore" \in Faults
        /\ Raise(w, "firestore")
        /\ UNCHANGED tasks
  /\ UNCHANGED <<msgs, orders>>

\* Variant: the permanent failure is not written to the task document.
RejectSilently(w) ==
  /\ work[w].pc = "reject"
  /\ Goes(w, [work[w] EXCEPT !.pc = "ack"])
  /\ UNCHANGED <<msgs, orders, tasks>>

\* The ValueError handler: report the task as failed.  A write that raises
\* leaves the callback by an exception, which Pub/Sub treats as a nack.
Reject(w) ==
  /\ work[w].pc = "reject"
  /\ \/ /\ Failed(work[w].task, work[w].cause)
        /\ Goes(w, [work[w] EXCEPT !.pc = "ack"])
        /\ UNCHANGED msgs
     \/ /\ "firestore" \in Faults
        /\ Leave(w, "pending")
        /\ UNCHANGED tasks
  /\ UNCHANGED orders

\* The handler of every other exception: nack if the text names a transient
\* error, otherwise the same as a permanent failure.
HandleError(w) ==
  /\ work[w].pc = "error"
  /\ \/ /\ Leave(w, "pending")
        /\ UNCHANGED tasks
     \/ /\ Failed(work[w].task, work[w].cause)
        /\ Goes(w, [work[w] EXCEPT !.pc = "ack", !.order = None])
        /\ UNCHANGED msgs
  /\ UNCHANGED orders

\* Variant: the callback returns without settling its message.
NoAck(w) ==
  /\ work[w].pc = "ack"
  /\ Leave(w, "leased")
  /\ UNCHANGED <<orders, tasks>>

Ack(w) ==
  /\ work[w].pc = "ack"
  /\ \/ Leave(w, "acked")
     \* an ack whose lease ran out is ignored
     \/ "overlap" \in Faults /\ Leave(w, msgs[work[w].task])
  /\ UNCHANGED <<orders, tasks>>

-----------------------------------------------------------------------------
Step(w) ==
  \/ Begin(w) \/ CreateHeader(w) \/ PostLine(w) \/ Rollback(w)
  \/ Finish(w) \/ Reject(w) \/ HandleError(w) \/ Ack(w)

Next ==
  \/ \E w \in Workers : Step(w) \/ Crash(w) \/ \E t \in Tasks : Deliver(w, t)
  \/ \E t \in Tasks : LeaseExpires(t)

Spec == Init /\ [][Next]_vars

Answered(w) ==
  /\ CreateHeader(w) \/ PostLine(w)
  /\ work'[w].pc # "error"

\* A callback keeps running, the process does not crash for ever, a pending
\* message is delivered if a callback is free for it time and again, and BC is not
\* out of reach at the same request of a task for ever.
Fairness ==
  /\ \A w \in Workers : WF_vars(Step(w))
  /\ <>[][\A w \in Workers : ~Crash(w)]_vars
  /\ \A t \in Tasks :
       /\ SF_vars(\E w \in Workers : Deliver(w, t))
       /\ \A i \in 0..Size[t] :
            SF_vars(\E w \in Workers :
                      work[w].task = t /\ work[w].next = i /\ Answered(w))

LiveSpec == Spec /\ Fairness

-----------------------------------------------------------------------------
(* Properties. *)

\* Every variable keeps its shape, and a task document only ever names an order
\* id as its result (update_task in _process).
TypeOK ==
  /\ msgs \in [Tasks -> {"pending", "leased", "acked"}]
  /\ work \in [Workers -> Work]
  /\ orders \in [OrderIds -> Order]
  /\ tasks \in [Tasks -> Task]

\* A task reported as done names an order of its own that holds every line once
\* and in order, also after other deliveries of the task were rolled back.
DoneIsWhole ==
  \A t \in Tasks : tasks[t].status = "done" =>
    \E n \in OrdersOf(t) : n = tasks[t].result /\ orders[n].lines = AllLines(t)

\* A message is acked only when its task is reported as done or failed: nobody
\* polls for ever on a task that no delivery works on any more.
AckedIsTerminal ==
  \A t \in Tasks : msgs[t] = "acked" => tasks[t].status \in {"done", "failed"}

\* Whatever a settled task leaves in BC is the order it reports: none if it
\* failed, exactly the result if it is done (the rollback in _process).
SettledMatchesBC ==
  \A t \in Tasks : msgs[t] = "acked" =>
    OrdersOf(t) = IF tasks[t].status = "done" THEN {tasks[t].result} ELSE {}

\* Every task is settled in the end, through transient failures and redelivery.
EveryTaskSettles ==
  \A t \in Tasks : <>(msgs[t] = "acked")

=============================================================================
