-------------------------- MODULE OperationLimiter --------------------------
(***************************************************************************)
(* The semaphore in front of an external dependency (Judge0, Groq, the     *)
(* importer): at most maxInFlight operations run, at most maxQueue wait,   *)
(* and the rest is refused.  Operations are the callers of run(); the work *)
(* of an operation settles at any time after it was started, and the       *)
(* finally block of execute() drains the queue in the same step.           *)
(***************************************************************************)
EXTENDS Integers, FiniteSets, Sequences

CONSTANTS
  Operations,   \* calls of run()
  MaxInFlight,  \* options.maxInFlight
  MaxQueue      \* options.maxQueue

VARIABLES
  active,  \* this.active
  queue,   \* this.queue
  status   \* what became of each call

vars == <<active, queue, status>>

Init ==
  /\ active = 0
  /\ queue = <<>>
  /\ status = [o \in Operations |-> "new"]

-----------------------------------------------------------------------------
\* Mutant: <= for <.
RunStartsOneMore(o) ==
  /\ status[o] = "new"
  /\ active <= MaxInFlight
  /\ active' = active + 1
  /\ status' = [status EXCEPT ![o] = "running"]
  /\ UNCHANGED queue

\* run() with capacity left: execute() starts the work at once.
RunStarts(o) ==
  /\ status[o] = "new"
  /\ active < MaxInFlight
  /\ active' = active + 1
  /\ status' = [status EXCEPT ![o] = "running"]
  /\ UNCHANGED queue

RunQueues(o) ==
  /\ status[o] = "new"
  /\ active >= MaxInFlight
  /\ Len(queue) < MaxQueue
  /\ queue' = Append(queue, o)
  /\ status' = [status EXCEPT ![o] = "queued"]
  /\ UNCHANGED active

\* OperationLimitExceededError.
RunRejects(o) ==
  /\ status[o] = "new"
  /\ active >= MaxInFlight
  /\ Len(queue) >= MaxQueue
  /\ status' = [status EXCEPT ![o] = "rejected"]
  /\ UNCHANGED <<active, queue>>

\* How many operations the loop of drain() starts when a operations are active.
Drained(a) ==
  IF a >= MaxInFlight THEN 0
  ELSE IF Len(queue) <= MaxInFlight - a THEN Len(queue) ELSE MaxInFlight - a

\* Mutant: queue.pop() for queue.shift().
ShiftLast(n) ==
  [started |-> {queue[i] : i \in (Len(queue) - n + 1)..Len(queue)},
   rest |-> SubSeq(queue, 1, Len(queue) - n)]

\* n times queue.shift().
Shift(n) ==
  [started |-> {queue[i] : i \in 1..n}, rest |-> SubSeq(queue, n + 1, Len(queue))]

\* The work of o resolves or rejects: execute()'s finally block.
Settle(o) ==
  /\ status[o] = "running"
  /\ LET n == Drained(active - 1)
         next == Shift(n)
     IN /\ active' = active - 1 + n
        /\ queue' = next.rest
        /\ status' = [p \in Operations |->
                        IF p = o THEN "settled"
                        ELSE IF p \in next.started THEN "running" ELSE status[p]]

Next ==
  \/ \E o \in Operations : RunStarts(o)
  \/ \E o \in Operations : RunQueues(o)
  \/ \E o \in Operations : RunRejects(o)
  \/ \E o \in Operations : Settle(o)

Spec == Init /\ [][Next]_vars

-----------------------------------------------------------------------------
(* Properties.                                                             *)

Running == {o \in Operations : status[o] = "running"}
Queued == {o \in Operations : status[o] = "queued"}

TypeOK ==
  /\ active \in Nat
  /\ queue \in Seq(Operations)
  /\ status \in [Operations -> {"new", "queued", "running", "settled", "rejected"}]

\* this.active counts the running work, which never exceeds the capacity: every
\* start is paired with one decrement, on the path through the queue too.
ActiveExact == active = Cardinality(Running) /\ active <= MaxInFlight

\* The queue holds every waiting operation once and is bounded.
QueueExact ==
  /\ {queue[i] : i \in 1..Len(queue)} = Queued
  /\ \A i, j \in 1..Len(queue) : queue[i] = queue[j] => i = j
  /\ Len(queue) <= MaxQueue

\* No capacity is left unused while an operation waits.
WorkConserving == queue # <<>> => active = MaxInFlight

\* Operations leave the queue in order, and a new call never overtakes one that
\* waits: what starts in a step is a prefix of the queue, or the queue is empty.
NoOvertaking ==
  [][\A o \in Operations :
       status[o] # "running" /\ status'[o] = "running" =>
         \/ queue = <<>>
         \/ \E i \in 1..Len(queue) :
              /\ queue[i] = o
              /\ \A j \in 1..i : status'[queue[j]] = "running"]_vars

\* An operation that was accepted is started and settles.
AcceptedSettles ==
  \A o \in Operations : status[o] \in {"queued", "running"} ~> status[o] = "settled"
=============================================================================
