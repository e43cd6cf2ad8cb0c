-------------------------- MODULE ExecutionProofs --------------------------
(***************************************************************************)
(* Proofs about the way of an execution: to Judge0 through the operation   *)
(* limiter and the circuit breaker (CircuitBreaker and GuardedCalls, the   *)
(* path on which they act together), and from Judge0's answer to what the  *)
(* room is shown (Grading).                                                *)
(*                                                                         *)
(* The counter of the limiter is exact because of what its queue is: every *)
(* waiting call once, and nothing unless all slots are taken.  So the loop *)
(* of drain() starts at most one call, into the slot that was freed.       *)
(*                                                                         *)
(* A result is right because a payload is: it has the entry of every case  *)
(* that was loaded, once, and grading finds each at the place of its case. *)
(* What an execution loads is found by a recursion over the cases, about   *)
(* which the lemmas on findVisible prove what they do by induction.        *)
(***************************************************************************)
EXTENDS GuardedCalls, Grading, SequenceTheorems, FiniteSetTheorems,
        WellFoundedInduction, TLAPS

-----------------------------------------------------------------------------
(* The breaker.                                                            *)

BreakerInv == TypeOK /\ TimerExact /\ ClosedBelowThreshold

LEMMA BreakerInit == Init => BreakerInv
BY ThresholdAssumption
DEF ThresholdAssumption, Init, BreakerInv, TypeOK, TimerExact, ClosedBelowThreshold

LEMMA BreakerNext == BreakerInv /\ [Next]_vars => BreakerInv'
<1> SUFFICES ASSUME BreakerInv, [Next]_vars PROVE BreakerInv'
    OBVIOUS
<1>a. FailureThreshold \in Nat \ {0} /\ MaxReopen \in Nat
    BY ThresholdAssumption DEF ThresholdAssumption
<1>b. TypeOK /\ TimerExact /\ ClosedBelowThreshold
    BY DEF BreakerInv
<1>1. ASSUME NEW n \in 1..MaxReopen, HalfOpen(n) PROVE BreakerInv'
  <2>1. state = "open" /\ armed = {n}
      BY <1>1, <1>b DEF HalfOpen, TimerExact
  <2>2. armed' = {} /\ state' = "half_open" /\ resetTimer' = 0
      BY <1>1, <2>1 DEF HalfOpen
  <2>3. TypeOK'
      BY <1>1, <1>a, <1>b, <2>2 DEF HalfOpen, TypeOK
  <2> QED
      BY <2>2, <2>3 DEF BreakerInv, TimerExact, ClosedBelowThreshold
<1>2. ASSUME NEW c \in Calls, Admit(c) \/ Refuse(c) PROVE BreakerInv'
    BY <1>2, <1>b DEF Admit, Refuse, BreakerInv, TypeOK, TimerExact, ClosedBelowThreshold
<1>3. ASSUME NEW c \in Calls, RecordSuccess(c) PROVE BreakerInv'
  <2>1. TypeOK'
      BY <1>3, <1>b DEF RecordSuccess, TypeOK
  <2>2. TimerExact'
      BY <1>3, <1>b DEF RecordSuccess, TimerExact
  <2>3. ClosedBelowThreshold'
      BY <1>3, <1>a DEF RecordSuccess, ClosedBelowThreshold
  <2> QED
      BY <2>1, <2>2, <2>3 DEF BreakerInv
<1>4. ASSUME NEW c \in Calls, RecordFailure(c) PROVE BreakerInv'
  <2>1. consecutiveFailures' = consecutiveFailures + 1 /\ consecutiveFailures' \in Nat
      BY <1>4, <1>b DEF RecordFailure, TypeOK
  <2>2. CASE Trips
    <3>1. armed = {}
        BY <1>b, <2>2 DEF Trips, TimerExact
    <3>2. /\ state' = "open" /\ scheduled' = scheduled + 1 /\ resetTimer' = scheduled + 1
          /\ armed' = {scheduled + 1} /\ scheduled < MaxReopen
        BY <1>4, <2>2, <3>1 DEF RecordFailure, ScheduleHalfOpen
    <3>3. scheduled + 1 \in 1..MaxReopen
        BY <1>a, <1>b, <3>2 DEF TypeOK
    <3>4. TypeOK'
        BY <1>4, <1>a, <1>b, <2>1, <3>2, <3>3 DEF RecordFailure, TypeOK
    <3> QED
        BY <1>a, <3>2, <3>3, <3>4 DEF BreakerInv, TimerExact, ClosedBelowThreshold
  <2>3. CASE ~Trips
    <3>1. UNCHANGED <<state, resetTimer, armed, scheduled>>
        BY <1>4, <2>3 DEF RecordFailure
    <3>2. TypeOK' /\ TimerExact'
        BY <1>4, <1>b, <2>1, <3>1 DEF RecordFailure, TypeOK, TimerExact
    <3>3. ClosedBelowThreshold'
        BY <1>a, <1>b, <2>1, <2>3, <3>1 DEF Trips, ClosedBelowThreshold, TypeOK
    <3> QED
        BY <3>2, <3>3 DEF BreakerInv
  <2> QED
      BY <2>2, <2>3
<1>5. ASSUME Reset PROVE BreakerInv'
    BY <1>5, <1>a, <1>b DEF Reset, BreakerInv, TypeOK, TimerExact, ClosedBelowThreshold
<1>6. ASSUME UNCHANGED vars PROVE BreakerInv'
    BY <1>6, <1>b DEF vars, BreakerInv, TypeOK, TimerExact, ClosedBelowThreshold
<1> QED
    BY <1>1, <1>2, <1>3, <1>4, <1>5, <1>6 DEF Next

LEMMA BreakerInvariant == Spec => []BreakerInv
<1> QED
    BY BreakerInit, BreakerNext, PTL DEF Spec

\* An open breaker has exactly one half-open timeout and no other state has any,
\* however calls admitted before and after it opened complete.
THEOREM TimerExactAlways == Spec => []TimerExact
<1>1. BreakerInv => TimerExact
    BY DEF BreakerInv
<1> QED
    BY <1>1, BreakerInvariant, PTL

\* A closed breaker has fewer failures on record than the threshold.
THEOREM ClosedBelowThresholdAlways == Spec => []ClosedBelowThreshold
<1>1. BreakerInv => ClosedBelowThreshold
    BY DEF BreakerInv
<1> QED
    BY <1>1, BreakerInvariant, PTL

\* No completing call takes the breaker from open to closed.
THEOREM OpenOnlyTimesOutAlways == Spec => OpenOnlyTimesOut
<1>1. [Next]_vars => [state = "open" /\ state' = "closed" => UNCHANGED call]_vars
    BY DEF Next, vars, HalfOpen, Admit, Refuse, RecordSuccess, RecordFailure, Reset,
           ScheduleHalfOpen
<1> QED
    BY <1>1, PTL DEF Spec, OpenOnlyTimesOut

-----------------------------------------------------------------------------
(* The path of a call.                                                     *)

\* A call that the dependency works on has a slot.
CallsHaveSlots == \A c \in Calls : call[c] = "running" => status[c] = "running"

LimiterInv ==
  /\ L!TypeOK
  /\ IsFiniteSet(L!Running)
  /\ L!ActiveExact
  /\ L!QueueExact
  /\ L!WorkConserving

PathInv ==
  /\ BreakerInv
  /\ LimiterInv
  /\ CallsHaveSlots

LEMMA OptionsInt == MaxInFlight \in Nat /\ MaxInFlight >= 1 /\ MaxQueue \in Nat
BY OptionsAssumption DEF OptionsAssumption

\* The limiter counts with the operator the theorems on finite sets are about.
LEMMA SameCardinality == \A S : L!Cardinality(S) = Cardinality(S)
BY DEF L!Cardinality, Cardinality

\* A running call holds one of the slots.
LEMMA RunningCounts ==
  ASSUME LimiterInv, NEW o \in Calls, status[o] = "running"
  PROVE  active \in Nat /\ active >= 1 /\ active <= MaxInFlight
<1>1. o \in L!Running /\ IsFiniteSet(L!Running) /\ active = Cardinality(L!Running)
    BY SameCardinality DEF L!Running, LimiterInv, L!ActiveExact
<1>2. active # 0
    BY <1>1, FS_EmptySet
<1> QED
    BY <1>2 DEF LimiterInv, L!TypeOK, L!ActiveExact

\* drain() finds one free slot: it starts the first waiting call or none.
LEMMA DrainedOne ==
  ASSUME LimiterInv, NEW o \in Calls, status[o] = "running"
  PROVE  L!Drained(active - 1) = IF queue = <<>> THEN 0 ELSE 1
<1>1. active \in Nat /\ active >= 1 /\ active <= MaxInFlight
    BY RunningCounts
<1>2. queue \in Seq(Calls) /\ (queue # <<>> => active = MaxInFlight)
    BY DEF LimiterInv, L!TypeOK, L!WorkConserving
<1>3. CASE queue = <<>>
  <2>1. Len(queue) = 0
      BY <1>3
  <2> QED
      BY <1>1, <1>3, <2>1, OptionsInt DEF L!Drained
<1>4. CASE queue # <<>>
  <2>1. Len(queue) \in Nat /\ Len(queue) >= 1
      BY <1>2, <1>4, EmptySeq, LenProperties
  <2>2. ~(active - 1 >= MaxInFlight) /\ MaxInFlight - (active - 1) = 1
      BY <1>1, <1>2, <1>4, OptionsInt
  <2>3. L!Drained(active - 1) = IF Len(queue) <= 1 THEN Len(queue) ELSE 1
      BY ONLY <2>2 DEF L!Drained
  <2> QED
      BY <1>4, <2>1, <2>3
<1> QED
    BY <1>3, <1>4

\* What the finally block of execute() does to the limiter.
SettleAlone(o) ==
  /\ queue = <<>>
  /\ active' = active - 1
  /\ queue' = <<>>
  /\ status' = [p \in Calls |-> IF p = o THEN "settled" ELSE status[p]]

SettleAndStart(o) ==
  /\ queue # <<>>
  /\ active' = active
  /\ queue' = SubSeq(queue, 2, Len(queue))
  /\ status' = [p \in Calls |-> IF p = o THEN "settled"
                                ELSE IF p = queue[1] THEN "running" ELSE status[p]]

LEMMA SettleEffect ==
  ASSUME LimiterInv, NEW o \in Calls, L!Settle(o)
  PROVE  SettleAlone(o) \/ SettleAndStart(o)
<1>1. status[o] = "running"
    BY DEF L!Settle
<1>2. L!Drained(active - 1) = IF queue = <<>> THEN 0 ELSE 1
    BY <1>1, DrainedOne
<1>3. active \in Nat /\ active >= 1
    BY <1>1, RunningCounts
<1>4. /\ active' = active - 1 + L!Drained(active - 1)
      /\ queue' = SubSeq(queue, L!Drained(active - 1) + 1, Len(queue))
      /\ status' = [p \in Calls |->
                      IF p = o THEN "settled"
                      ELSE IF p \in {queue[i] : i \in 1..L!Drained(active - 1)}
                           THEN "running" ELSE status[p]]
    BY DEF L!Settle, L!Shift
<1>5. CASE queue = <<>>
  <2>1. L!Drained(active - 1) = 0 /\ 1..0 = {}
      BY <1>2, <1>5
  <2>2. SubSeq(queue, 1, Len(queue)) = <<>>
      BY <1>5
  <2>3. active' = active - 1 /\ queue' = <<>>
      BY <1>3, <1>4, <2>1, <2>2
  <2>4. status' = [p \in Calls |-> IF p = o THEN "settled" ELSE status[p]]
      BY <1>4, <2>1
  <2> QED
      BY <1>5, <2>3, <2>4 DEF SettleAlone
<1>6. CASE queue # <<>>
  <2>1. L!Drained(active - 1) = 1 /\ 1..1 = {1}
      BY <1>2, <1>6
  <2>2. {queue[i] : i \in 1..1} = {queue[1]}
      BY <2>1
  <2>3. active' = active /\ queue' = SubSeq(queue, 2, Len(queue))
      BY <1>3, <1>4, <2>1
  <2>4. status' = [p \in Calls |-> IF p = o THEN "settled"
                                 ELSE IF p = queue[1] THEN "running" ELSE status[p]]
      BY <1>4, <2>1, <2>2
  <2> QED
      BY <1>6, <2>3, <2>4 DEF SettleAndStart
<1> QED
    BY <1>5, <1>6

LEMMA LimiterInit == L!Init => LimiterInv
<1> SUFFICES ASSUME L!Init PROVE LimiterInv
    OBVIOUS
<1>1. active = 0 /\ queue = <<>> /\ status = [o \in Calls |-> "new"] /\ Len(queue) = 0
    BY DEF L!Init
<1>2. L!Running = {} /\ L!Queued = {}
    BY <1>1 DEF L!Running, L!Queued
<1>3. IsFiniteSet(L!Running) /\ L!ActiveExact
    BY <1>1, <1>2, FS_EmptySet, SameCardinality, OptionsInt DEF L!ActiveExact
<1>4. L!QueueExact
  <2>1. 1..Len(queue) = {}
      BY <1>1
  <2> QED
      BY <1>1, <1>2, <2>1, OptionsInt DEF L!QueueExact
<1>5. L!TypeOK /\ L!WorkConserving
    BY <1>1, EmptySeq DEF L!TypeOK, L!WorkConserving
<1> QED
    BY <1>3, <1>4, <1>5 DEF LimiterInv

\* What the invariant says of the queue, with its length as a number.
LEMMA QueueFacts ==
  ASSUME LimiterInv
  PROVE  /\ active \in Nat /\ active = Cardinality(L!Running) /\ active <= MaxInFlight
         /\ IsFiniteSet(L!Running)
         /\ queue \in Seq(Calls) /\ Len(queue) \in Nat /\ Len(queue) <= MaxQueue
         /\ status \in [Calls -> {"new", "queued", "running", "settled", "rejected"}]
         /\ \A i \in 1..Len(queue) : queue[i] \in Calls /\ status[queue[i]] = "queued"
         /\ \A c \in Calls :
              status[c] = "queued" => \E i \in 1..Len(queue) : queue[i] = c
         /\ \A i, j \in 1..Len(queue) : queue[i] = queue[j] => i = j
         /\ queue # <<>> => active = MaxInFlight
<1>1. /\ active \in Nat /\ queue \in Seq(Calls) /\ Len(queue) \in Nat
      /\ status \in [Calls -> {"new", "queued", "running", "settled", "rejected"}]
    BY LenProperties DEF LimiterInv, L!TypeOK
<1>2. /\ active = Cardinality(L!Running) /\ active <= MaxInFlight
      /\ IsFiniteSet(L!Running) /\ (queue # <<>> => active = MaxInFlight)
    BY SameCardinality DEF LimiterInv, L!ActiveExact, L!WorkConserving
<1>3. /\ {queue[i] : i \in 1..Len(queue)} = {c \in Calls : status[c] = "queued"}
      /\ \A i, j \in 1..Len(queue) : queue[i] = queue[j] => i = j
      /\ Len(queue) <= MaxQueue
    BY DEF LimiterInv, L!QueueExact, L!Queued
<1>4. \A i \in 1..Len(queue) : queue[i] \in Calls /\ status[queue[i]] = "queued"
    BY <1>3
<1>5. \A c \in Calls : status[c] = "queued" => \E i \in 1..Len(queue) : queue[i] = c
    BY <1>3
<1> QED
    BY <1>1, <1>2, <1>3, <1>4, <1>5

\* The same facts about the next state make the invariant.
LEMMA LimiterInvFrom ==
  ASSUME active' \in Nat, active' = Cardinality(L!Running'), active' <= MaxInFlight,
         IsFiniteSet(L!Running'),
         queue' \in Seq(Calls), Len(queue') <= MaxQueue,
         status' \in [Calls -> {"new", "queued", "running", "settled", "rejected"}],
         \A i \in 1..Len(queue') : queue'[i] \in Calls /\ status'[queue'[i]] = "queued",
         \A c \in Calls :
           status'[c] = "queued" => \E i \in 1..Len(queue') : queue'[i] = c,
         \A i, j \in 1..Len(queue') : queue'[i] = queue'[j] => i = j,
         queue' # <<>> => active' = MaxInFlight
  PROVE  LimiterInv'
<1>1. {queue'[i] : i \in 1..Len(queue')} = {c \in Calls : status'[c] = "queued"}
    OBVIOUS
<1>2. L!QueueExact'
    BY <1>1 DEF L!QueueExact, L!Queued
<1>3. L!ActiveExact' /\ L!WorkConserving' /\ L!TypeOK'
    BY SameCardinality DEF L!ActiveExact, L!WorkConserving, L!TypeOK
<1> QED
    BY <1>2, <1>3 DEF LimiterInv

LEMMA StartsKeepsLimiter ==
  ASSUME LimiterInv, NEW o \in Calls, L!RunStarts(o)
  PROVE  LimiterInv'
<1>1. /\ status[o] = "new" /\ active < MaxInFlight /\ active' = active + 1
      /\ status' = [status EXCEPT ![o] = "running"] /\ queue' = queue
    BY DEF L!RunStarts
<1>2. queue = <<>> /\ Len(queue) = 0
    BY <1>1, QueueFacts, OptionsInt
<1>3. L!Running' = L!Running \cup {o} /\ o \notin L!Running
    BY <1>1, QueueFacts DEF L!Running
<1>4. IsFiniteSet(L!Running') /\ Cardinality(L!Running') = Cardinality(L!Running) + 1
    BY <1>3, QueueFacts, FS_AddElement
<1>5. active' \in Nat /\ active' = Cardinality(L!Running') /\ active' <= MaxInFlight
    BY <1>1, <1>4, QueueFacts, OptionsInt
<1>6. status' \in [Calls -> {"new", "queued", "running", "settled", "rejected"}]
    BY <1>1, QueueFacts
<1>7. \A c \in Calls : status'[c] # "queued"
  <2>1. 1..Len(queue) = {}
      BY <1>2
  <2>2. \A c \in Calls : status[c] # "queued"
      BY <2>1, QueueFacts
  <2> QED
      BY <1>1, <2>2, QueueFacts
<1>8. queue' = <<>> /\ Len(queue') = 0 /\ queue' \in Seq(Calls)
    BY <1>1, <1>2, QueueFacts
<1> QED
    BY <1>4, <1>5, <1>6, <1>7, <1>8, OptionsInt, LimiterInvFrom

LEMMA QueuesKeepsLimiter ==
  ASSUME LimiterInv, NEW o \in Calls, L!RunQueues(o)
  PROVE  LimiterInv'
<1>1. /\ status[o] = "new" /\ active >= MaxInFlight /\ Len(queue) < MaxQueue
      /\ queue' = Append(queue, o) /\ status' = [status EXCEPT ![o] = "queued"]
      /\ active' = active
    BY DEF L!RunQueues
<1>2. /\ queue' \in Seq(Calls) /\ Len(queue') = Len(queue) + 1
      /\ \A i \in 1..Len(queue) : queue'[i] = queue[i]
      /\ queue'[Len(queue) + 1] = o
    BY <1>1, QueueFacts, AppendProperties
<1>3. L!Running' = L!Running
    BY <1>1, QueueFacts DEF L!Running
<1>4. status' \in [Calls -> {"new", "queued", "running", "settled", "rejected"}]
    BY <1>1, QueueFacts
<1>5. \A i \in 1..Len(queue) : queue[i] # o
    BY <1>1, QueueFacts
<1>6. \A i \in 1..Len(queue') : i \in 1..Len(queue) \/ i = Len(queue) + 1
    BY <1>2, QueueFacts
<1>7. \A i \in 1..Len(queue') : queue'[i] \in Calls /\ status'[queue'[i]] = "queued"
    BY <1>1, <1>2, <1>6, QueueFacts
<1>8. \A c \in Calls : status'[c] = "queued" => \E i \in 1..Len(queue') : queue'[i] = c
  <2> SUFFICES ASSUME NEW c \in Calls, status'[c] = "queued"
               PROVE  \E i \in 1..Len(queue') : queue'[i] = c
      OBVIOUS
  <2>1. CASE c = o
    <3>1. Len(queue) + 1 \in 1..Len(queue')
        BY <1>2, QueueFacts
    <3> QED
        BY <1>2, <2>1, <3>1
  <2>2. CASE c # o
    <3>1. PICK i \in 1..Len(queue) : queue[i] = c
        BY <1>1, <2>2, QueueFacts
    <3>2. i \in 1..Len(queue')
        BY <1>2, QueueFacts
    <3> QED
        BY <1>2, <3>1, <3>2
  <2> QED
      BY <2>1, <2>2
<1>9. \A i, j \in 1..Len(queue') : queue'[i] = queue'[j] => i = j
    BY <1>2, <1>5, <1>6, QueueFacts
<1>10. active' = MaxInFlight
    BY <1>1, QueueFacts, OptionsInt
<1>11. Len(queue') <= MaxQueue
    BY <1>1, <1>2, QueueFacts, OptionsInt
<1> QED
    BY <1>1, <1>2, <1>3, <1>4, <1>7, <1>8, <1>9, <1>10, <1>11, QueueFacts, LimiterInvFrom

LEMMA RejectsKeepsLimiter ==
  ASSUME LimiterInv, NEW o \in Calls, L!RunRejects(o)
  PROVE  LimiterInv'
<1>1. /\ status[o] = "new" /\ status' = [status EXCEPT ![o] = "rejected"]
      /\ active' = active /\ queue' = queue
    BY DEF L!RunRejects
<1>2. L!Running' = L!Running
    BY <1>1, QueueFacts DEF L!Running
<1>3. status' \in [Calls -> {"new", "queued", "running", "settled", "rejected"}]
    BY <1>1, QueueFacts
<1>4. \A i \in 1..Len(queue') : queue'[i] \in Calls /\ status'[queue'[i]] = "queued"
    BY <1>1, QueueFacts
<1>5. \A c \in Calls : status'[c] = "queued" => \E i \in 1..Len(queue') : queue'[i] = c
  <2>1. \A c \in Calls : status'[c] = "queued" => status[c] = "queued"
      BY <1>1, QueueFacts
  <2> QED
      BY <1>1, <2>1, QueueFacts
<1> QED
    BY <1>1, <1>2, <1>3, <1>4, <1>5, QueueFacts, LimiterInvFrom

\* Work that settles while nobody waits frees its slot.
LEMMA SettleAloneKeepsLimiter ==
  ASSUME LimiterInv, NEW o \in Calls, status[o] = "running", SettleAlone(o)
  PROVE  LimiterInv'
<1>1. /\ queue = <<>> /\ active' = active - 1 /\ queue' = <<>>
      /\ status' = [p \in Calls |-> IF p = o THEN "settled" ELSE status[p]]
    BY DEF SettleAlone
<1>2. active >= 1
    BY RunningCounts
<1>3. L!Running' = L!Running \ {o} /\ o \in L!Running
    BY <1>1, QueueFacts DEF L!Running
<1>4. IsFiniteSet(L!Running') /\ Cardinality(L!Running') = Cardinality(L!Running) - 1
    BY <1>3, QueueFacts, FS_RemoveElement
<1>5. active' \in Nat /\ active' = Cardinality(L!Running') /\ active' <= MaxInFlight
    BY <1>1, <1>2, <1>4, QueueFacts, OptionsInt
<1>6. status' \in [Calls -> {"new", "queued", "running", "settled", "rejected"}]
    BY <1>1, QueueFacts
<1>7. \A c \in Calls : status'[c] # "queued"
  <2>1. 1..Len(queue) = {}
      BY <1>1
  <2>2. \A c \in Calls : status[c] # "queued"
      BY <2>1, QueueFacts
  <2> QED
      BY <1>1, <2>2
<1>8. Len(queue') = 0 /\ queue' \in Seq(Calls) /\ 1..Len(queue') = {}
    BY <1>1
<1> QED
    BY <1>1, <1>4, <1>5, <1>6, <1>7, <1>8, OptionsInt, LimiterInvFrom

\* Work that settles while others wait hands its slot to the first of them.
LEMMA SettleAndStartKeepsLimiter ==
  ASSUME LimiterInv, NEW o \in Calls, status[o] = "running", SettleAndStart(o)
  PROVE  LimiterInv'
<1>1. /\ queue # <<>> /\ active' = active /\ queue' = SubSeq(queue, 2, Len(queue))
      /\ status' = [p \in Calls |-> IF p = o THEN "settled"
                                    ELSE IF p = queue[1] THEN "running" ELSE status[p]]
    BY DEF SettleAndStart
<1>2. Len(queue) >= 1 /\ Len(queue) \in Nat /\ active = MaxInFlight
    BY <1>1, QueueFacts, EmptySeq, LenProperties
<1>3. queue[1] \in Calls /\ status[queue[1]] = "queued" /\ queue[1] # o
    BY <1>2, QueueFacts
<1>4. L!Running' = (L!Running \ {o}) \cup {queue[1]} /\ o \in L!Running
      /\ queue[1] \notin L!Running \ {o}
    BY <1>1, <1>3, QueueFacts DEF L!Running
<1>5. IsFiniteSet(L!Running \ {o}) /\ Cardinality(L!Running \ {o}) = Cardinality(L!Running) - 1
    BY <1>4, QueueFacts, FS_RemoveElement
<1>6. IsFiniteSet(L!Running') /\ Cardinality(L!Running') = Cardinality(L!Running)
  <2>1. /\ IsFiniteSet((L!Running \ {o}) \cup {queue[1]})
        /\ Cardinality((L!Running \ {o}) \cup {queue[1]}) = Cardinality(L!Running \ {o}) + 1
      BY <1>4, <1>5, FS_AddElement
  <2>2. Cardinality(L!Running) \in Nat
      BY QueueFacts
  <2> QED
      BY <1>4, <1>5, <2>1, <2>2
<1>7. /\ queue' \in Seq(Calls) /\ Len(queue') = Len(queue) - 1
      /\ \A i \in 1..Len(queue') : i + 1 \in 1..Len(queue) /\ queue'[i] = queue[i + 1]
  <2>1. \A i \in 2..Len(queue) : queue[i] \in Calls
      BY <1>2, QueueFacts
  <2>2. /\ SubSeq(queue, 2, Len(queue)) \in Seq(Calls)
        /\ Len(SubSeq(queue, 2, Len(queue)))
             = IF 2 <= Len(queue) THEN Len(queue) - 2 + 1 ELSE 0
        /\ \A i \in 1..(Len(queue) - 2 + 1) :
             SubSeq(queue, 2, Len(queue))[i] = queue[2 + i - 1]
      BY <1>2, <2>1, SubSeqProperties
  <2>3. Len(queue') = Len(queue) - 1
    <3>1. \A n \in Nat : n >= 1 => (IF 2 <= n THEN n - 2 + 1 ELSE 0) = n - 1
        OBVIOUS
    <3>2. Len(queue') = IF 2 <= Len(queue) THEN Len(queue) - 2 + 1 ELSE 0
        BY <1>1, <2>2, Zenon
    <3> QED
        BY <1>2, <3>1, <3>2, Zenon
  <2>4. \A i \in 1..Len(queue') : i + 1 \in 1..Len(queue) /\ queue'[i] = queue[i + 1]
      BY <1>1, <1>2, <2>2, <2>3
  <2> QED
      BY <1>1, <2>2, <2>3, <2>4
<1>8. status' \in [Calls -> {"new", "queued", "running", "settled", "rejected"}]
    BY <1>1, QueueFacts
<1>9. \A i \in 1..Len(queue') : queue'[i] \in Calls /\ status'[queue'[i]] = "queued"
  <2> SUFFICES ASSUME NEW i \in 1..Len(queue')
               PROVE  queue'[i] \in Calls /\ status'[queue'[i]] = "queued"
      OBVIOUS
  <2>1. i + 1 \in 1..Len(queue) /\ queue'[i] = queue[i + 1] /\ i + 1 # 1 /\ 1 \in 1..Len(queue)
      BY <1>2, <1>7
  <2>2. queue[i + 1] \in Calls /\ status[queue[i + 1]] = "queued" /\ queue[i + 1] # queue[1]
      BY <2>1, QueueFacts
  <2> QED
      BY <1>1, <2>1, <2>2
<1>10. \A c \in Calls : status'[c] = "queued" => \E i \in 1..Len(queue') : queue'[i] = c
  <2> SUFFICES ASSUME NEW c \in Calls, status'[c] = "queued"
               PROVE  \E i \in 1..Len(queue') : queue'[i] = c
      OBVIOUS
  <2>1. c # o /\ c # queue[1] /\ status[c] = "queued"
      BY <1>1
  <2>2. PICK k \in 1..Len(queue) : queue[k] = c
      BY <2>1, QueueFacts
  <2>3. k - 1 \in 1..Len(queue') /\ k - 1 + 1 = k
      BY <1>2, <1>7, <2>1, <2>2
  <2> QED
      BY <1>7, <2>2, <2>3
<1>11. \A i, j \in 1..Len(queue') : queue'[i] = queue'[j] => i = j
  <2> SUFFICES ASSUME NEW i \in 1..Len(queue'), NEW j \in 1..Len(queue'), queue'[i] = queue'[j]
               PROVE  i = j
      OBVIOUS
  <2>1. i + 1 = j + 1
      BY <1>7, QueueFacts
  <2> QED
      BY <2>1
<1>12. Len(queue') <= MaxQueue
    BY <1>2, <1>7, QueueFacts, OptionsInt
<1> QED
    BY <1>1, <1>2, <1>6, <1>7, <1>8, <1>9, <1>10, <1>11, <1>12, QueueFacts, LimiterInvFrom

LEMMA LimiterNext == LimiterInv /\ [L!Next]_limiterVars => LimiterInv'
<1> SUFFICES ASSUME LimiterInv, [L!Next]_limiterVars PROVE LimiterInv'
    OBVIOUS
<1>1. ASSUME NEW o \in Calls, L!RunStarts(o) PROVE LimiterInv'
    BY <1>1, StartsKeepsLimiter
<1>2. ASSUME NEW o \in Calls, L!RunQueues(o) PROVE LimiterInv'
    BY <1>2, QueuesKeepsLimiter
<1>3. ASSUME NEW o \in Calls, L!RunRejects(o) PROVE LimiterInv'
    BY <1>3, RejectsKeepsLimiter
<1>4. ASSUME NEW o \in Calls, L!Settle(o) PROVE LimiterInv'
  <2>1. status[o] = "running"
      BY <1>4 DEF L!Settle
  <2>2. SettleAlone(o) \/ SettleAndStart(o)
      BY <1>4, SettleEffect
  <2> QED
      BY <2>1, <2>2, SettleAloneKeepsLimiter, SettleAndStartKeepsLimiter
<1>5. ASSUME UNCHANGED limiterVars PROVE LimiterInv'
  <2>1. active' = active /\ queue' = queue /\ status' = status
      BY <1>5 DEF limiterVars
  <2>2. L!Running' = L!Running
      BY <2>1 DEF L!Running
  <2> QED
      BY <2>1, <2>2, QueueFacts, LimiterInvFrom
<1> QED
    BY <1>1, <1>2, <1>3, <1>4, <1>5 DEF L!Next

-----------------------------------------------------------------------------
(* The path composes the two: every step of it is a step of the breaker or *)
(* leaves the breaker alone, and the same for the limiter.                 *)

LEMMA PathStepOfBreaker == [PathNext]_pathVars => [Next]_vars
<1> SUFFICES ASSUME [PathNext]_pathVars PROVE [Next]_vars
    OBVIOUS
<1>1. ASSUME NEW c \in Calls, Arrive(c) PROVE [Next]_vars
    BY <1>1 DEF Arrive
<1>2. ASSUME NEW c \in Calls, QuotaRefuses(c) PROVE [Next]_vars
    BY <1>2 DEF QuotaRefuses
<1>3. ASSUME NEW c \in Calls, CallsDependency(c) PROVE [Next]_vars
    BY <1>3 DEF CallsDependency, Next
<1>4. ASSUME NEW c \in Calls, BreakerRefuses(c) PROVE [Next]_vars
    BY <1>4 DEF BreakerRefuses, Next
<1>5. ASSUME NEW c \in Calls, Succeeds(c) PROVE [Next]_vars
    BY <1>5 DEF Succeeds, Next
<1>6. ASSUME NEW c \in Calls, Fails(c) PROVE [Next]_vars
    BY <1>6 DEF Fails, Next
<1>7. ASSUME NEW n \in 1..MaxReopen, HalfOpens(n) PROVE [Next]_vars
    BY <1>7 DEF HalfOpens, Next
<1>8. ASSUME Resets PROVE [Next]_vars
    BY <1>8 DEF Resets, Next
<1>9. ASSUME UNCHANGED pathVars PROVE [Next]_vars
    BY <1>9 DEF pathVars
<1> QED
    BY <1>1, <1>2, <1>3, <1>4, <1>5, <1>6, <1>7, <1>8, <1>9 DEF PathNext

LEMMA PathStepOfLimiter == [PathNext]_pathVars => [L!Next]_limiterVars
<1> SUFFICES ASSUME [PathNext]_pathVars PROVE [L!Next]_limiterVars
    OBVIOUS
<1>1. ASSUME NEW c \in Calls, Arrive(c) PROVE [L!Next]_limiterVars
    BY <1>1 DEF Arrive, L!Next
<1>2. ASSUME NEW c \in Calls, QuotaRefuses(c) PROVE [L!Next]_limiterVars
    BY <1>2 DEF QuotaRefuses, L!Next
<1>3. ASSUME NEW c \in Calls, CallsDependency(c) PROVE [L!Next]_limiterVars
    BY <1>3 DEF CallsDependency
<1>4. ASSUME NEW c \in Calls, BreakerRefuses(c) PROVE [L!Next]_limiterVars
    BY <1>4 DEF BreakerRefuses, L!Next
<1>5. ASSUME NEW c \in Calls, Succeeds(c) PROVE [L!Next]_limiterVars
    BY <1>5 DEF Succeeds, L!Next
<1>6. ASSUME NEW c \in Calls, Fails(c) PROVE [L!Next]_limiterVars
    BY <1>6 DEF Fails, L!Next
<1>7. ASSUME NEW n \in 1..MaxReopen, HalfOpens(n) PROVE [L!Next]_limiterVars
    BY <1>7 DEF HalfOpens
<1>8. ASSUME Resets PROVE [L!Next]_limiterVars
    BY <1>8 DEF Resets
<1>9. ASSUME UNCHANGED pathVars PROVE [L!Next]_limiterVars
    BY <1>9 DEF pathVars
<1> QED
    BY <1>1, <1>2, <1>3, <1>4, <1>5, <1>6, <1>7, <1>8, <1>9 DEF PathNext

\* On the path of the calls the breaker behaves as CircuitBreaker says: it sees some of
\* the calls, and those one at a time.
THEOREM PathImplementsBreaker == PathSpec => Spec
<1>1. PathInit => Init
    BY DEF PathInit
<1> QED
    BY <1>1, PathStepOfBreaker, PTL DEF PathSpec, Spec

\* On the path of the calls the limiter behaves as OperationLimiter says: what refuses
\* a call settles its work in the same step.
THEOREM PathImplementsLimiter == PathSpec => L!Spec
<1>1. PathInit => L!Init
    BY DEF PathInit
<1>2. [L!Next]_limiterVars => [L!Next]_(L!vars)
    BY DEF limiterVars, L!vars
<1> QED
    BY <1>1, <1>2, PathStepOfLimiter, PTL DEF PathSpec, L!Spec

\* What settling does to the calls of the other slots: nothing.
LEMMA OthersKeepSlot ==
  ASSUME LimiterInv, NEW o \in Calls, L!Settle(o),
         NEW c \in Calls, c # o, status[c] = "running"
  PROVE  status'[c] = "running"
<1>1. CASE SettleAlone(o)
    BY <1>1 DEF SettleAlone
<1>2. CASE SettleAndStart(o)
    BY <1>2 DEF SettleAndStart
<1> QED
    BY <1>1, <1>2, SettleEffect

LEMMA SlotsNext ==
  ASSUME PathInv, [PathNext]_pathVars
  PROVE  CallsHaveSlots'
<1>a. /\ LimiterInv /\ (\A c \in Calls : call[c] = "running" => status[c] = "running")
      /\ call \in [Calls -> {"new", "running", "refused", "succeeded", "failed"}]
      /\ status \in [Calls -> {"new", "queued", "running", "settled", "rejected"}]
    BY QueueFacts DEF PathInv, CallsHaveSlots, BreakerInv, TypeOK
<1>1. ASSUME NEW o \in Calls, Arrive(o) PROVE CallsHaveSlots'
  <2>1. status[o] = "new" /\ call' = call
        /\ \A c \in Calls : c # o => status'[c] = status[c]
      BY <1>1, <1>a DEF Arrive, vars, L!RunStarts, L!RunQueues, L!RunRejects
  <2> QED
      BY <1>a, <2>1 DEF CallsHaveSlots
<1>2. ASSUME NEW o \in Calls, QuotaRefuses(o) PROVE CallsHaveSlots'
  <2>1. L!Settle(o) /\ call' = call /\ call[o] = "new"
      BY <1>2 DEF QuotaRefuses, vars
  <2> QED
      BY <1>a, <2>1, OthersKeepSlot DEF CallsHaveSlots
<1>3. ASSUME NEW o \in Calls, CallsDependency(o) PROVE CallsHaveSlots'
    BY <1>3, <1>a DEF CallsDependency, Admit, limiterVars, CallsHaveSlots
<1>4. ASSUME NEW o \in Calls, L!Settle(o), call'[o] # "running",
             \A c \in Calls : c # o => call'[c] = call[c]
      PROVE  CallsHaveSlots'
    BY <1>4, <1>a, OthersKeepSlot DEF CallsHaveSlots
<1>5. ASSUME NEW o \in Calls, BreakerRefuses(o) PROVE CallsHaveSlots'
    BY <1>4, <1>5, <1>a DEF BreakerRefuses, Refuse
<1>6. ASSUME NEW o \in Calls, Succeeds(o) PROVE CallsHaveSlots'
    BY <1>4, <1>6, <1>a DEF Succeeds, RecordSuccess
<1>7. ASSUME NEW o \in Calls, Fails(o) PROVE CallsHaveSlots'
    BY <1>4, <1>7, <1>a DEF Fails, RecordFailure
<1>8. ASSUME call' = call, status' = status PROVE CallsHaveSlots'
    BY <1>8, <1>a DEF CallsHaveSlots
<1>9. ASSUME NEW n \in 1..MaxReopen, HalfOpens(n) PROVE CallsHaveSlots'
    BY <1>8, <1>9 DEF HalfOpens, HalfOpen, limiterVars
<1>10. ASSUME Resets PROVE CallsHaveSlots'
    BY <1>8, <1>10 DEF Resets, Reset, limiterVars
<1>11. ASSUME UNCHANGED pathVars PROVE CallsHaveSlots'
    BY <1>8, <1>11 DEF pathVars, vars, limiterVars
<1> QED
    BY <1>1, <1>2, <1>3, <1>5, <1>6, <1>7, <1>9, <1>10, <1>11 DEF PathNext

LEMMA PathInvariant == PathSpec => []PathInv
<1>1. PathInit => PathInv
  <2>1. Init => CallsHaveSlots
      BY DEF Init, CallsHaveSlots
  <2> QED
      BY <2>1, BreakerInit, LimiterInit DEF PathInit, PathInv
<1>2. PathInv /\ [PathNext]_pathVars => PathInv'
    BY PathStepOfBreaker, PathStepOfLimiter, BreakerNext, LimiterNext, SlotsNext DEF PathInv
<1> QED
    BY <1>1, <1>2, PTL DEF PathSpec

\* The counter and the queue of the limiter are exact, no slot idles while a call waits,
\* and the dependency never works on more calls than the limiter has slots.
THEOREM CountsExactAlways == PathSpec => []CountsExact
<1>1. PathInv => CountsExact
  <2> SUFFICES ASSUME PathInv PROVE CountsExact
      OBVIOUS
  <2>1. {c \in Calls : call[c] = "running"} \in SUBSET L!Running
      BY DEF PathInv, CallsHaveSlots, L!Running
  <2>2. LimiterInv
      BY DEF PathInv
  <2>3. Cardinality({c \in Calls : call[c] = "running"}) <= Cardinality(L!Running)
      BY <2>1, <2>2, QueueFacts, FS_Subset
  <2>4. Cardinality({c \in Calls : call[c] = "running"}) \in Nat
      BY <2>1, <2>2, QueueFacts, FS_Subset, FS_CardinalityType
  <2>5. Cardinality({c \in Calls : call[c] = "running"}) <= MaxInFlight
      BY <2>2, <2>3, <2>4, QueueFacts, OptionsInt
  <2> QED
      BY <2>2, <2>5 DEF CountsExact, LimiterInv
<1> QED
    BY <1>1, PathInvariant, PTL

\* Behind the limiter too an open breaker has exactly one half-open timeout.
THEOREM PathTimerExact == PathSpec => []TimerExact
BY PathImplementsBreaker, TimerExactAlways, PTL

\* A closed breaker has fewer failures on record than the threshold, on the path too.
THEOREM PathClosedBelowThreshold == PathSpec => []ClosedBelowThreshold
BY PathImplementsBreaker, ClosedBelowThresholdAlways, PTL

\* No result of a call closes an open breaker, on the path too.
THEOREM PathOpenOnlyTimesOut == PathSpec => OpenOnlyTimesOut
BY PathImplementsBreaker, OpenOnlyTimesOutAlways, PTL

\* Calls leave the queue in order: the step that starts a call starts the first that
\* waits, or nobody waits.
THEOREM NoOvertakingAlways == PathSpec => NoOvertaking
<1>1. LimiterInv /\ [L!Next]_limiterVars =>
        [\A o \in Calls :
           status[o] # "running" /\ status'[o] = "running" =>
             \/ queue = <<>>
             \/ \E i \in 1..Len(queue) :
                  /\ queue[i] = o
                  /\ \A j \in 1..i : status'[queue[j]] = "running"]_(L!vars)
  <2> SUFFICES ASSUME LimiterInv, L!Next,
                      NEW o \in Calls, status[o] # "running", status'[o] = "running",
                      queue # <<>>
               PROVE  \E i \in 1..Len(queue) :
                        /\ queue[i] = o
                        /\ \A j \in 1..i : status'[queue[j]] = "running"
      BY DEF limiterVars, L!vars
  <2>1. ~\E c \in Calls : L!RunStarts(c)
      BY QueueFacts, OptionsInt DEF L!RunStarts
  <2>2. ~\E c \in Calls : L!RunQueues(c) \/ L!RunRejects(c)
      BY QueueFacts DEF L!RunQueues, L!RunRejects
  <2>3. PICK c \in Calls : L!Settle(c)
      BY <2>1, <2>2 DEF L!Next
  <2>4. SettleAndStart(c)
      BY <2>3, SettleEffect DEF SettleAlone
  <2>5. o = queue[1]
      BY <2>4 DEF SettleAndStart
  <2>6. 1 \in 1..Len(queue) /\ 1..1 = {1}
      BY QueueFacts, EmptySeq, LenProperties
  <2> QED
      BY <2>5, <2>6
<1>2. LimiterInv /\ [PathNext]_pathVars =>
        [\A o \in Calls :
           status[o] # "running" /\ status'[o] = "running" =>
             \/ queue = <<>>
             \/ \E i \in 1..Len(queue) :
                  /\ queue[i] = o
                  /\ \A j \in 1..i : status'[queue[j]] = "running"]_(L!vars)
    BY <1>1, PathStepOfLimiter
<1>3. PathInv => LimiterInv
    BY DEF PathInv
<1> QED
    BY <1>2, <1>3, PathInvariant, PTL DEF PathSpec, NoOvertaking, L!NoOvertaking

-----------------------------------------------------------------------------
(***************************************************************************)
(* Induction, for a set instead of a predicate.                            *)
(***************************************************************************)
LEMMA LeastElement ==
  ASSUME NEW T \in SUBSET Nat, T # {}
  PROVE  \E m \in T : \A k \in T : m <= k
<1> DEFINE R == {ss \in Nat \X Nat : ss[1] < ss[2]}
<1>1. IsWellFoundedOn(R, Nat)
    BY NatLessThanWellFounded DEF OpToRel
<1>2. PICK m \in T : \A k \in T : <<k, m>> \notin R
  <2> HIDE DEF R
  <2> QED
      BY <1>1, WFMin
<1>3. ASSUME NEW k \in T PROVE m <= k
  <2>1. PICK p : p = <<k, m>>
      OBVIOUS
  <2>2. p \in Nat \X Nat /\ p[1] = k /\ p[2] = m
      BY <2>1
  <2>3. ~(k < m)
      BY <1>2, <2>1, <2>2
  <2> QED
      BY <2>3
<1> QED
    BY <1>3

LEMMA SetInduction ==
  ASSUME NEW T, 0 \in T, \A n \in Nat : n \in T => n + 1 \in T
  PROVE  Nat \subseteq T
<1> SUFFICES ASSUME Nat \ T # {} PROVE FALSE
    OBVIOUS
<1>1. PICK m \in Nat \ T : \A k \in Nat \ T : m <= k
    BY LeastElement
<1>2. m # 0 /\ m - 1 \in Nat /\ ~(m <= m - 1) /\ m - 1 + 1 = m
    OBVIOUS
<1>3. m - 1 \in T
    BY <1>1, <1>2
<1> QED
    BY <1>2, <1>3

-----------------------------------------------------------------------------
(* findVisible.                                                            *)

\* The recursion of findVisible.
FoundStep(cases, F, n) ==
  IF n = 0 THEN <<>>
  ELSE IF cases[n].visible THEN Append(F[n - 1], cases[n]) ELSE F[n - 1]

\* What findVisible has found among the first n cases.
FoundAmong(cases, F) ==
  /\ F = [n \in 0..Len(cases) |-> FoundStep(cases, F, n)]
  /\ findVisible(cases) = F[Len(cases)]

LEMMA FoundExists ==
  ASSUME NEW cases, Len(cases) \in Nat
  PROVE  \E F : FoundAmong(cases, F)
<1> DEFINE T == {m \in Nat : \E F : F = [n \in 0..m |-> FoundStep(cases, F, n)]}
<1>1. 0 \in T
  <2>1. PICK F : F = [n \in 0..0 |-> <<>>]
      OBVIOUS
  <2>2. F = [n \in 0..0 |-> FoundStep(cases, F, n)]
      BY <2>1 DEF FoundStep
  <2> QED
      BY <2>2
<1>2. ASSUME NEW m \in Nat, m \in T PROVE m + 1 \in T
  <2>1. PICK F : F = [n \in 0..m |-> FoundStep(cases, F, n)]
      BY <1>2
  <2>2. PICK G : G = [n \in 0..m + 1 |-> FoundStep(cases, F, n)]
      OBVIOUS
  <2>3. \A n \in 0..m : G[n] = F[n]
      BY <2>1, <2>2
  <2>4. ASSUME NEW n \in 0..m + 1 PROVE FoundStep(cases, F, n) = FoundStep(cases, G, n)
    <3>1. CASE n = 0
        BY <3>1 DEF FoundStep
    <3>2. CASE n # 0
      <4>1. n - 1 \in 0..m
          BY <3>2
      <4> QED
          BY <2>3, <4>1 DEF FoundStep
    <3> QED
        BY <3>1, <3>2
  <2>5. G = [n \in 0..m + 1 |-> FoundStep(cases, G, n)]
      BY <2>2, <2>4
  <2> QED
      BY <2>5
<1>3. Len(cases) \in T
  <2> HIDE DEF T
  <2> QED
      BY <1>1, <1>2, SetInduction
<1> DEFINE Found == CHOOSE F : F = [n \in 0..Len(cases) |-> FoundStep(cases, F, n)]
<1>4. Found = [n \in 0..Len(cases) |-> FoundStep(cases, Found, n)]
    BY <1>3
<1>5. findVisible(cases) = Found[Len(cases)]
    BY DEF findVisible, FoundStep
<1> QED
    BY <1>4, <1>5 DEF FoundAmong

\* findVisible returns as many cases as are visible, and those only.
LEMMA FoundIsVisible ==
  ASSUME NEW cases \in Seq(Case)
  PROVE  /\ findVisible(cases) \in Seq({c \in Case : c.visible})
         /\ Len(findVisible(cases)) = Cardinality({i \in DOMAIN cases : cases[i].visible})
<1>1. Len(cases) \in Nat /\ DOMAIN cases = 1..Len(cases) /\ \A i \in 1..Len(cases) : cases[i] \in Case
    OBVIOUS
<1>2. PICK F : FoundAmong(cases, F)
    BY <1>1, FoundExists
<1> DEFINE Shown == {c \in Case : c.visible}
           Upto(n) == {i \in 1..n : cases[i].visible}
           Fits(n) == F[n] \in Seq(Shown) /\ IsFiniteSet(Upto(n)) /\ Len(F[n]) = Cardinality(Upto(n))
           T == {n \in Nat : n <= Len(cases) => Fits(n)}
<1>3. \A n \in 0..Len(cases) : F[n] = FoundStep(cases, F, n)
    BY <1>2 DEF FoundAmong
<1>4. 0 \in T
  <2>1. F[0] = <<>>
      BY <1>1, <1>3 DEF FoundStep
  <2>2. Upto(0) = {}
      OBVIOUS
  <2>3. F[0] \in Seq(Shown) /\ Len(F[0]) = 0
      BY <2>1
  <2> QED
      BY <2>2, <2>3, FS_EmptySet
<1>5. ASSUME NEW n \in Nat, n \in T PROVE n + 1 \in T
  <2> SUFFICES ASSUME n + 1 <= Len(cases) PROVE Fits(n + 1)
      OBVIOUS
  <2>1. Fits(n) /\ n + 1 \in 1..Len(cases) /\ n + 1 # 0 /\ n + 1 - 1 = n
      BY <1>1, <1>5
  <2>2. F[n + 1] = IF cases[n + 1].visible THEN Append(F[n], cases[n + 1]) ELSE F[n]
      BY <1>1, <1>3, <2>1 DEF FoundStep
  <2>3. n + 1 \notin Upto(n)
      OBVIOUS
  <2>4. CASE cases[n + 1].visible
    <3>1. Upto(n + 1) = Upto(n) \cup {n + 1}
        BY <2>4
    <3>2. cases[n + 1] \in Shown
        BY <1>1, <2>1, <2>4
    <3>3. F[n + 1] \in Seq(Shown) /\ Len(F[n + 1]) = Len(F[n]) + 1
      <4> HIDE DEF Shown
      <4> QED
        BY <2>1, <2>2, <2>4, <3>2, AppendProperties
    <3>4. IsFiniteSet(Upto(n) \cup {n + 1}) /\ Cardinality(Upto(n) \cup {n + 1}) = Cardinality(Upto(n)) + 1
      <4> HIDE DEF Upto
      <4> QED
        BY <2>1, <2>3, FS_AddElement
    <3> QED
        BY <2>1, <3>1, <3>3, <3>4
  <2>5. CASE ~cases[n + 1].visible
    <3>1. Upto(n + 1) = Upto(n)
        BY <2>5
    <3> QED
        BY <2>1, <2>2, <2>5, <3>1
  <2> QED
      BY <2>4, <2>5
<1>6. Fits(Len(cases))
  <2>1. Len(cases) \in T
    <3> HIDE DEF T
    <3> QED
        BY <1>1, <1>4, <1>5, SetInduction
  <2> QED
      BY <1>1, <2>1
<1> QED
    BY <1>1, <1>2, <1>6 DEF FoundAmong

LEMMA VisibleCount ==
  ASSUME NEW cases \in Seq(Case)
  PROVE  Cardinality({i \in DOMAIN cases : cases[i].visible}) \in Nat
BY FoundIsVisible, LenProperties

-----------------------------------------------------------------------------
(* The inductive invariant of the grading.                                 *)

VisibleCases == Seq({c \in Case : c.visible})

\* What Judge0, or the request to it, may answer.
Payload == [type |-> "payload", results |-> [i \in DOMAIN answers |-> CaseResult(i)]]
OtherAnswers ==
  [type : {"status"}, id : {5, 6, 7, 11}]
    \cup [type : {"module"}, error : {"COMPILATION_ERROR", "RUNTIME_ERROR"}]
    \cup [type : {"unreadable"}, reason : {"payload_too_large", "malformed_json", "missing_markers"}]
    \cup [type : {"failed"}]

GradingTypes ==
  /\ problem \in Problems /\ custom \in Customs /\ custom \in VisibleCases
  /\ mode \in {"run", "submit"} /\ correct \in BOOLEAN
  /\ stage \in {"idle", "harness", "preflight", "cases", "answered", "replied"}
  /\ answers \in Seq(Statuses \cup {"child"}) /\ Len(answers) <= Len(Loaded)

\* A child process delivers what the code may answer to its case.
AnswersAllowed ==
  \A i \in DOMAIN answers : answers[i] \in Answers(Loaded[i]) \cup {"child"}

\* No child has run before its stage; a payload has the answers of all cases.
StagesExact ==
  /\ stage \in {"idle", "harness", "preflight"} => answers = <<>>
  /\ stage \in {"idle", "harness", "preflight", "cases"} => judge0 = Nothing
  /\ stage \in {"answered", "replied"} =>
       judge0 \in OtherAnswers \/ (judge0 = Payload /\ Len(answers) = Len(Loaded))
  /\ reply = IF stage = "replied" THEN Verdict ELSE Nothing

GradingInv == GradingTypes /\ AnswersAllowed /\ StagesExact

LEMMA LoadedFacts ==
  ASSUME GradingTypes
  PROVE  /\ problem.cases \in Seq(Case)
         /\ Loaded \in Seq(Case) /\ Len(Loaded) \in Nat /\ DOMAIN Loaded = 1..Len(Loaded)
         /\ mode = "submit" => Loaded = problem.cases
         /\ mode = "run" =>
              /\ Loaded \in VisibleCases
              /\ Len(Loaded) = Cardinality({i \in DOMAIN problem.cases : problem.cases[i].visible})
                               + Len(custom)
<1>1. problem.cases \in Seq(Case)
    BY CasesAssumption DEF CasesAssumption, GradingTypes
<1>2. CASE mode = "submit"
    BY <1>1, <1>2, LenProperties DEF Loaded
<1>3. CASE mode = "run"
  <2>1. Loaded = findVisible(problem.cases) \o custom
      BY <1>3 DEF Loaded
  <2>2. /\ findVisible(problem.cases) \in VisibleCases
        /\ Len(findVisible(problem.cases))
             = Cardinality({i \in DOMAIN problem.cases : problem.cases[i].visible})
      BY <1>1, FoundIsVisible DEF VisibleCases
  <2>3. Loaded \in VisibleCases /\ Len(Loaded) = Len(findVisible(problem.cases)) + Len(custom)
      BY <2>1, <2>2, ConcatProperties DEF GradingTypes, VisibleCases
  <2>4. Loaded \in Seq(Case)
      BY <2>3 DEF VisibleCases
  <2> QED
      BY <1>1, <1>3, <2>2, <2>3, <2>4, LenProperties
<1> QED
    BY <1>2, <1>3 DEF GradingTypes

LEMMA GradingStart == GradingInit => GradingInv
<1> SUFFICES ASSUME GradingInit PROVE GradingInv
    OBVIOUS
<1>1. problem \in Problems /\ mode = "run" /\ custom = <<>> /\ correct = FALSE
      /\ stage = "idle" /\ answers = <<>> /\ judge0 = Nothing /\ reply = Nothing
    BY DEF GradingInit
<1>2. /\ custom \in Customs /\ custom \in VisibleCases
      /\ answers \in Seq(Statuses \cup {"child"}) /\ Len(answers) = 0 /\ DOMAIN answers = {}
    BY <1>1, CasesAssumption DEF VisibleCases, CasesAssumption
<1>3. Len(Loaded) \in Nat
  <2>1. problem.cases \in Seq(Case)
      BY <1>1, CasesAssumption DEF CasesAssumption
  <2>2. findVisible(problem.cases) \in VisibleCases
      BY <2>1, FoundIsVisible DEF VisibleCases
  <2>3. Loaded \in VisibleCases
      BY <1>1, <1>2, <2>2, ConcatProperties DEF Loaded, VisibleCases
  <2> QED
      BY <2>3, LenProperties DEF VisibleCases
<1>4. Len(answers) <= Len(Loaded)
    BY <1>2, <1>3
<1>5. GradingTypes
    BY <1>1, <1>2, <1>4 DEF GradingTypes
<1>6. AnswersAllowed
    BY <1>2 DEF AnswersAllowed
<1>7. StagesExact
    BY <1>1 DEF StagesExact
<1> QED
    BY <1>5, <1>6, <1>7 DEF GradingInv

\* An execution loads what it did as long as what it is about stays the same.
Unmoved == UNCHANGED <<problem, mode, custom, correct>>
LEMMA UnmovedFacts ==
  ASSUME Unmoved
  PROVE  /\ Loaded' = Loaded
         /\ \A c : Answers(c)' = Answers(c)
BY DEF Unmoved, Loaded, Answers, CorrectAnswers, Statuses

Executing == {"harness", "preflight", "cases"}

LEMMA AnsweredKeeps ==
  ASSUME GradingInv, NEW a, Answered(a), stage \in Executing,
         a \in OtherAnswers \/ (a = Payload /\ Len(answers) = Len(Loaded))
  PROVE  GradingInv'
<1>1. /\ Unmoved /\ UNCHANGED answers /\ reply' = reply
      /\ judge0' = a /\ stage' = "answered"
    BY DEF Answered, Unmoved
<1>2. Loaded' = Loaded /\ (\A c : Answers(c)' = Answers(c)) /\ Payload' = Payload
    BY <1>1, UnmovedFacts DEF Payload, CaseResult
<1>3. GradingTypes'
    BY <1>1, <1>2 DEF GradingInv, GradingTypes, Unmoved, VisibleCases
<1>4. AnswersAllowed'
    BY <1>1, <1>2 DEF GradingInv, AnswersAllowed
<1>5. reply = Nothing
    BY DEF GradingInv, StagesExact, Executing
<1>6. OtherAnswers' = OtherAnswers
    BY DEF OtherAnswers
<1>7. judge0' \in OtherAnswers' \/ (judge0' = Payload' /\ Len(answers') = Len(Loaded'))
    BY <1>1, <1>2, <1>6
<1>8. StagesExact'
    BY <1>1, <1>5, <1>7 DEF StagesExact, Nothing
<1> QED
    BY <1>3, <1>4, <1>8 DEF GradingInv

\* A step that leaves what was answered alone, and does not answer or reply.
LEMMA AdvanceKeeps ==
  ASSUME GradingInv, Unmoved, UNCHANGED <<answers, judge0, reply>>,
         \/ stage = "harness" /\ stage' = "preflight"
         \/ stage = "preflight" /\ stage' = "cases"
  PROVE  GradingInv'
<1>1. Loaded' = Loaded /\ (\A c : Answers(c)' = Answers(c))
    BY UnmovedFacts
<1>2. GradingTypes'
    BY <1>1 DEF GradingInv, GradingTypes, Unmoved, VisibleCases
<1>3. AnswersAllowed'
    BY <1>1 DEF GradingInv, AnswersAllowed
<1>4. reply = Nothing /\ judge0 = Nothing /\ answers = <<>>
    BY DEF GradingInv, StagesExact
<1>5. StagesExact'
    BY <1>4 DEF StagesExact, Nothing
<1> QED
    BY <1>2, <1>3, <1>5 DEF GradingInv

LEMMA StartKeeps ==
  ASSUME GradingInv, Start
  PROVE  GradingInv'
<1>1. /\ stage = "idle" /\ stage' = "harness" /\ mode' \in {"run", "submit"} /\ correct' \in BOOLEAN
      /\ problem' = problem /\ answers' = answers /\ judge0' = judge0 /\ reply' = reply
      /\ custom' \in Customs
    BY DEF Start, GradingInv, GradingTypes
<1>2. answers = <<>> /\ judge0 = Nothing /\ reply = Nothing
    BY <1>1 DEF GradingInv, StagesExact
<1>3. custom' \in VisibleCases'
    BY <1>1, CasesAssumption DEF CasesAssumption, VisibleCases
<1>4. Len(Loaded)' \in Nat
  <2>1. problem.cases \in Seq(Case)
      BY CasesAssumption DEF CasesAssumption, GradingInv, GradingTypes
  <2>2. findVisible(problem.cases) \in VisibleCases
      BY <2>1, FoundIsVisible DEF VisibleCases
  <2>3. CASE mode' = "submit"
      BY <1>1, <2>1, <2>3, LenProperties DEF Loaded
  <2>4. CASE mode' = "run"
    <3>1. Loaded' = findVisible(problem.cases) \o custom'
        BY <1>1, <2>4 DEF Loaded
    <3>2. custom' \in VisibleCases
        BY <1>3 DEF VisibleCases
    <3>3. Loaded' \in VisibleCases
        BY <2>2, <3>1, <3>2, ConcatProperties DEF VisibleCases
    <3> QED
        BY <3>3, LenProperties DEF VisibleCases
  <2> QED
      BY <1>1, <2>3, <2>4
<1>5. Len(answers)' = 0 /\ DOMAIN answers' = {}
    BY <1>1, <1>2
<1>6. Len(answers)' <= Len(Loaded)'
    BY <1>4, <1>5
<1>7. GradingTypes'
    BY <1>1, <1>3, <1>6 DEF GradingInv, GradingTypes, Statuses
<1>8. AnswersAllowed'
    BY <1>5 DEF AnswersAllowed
<1>9. StagesExact'
    BY <1>1, <1>2 DEF StagesExact, Nothing
<1> QED
    BY <1>7, <1>8, <1>9 DEF GradingInv

LEMMA RunChildKeeps ==
  ASSUME GradingInv, RunChild
  PROVE  GradingInv'
<1>1. /\ Unmoved /\ judge0' = judge0 /\ reply' = reply /\ stage' = stage
      /\ stage = "cases" /\ Len(answers) < Len(Loaded)
    BY DEF RunChild, Unmoved
<1>2. Loaded' = Loaded /\ (\A c : Answers(c)' = Answers(c))
    BY <1>1, UnmovedFacts
<1>3. PICK a \in Answers(Loaded[Len(answers) + 1]) \cup {"child"} : answers' = Append(answers, a)
    BY DEF RunChild
<1>4. a \in Statuses \cup {"child"}
    BY <1>3 DEF Answers, CorrectAnswers, Statuses
<1>5. answers \in Seq(Statuses \cup {"child"}) /\ Len(Loaded) \in Nat
    BY LoadedFacts DEF GradingInv, GradingTypes
<1>6. /\ answers' \in Seq(Statuses \cup {"child"}) /\ Len(answers) \in Nat
      /\ Len(answers') = Len(answers) + 1 /\ DOMAIN answers' = 1..(Len(answers) + 1)
      /\ DOMAIN answers = 1..Len(answers)
      /\ \A i \in 1..Len(answers) : answers'[i] = answers[i]
      /\ answers'[Len(answers) + 1] = a
  <2> DEFINE A == Statuses \cup {"child"}
  <2>1. a \in A /\ answers \in Seq(A)
      BY <1>4, <1>5
  <2> HIDE DEF A
  <2>2. /\ Append(answers, a) \in Seq(A) /\ Len(Append(answers, a)) = Len(answers) + 1
        /\ \A i \in 1..Len(answers) : Append(answers, a)[i] = answers[i]
        /\ Append(answers, a)[Len(answers) + 1] = a
      BY <2>1, AppendProperties
  <2>3. /\ Len(answers) \in Nat /\ DOMAIN answers = 1..Len(answers)
        /\ DOMAIN Append(answers, a) = 1..(Len(answers) + 1)
      BY <2>1, <2>2, LenProperties
  <2> QED
      BY <1>3, <2>2, <2>3 DEF A
<1>7. Len(answers') <= Len(Loaded)
    BY <1>1, <1>5, <1>6
<1>8. GradingTypes'
    BY <1>1, <1>2, <1>6, <1>7 DEF GradingInv, GradingTypes, Unmoved, VisibleCases, Statuses
<1>9. AnswersAllowed'
  <2>1. ASSUME NEW i \in DOMAIN answers' PROVE answers'[i] \in Answers(Loaded[i]) \cup {"child"}
    <3>1. CASE i = Len(answers) + 1
        BY <1>3, <1>6, <3>1
    <3>2. CASE i \in 1..Len(answers)
        BY <1>6, <3>2 DEF GradingInv, AnswersAllowed
    <3> QED
        BY <1>6, <3>1, <3>2
  <2> QED
      BY <1>2, <2>1 DEF AnswersAllowed
<1>10. StagesExact'
  <2>1. judge0 = Nothing /\ reply = Nothing
      BY <1>1 DEF GradingInv, StagesExact
  <2> QED
      BY <1>1, <2>1 DEF StagesExact, Nothing
<1> QED
    BY <1>8, <1>9, <1>10 DEF GradingInv

LEMMA ReplyKeeps ==
  ASSUME GradingInv, Reply
  PROVE  GradingInv'
<1>1. /\ Unmoved /\ UNCHANGED answers /\ judge0' = judge0
      /\ stage = "answered" /\ stage' = "replied" /\ reply' = Verdict
    BY DEF Reply, Unmoved
<1>2. Loaded' = Loaded /\ (\A c : Answers(c)' = Answers(c)) /\ Payload' = Payload
    BY <1>1, UnmovedFacts DEF Payload, CaseResult
<1>3. GradingTypes'
    BY <1>1, <1>2 DEF GradingInv, GradingTypes, Unmoved, VisibleCases, Statuses
<1>4. AnswersAllowed'
    BY <1>1, <1>2 DEF GradingInv, AnswersAllowed
<1>5. Verdict' = Verdict
    BY <1>1, <1>2 DEF Unmoved, Verdict, Error, HasExactCaseIndexes, RunResult, SubmitResult,
          Passed, ResultOf, FirstFailed, ShownByFailure
<1>6. judge0' \in OtherAnswers' \/ (judge0' = Payload' /\ Len(answers') = Len(Loaded'))
    BY <1>1, <1>2 DEF GradingInv, StagesExact, OtherAnswers
<1>7. StagesExact'
    BY <1>1, <1>5, <1>6 DEF StagesExact
<1> QED
    BY <1>3, <1>4, <1>7 DEF GradingInv

LEMMA FinishKeeps ==
  ASSUME GradingInv, Finish
  PROVE  GradingInv'
<1>1. /\ problem' = problem /\ mode' = "run" /\ custom' = <<>> /\ correct' = FALSE
      /\ stage' = "idle" /\ answers' = <<>> /\ judge0' = Nothing /\ reply' = Nothing
    BY DEF Finish
<1>2. GradingInit'
    BY <1>1 DEF GradingInit, GradingInv, GradingTypes, Nothing
<1>3. GradingInit' => GradingInv'
    BY GradingStart, PTL
<1> QED
    BY <1>2, <1>3

LEMMA GradingStep == GradingInv /\ [GradingNext]_gradingVars => GradingInv'
<1> SUFFICES ASSUME GradingInv, [GradingNext]_gradingVars PROVE GradingInv'
    OBVIOUS
<1>1. CASE Start
    BY <1>1, StartKeeps
<1>2. CASE HarnessStarts
  <2>1. CASE Answered([type |-> "status", id |-> 11])
    <3>1. [type |-> "status", id |-> 11] \in OtherAnswers
        BY DEF OtherAnswers
    <3>2. stage \in Executing
        BY <1>2 DEF HarnessStarts, Executing
    <3> QED
        BY <2>1, <3>1, <3>2, AnsweredKeeps
  <2>2. CASE stage' = "preflight" /\ UNCHANGED <<problem, mode, custom, correct, answers, judge0, reply>>
      BY <1>2, <2>2, AdvanceKeeps DEF HarnessStarts, Unmoved
  <2> QED
      BY <1>2, <2>1, <2>2 DEF HarnessStarts
<1>3. CASE Preflight
  <2>1. CASE stage' = "cases" /\ UNCHANGED <<problem, mode, custom, correct, answers, judge0, reply>>
      BY <1>3, <2>1, AdvanceKeeps DEF Preflight, Unmoved
  <2>2. ASSUME NEW e \in {"COMPILATION_ERROR", "RUNTIME_ERROR"}, Answered([type |-> "module", error |-> e])
        PROVE  GradingInv'
    <3>1. [type |-> "module", error |-> e] \in OtherAnswers
        BY DEF OtherAnswers
    <3>2. stage \in Executing
        BY <1>3 DEF Preflight, Executing
    <3> QED
        BY <2>2, <3>1, <3>2, AnsweredKeeps
  <2> QED
      BY <1>3, <2>1, <2>2 DEF Preflight
<1>4. CASE RunChild
    BY <1>4, RunChildKeeps
<1>5. CASE EmitResult
  <2>1. stage \in Executing /\ Len(answers) = Len(Loaded)
      BY <1>5 DEF EmitResult, Executing
  <2>2. CASE Answered(Payload)
      BY <2>1, <2>2, AnsweredKeeps
  <2>3. ASSUME NEW e \in {"payload_too_large", "malformed_json", "missing_markers"},
               Answered([type |-> "unreadable", reason |-> e])
        PROVE  GradingInv'
    <3>1. [type |-> "unreadable", reason |-> e] \in OtherAnswers
        BY DEF OtherAnswers
    <3> QED
        BY <2>1, <2>3, <3>1, AnsweredKeeps
  <2> QED
      BY <1>5, <2>2, <2>3 DEF EmitResult, Payload
<1>6. CASE Judge0Stops
  <2>1. PICK id \in {5, 6, 7} : Answered([type |-> "status", id |-> id])
      BY <1>6 DEF Judge0Stops
  <2>2. [type |-> "status", id |-> id] \in OtherAnswers
      BY <2>1 DEF OtherAnswers
  <2>3. stage \in Executing
      BY <1>6 DEF Judge0Stops, Executing
  <2> QED
      BY <2>1, <2>2, <2>3, AnsweredKeeps
<1>7. CASE RequestFails
  <2>1. [type |-> "failed"] \in OtherAnswers
      BY DEF OtherAnswers
  <2>2. stage \in Executing /\ Answered([type |-> "failed"])
      BY <1>7 DEF RequestFails, Executing
  <2> QED
      BY <2>1, <2>2, AnsweredKeeps
<1>8. CASE Reply
    BY <1>8, ReplyKeeps
<1>9. CASE Finish
    BY <1>9, FinishKeeps
<1>10. CASE UNCHANGED gradingVars
  <2>1. /\ Unmoved /\ UNCHANGED answers /\ judge0' = judge0 /\ stage' = stage /\ reply' = reply
      BY <1>10 DEF gradingVars, Unmoved
  <2>2. Loaded' = Loaded /\ (\A c : Answers(c)' = Answers(c)) /\ Payload' = Payload
      BY <2>1, UnmovedFacts DEF Payload, CaseResult
  <2>3. GradingTypes'
      BY <2>1, <2>2 DEF GradingInv, GradingTypes, Unmoved, VisibleCases, Statuses
  <2>4. AnswersAllowed'
      BY <2>1, <2>2 DEF GradingInv, AnswersAllowed
  <2>5. Verdict' = Verdict
      BY <2>1, <2>2 DEF Unmoved, Verdict, Error, HasExactCaseIndexes, RunResult, SubmitResult,
            Passed, ResultOf, FirstFailed, ShownByFailure
  <2>6. stage \in {"answered", "replied"}
          => judge0' \in OtherAnswers' \/ (judge0' = Payload' /\ Len(answers') = Len(Loaded'))
      BY <2>1, <2>2 DEF GradingInv, StagesExact, OtherAnswers
  <2>7. StagesExact'
      BY <2>1, <2>5, <2>6 DEF GradingInv, StagesExact, Nothing
  <2> QED
      BY <2>3, <2>4, <2>7 DEF GradingInv
<1> QED
    BY <1>1, <1>2, <1>3, <1>4, <1>5, <1>6, <1>7, <1>8, <1>9, <1>10 DEF GradingNext

LEMMA GradingInvariant == GradingSpec => []GradingInv
BY GradingStart, GradingStep, PTL DEF GradingSpec

-----------------------------------------------------------------------------
(* What a payload is graded to.                                            *)

\* Of the answers of Judge0 only a payload is graded, the others are errors.
LEMMA OthersAreErrors == judge0 \in OtherAnswers => Verdict.type = "error"
<1> SUFFICES ASSUME judge0 \in OtherAnswers PROVE Verdict.type = "error"
    OBVIOUS
<1> DEFINE timed == IF judge0.id = 5 THEN "TIMEOUT" ELSE IF judge0.id = 6 THEN "COMPILATION_ERROR"
                    ELSE "RUNTIME_ERROR"
           unread == IF judge0.reason = "payload_too_large" THEN "OUTPUT_LIMIT" ELSE "PARSE_ERROR"
<1>1. CASE judge0.type = "failed"
  <2>1. Verdict = Error("API_ERROR")
      BY <1>1 DEF Verdict
  <2> QED
      BY <2>1 DEF Error
<1>2. CASE judge0.type = "status"
  <2>1. Verdict = Error(timed)
      BY <1>2 DEF Verdict
  <2> QED
      BY <2>1 DEF Error
<1>3. CASE judge0.type = "module"
  <2>1. Verdict = Error(judge0.error)
      BY <1>3 DEF Verdict
  <2> QED
      BY <2>1 DEF Error
<1>4. CASE judge0.type = "unreadable"
  <2>1. Verdict = Error(unread)
      BY <1>4 DEF Verdict
  <2> QED
      BY <2>1 DEF Error
<1>5. judge0.type \in {"failed", "status", "module", "unreadable"}
    BY DEF OtherAnswers
<1> QED
    BY <1>1, <1>2, <1>3, <1>4, <1>5

LEMMA PayloadVerdict ==
  ASSUME judge0 = Payload
  PROVE  Verdict = IF ~HasExactCaseIndexes(Payload.results) THEN Error("PARSE_ERROR")
                   ELSE IF mode = "run" THEN RunResult(Payload.results)
                   ELSE SubmitResult(Payload.results)
<1>1. judge0.type = "payload" /\ judge0.results = Payload.results
    BY DEF Payload
<1>2. /\ judge0.type # "failed" /\ judge0.type # "status" /\ judge0.type # "module"
      /\ judge0.type # "unreadable"
    BY <1>1
<1> QED
    BY <1>1, <1>2 DEF Verdict

\* The entry of a case is found at its place, and says whether it was answered right.
LEMMA PayloadFacts ==
  ASSUME answers \in Seq(Statuses \cup {"child"}), Len(answers) = Len(Loaded),
         DOMAIN Loaded = 1..Len(Loaded)
  PROVE  /\ Payload.type = "payload"
         /\ DOMAIN answers = 1..Len(answers) /\ Len(answers) \in Nat
         /\ HasExactCaseIndexes(Payload.results)
         /\ Passed(Payload.results) = {i \in DOMAIN answers : Right(i)}
<1> DEFINE n == Len(answers)
           results == Payload.results
           Entry == {CaseResult(i) : i \in 1..n}
<1>1. n \in Nat /\ DOMAIN answers = 1..n
    BY LenProperties
<1>2. Payload.type = "payload" /\ results = [i \in 1..n |-> CaseResult(i)]
    BY <1>1 DEF Payload
<1>3. results \in Seq(Entry)
  <2>1. results \in [1..n -> Entry]
      BY <1>2
  <2> QED
      BY <1>1, <2>1, SeqDef
<1>4. Len(results) = n /\ DOMAIN results = 1..n
  <2>1. DOMAIN results = 1..Len(results) /\ Len(results) \in Nat
    <3> HIDE DEF Entry, results
    <3> QED
        BY <1>3, LenProperties
  <2>2. DOMAIN results = 1..n
      BY <1>2
  <2> QED
      BY <1>1, <2>1, <2>2
<1>5. ToSet(results) = Entry
  <2> HIDE DEF n
  <2> QED
      BY <1>2, <1>4 DEF ToSet
<1>6. \A i \in 1..n : CaseResult(i).index = i - 1
    BY DEF CaseResult
<1>7. HasExactCaseIndexes(results)
  <2>1. {r.index : r \in Entry} \subseteq 0..(n - 1)
      BY <1>1, <1>6
  <2>2. ASSUME NEW k \in 0..(n - 1) PROVE k \in {r.index : r \in Entry}
    <3>1. k + 1 \in 1..n /\ CaseResult(k + 1) \in Entry /\ CaseResult(k + 1).index = k
        BY <1>1, <1>6
    <3> QED
        BY <3>1
  <2>3. {r.index : r \in Entry} = 0..(n - 1)
      BY <2>1, <2>2
  <2> HIDE DEF Entry
  <2> QED
      BY <1>4, <1>5, <2>3 DEF HasExactCaseIndexes
<1>8. ASSUME NEW i \in 1..n PROVE ResultOf(results, i) = CaseResult(i)
  <2>1. CaseResult(i) \in Entry /\ CaseResult(i).index = i - 1
      BY <1>6
  <2>2. ASSUME NEW r \in Entry, r.index = i - 1 PROVE r = CaseResult(i)
    <3>1. PICK j \in 1..n : r = CaseResult(j)
        OBVIOUS
    <3>2. j - 1 = i - 1
        BY <1>6, <2>2, <3>1
    <3>3. j = i
        BY <1>1, <3>2
    <3> QED
        BY <3>1, <3>3
  <2>3. ResultOf(results, i) = CHOOSE r \in Entry : r.index = i - 1
      BY <1>5 DEF ResultOf
  <2> HIDE DEF Entry
  <2> QED
      BY <2>1, <2>2, <2>3
<1>9. ASSUME NEW i \in 1..n PROVE (ResultOf(results, i).status = "same") <=> Right(i)
  <2>1. CaseResult(i).status = IF answers[i] = "child" THEN "error" ELSE answers[i]
      BY DEF CaseResult
  <2>2. ResultOf(results, i).status = CaseResult(i).status
      BY <1>8
  <2> HIDE DEF results
  <2> QED
      BY <2>1, <2>2 DEF Right
<1>10. Passed(results) = {i \in 1..n : Right(i)}
  <2> HIDE DEF results
  <2> QED
      BY <1>9 DEF Passed
<1> QED
    BY <1>1, <1>2, <1>7, <1>10

\* A result is what the payload of all cases is graded to.
LEMMA ResultFacts ==
  ASSUME GradingInv, HasResult
  PROVE  /\ answers \in Seq(Statuses \cup {"child"}) /\ Len(answers) \in Nat
         /\ DOMAIN answers = 1..Len(answers)
         /\ Len(Loaded) = Len(answers) /\ DOMAIN Loaded = DOMAIN answers
         /\ Passed(Payload.results) = {i \in DOMAIN answers : Right(i)}
         /\ reply = IF mode = "run" THEN RunResult(Payload.results) ELSE SubmitResult(Payload.results)
<1>1. stage = "replied" /\ reply = Verdict
    BY DEF HasResult, GradingInv, StagesExact, Nothing
<1>2. judge0 \notin OtherAnswers
    BY <1>1, OthersAreErrors DEF HasResult
<1>3. judge0 = Payload /\ Len(answers) = Len(Loaded)
    BY <1>1, <1>2 DEF GradingInv, StagesExact
<1>4. answers \in Seq(Statuses \cup {"child"}) /\ DOMAIN Loaded = 1..Len(Loaded)
    BY LoadedFacts DEF GradingInv, GradingTypes
<1>5. /\ DOMAIN answers = 1..Len(answers) /\ Len(answers) \in Nat
      /\ HasExactCaseIndexes(Payload.results)
      /\ Passed(Payload.results) = {i \in DOMAIN answers : Right(i)}
    BY <1>3, <1>4, PayloadFacts
<1>6. reply = IF mode = "run" THEN RunResult(Payload.results) ELSE SubmitResult(Payload.results)
    BY <1>1, <1>3, <1>5, PayloadVerdict
<1> QED
    BY <1>3, <1>4, <1>5, <1>6

\* The first failure that a submission reports is the least case that was not answered right.
LEMMA FirstFailedFacts ==
  ASSUME NEW results, DOMAIN Loaded \subseteq Nat \ {0}
  PROVE  /\ FirstFailed(results) = 0 => DOMAIN Loaded \subseteq Passed(results)
         /\ FirstFailed(results) # 0 =>
              FirstFailed(results) \in DOMAIN Loaded \ Passed(results)
         /\ \A i \in DOMAIN Loaded \ Passed(results) :
              FirstFailed(results) # 0 /\ FirstFailed(results) <= i
<1> DEFINE failed == DOMAIN Loaded \ Passed(results)
           Least(i) == \A j \in failed : i <= j
<1>1. failed \in SUBSET Nat
    OBVIOUS
<1>2. CASE failed = {}
    BY <1>2 DEF FirstFailed
<1>3. CASE failed # {}
  <2>1. \E i \in failed : Least(i)
    <3> HIDE DEF failed
    <3> QED
        BY <1>1, <1>3, LeastElement
  <2>2. FirstFailed(results) = CHOOSE i \in failed : Least(i)
      BY <1>3 DEF FirstFailed
  <2>3. FirstFailed(results) \in failed /\ Least(FirstFailed(results))
    <3> HIDE DEF failed, Least
    <3> QED
        BY <2>1, <2>2
  <2>4. FirstFailed(results) # 0
      BY <2>3
  <2> QED
      BY <2>3, <2>4
<1> QED
    BY <1>2, <1>3

(***************************************************************************)
(* Every result is about the answers of its execution, case by case        *)
(* (gradeHarnessResults, buildRunResult, buildSubmitResult): for every set *)
(* of problems, every number of cases and every order of the answers.      *)
(***************************************************************************)
THEOREM ResultMatchesAnswersAlways == GradingSpec => []ResultMatchesAnswers
<1>1. ASSUME GradingInv, HasResult
      PROVE  ResultMatchesAnswers
  <2> DEFINE results == Payload.results
             right == {i \in DOMAIN answers : Right(i)}
  <2>1. /\ Len(answers) \in Nat /\ DOMAIN answers = 1..Len(answers)
        /\ Len(Loaded) = Len(answers) /\ DOMAIN Loaded = DOMAIN answers
        /\ Passed(results) = right
        /\ reply = IF mode = "run" THEN RunResult(results) ELSE SubmitResult(results)
      BY <1>1, ResultFacts
  <2>2. /\ mode = "submit" => Loaded = problem.cases
        /\ mode = "run" => Len(Loaded) = Cardinality({i \in DOMAIN problem.cases : problem.cases[i].visible})
                                          + Len(custom)
      BY <1>1, LoadedFacts DEF GradingInv
  <2> HIDE DEF results
  <2>3. CASE mode = "run"
    <3>1. /\ reply.total = Len(Loaded) /\ reply.passed = Cardinality(right)
          /\ reply.cases = [i \in DOMAIN answers |-> i \in right]
        BY <2>1, <2>3 DEF RunResult
    <3>2. ASSUME NEW i \in DOMAIN answers PROVE reply.cases[i] = Right(i)
      <4>1. reply.cases[i] = (i \in right)
          BY <3>1
      <4>2. (i \in right) = Right(i)
          BY DEF Right
      <4> QED
          BY <4>1, <4>2
    <3> QED
        BY <2>1, <2>2, <2>3, <3>1, <3>2 DEF ResultMatchesAnswers
  <2>4. CASE mode = "submit"
    <3>1. /\ reply.total = Len(Loaded) /\ reply.passed = Cardinality(right)
          /\ reply.firstFailure = FirstFailed(results)
        BY <2>1, <2>4 DEF SubmitResult
    <3>2. /\ FirstFailed(results) # 0 => FirstFailed(results) \in DOMAIN answers \ right
          /\ \A i \in DOMAIN answers \ right : FirstFailed(results) # 0 /\ FirstFailed(results) <= i
      <4>1. DOMAIN Loaded \subseteq Nat \ {0}
          BY <2>1
      <4> HIDE DEF right
      <4> QED
          BY <2>1, <4>1, FirstFailedFacts
    <3>3. /\ \A i \in DOMAIN answers : ~Right(i) => FirstFailed(results) # 0 /\ FirstFailed(results) <= i
          /\ FirstFailed(results) # 0 => ~Right(FirstFailed(results))
        BY <3>2
    <3> QED
        BY <2>1, <2>2, <2>4, <3>1, <3>3 DEF ResultMatchesAnswers
  <2>5. mode \in {"run", "submit"}
      BY <1>1 DEF GradingInv, GradingTypes
  <2> QED
      BY <2>3, <2>4, <2>5
<1>2. GradingInv => ResultMatchesAnswers
  <2>1. CASE ~HasResult
      BY <2>1 DEF ResultMatchesAnswers
  <2> QED
      BY <1>1, <2>1
<1> QED
    BY <1>2, GradingInvariant, PTL

(***************************************************************************)
(* No result shows a hidden case: a run does not load one (findVisible),   *)
(* and buildSubmitResult does not show it when it is the first failure.    *)
(***************************************************************************)
THEOREM HiddenStayHiddenAlways == GradingSpec => []HiddenStayHidden
<1>1. ASSUME GradingInv, HasResult
      PROVE  \A i \in reply.shown : Loaded[i].visible
  <2> DEFINE results == Payload.results
  <2>1. /\ DOMAIN Loaded = DOMAIN answers
        /\ reply = IF mode = "run" THEN RunResult(results) ELSE SubmitResult(results)
      BY <1>1, ResultFacts
  <2> HIDE DEF results
  <2>2. CASE mode = "run"
    <3>1. reply.shown = DOMAIN Loaded \ Passed(results)
        BY <2>1, <2>2 DEF RunResult
    <3>2. Loaded \in VisibleCases
        BY <1>1, <2>2, LoadedFacts DEF GradingInv
    <3>3. ASSUME NEW i \in DOMAIN Loaded PROVE Loaded[i].visible
      <4> DEFINE V == {c \in Case : c.visible}
      <4>1. Loaded \in Seq(V)
          BY <3>2 DEF VisibleCases
      <4>2. Loaded[i] \in V
        <5> HIDE DEF V
        <5> QED
            BY <4>1, LenProperties
      <4> QED
          BY <4>2
    <3> QED
        BY <3>1, <3>3
  <2>3. CASE mode = "submit"
    <3>1. reply.shown = ShownByFailure(results)
        BY <2>1, <2>3 DEF SubmitResult
    <3> QED
        BY <3>1 DEF ShownByFailure
  <2>4. mode \in {"run", "submit"}
      BY <1>1 DEF GradingInv, GradingTypes
  <2> QED
      BY <2>2, <2>3, <2>4
<1>2. GradingInv => HiddenStayHidden
    BY <1>1 DEF HiddenStayHidden
<1> QED
    BY <1>2, GradingInvariant, PTL

(***************************************************************************)
(* Correct code for a problem that maps JSON values to one JSON value is   *)
(* passed by every submission in which no child process failed, when the   *)
(* fixtures are right.                                                     *)
(***************************************************************************)
THEOREM PlainSolutionsPassAlways ==
  ASSUME RightFixtures
  PROVE  GradingSpec => []PlainSolutionsPass
<1>1. ASSUME GradingInv, Plain, HasResult, mode = "submit", correct, "child" \notin ToSet(answers)
      PROVE  reply.passed = reply.total
  <2> DEFINE results == Payload.results
             right == {i \in DOMAIN answers : Right(i)}
  <2>1. /\ Len(answers) \in Nat /\ DOMAIN answers = 1..Len(answers)
        /\ Len(Loaded) = Len(answers) /\ DOMAIN Loaded = DOMAIN answers
        /\ Passed(results) = right
        /\ reply = SubmitResult(results)
      BY <1>1, ResultFacts
  <2> HIDE DEF results
  <2>2. problem \in Problems /\ Loaded = problem.cases
      BY <1>1, LoadedFacts DEF GradingInv, GradingTypes
  <2>3. ASSUME NEW i \in DOMAIN answers PROVE Right(i)
    <3>1. Loaded[i].right /\ ~Loaded[i].several /\ problem.form = "value"
        BY <1>1, <2>1, <2>2 DEF RightFixtures, Plain
    <3>2. Answers(Loaded[i]) = {"same"}
        BY <1>1, <3>1 DEF Answers
    <3>3. answers[i] # "child"
        BY <1>1, <2>1 DEF ToSet
    <3>4. answers[i] \in Answers(Loaded[i]) \cup {"child"}
        BY <1>1 DEF GradingInv, AnswersAllowed
    <3> QED
        BY <3>2, <3>3, <3>4 DEF Right
  <2>4. right = 1..Len(answers)
      BY <2>1, <2>3
  <2>5. reply.passed = Cardinality(right) /\ reply.total = Len(Loaded)
      BY <2>1 DEF SubmitResult
  <2>6. Cardinality(1..Len(answers)) = Len(answers)
    <3> DEFINE n == Len(answers)
    <3>1. n \in Nat /\ n \in Int /\ 1 \in Int
        BY <2>1
    <3> HIDE DEF n
    <3>2. Cardinality(1..n) = IF 1 > n THEN 0 ELSE n - 1 + 1
        BY <3>1, FS_Interval
    <3>3. Cardinality(1..n) = n
        BY <3>1, <3>2
    <3> QED
        BY <3>3 DEF n
  <2> HIDE DEF right
  <2> QED
      BY <2>1, <2>4, <2>5, <2>6
<1>2. GradingInv => PlainSolutionsPass
    BY <1>1 DEF PlainSolutionsPass, CorrectSolutionsPass
<1> QED
    BY <1>2, GradingInvariant, PTL

LEMMA ReplyFacts ==
  ASSUME GradingInv, stage = "replied"
  PROVE  /\ reply.type \in {"error", "run", "submit"}
         /\ judge0.type = "payload" => HasResult
<1>1. reply = Verdict
    BY DEF GradingInv, StagesExact
<1>2. CASE judge0 \in OtherAnswers
    BY <1>1, <1>2, OthersAreErrors DEF OtherAnswers
<1>3. CASE judge0 = Payload /\ Len(answers) = Len(Loaded)
  <2>1. HasExactCaseIndexes(Payload.results)
      BY <1>3, LoadedFacts, PayloadFacts DEF GradingInv, GradingTypes
  <2>2. reply = IF mode = "run" THEN RunResult(Payload.results) ELSE SubmitResult(Payload.results)
      BY <1>1, <1>3, <2>1, PayloadVerdict
  <2>3. RunResult(Payload.results).type = "run" /\ SubmitResult(Payload.results).type = "submit"
      BY DEF RunResult, SubmitResult
  <2> QED
      BY <2>2, <2>3 DEF HasResult
<1> QED
    BY <1>2, <1>3 DEF GradingInv, StagesExact

\* The variables of the grading have their types, and a room gets its reply at its stage
\* only (handleExecution emits once and last).
THEOREM GradingTypeOKAlways == GradingSpec => []GradingTypeOK
<1>1. GradingInv => GradingTypeOK
  <2> SUFFICES ASSUME GradingInv PROVE GradingTypeOK
      OBVIOUS
  <2>1. judge0.type \in {"none", "status", "module", "payload", "unreadable", "failed"}
    <3>1. judge0 = Nothing \/ judge0 \in OtherAnswers \/ judge0 = Payload
        BY DEF GradingInv, GradingTypes, StagesExact
    <3>2. Nothing.type = "none" /\ Payload.type = "payload"
        BY DEF Nothing, Payload
    <3>3. judge0 \in OtherAnswers => judge0.type \in {"status", "module", "unreadable", "failed"}
        BY DEF OtherAnswers
    <3> QED
        BY <3>1, <3>2, <3>3
  <2>2. CASE stage = "replied"
      BY <2>1, <2>2, ReplyFacts DEF GradingInv, GradingTypes, GradingTypeOK
  <2>3. CASE stage # "replied"
    <3>1. reply.type = "none"
        BY <2>3 DEF GradingInv, StagesExact, Nothing
    <3> QED
        BY <2>1, <2>3, <3>1 DEF GradingInv, GradingTypes, GradingTypeOK
  <2> QED
      BY <2>2, <2>3
<1> QED
    BY <1>1, GradingInvariant, PTL

(***************************************************************************)
(* The harness and the grader agree about what a payload is: whatever      *)
(* happened to the children, the payload of _emit_result has the index of  *)
(* every loaded case once, so gradeHarnessResults never rejects it and a   *)
(* room whose payload was read has a result.                               *)
(***************************************************************************)
PayloadsGraded == stage = "replied" /\ judge0.type = "payload" => HasResult
THEOREM PayloadsGradedAlways == GradingSpec => []PayloadsGraded
<1>1. GradingInv => PayloadsGraded
    BY ReplyFacts DEF PayloadsGraded
<1> QED
    BY <1>1, GradingInvariant, PTL
=============================================================================
