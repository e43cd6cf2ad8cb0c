--------------------------- MODULE CircuitBreaker ---------------------------
(***************************************************************************)
(* The breaker around an unreliable dependency (one for Judge0, one for    *)
(* Groq).  Calls overlap: a call admitted in one state of the breaker may  *)
(* succeed or fail in another, after the breaker opened, half-opened or    *)
(* was reset.  The onStateChange callback only reports.                    *)
(***************************************************************************)
EXTENDS Integers

CONSTANTS
  Calls,             \* calls of execute()
  FailureThreshold,  \* options.failureThreshold
  MaxReopen          \* bound: how often the half-open timer is scheduled

ASSUME ThresholdAssumption ==
  /\ FailureThreshold \in Nat \ {0}
  /\ MaxReopen \in Nat

VARIABLES
  state,                \* "closed", "open" or "half_open"
  consecutiveFailures,
  resetTimer,           \* the timer variable holds this timeout, 0 if null
  armed,                \* timeouts armed in the runtime
  scheduled,            \* timeouts armed so far
  call                  \* what became of each call

vars == <<state, consecutiveFailures, resetTimer, armed, scheduled, call>>

Init ==
  /\ state = "closed"
  /\ consecutiveFailures = 0
  /\ resetTimer = 0
  /\ armed = {}
  /\ scheduled = 0
  /\ call = [c \in Calls |-> "new"]

-----------------------------------------------------------------------------
\* Mutant: no timeout is armed.
ScheduleHalfOpenForgotten == UNCHANGED <<resetTimer, armed, scheduled>>

\* clearTimeout of the timer held, if any, and a new one.
ScheduleHalfOpen ==
  /\ scheduled < MaxReopen
  /\ scheduled' = scheduled + 1
  /\ resetTimer' = scheduled + 1
  /\ armed' = (armed \ {resetTimer}) \cup {scheduled + 1}

\* The timer variable is cleared and the breaker half-opens.
HalfOpen(n) ==
  /\ n \in armed
  /\ armed' = armed \ {n}
  /\ resetTimer' = 0
  /\ state' = "half_open"
  /\ UNCHANGED <<consecutiveFailures, scheduled, call>>

Admit(c) ==
  /\ call[c] = "new"
  /\ state # "open"
  /\ call' = [call EXCEPT ![c] = "running"]
  /\ UNCHANGED <<state, consecutiveFailures, resetTimer, armed, scheduled>>

Refuse(c) ==
  /\ call[c] = "new"
  /\ state = "open"
  /\ call' = [call EXCEPT ![c] = "refused"]
  /\ UNCHANGED <<state, consecutiveFailures, resetTimer, armed, scheduled>>

\* Mutant: any success closes the breaker.
RecordSuccessCloses(c) ==
  /\ call[c] = "running"
  /\ call' = [call EXCEPT ![c] = "succeeded"]
  /\ consecutiveFailures' = 0
  /\ state' = "closed"
  /\ UNCHANGED <<resetTimer, armed, scheduled>>

RecordSuccess(c) ==
  /\ call[c] = "running"
  /\ call' = [call EXCEPT ![c] = "succeeded"]
  /\ consecutiveFailures' = 0
  /\ state' = IF state = "half_open" THEN "closed" ELSE state
  /\ UNCHANGED <<resetTimer, armed, scheduled>>

\* Mutant: > for >=.
TripsLate ==
  \/ state = "half_open"
  \/ state = "closed" /\ consecutiveFailures + 1 > FailureThreshold

\* Whether a failure opens the breaker.
Trips ==
  \/ state = "half_open"
  \/ state = "closed" /\ consecutiveFailures + 1 >= FailureThreshold

RecordFailure(c) ==
  /\ call[c] = "running"
  /\ call' = [call EXCEPT ![c] = "failed"]
  /\ consecutiveFailures' = consecutiveFailures + 1
  /\ IF Trips
     THEN state' = "open" /\ ScheduleHalfOpen
     ELSE UNCHANGED <<state, resetTimer, armed, scheduled>>

\* Mutant: the timeout survives the reset.
ResetLeaksTimer ==
  /\ resetTimer' = 0
  /\ consecutiveFailures' = 0
  /\ state' = "closed"
  /\ UNCHANGED <<armed, scheduled, call>>

Reset ==
  /\ armed' = armed \ {resetTimer}
  /\ resetTimer' = 0
  /\ consecutiveFailures' = 0
  /\ state' = "closed"
  /\ UNCHANGED <<scheduled, call>>

Next ==
  \/ \E n \in 1..MaxReopen : HalfOpen(n)
  \/ \E c \in Calls : Admit(c)
  \/ \E c \in Calls : Refuse(c)
  \/ \E c \in Calls : RecordSuccess(c)
  \/ \E c \in Calls : RecordFailure(c)
  \/ Reset

Spec == Init /\ [][Next]_vars

\* An armed timeout fires.
FairSpec == Spec /\ \A n \in 1..MaxReopen : WF_vars(HalfOpen(n))

-----------------------------------------------------------------------------
(* Properties.                                                             *)

TypeOK ==
  /\ state \in {"closed", "open", "half_open"}
  /\ consecutiveFailures \in Nat
  /\ resetTimer \in 0..MaxReopen
  /\ armed \in SUBSET (1..MaxReopen)
  /\ scheduled \in 0..MaxReopen
  /\ call \in [Calls -> {"new", "running", "refused", "succeeded", "failed"}]

\* An open breaker has exactly one half-open timeout, the one it can clear, and
\* no other state has any: late results neither leak a timer nor lose it.
TimerExact ==
  /\ armed = IF state = "open" THEN {resetTimer} ELSE {}
  /\ state = "open" => resetTimer # 0

\* A closed breaker has fewer failures on record than open it, although results
\* of calls admitted before it opened still count.
ClosedBelowThreshold == state = "closed" => consecutiveFailures < FailureThreshold

\* An open breaker leaves this state through half-open, or through reset(),
\* which forgets the failures: a late success never closes it.
OpenOnlyTimesOut ==
  [][state = "open" /\ state' = "closed" => UNCHANGED call]_vars

\* An open breaker lets calls through again.
OpenEnds == state = "open" ~> state # "open"
=============================================================================
