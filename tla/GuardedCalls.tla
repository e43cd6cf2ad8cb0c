---------------------------- MODULE GuardedCalls ----------------------------
(***************************************************************************)
(* The path of a call to an external dependency.  A handler runs its work  *)
(* in an operation limiter; the work reserves a unit of the daily quota    *)
(* (ReliabilityStore), and then calls the dependency through its circuit   *)
(* breaker.  Whatever stops the work on this path, the quota, the open     *)
(* breaker or the dependency itself, settles it and frees its slot in the  *)
(* same step.  The server has such a path to Judge0 and one to Groq.       *)
(***************************************************************************)
EXTENDS CircuitBreaker, FiniteSets

CONSTANTS
  MaxInFlight,  \* options.maxInFlight of the limiter
  MaxQueue      \* options.maxQueue

\* The constructor throws otherwise.
ASSUME OptionsAssumption ==
  /\ MaxInFlight \in Nat \ {0}
  /\ MaxQueue \in Nat

VARIABLES active, queue, status  \* of the limiter

limiterVars == <<active, queue, status>>
pathVars == <<vars, limiterVars>>

L == INSTANCE OperationLimiter WITH Operations <- Calls

PathInit == Init /\ L!Init

-----------------------------------------------------------------------------
Arrive(c) ==
  /\ L!RunStarts(c) \/ L!RunQueues(c) \/ L!RunRejects(c)
  /\ UNCHANGED vars

\* The daily quota is spent, or the store fails.
QuotaRefuses(c) ==
  /\ call[c] = "new"
  /\ L!Settle(c)
  /\ UNCHANGED vars

\* The quota is reserved, and the breaker lets the call through.
CallsDependency(c) ==
  /\ status[c] = "running"
  /\ Admit(c)
  /\ UNCHANGED limiterVars

\* The quota is reserved, and the breaker is open.
BreakerRefuses(c) == Refuse(c) /\ L!Settle(c)

\* Mutant: the slot of a failed call is never given back.
FailsWithoutSettling(c) == RecordFailure(c) /\ UNCHANGED limiterVars

Succeeds(c) == RecordSuccess(c) /\ L!Settle(c)

\* An error of the dependency, or the timeout of the request.
Fails(c) == RecordFailure(c) /\ L!Settle(c)

HalfOpens(n) == HalfOpen(n) /\ UNCHANGED limiterVars

\* reset() of the breaker.
Resets == Reset /\ UNCHANGED limiterVars

PathNext ==
  \/ \E c \in Calls : Arrive(c)
  \/ \E c \in Calls : QuotaRefuses(c)
  \/ \E c \in Calls : CallsDependency(c)
  \/ \E c \in Calls : BreakerRefuses(c)
  \/ \E c \in Calls : Succeeds(c)
  \/ \E c \in Calls : Fails(c)
  \/ \E n \in 1..MaxReopen : HalfOpens(n)
  \/ Resets

PathSpec == PathInit /\ [][PathNext]_pathVars

\* Armed timeouts fire, the half-open timer and the timeout of a request; the
\* store answers or fails.
FairPathSpec ==
  /\ PathSpec
  /\ \A n \in 1..MaxReopen : WF_pathVars(HalfOpens(n))
  /\ \A c \in Calls :
       /\ WF_pathVars(QuotaRefuses(c) \/ CallsDependency(c) \/ BreakerRefuses(c))
       /\ WF_pathVars(Succeeds(c) \/ Fails(c))

-----------------------------------------------------------------------------
(* Properties.                                                             *)

\* The limiter's counter is exact on every path a call can take, the queue holds
\* every waiting call once, no slot idles while a call waits, and so the dependency
\* never sees more calls at once than the limiter has slots, also when a half-open
\* breaker, which admits everybody, is probed.
CountsExact ==
  /\ L!ActiveExact /\ L!QueueExact /\ L!WorkConserving
  /\ Cardinality({c \in Calls : call[c] = "running"}) <= MaxInFlight

\* Calls leave the queue in order, and a new call never overtakes one that waits.
NoOvertaking == L!NoOvertaking

\* A call that was accepted is started and settles: no refusal by the quota or the
\* breaker and no failure of the dependency keeps a slot.
AcceptedSettles == L!AcceptedSettles
=============================================================================
