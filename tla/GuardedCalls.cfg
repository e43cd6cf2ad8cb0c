\* Two slots and two waiting places, so that the fifth call may be rejected; a breaker
\* that opens at the second failure and may open three times.
SPECIFICATION FairPathSpec
CONSTANTS
  Calls = {c1, c2, c3, c4, c5}
  FailureThreshold = 2
  MaxReopen = 3
  MaxInFlight = 2
  MaxQueue = 2
INVARIANTS CountsExact TimerExact ClosedBelowThreshold
PROPERTIES NoOvertaking AcceptedSettles OpenOnlyTimesOut OpenEnds
CHECK_DEADLOCK FALSE
