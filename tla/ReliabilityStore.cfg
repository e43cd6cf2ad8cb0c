SPECIFICATION Spec
CONSTANTS
  Calls = {c1, c2, c3}
  Window = 3
  Day = 4
  FixedLimit = 1
  DailyLimit = 2
  MaxTime = 6
  MaxRestarts = 1
INVARIANTS QuotaPerWindow HasQuotaExact BurstBounded
PROPERTY ImplementsQuota
SYMMETRY Symmetry
CHECK_DEADLOCK FALSE
