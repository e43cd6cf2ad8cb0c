SPECIFICATION FairSpec
CONSTANTS
  Users = {u1, u2}
  Interview = FALSE
  Interviewer = u1
  Problems <- MCProblems
  NoProblem = NoProblem
  HintLimitOf <- MCHintLimitOf
  SubmissionLimit = 1
  ImportLimit = 1
  CustomLimit = 1
  MaxLLMCalls = 1
  Tasks = {t1, t2}
  MaxRequests = 2
  NoUser = NoUser
INVARIANTS ExecutionExclusive LimitsBounded ConsentTimerExact RequesterConnected
PROPERTIES RequestResolved ImplementsExecutionLock
CHECK_DEADLOCK FALSE
