------------------------- MODULE RoomSessionProofs -------------------------
(***************************************************************************)
(* Proofs about RoomSession, for any users, problems, limits and number of *)
(* handlers in flight.                                                     *)
(***************************************************************************)
EXTENDS RoomSession, FiniteSetTheorems, TLAPS

-----------------------------------------------------------------------------
(* Facts about tasks.                                                      *)

TaskRecord == [pc : Pcs, problem : Problems \cup {NoProblem}]

LEMMA IdleTaskType == IdleTask \in TaskRecord /\ IdleTask.pc = "idle"
BY DEF IdleTask, TaskRecord, Pcs

LEMMA StartType ==
  ASSUME TypeOK, NEW t \in Tasks, NEW pc \in Pcs, NEW p \in Problems \cup {NoProblem},
         Start(t, pc, p)
  PROVE  /\ task' \in [Tasks -> TaskRecord]
         /\ task[t].pc = "idle"
         /\ \A r \in Tasks : task'[r].pc = IF r = t THEN pc ELSE task[r].pc
BY DEF TypeOK, Start, TaskRecord

LEMMA AwaitType ==
  ASSUME TypeOK, NEW t \in Tasks, NEW from, NEW to \in Pcs, Await(t, from, to)
  PROVE  /\ task' \in [Tasks -> TaskRecord]
         /\ task[t].pc = from
         /\ \A r \in Tasks : task'[r].pc = IF r = t THEN to ELSE task[r].pc
BY DEF TypeOK, Await, TaskRecord

LEMMA FinishType ==
  ASSUME TypeOK, NEW t \in Tasks, Finish(t)
  PROVE  /\ task' \in [Tasks -> TaskRecord]
         /\ \A r \in Tasks : task'[r].pc = IF r = t THEN "idle" ELSE task[r].pc
BY IdleTaskType DEF TypeOK, Finish, TaskRecord

LEMMA NoRequestFacts ==
  NoRequest.by = NoUser /\ NoRequest.id = 0 /\ NoRequest.asked = FALSE
BY DEF NoRequest

-----------------------------------------------------------------------------
(* Facts about those who come and go, and about requests for consent.      *)

AnyJoin(u) == Join(u) \/ JoinLate(u) \/ \E v \in Users : JoinShared(u, v)

AnyRequest(u) == HintRequestPending(u) \/ HintRequestUnasked(u)

LEMMA JoinFacts ==
  ASSUME TypeOK, NEW u \in Users, AnyJoin(u)
  PROVE  /\ connected' = connected \cup {u}
         /\ host' \in [Users -> Users \cup {NoUser}]
         /\ UNCHANGED <<problemId, executionInProgress, submissionsUsed, importsUsed,
                        customTestCases, hintsUsed, llmCallsUsed, hintStreaming, task>>
         /\ UNCHANGED consentVars
<1>1. CASE Join(u)
    BY <1>1 DEF Join, RestUnchanged, hintVars, TypeOK
<1>2. CASE JoinLate(u)
    BY <1>2 DEF JoinLate, RestUnchanged, hintVars, TypeOK
<1>3. ASSUME NEW v \in Users, JoinShared(u, v)
      PROVE  /\ connected' = connected \cup {u}
             /\ host' \in [Users -> Users \cup {NoUser}]
             /\ RestUnchanged
             /\ UNCHANGED consentVars
    BY <1>3 DEF JoinShared, TypeOK
<1> QED
    BY <1>1, <1>2, <1>3 DEF AnyJoin, RestUnchanged, hintVars

LEMMA DisconnectFacts ==
  ASSUME TypeOK, NEW u \in Users, Disconnect(u)
  PROVE  /\ connected' = connected \ {u}
         /\ host' \in [Users -> Users \cup {NoUser}]
         /\ UNCHANGED <<problemId, executionInProgress, submissionsUsed, importsUsed,
                        customTestCases, hintsUsed, llmCallsUsed, hintStreaming, task>>
         /\ \/ pendingHintRequest.by = u /\ ClearConsentTimer /\ ClearPendingHintRequest
            \/ pendingHintRequest.by # u /\ UNCHANGED consentVars
BY DEF Disconnect, Leave, RestUnchanged, hintVars, TypeOK

LEMMA RequestFacts ==
  ASSUME TypeOK, NEW u \in Users, AnyRequest(u)
  PROVE  /\ MayRequestHint(u)
         /\ requests < MaxRequests
         /\ requests' = requests + 1
         /\ pendingHintRequest' = [by |-> u, id |-> requests + 1,
                                   asked |-> \E v \in connected : host[v] # u]
         /\ UNCHANGED <<connected, host, problemId, executionInProgress, submissionsUsed,
                        importsUsed, customTestCases, hintsUsed, llmCallsUsed,
                        hintStreaming, task>>
BY DEF AnyRequest, HintRequestPending, HintRequestUnasked, SetPendingHintRequest, hintVars

-----------------------------------------------------------------------------
(* The type invariant, by the parts of the state it is about.              *)

RoomTypeOK ==
  /\ connected \in SUBSET Users
  /\ host \in [Users -> Users \cup {NoUser}]
  /\ problemId \in Problems \cup {NoProblem}
  /\ customTestCases \in Seq(Problems)
  /\ submissionsUsed \in Nat
  /\ importsUsed \in Nat
  /\ hintsUsed \in Nat
  /\ llmCallsUsed \in Nat

FlagsTypeOK == executionInProgress \in BOOLEAN /\ hintStreaming \in BOOLEAN

ConsentTypeOK ==
  /\ pendingHintRequest \in [by : Users, id : 1..MaxRequests, asked : BOOLEAN]
                            \cup {NoRequest}
  /\ consentTimer \in 0..MaxRequests
  /\ armedTimers \in SUBSET (1..MaxRequests)
  /\ requests \in 0..MaxRequests

TaskTypeOK == task \in [Tasks -> TaskRecord]

LEMMA TypeParts == TypeOK <=> RoomTypeOK /\ FlagsTypeOK /\ ConsentTypeOK /\ TaskTypeOK
BY DEF TypeOK, RoomTypeOK, FlagsTypeOK, ConsentTypeOK, TaskTypeOK, TaskRecord

\* A waiting testcase or select handler has captured a problem.
CapturedProblem ==
  \A t \in Tasks : task[t].pc \in {"select", "testcase"} => task[t].problem \in Problems

LEMMA TypeInit == Init => TypeOK /\ CapturedProblem
<1> SUFFICES ASSUME Init PROVE TypeOK /\ CapturedProblem
    OBVIOUS
<1>1. RoomTypeOK
    BY DEF Init, RoomTypeOK
<1>2. FlagsTypeOK
    BY DEF Init, FlagsTypeOK
<1>3. ConsentTypeOK
    BY ConstantsAssumption DEF ConstantsAssumption, Init, ConsentTypeOK
<1>4. TaskTypeOK /\ CapturedProblem
    BY IdleTaskType DEF Init, TaskTypeOK, CapturedProblem
<1> QED
    BY <1>1, <1>2, <1>3, <1>4, TypeParts

\* A step that starts, moves or ends one handler, as far as tasks are concerned.
LEMMA TaskTypeNext ==
  TypeOK /\ CapturedProblem /\ [Next]_vars => TaskTypeOK' /\ CapturedProblem'
<1> SUFFICES ASSUME TypeOK, CapturedProblem, [Next]_vars
             PROVE  TaskTypeOK' /\ CapturedProblem'
    OBVIOUS
<1>a. problemId \in Problems \cup {NoProblem}
    BY DEF TypeOK
<1>b. ASSUME NEW t \in Tasks, NEW pc \in Pcs, NEW p \in Problems \cup {NoProblem},
             Start(t, pc, p), pc \in {"select", "testcase"} => p \in Problems
      PROVE  TaskTypeOK' /\ CapturedProblem'
    BY <1>b, StartType DEF TaskTypeOK, CapturedProblem, Start, TypeOK
<1>c. ASSUME NEW t \in Tasks, NEW from, NEW to \in Pcs \ {"select", "testcase"},
             Await(t, from, to)
      PROVE  TaskTypeOK' /\ CapturedProblem'
  <2>1. \A r \in Tasks : r # t => task'[r] = task[r]
      BY <1>c DEF Await, TypeOK
  <2> QED
      BY <1>c, <2>1, AwaitType DEF TaskTypeOK, CapturedProblem
<1>d. ASSUME NEW t \in Tasks, Finish(t)
      PROVE  TaskTypeOK' /\ CapturedProblem'
    BY <1>d, FinishType DEF TaskTypeOK, CapturedProblem, Finish, TypeOK
<1>e. ASSUME UNCHANGED task PROVE TaskTypeOK' /\ CapturedProblem'
    BY <1>e DEF TaskTypeOK, CapturedProblem, TypeOK, TaskRecord
<1>1. ASSUME NEW t \in Tasks, NEW u \in Users, NEW p \in Problems, ProblemSelect(t, u, p)
      PROVE  TaskTypeOK' /\ CapturedProblem'
    BY <1>1, <1>b DEF ProblemSelect, Pcs
<1>2. ASSUME NEW t \in Tasks, NEW u \in Users, TestcaseAdd(t, u)
      PROVE  TaskTypeOK' /\ CapturedProblem'
    BY <1>2, <1>a, <1>b DEF TestcaseAdd, Pcs
<1>3. ASSUME NEW t \in Tasks, NEW u \in Users,
             \/ ProblemImport(t, u)
             \/ CodeRun(t, u)
             \/ HintRequestAlone(t, u)
             \/ HintApprove(t, u)
      PROVE  TaskTypeOK' /\ CapturedProblem'
  <2>1. \E pc \in {"importLimiter", "execLimiter", "hintFind"},
           p \in Problems \cup {NoProblem} : Start(t, pc, p)
      BY <1>3, <1>a DEF ProblemImport, CodeRun, HintRequestAlone, HintApprove
  <2> QED
      BY <2>1, <1>b DEF Pcs, HintPcs
<1>4. ASSUME NEW t \in Tasks,
             \/ ImportRuns(t)
             \/ ExecutionQueues(t)
             \/ ExecutionSubmits(t)
             \/ HintFallsBack(t)
             \/ HintStreams(t)
      PROVE  TaskTypeOK' /\ CapturedProblem'
  <2>1. \E from \in Pcs, to \in {"importRun", "execQueue", "execJudge", "hintQueue",
                                 "hintStream"} : Await(t, from, to)
      BY <1>4 DEF ImportRuns, ExecutionQueues, ExecutionSubmits, HintFallsBack,
                  HintStreams, Pcs, ExecPcs, HintPcs
  <2> QED
      BY <2>1, <1>c DEF Pcs, ExecPcs, HintPcs
<1>5. ASSUME NEW t \in Tasks, ExecutionStarts(t)
      PROVE  TaskTypeOK' /\ CapturedProblem'
  <2>1. [pc |-> "execLoad", problem |-> problemId] \in TaskRecord
      BY <1>a DEF TaskRecord, Pcs, ExecPcs
  <2> QED
      BY <1>5, <2>1 DEF ExecutionStarts, TaskTypeOK, CapturedProblem, TypeOK, TaskRecord
<1>6. ASSUME NEW t \in Tasks,
             \/ SelectLoads(t)
             \/ \E p \in Problems : ImportLoads(t, p)
             \/ ExecutionEnds(t)
             \/ TestcasePushed(t)
             \/ HintStored(t)
             \/ \E delivered \in BOOLEAN : HintStreamEnds(t, delivered)
             \/ Rejected(t)
      PROVE  TaskTypeOK' /\ CapturedProblem'
  <2>1. Finish(t)
      BY <1>6 DEF SelectLoads, ImportLoads, ExecutionEnds, TestcasePushed, HintStored,
                  HintStreamEnds, Rejected
  <2> QED
      BY <2>1, <1>d
<1>7. ASSUME \/ \E u \in Users : AnyJoin(u) \/ Disconnect(u) \/ AnyRequest(u)
                                   \/ HintDeny(u)
             \/ \E n \in 1..MaxRequests : ConsentTimeout(n)
             \/ UNCHANGED vars
      PROVE  TaskTypeOK' /\ CapturedProblem'
  <2>1. UNCHANGED task
      BY <1>7, JoinFacts, DisconnectFacts, RequestFacts DEF HintDeny, ConsentTimeout, vars
  <2> QED
      BY <2>1, <1>e
<1> QED
    BY <1>1, <1>2, <1>3, <1>4, <1>5, <1>6, <1>7 DEF Next, AnyJoin, AnyRequest

LEMMA ConsentTypeNext == TypeOK /\ [Next]_vars => ConsentTypeOK'
<1> SUFFICES ASSUME TypeOK, [Next]_vars PROVE ConsentTypeOK'
    OBVIOUS
<1>a. ConsentTypeOK
    BY TypeParts
<1>b. ASSUME UNCHANGED consentVars PROVE ConsentTypeOK'
    BY <1>a, <1>b DEF ConsentTypeOK, consentVars
<1>c. ASSUME ClearConsentTimer, ClearPendingHintRequest PROVE ConsentTypeOK'
    BY <1>a, <1>c, ConstantsAssumption
    DEF ConstantsAssumption, ConsentTypeOK, ClearConsentTimer, ClearPendingHintRequest
<1>1. ASSUME NEW u \in Users, AnyRequest(u) PROVE ConsentTypeOK'
  <2>1. requests < MaxRequests /\ requests' = requests + 1
      BY <1>1, RequestFacts
  <2>2. requests + 1 \in 1..MaxRequests /\ requests + 1 \in 0..MaxRequests
      BY <2>1, <1>a, ConstantsAssumption DEF ConstantsAssumption, ConsentTypeOK
  <2>3. pendingHintRequest' \in [by : Users, id : 1..MaxRequests, asked : BOOLEAN]
    <3> DEFINE a == \E v \in connected : host[v] # u
    <3>1. pendingHintRequest' = [by |-> u, id |-> requests + 1, asked |-> a]
        BY <1>1, RequestFacts
    <3>2. a = TRUE \/ a = FALSE
        OBVIOUS
    <3> HIDE DEF a
    <3> QED
        BY <2>2, <3>1, <3>2
  <2>4. consentTimer' \in 0..MaxRequests /\ armedTimers' \in SUBSET (1..MaxRequests)
    <3>1. CASE HintRequestPending(u)
        BY <3>1, <1>a, <2>2 DEF ConsentTypeOK, HintRequestPending, StartConsentTimer
    <3>2. CASE HintRequestUnasked(u)
        BY <3>2, <1>a DEF ConsentTypeOK, HintRequestUnasked
    <3> QED
        BY <1>1, <3>1, <3>2 DEF AnyRequest
  <2> QED
      BY <2>1, <2>2, <2>3, <2>4 DEF ConsentTypeOK
<1>2. ASSUME NEW n \in 1..MaxRequests, ConsentTimeout(n) PROVE ConsentTypeOK'
    BY <1>2, <1>a, ConstantsAssumption
    DEF ConstantsAssumption, ConsentTypeOK, ConsentTimeout, ClearPendingHintRequest
<1>3. ASSUME NEW u \in Users,
             Disconnect(u) \/ HintDeny(u) \/ \E t \in Tasks : HintApprove(t, u)
      PROVE  ConsentTypeOK'
    BY <1>3, <1>b, <1>c, DisconnectFacts DEF HintDeny, HintApprove
<1>4. ASSUME NEW t \in Tasks, SelectLoads(t) \/ \E p \in Problems : ImportLoads(t, p)
      PROVE  ConsentTypeOK'
    BY <1>4, <1>a DEF SelectLoads, ImportLoads, SwitchProblem, ConsentTypeOK
<1>5. ASSUME \/ \E u \in Users : AnyJoin(u)
             \/ \E t \in Tasks, u \in Users :
                  \/ \E p \in Problems : ProblemSelect(t, u, p)
                  \/ ProblemImport(t, u)
                  \/ CodeRun(t, u)
                  \/ TestcaseAdd(t, u)
                  \/ HintRequestAlone(t, u)
             \/ \E t \in Tasks :
                  \/ ImportRuns(t)
                  \/ ExecutionStarts(t)
                  \/ ExecutionQueues(t)
                  \/ ExecutionSubmits(t)
                  \/ ExecutionEnds(t)
                  \/ TestcasePushed(t)
                  \/ HintStored(t)
                  \/ HintFallsBack(t)
                  \/ HintStreams(t)
                  \/ \E delivered \in BOOLEAN : HintStreamEnds(t, delivered)
                  \/ Rejected(t)
             \/ UNCHANGED vars
      PROVE  ConsentTypeOK'
  <2>1. UNCHANGED consentVars
      BY <1>5, JoinFacts DEF ProblemSelect, ProblemImport, CodeRun, TestcaseAdd,
         HintRequestAlone, ImportRuns, ExecutionStarts, ExecutionQueues, ExecutionSubmits,
         ExecutionEnds, TestcasePushed, HintStored, HintFallsBack, HintStreams,
         HintStreamEnds, Rejected, vars, consentVars
  <2> QED
      BY <2>1, <1>b
<1> QED
    BY <1>1, <1>2, <1>3, <1>4, <1>5 DEF Next, AnyJoin, AnyRequest

LEMMA RoomTypeNext == TypeOK /\ CapturedProblem /\ [Next]_vars => RoomTypeOK' /\ FlagsTypeOK'
<1> SUFFICES ASSUME TypeOK, CapturedProblem, [Next]_vars PROVE RoomTypeOK' /\ FlagsTypeOK'
    OBVIOUS
<1>a. RoomTypeOK /\ FlagsTypeOK
    BY TypeParts
<1>1. ASSUME NEW u \in Users,
             \/ AnyJoin(u)
             \/ Disconnect(u)
             \/ AnyRequest(u)
             \/ HintDeny(u)
             \/ \E t \in Tasks : \/ \E p \in Problems : ProblemSelect(t, u, p)
                                 \/ ProblemImport(t, u)
                                 \/ CodeRun(t, u)
                                 \/ TestcaseAdd(t, u)
                                 \/ HintRequestAlone(t, u)
                                 \/ HintApprove(t, u)
      PROVE  RoomTypeOK' /\ FlagsTypeOK'
  <2>1. /\ connected' \in SUBSET Users
        /\ host' \in [Users -> Users \cup {NoUser}]
        /\ UNCHANGED <<problemId, executionInProgress, submissionsUsed, importsUsed,
                       customTestCases, hintsUsed, llmCallsUsed, hintStreaming>>
      BY <1>1, <1>a, JoinFacts, DisconnectFacts, RequestFacts
      DEF RoomTypeOK, HintDeny, ProblemSelect, ProblemImport, CodeRun, TestcaseAdd,
          HintRequestAlone, HintApprove, hintVars
  <2> QED
      BY <1>a, <2>1 DEF RoomTypeOK, FlagsTypeOK
<1>2. ASSUME NEW t \in Tasks, SelectLoads(t) \/ \E p \in Problems : ImportLoads(t, p)
      PROVE  RoomTypeOK' /\ FlagsTypeOK'
  <2>1. \E p \in Problems : SwitchProblem(p)
      BY <1>2 DEF SelectLoads, ImportLoads, CapturedProblem
  <2>2. /\ importsUsed' = importsUsed \/ importsUsed' = importsUsed + 1
        /\ UNCHANGED <<connected, host, executionInProgress, submissionsUsed, llmCallsUsed,
                       hintStreaming>>
      BY <1>2 DEF SelectLoads, ImportLoads
  <2> QED
      BY <1>a, <2>1, <2>2 DEF SwitchProblem, RoomTypeOK, FlagsTypeOK
<1>3. ASSUME NEW t \in Tasks, TestcasePushed(t)
      PROVE  RoomTypeOK' /\ FlagsTypeOK'
    BY <1>3, <1>a DEF TestcasePushed, CapturedProblem, RoomTypeOK, FlagsTypeOK, hintVars
<1>4. ASSUME NEW t \in Tasks,
             \/ ExecutionStarts(t)
             \/ ExecutionEnds(t)
             \/ HintStored(t)
             \/ HintStreams(t)
             \/ \E delivered \in BOOLEAN : HintStreamEnds(t, delivered)
      PROVE  RoomTypeOK' /\ FlagsTypeOK'
  <2>1. /\ submissionsUsed' \in {submissionsUsed, submissionsUsed + 1}
        /\ hintsUsed' = hintsUsed \/ hintsUsed' = hintsUsed + 1
        /\ llmCallsUsed' \in {llmCallsUsed, llmCallsUsed + 1}
        /\ UNCHANGED <<connected, host, problemId, importsUsed, customTestCases>>
      BY <1>4 DEF ExecutionStarts, ExecutionEnds, HintStored, HintStreams, HintStreamEnds,
                  hintVars
  <2>2. FlagsTypeOK'
      BY <1>4, <1>a DEF ExecutionStarts, ExecutionEnds, HintStored, HintStreams,
                  HintStreamEnds, hintVars, FlagsTypeOK
  <2> QED
      BY <1>a, <2>1, <2>2 DEF RoomTypeOK
<1>5. ASSUME \/ \E n \in 1..MaxRequests : ConsentTimeout(n)
             \/ \E t \in Tasks : \/ ImportRuns(t)
                                 \/ ExecutionQueues(t)
                                 \/ ExecutionSubmits(t)
                                 \/ HintFallsBack(t)
                                 \/ Rejected(t)
             \/ UNCHANGED vars
      PROVE  RoomTypeOK' /\ FlagsTypeOK'
  <2>1. UNCHANGED <<connected, host, problemId, executionInProgress, submissionsUsed,
                    importsUsed, customTestCases, hintsUsed, llmCallsUsed, hintStreaming>>
      BY <1>5 DEF ConsentTimeout, ImportRuns, ExecutionQueues, ExecutionSubmits,
                  HintFallsBack, Rejected, vars, hintVars
  <2> QED
      BY <1>a, <2>1 DEF RoomTypeOK, FlagsTypeOK
<1> QED
    BY <1>1, <1>2, <1>3, <1>4, <1>5 DEF Next, AnyJoin, AnyRequest

LEMMA TypeNext == TypeOK /\ CapturedProblem /\ [Next]_vars => TypeOK' /\ CapturedProblem'
<1> SUFFICES ASSUME TypeOK, CapturedProblem, [Next]_vars PROVE TypeOK' /\ CapturedProblem'
    OBVIOUS
<1>1. RoomTypeOK' /\ FlagsTypeOK' /\ ConsentTypeOK' /\ TaskTypeOK' /\ CapturedProblem'
    BY RoomTypeNext, ConsentTypeNext, TaskTypeNext
<1> QED
    BY <1>1 DEF TypeOK, RoomTypeOK, FlagsTypeOK, ConsentTypeOK, TaskTypeOK, TaskRecord

\* Every reachable state is well typed.
THEOREM TypeCorrect == Spec => []TypeOK
<1> QED
    BY TypeInit, TypeNext, PTL DEF Spec

-----------------------------------------------------------------------------
(* The execution lock and the submission limit.                            *)

\* While an execution runs it has not been counted yet, so there is room for it.
RunningHasRoom ==
  /\ submissionsUsed <= SubmissionLimit
  /\ Running # {} => submissionsUsed < SubmissionLimit

ExecutionInv == ExecutionExclusive /\ RunningHasRoom

LEMMA ExecutionInit == Init => ExecutionInv
<1> SUFFICES ASSUME Init PROVE ExecutionInv
    OBVIOUS
<1>1. Running = {}
    BY IdleTaskType DEF Init, Running, ExecPcs
<1> QED
    BY <1>1, ConstantsAssumption
    DEF ConstantsAssumption, Init, ExecutionInv, ExecutionExclusive, RunningHasRoom

LEMMA ExecutionNext == TypeOK /\ ExecutionInv /\ [Next]_vars => ExecutionInv'
<1> SUFFICES ASSUME TypeOK, ExecutionInv, [Next]_vars PROVE ExecutionInv'
    OBVIOUS
<1>a. submissionsUsed \in Nat /\ SubmissionLimit \in Nat /\ executionInProgress \in BOOLEAN
    BY ConstantsAssumption DEF ConstantsAssumption, TypeOK
\* Steps of handlers that are not executing, and of the room.
<1>b. ASSUME Running' = Running, UNCHANGED <<executionInProgress, submissionsUsed>>
      PROVE  ExecutionInv'
    BY <1>b DEF ExecutionInv, ExecutionExclusive, RunningHasRoom
<1>c. ASSUME NEW t \in Tasks, NEW pc \in Pcs \ ExecPcs,
             NEW p \in Problems \cup {NoProblem}, Start(t, pc, p)
      PROVE  Running' = Running
    BY <1>c, StartType DEF Running, ExecPcs
<1>d. ASSUME NEW t \in Tasks, task[t].pc \notin ExecPcs, Finish(t)
      PROVE  Running' = Running
    BY <1>d, FinishType DEF Running, ExecPcs
<1>e. ASSUME NEW t \in Tasks, NEW from, NEW to \in Pcs, Await(t, from, to),
             from \in ExecPcs <=> to \in ExecPcs
      PROVE  Running' = Running
    BY <1>e, AwaitType DEF Running
<1>f. problemId \in Problems \cup {NoProblem}
    BY DEF TypeOK
<1>1. ASSUME NEW t \in Tasks, NEW u \in Users,
             \/ \E p \in Problems : ProblemSelect(t, u, p)
             \/ ProblemImport(t, u)
             \/ CodeRun(t, u)
             \/ TestcaseAdd(t, u)
             \/ HintRequestAlone(t, u)
             \/ HintApprove(t, u)
      PROVE  ExecutionInv'
  <2>1. \E pc \in Pcs \ ExecPcs, p \in Problems \cup {NoProblem} : Start(t, pc, p)
      BY <1>1, <1>f DEF ProblemSelect, ProblemImport, CodeRun, TestcaseAdd,
         HintRequestAlone, HintApprove, Pcs, ExecPcs, HintPcs
  <2>2. UNCHANGED <<executionInProgress, submissionsUsed>>
      BY <1>1 DEF ProblemSelect, ProblemImport, CodeRun, TestcaseAdd,
         HintRequestAlone, HintApprove
  <2> QED
      BY <1>b, <1>c, <2>1, <2>2
<1>2. ASSUME NEW t \in Tasks,
             \/ SelectLoads(t)
             \/ \E p \in Problems : ImportLoads(t, p)
             \/ TestcasePushed(t)
             \/ HintStored(t)
             \/ \E delivered \in BOOLEAN : HintStreamEnds(t, delivered)
             \/ Rejected(t)
      PROVE  ExecutionInv'
  <2>1. task[t].pc \notin ExecPcs /\ Finish(t)
      BY <1>2 DEF SelectLoads, ImportLoads, TestcasePushed, HintStored, HintStreamEnds,
                  Rejected, ExecPcs
  <2>2. UNCHANGED <<executionInProgress, submissionsUsed>>
      BY <1>2 DEF SelectLoads, ImportLoads, TestcasePushed, HintStored, HintStreamEnds,
                  Rejected
  <2> QED
      BY <1>b, <1>d, <2>1, <2>2
<1>3. ASSUME NEW t \in Tasks,
             \/ ImportRuns(t)
             \/ HintFallsBack(t)
             \/ HintStreams(t)
             \/ ExecutionQueues(t)
             \/ ExecutionSubmits(t)
      PROVE  ExecutionInv'
  <2>1. \E from \in Pcs, to \in Pcs : (from \in ExecPcs <=> to \in ExecPcs)
                                         /\ Await(t, from, to)
      BY <1>3 DEF ImportRuns, HintFallsBack, HintStreams, ExecutionQueues,
                  ExecutionSubmits, Pcs, ExecPcs, HintPcs
  <2>2. UNCHANGED <<executionInProgress, submissionsUsed>>
      BY <1>3 DEF ImportRuns, HintFallsBack, HintStreams, ExecutionQueues, ExecutionSubmits
  <2> QED
      BY <1>b, <1>e, <2>1, <2>2
<1>4. ASSUME NEW t \in Tasks, ExecutionStarts(t)
      PROVE  ExecutionInv'
  <2>1. Running = {}
      BY <1>4 DEF ExecutionStarts, CanExecute, ExecutionInv, ExecutionExclusive
  <2>2. Running' = {t}
      BY <1>4, <2>1 DEF ExecutionStarts, Running, ExecPcs, TypeOK
  <2>3. submissionsUsed' = submissionsUsed /\ submissionsUsed < SubmissionLimit
      BY <1>4 DEF ExecutionStarts, CanExecute
  <2>4. executionInProgress' = TRUE
      BY <1>4 DEF ExecutionStarts
  <2> QED
      BY <1>a, <2>2, <2>3, <2>4 DEF ExecutionInv, ExecutionExclusive, RunningHasRoom
<1>5. ASSUME NEW t \in Tasks, ExecutionEnds(t)
      PROVE  ExecutionInv'
  <2>1. t \in Running
      BY <1>5 DEF ExecutionEnds, Running
  <2>2. Running' = {}
    <3>1. \A r \in Tasks : r # t => task[r].pc \notin ExecPcs
        BY <2>1 DEF ExecutionInv, ExecutionExclusive, Running
    <3>2. Finish(t)
        BY <1>5 DEF ExecutionEnds
    <3> QED
        BY <3>1, <3>2, FinishType DEF Running, ExecPcs
  <2>3. submissionsUsed' <= SubmissionLimit
      BY <1>5, <1>a, <2>1 DEF ExecutionEnds, ExecutionInv, RunningHasRoom
  <2>4. executionInProgress' = FALSE
      BY <1>5 DEF ExecutionEnds
  <2> QED
      BY <2>2, <2>3, <2>4 DEF ExecutionInv, ExecutionExclusive, RunningHasRoom
<1>6. ASSUME \/ \E u \in Users : AnyJoin(u) \/ Disconnect(u) \/ AnyRequest(u)
                                   \/ HintDeny(u)
             \/ \E n \in 1..MaxRequests : ConsentTimeout(n)
             \/ UNCHANGED vars
      PROVE  ExecutionInv'
  <2>1. UNCHANGED <<executionInProgress, submissionsUsed, task>>
      BY <1>6, JoinFacts, DisconnectFacts, RequestFacts
      DEF HintDeny, ConsentTimeout, vars
  <2> QED
      BY <2>1, <1>b DEF Running
<1> QED
    BY <1>1, <1>2, <1>3, <1>4, <1>5, <1>6 DEF Next, AnyJoin, AnyRequest

LEMMA ExecutionInvariant == Spec => [](TypeOK /\ ExecutionInv)
<1> QED
    BY TypeInit, TypeNext, ExecutionInit, ExecutionNext, PTL DEF Spec

\* room.executionInProgress is held exactly during the one running execution.
THEOREM ExecutionExclusiveAlways == Spec => []ExecutionExclusive
<1>1. ExecutionInv => ExecutionExclusive
    BY DEF ExecutionInv
<1> QED
    BY <1>1, ExecutionInvariant, PTL

\* Counted and reserved submissions together stay within the room's limit.
THEOREM SubmissionsBoundedAlways == Spec => []SubmissionsBounded
<1>1. TypeOK /\ ExecutionInv => SubmissionsBounded
  <2> SUFFICES ASSUME TypeOK, ExecutionInv PROVE SubmissionsBounded
      OBVIOUS
  <2>0. submissionsUsed \in Nat /\ SubmissionLimit \in Nat
      BY ConstantsAssumption DEF ConstantsAssumption, TypeOK
  <2>1. Reserved \subseteq Running
      BY DEF Reserved, Running, ExecPcs
  <2>2. CASE Reserved = {}
      BY <2>0, <2>2, FS_EmptySet DEF SubmissionsBounded, ExecutionInv, RunningHasRoom
  <2>3. CASE Reserved # {}
    <3>1. PICK t : t \in Reserved
        BY <2>3
    <3>2. Reserved = {t}
        BY <2>1, <3>1 DEF ExecutionInv, ExecutionExclusive
    <3>3. Cardinality(Reserved) = 1
        BY <3>2, FS_Singleton
    <3>4. submissionsUsed < SubmissionLimit
        BY <2>1, <3>1 DEF ExecutionInv, RunningHasRoom
    <3> QED
        BY <2>0, <3>3, <3>4 DEF SubmissionsBounded
  <2> QED
      BY <2>2, <2>3
<1> QED
    BY <1>1, ExecutionInvariant, PTL

-----------------------------------------------------------------------------
(* RoomSession implements the lock: every step acquires it, reserves the   *)
(* quota, releases it, or leaves it alone.                                 *)

LEMMA LockStep == TypeOK /\ ExecutionInv /\ [Next]_vars => [Lock!LockNext]_(Lock!lockVars)
<1> SUFFICES ASSUME TypeOK, ExecutionInv, [Next]_vars
             PROVE  [Lock!LockNext]_(Lock!lockVars)
    OBVIOUS
\* Steps in which no handler enters or leaves its critical section.
<1>a. ASSUME Reserved' = Reserved, UNCHANGED <<executionInProgress, submissionsUsed>>
      PROVE  UNCHANGED Lock!lockVars
    BY <1>a DEF Lock!lockVars
<1>b. ASSUME NEW t \in Tasks, NEW pc \in Pcs \ ExecPcs,
             NEW p \in Problems \cup {NoProblem}, Start(t, pc, p)
      PROVE  Reserved' = Reserved
    BY <1>b, StartType DEF Reserved, ExecPcs
<1>c. ASSUME NEW t \in Tasks, task[t].pc # "execJudge", Finish(t)
      PROVE  Reserved' = Reserved
    BY <1>c, FinishType DEF Reserved
<1>d. ASSUME NEW t \in Tasks, NEW from, NEW to \in Pcs \ {"execJudge"}, Await(t, from, to),
             from # "execJudge"
      PROVE  Reserved' = Reserved
    BY <1>d, AwaitType DEF Reserved
<1>f. problemId \in Problems \cup {NoProblem}
    BY DEF TypeOK
<1>1. ASSUME NEW t \in Tasks, NEW u \in Users,
             \/ \E p \in Problems : ProblemSelect(t, u, p)
             \/ ProblemImport(t, u)
             \/ CodeRun(t, u)
             \/ TestcaseAdd(t, u)
             \/ HintRequestAlone(t, u)
             \/ HintApprove(t, u)
      PROVE  UNCHANGED Lock!lockVars
  <2>1. \E pc \in Pcs \ ExecPcs, p \in Problems \cup {NoProblem} : Start(t, pc, p)
      BY <1>1, <1>f DEF ProblemSelect, ProblemImport, CodeRun, TestcaseAdd,
         HintRequestAlone, HintApprove, Pcs, ExecPcs, HintPcs
  <2>2. UNCHANGED <<executionInProgress, submissionsUsed>>
      BY <1>1 DEF ProblemSelect, ProblemImport, CodeRun, TestcaseAdd,
         HintRequestAlone, HintApprove
  <2> QED
      BY <1>a, <1>b, <2>1, <2>2
<1>2. ASSUME NEW t \in Tasks,
             \/ SelectLoads(t)
             \/ \E p \in Problems : ImportLoads(t, p)
             \/ TestcasePushed(t)
             \/ HintStored(t)
             \/ \E delivered \in BOOLEAN : HintStreamEnds(t, delivered)
             \/ Rejected(t)
      PROVE  UNCHANGED Lock!lockVars
  <2>1. task[t].pc # "execJudge" /\ Finish(t)
      BY <1>2 DEF SelectLoads, ImportLoads, TestcasePushed, HintStored, HintStreamEnds,
                  Rejected
  <2>2. UNCHANGED <<executionInProgress, submissionsUsed>>
      BY <1>2 DEF SelectLoads, ImportLoads, TestcasePushed, HintStored, HintStreamEnds,
                  Rejected
  <2> QED
      BY <1>a, <1>c, <2>1, <2>2
<1>3. ASSUME NEW t \in Tasks,
             ImportRuns(t) \/ HintFallsBack(t) \/ HintStreams(t) \/ ExecutionQueues(t)
      PROVE  UNCHANGED Lock!lockVars
  <2>1. \E from \in Pcs \ {"execJudge"}, to \in Pcs \ {"execJudge"} : Await(t, from, to)
      BY <1>3 DEF ImportRuns, HintFallsBack, HintStreams, ExecutionQueues, Pcs, ExecPcs, HintPcs
  <2>2. UNCHANGED <<executionInProgress, submissionsUsed>>
      BY <1>3 DEF ImportRuns, HintFallsBack, HintStreams, ExecutionQueues
  <2> QED
      BY <1>a, <1>d, <2>1, <2>2
<1>4. ASSUME NEW t \in Tasks, ExecutionSubmits(t)
      PROVE  Lock!Reserve
  <2>1. t \in Running /\ task[t].pc = "execQueue"
      BY <1>4 DEF ExecutionSubmits, Await, Running, ExecPcs
  <2>2. executionInProgress = TRUE
      BY <2>1 DEF ExecutionInv, ExecutionExclusive, TypeOK
  <2>3. Reserved = {}
      BY <2>1 DEF Reserved, Running, ExecPcs, ExecutionInv, ExecutionExclusive
  <2>4. t \in Reserved'
      BY <1>4 DEF ExecutionSubmits, Await, Reserved, TypeOK
  <2>5. UNCHANGED <<executionInProgress, submissionsUsed>>
      BY <1>4 DEF ExecutionSubmits
  <2> QED
      BY <2>2, <2>3, <2>4, <2>5 DEF Lock!Reserve
<1>5. ASSUME NEW t \in Tasks, ExecutionStarts(t)
      PROVE  Lock!Acquire
  <2>1. executionInProgress = FALSE /\ executionInProgress' = TRUE
      BY <1>5 DEF ExecutionStarts, CanExecute, TypeOK
  <2>2. submissionsUsed < SubmissionLimit /\ submissionsUsed' = submissionsUsed
      BY <1>5 DEF ExecutionStarts, CanExecute
  <2>3. Reserved' = Reserved
      BY <1>5 DEF ExecutionStarts, Reserved, TypeOK
  <2> QED
      BY <2>1, <2>2, <2>3 DEF Lock!Acquire
<1>6. ASSUME NEW t \in Tasks, ExecutionEnds(t)
      PROVE  Lock!Release
  <2>1. t \in Running
      BY <1>6 DEF ExecutionEnds, Running
  <2>2. executionInProgress = TRUE /\ executionInProgress' = FALSE
      BY <1>6, <2>1 DEF ExecutionEnds, ExecutionInv, ExecutionExclusive, TypeOK
  <2>3. \A r \in Tasks : task[r].pc \in ExecPcs => r = t
      BY <2>1 DEF ExecutionInv, ExecutionExclusive, Running
  <2>4. Reserved # {} <=> task[t].pc = "execJudge"
      BY <2>3 DEF Reserved, ExecPcs
  <2>5. Reserved' = {}
    <3>1. Finish(t)
        BY <1>6 DEF ExecutionEnds
    <3> QED
        BY <3>1, <2>3, FinishType DEF Reserved, ExecPcs
  <2>6. submissionsUsed' = IF Reserved # {} THEN submissionsUsed + 1 ELSE submissionsUsed
      BY <1>6, <2>4 DEF ExecutionEnds
  <2> QED
      BY <2>2, <2>5, <2>6 DEF Lock!Release
<1>7. ASSUME \/ \E u \in Users : AnyJoin(u) \/ Disconnect(u) \/ AnyRequest(u)
                                   \/ HintDeny(u)
             \/ \E n \in 1..MaxRequests : ConsentTimeout(n)
             \/ UNCHANGED vars
      PROVE  UNCHANGED Lock!lockVars
  <2>1. UNCHANGED <<executionInProgress, submissionsUsed, task>>
      BY <1>7, JoinFacts, DisconnectFacts, RequestFacts
      DEF HintDeny, ConsentTimeout, vars
  <2> QED
      BY <2>1, <1>a DEF Reserved
<1> QED
    BY <1>1, <1>2, <1>3, <1>4, <1>5, <1>6, <1>7 DEF Next, AnyJoin, AnyRequest,
                                                       Lock!LockNext

\* The handlers of a room implement its execution lock (ExecutionLock without the
\* release that fairness gives): one execution at a time, within the submissions, and
\* charged exactly when the daily quota was reserved.
THEOREM LockImplemented == Spec => Lock!LockSpec
<1>1. Init => Lock!LockInit
  <2> SUFFICES ASSUME Init PROVE Lock!LockInit
      OBVIOUS
  <2>1. Reserved = {}
      BY IdleTaskType DEF Init, Reserved
  <2> QED
      BY <2>1 DEF Init, Lock!LockInit
<1> QED
    BY <1>1, LockStep, ExecutionInvariant, PTL DEF Spec, Lock!LockSpec

-----------------------------------------------------------------------------
(* Consent to a hint, and custom test cases.                               *)

ConsentInv == ConsentTimerExact /\ RequesterConnected

LEMMA ConsentInit == Init => ConsentInv
BY NoRequestFacts DEF Init, ConsentInv, ConsentTimerExact, RequesterConnected

LEMMA ConsentNext == TypeOK /\ ConsentInv /\ [Next]_vars => ConsentInv'
<1> SUFFICES ASSUME TypeOK, ConsentInv, [Next]_vars PROVE ConsentInv'
    OBVIOUS
<1>a. armedTimers \subseteq {consentTimer}
    BY DEF ConsentInv, ConsentTimerExact
<1>b. ASSUME ClearConsentTimer, ClearPendingHintRequest PROVE ConsentInv'
    BY <1>a, <1>b, NoRequestFacts
    DEF ClearConsentTimer, ClearPendingHintRequest, ConsentInv, ConsentTimerExact,
        RequesterConnected
<1>1. ASSUME NEW u \in Users, AnyRequest(u) PROVE ConsentInv'
  <2>1. RequesterConnected'
    <3>1. pendingHintRequest'.by = u /\ connected' = connected
        BY <1>1, RequestFacts
    <3>2. u \in connected
        BY <1>1, RequestFacts DEF MayRequestHint, Speaks
    <3> QED
        BY <3>1, <3>2 DEF RequesterConnected
  <2>2. ConsentTimerExact'
    <3>1. CASE HintRequestPending(u)
      <4>1. armedTimers' = {requests + 1} /\ consentTimer' = requests + 1
          BY <3>1, <1>a DEF HintRequestPending, StartConsentTimer
      <4>2. pendingHintRequest'.id = requests + 1
          BY <1>1, RequestFacts
      <4> QED
          BY <4>1, <4>2 DEF ConsentTimerExact
    <3>2. CASE HintRequestUnasked(u)
      <4>1. pendingHintRequest' = [by |-> u, id |-> requests + 1,
                                   asked |-> \E v \in connected : host[v] # u]
          BY <1>1, RequestFacts
      <4>2. ~ \E v \in connected : host[v] # u
          BY <3>2 DEF HintRequestUnasked
      <4>3. ~ pendingHintRequest'.asked
          BY <4>1, <4>2
      <4>4. UNCHANGED <<consentTimer, armedTimers>>
          BY <3>2 DEF HintRequestUnasked
      <4> QED
          BY <1>a, <4>3, <4>4 DEF ConsentTimerExact
    <3> QED
        BY <1>1, <3>1, <3>2 DEF AnyRequest
  <2> QED
      BY <2>1, <2>2 DEF ConsentInv
<1>2. ASSUME NEW n \in 1..MaxRequests, ConsentTimeout(n) PROVE ConsentInv'
    BY <1>2, <1>a, NoRequestFacts
    DEF ConsentTimeout, ClearPendingHintRequest, ConsentInv, ConsentTimerExact,
        RequesterConnected
<1>3. ASSUME NEW u \in Users, HintDeny(u) \/ \E t \in Tasks : HintApprove(t, u)
      PROVE  ConsentInv'
    BY <1>3, <1>b DEF HintDeny, HintApprove
<1>4. ASSUME NEW u \in Users, Disconnect(u) PROVE ConsentInv'
  <2>1. CASE pendingHintRequest.by = u
      BY <1>4, <1>b, <2>1, DisconnectFacts
  <2>2. CASE pendingHintRequest.by # u
    <3>1. UNCHANGED consentVars /\ connected' = connected \ {u}
        BY <1>4, <2>2, DisconnectFacts
    <3> QED
        BY <2>2, <3>1 DEF consentVars, ConsentInv, ConsentTimerExact, RequesterConnected
  <2> QED
      BY <2>1, <2>2
<1>5. ASSUME NEW t \in Tasks, SelectLoads(t) \/ \E p \in Problems : ImportLoads(t, p)
      PROVE  ConsentInv'
    BY <1>5, <1>a, NoRequestFacts
    DEF SelectLoads, ImportLoads, SwitchProblem, ConsentInv, ConsentTimerExact,
        RequesterConnected
<1>6. ASSUME \/ \E u \in Users : AnyJoin(u)
             \/ \E t \in Tasks, u \in Users :
                  \/ \E p \in Problems : ProblemSelect(t, u, p)
                  \/ ProblemImport(t, u)
                  \/ CodeRun(t, u)
                  \/ TestcaseAdd(t, u)
                  \/ HintRequestAlone(t, u)
             \/ \E t \in Tasks :
                  \/ ImportRuns(t)
                  \/ ExecutionStarts(t)
                  \/ ExecutionQueues(t)
                  \/ ExecutionSubmits(t)
                  \/ ExecutionEnds(t)
                  \/ TestcasePushed(t)
                  \/ HintStored(t)
                  \/ HintFallsBack(t)
                  \/ HintStreams(t)
                  \/ \E delivered \in BOOLEAN : HintStreamEnds(t, delivered)
                  \/ Rejected(t)
             \/ UNCHANGED vars
      PROVE  ConsentInv'
  <2>1. UNCHANGED consentVars /\ connected \subseteq connected'
      BY <1>6, JoinFacts DEF ProblemSelect, ProblemImport, CodeRun, TestcaseAdd,
         HintRequestAlone, ImportRuns, ExecutionStarts, ExecutionQueues, ExecutionSubmits,
         ExecutionEnds, TestcasePushed, HintStored, HintFallsBack, HintStreams,
         HintStreamEnds, Rejected, vars, consentVars
  <2> QED
      BY <2>1 DEF consentVars, ConsentInv, ConsentTimerExact, RequesterConnected
<1> QED
    BY <1>1, <1>2, <1>3, <1>4, <1>5, <1>6 DEF Next, AnyJoin, AnyRequest

LEMMA ConsentInvariant == Spec => []ConsentInv
<1> QED
    BY TypeInit, TypeNext, ConsentInit, ConsentNext, PTL DEF Spec

\* A pending hint request that a partner was asked about (sendPendingHintRequest went on to
\* startConsentTimer) has its own timeout armed, and no older one is.
THEOREM ConsentTimerExactAlways == Spec => []ConsentTimerExact
<1>1. ConsentInv => ConsentTimerExact
    BY DEF ConsentInv
<1> QED
    BY <1>1, ConsentInvariant, PTL

\* The user who asks for a hint is connected as long as the request is pending.
THEOREM RequesterConnectedAlways == Spec => []RequesterConnected
<1>1. ConsentInv => RequesterConnected
    BY DEF ConsentInv
<1> QED
    BY <1>1, ConsentInvariant, PTL

\* Concurrent testcase:add handlers never exceed the room's limit.
THEOREM CustomTestCasesBoundedAlways == Spec => []CustomTestCasesBounded
<1>1. Init => CustomTestCasesBounded
    BY ConstantsAssumption DEF ConstantsAssumption, Init, CustomTestCasesBounded
<1>2. TypeOK /\ CapturedProblem /\ CustomTestCasesBounded /\ [Next]_vars
        => CustomTestCasesBounded'
  <2> SUFFICES ASSUME TypeOK, CapturedProblem, CustomTestCasesBounded, [Next]_vars
               PROVE  CustomTestCasesBounded'
      OBVIOUS
  <2>0. customTestCases \in Seq(Problems) /\ CustomLimit \in Nat
      BY ConstantsAssumption DEF ConstantsAssumption, TypeOK
  <2>1. ASSUME NEW t \in Tasks, TestcasePushed(t) PROVE CustomTestCasesBounded'
    <3>1. Len(customTestCases') = Len(customTestCases) + 1
        BY <2>0, <2>1 DEF TestcasePushed, CapturedProblem
    <3>2. Len(customTestCases) < CustomLimit /\ Len(customTestCases) \in Nat
        BY <2>0, <2>1 DEF TestcasePushed
    <3> QED
        BY <2>0, <3>1, <3>2 DEF CustomTestCasesBounded
  <2>2. ASSUME NEW t \in Tasks, SelectLoads(t) \/ \E p \in Problems : ImportLoads(t, p)
        PROVE  CustomTestCasesBounded'
      BY <2>0, <2>2 DEF SelectLoads, ImportLoads, SwitchProblem, CustomTestCasesBounded
  <2>3. ASSUME customTestCases' = customTestCases PROVE CustomTestCasesBounded'
      BY <2>3 DEF CustomTestCasesBounded
  <2>4. \/ customTestCases' = customTestCases
        \/ \E t \in Tasks : TestcasePushed(t)
        \/ \E t \in Tasks : SelectLoads(t) \/ \E p \in Problems : ImportLoads(t, p)
      BY JoinFacts, DisconnectFacts, RequestFacts
      DEF Next, vars, AnyJoin, AnyRequest, ProblemSelect, ProblemImport, CodeRun,
         TestcaseAdd, HintRequestAlone, HintApprove, HintDeny,
         ConsentTimeout, ImportRuns, ExecutionStarts, ExecutionQueues, ExecutionSubmits,
         ExecutionEnds, HintStored, HintFallsBack, HintStreams, HintStreamEnds, Rejected
  <2> QED
      BY <2>1, <2>2, <2>3, <2>4
<1> QED
    BY <1>1, <1>2, TypeInit, TypeNext, PTL DEF Spec

-----------------------------------------------------------------------------
(* What handlers that race can exceed the other limits by.                 *)

Count(pcs) == Cardinality(InFlight(pcs))

LLMPcs == {"hintQueue", "hintStream"}

\* A handler that moves is counted where it is.
LEMMA CountMoves ==
  ASSUME NEW t \in Tasks, NEW to, NEW pcs,
         \A r \in Tasks : task'[r].pc = IF r = t THEN to ELSE task[r].pc
  PROVE  /\ Count(pcs) \in Nat /\ Count(pcs)' \in Nat
         /\ Count(pcs) <= Cardinality(Tasks) /\ Count(pcs)' <= Cardinality(Tasks)
         /\ (to \in pcs <=> task[t].pc \in pcs) => Count(pcs)' = Count(pcs)
         /\ to \in pcs /\ task[t].pc \notin pcs => Count(pcs)' = Count(pcs) + 1
         /\ to \notin pcs /\ task[t].pc \in pcs => Count(pcs)' = Count(pcs) - 1
         /\ to \notin pcs => Count(pcs)' < Cardinality(Tasks)
<1>1. IsFiniteSet(Tasks) /\ Cardinality(Tasks) \in Nat
    BY TasksAssumption, FS_CardinalityType DEF TasksAssumption
<1>2. /\ InFlight(pcs) \subseteq Tasks /\ InFlight(pcs)' \subseteq Tasks
    BY DEF InFlight
<1>3. /\ IsFiniteSet(InFlight(pcs)) /\ IsFiniteSet(InFlight(pcs)')
      /\ Count(pcs) <= Cardinality(Tasks) /\ Count(pcs)' <= Cardinality(Tasks)
    BY <1>1, <1>2, FS_Subset DEF Count
<1>4. Count(pcs) \in Nat /\ Count(pcs)' \in Nat
    BY <1>3, FS_CardinalityType DEF Count
<1>5. ASSUME to \in pcs <=> task[t].pc \in pcs
      PROVE  Count(pcs)' = Count(pcs)
  <2>1. InFlight(pcs)' = InFlight(pcs)
      BY <1>5 DEF InFlight
  <2> QED
      BY <2>1 DEF Count
<1>6. ASSUME to \in pcs, task[t].pc \notin pcs
      PROVE  Count(pcs)' = Count(pcs) + 1
  <2>1. InFlight(pcs)' = InFlight(pcs) \cup {t} /\ t \notin InFlight(pcs)
      BY <1>6 DEF InFlight
  <2> QED
      BY <1>3, <2>1, FS_AddElement DEF Count
<1>7. ASSUME to \notin pcs, task[t].pc \in pcs
      PROVE  Count(pcs)' = Count(pcs) - 1
  <2>1. InFlight(pcs)' = InFlight(pcs) \ {t} /\ t \in InFlight(pcs)
      BY <1>7 DEF InFlight
  <2> QED
      BY <1>3, <2>1, FS_RemoveElement DEF Count
<1>8. ASSUME to \notin pcs
      PROVE  Count(pcs)' < Cardinality(Tasks)
  <2>1. t \notin InFlight(pcs)'
      BY <1>8 DEF InFlight
  <2>2. InFlight(pcs)' # Tasks
      BY <2>1
  <2>3. Count(pcs)' # Cardinality(Tasks)
      BY <1>1, <1>2, <2>2, FS_Subset DEF Count
  <2> QED
      BY <1>1, <1>3, <1>4, <2>3
<1> QED
    BY <1>3, <1>4, <1>5, <1>6, <1>7, <1>8

\* What is counted, and what is to be counted, against a limit b that n may pass at once.
LEMMA SumKept ==
  ASSUME NEW u \in Nat, NEW v \in Nat, NEW u1 \in Nat, NEW v1 \in Nat,
         NEW b \in Nat, NEW n \in Nat,
         \/ u1 = u /\ (v1 = v \/ v1 = v - 1)
         \/ u1 = u + 1 /\ v1 = v - 1
  PROVE  /\ u + v < b + n => u1 + v1 < b + n
         /\ u + v <= b + n => u1 + v1 <= b + n
OBVIOUS

LEMMA SumTested ==
  ASSUME NEW u \in Nat, NEW v \in Nat, NEW b \in Nat, NEW n \in Nat, u < b, v <= n
  PROVE  u + v < b + n
OBVIOUS

LEMMA SumWeakened ==
  ASSUME NEW u \in Nat, NEW v \in Nat, NEW b \in Nat, NEW n \in Nat, u + v < b + n
  PROVE  u + v <= b + n /\ u + (v + 1) <= b + n
OBVIOUS

LEMMA SumReset ==
  ASSUME NEW v \in Nat, NEW b \in Nat, NEW n \in Nat, v < n
  PROVE  0 + v <= b + n
OBVIOUS

\* The partner's consent adds a delivery without a test: before it there is room.
LimitsInv ==
  /\ OvershootBounded
  /\ pendingHintRequest # NoRequest =>
       hintsUsed + Count(HintPcs) < hintLimit + Cardinality(Tasks)

LEMMA LimitsInit == Init => LimitsInv
<1> SUFFICES ASSUME Init PROVE LimitsInv
    OBVIOUS
<1>1. Cardinality(Tasks) \in Nat /\ Cardinality(Tasks) > 0
    BY TasksAssumption, FS_CardinalityType, FS_EmptySet DEF TasksAssumption
<1>2. /\ InFlight({"importRun"}) = {} /\ InFlight({"hintQueue", "hintStream"}) = {}
      /\ InFlight(HintPcs) = {}
    BY IdleTaskType DEF Init, InFlight, HintPcs
<1>3. Cardinality({}) = 0
    BY FS_EmptySet
<1>4. hintLimit = 0 /\ ImportLimit \in Nat /\ MaxLLMCalls \in Nat
    BY ConstantsAssumption DEF ConstantsAssumption, Init, hintLimit
<1>5. ASSUME NEW b \in Nat, NEW n \in Nat, n > 0
      PROVE  0 + 0 < b + n /\ 0 + 0 <= b + n
    BY <1>5
<1>6. /\ importsUsed = 0 /\ llmCallsUsed = 0 /\ hintsUsed = 0 /\ pendingHintRequest = NoRequest
    BY DEF Init
<1>7. 0 + 0 < ImportLimit + Cardinality(Tasks)
    BY <1>1, <1>4, <1>5
<1>8. 0 + 0 < MaxLLMCalls + Cardinality(Tasks)
    BY <1>1, <1>4, <1>5
<1>9. 0 + 0 <= hintLimit + Cardinality(Tasks)
    BY <1>1, <1>4, <1>5
<1> QED
    BY <1>2, <1>3, <1>6, <1>7, <1>8, <1>9 DEF LimitsInv, OvershootBounded

LEMMA LimitsNext == TypeOK /\ CapturedProblem /\ LimitsInv /\ [Next]_vars => LimitsInv'
<1> SUFFICES ASSUME TypeOK, CapturedProblem, LimitsInv, [Next]_vars PROVE LimitsInv'
    OBVIOUS
<1> DEFINE I == Count({"importRun"})
           L == Count(LLMPcs)
           H == Count(HintPcs)
           N == Cardinality(Tasks)
<1>a. /\ importsUsed \in Nat /\ llmCallsUsed \in Nat /\ hintsUsed \in Nat
      /\ ImportLimit \in Nat /\ MaxLLMCalls \in Nat
      /\ hintLimit \in Nat
    BY ConstantsAssumption DEF ConstantsAssumption, TypeOK, hintLimit
<1>b. N \in Nat /\ N > 0
    BY TasksAssumption, FS_CardinalityType, FS_EmptySet DEF TasksAssumption
<1>c. /\ importsUsed + I < ImportLimit + N
      /\ llmCallsUsed + L < MaxLLMCalls + N
      /\ hintsUsed + H <= hintLimit + N
      /\ pendingHintRequest # NoRequest => hintsUsed + H < hintLimit + N
    BY DEF LimitsInv, OvershootBounded, Count, LLMPcs
<1>d. ASSUME importsUsed' + I' < ImportLimit + N,
             llmCallsUsed' + L' < MaxLLMCalls + N,
             hintsUsed' + H' <= hintLimit' + N,
             pendingHintRequest' # NoRequest => hintsUsed' + H' < hintLimit' + N
      PROVE  LimitsInv'
    BY <1>d DEF LimitsInv, OvershootBounded, Count, LLMPcs
<1>e. problemId' = problemId => hintLimit' = hintLimit
    BY DEF hintLimit
<1>f. I \in Nat /\ L \in Nat /\ H \in Nat
  <2>1. PICK t \in Tasks : TRUE
      BY TasksAssumption DEF TasksAssumption
  <2>2. ASSUME NEW pcs PROVE Count(pcs) \in Nat
    <3>1. IsFiniteSet(InFlight(pcs))
        BY TasksAssumption, FS_Subset DEF TasksAssumption, InFlight
    <3> QED
        BY <3>1, FS_CardinalityType DEF Count
  <2> QED
      BY <2>2
<1> HIDE DEF I, L, H, N
\* Each limit by itself: what is counted stays, or moves from in flight to counted.
<1>k. ASSUME importsUsed' \in Nat, I' \in Nat,
             \/ importsUsed' = importsUsed /\ (I' = I \/ I' = I - 1)
             \/ importsUsed' = importsUsed + 1 /\ I' = I - 1
      PROVE  importsUsed' + I' < ImportLimit + N
  <2>1. importsUsed + I < ImportLimit + N => importsUsed' + I' < ImportLimit + N
    <3>1. CASE importsUsed' = importsUsed /\ I' = I
        BY <3>1
    <3>2. CASE importsUsed' = importsUsed /\ I' = I - 1
        BY <1>a, <1>b, <1>f, <1>k, <3>2, SumKept
    <3>3. CASE importsUsed' = importsUsed + 1 /\ I' = I - 1
        BY <1>a, <1>b, <1>f, <1>k, <3>3, SumKept
    <3> QED
        BY <1>k, <3>1, <3>2, <3>3
  <2> QED
      BY <1>c, <2>1
<1>l. ASSUME llmCallsUsed' \in Nat, L' \in Nat,
             \/ llmCallsUsed' = llmCallsUsed /\ (L' = L \/ L' = L - 1)
             \/ llmCallsUsed' = llmCallsUsed + 1 /\ L' = L - 1
      PROVE  llmCallsUsed' + L' < MaxLLMCalls + N
  <2>1. llmCallsUsed + L < MaxLLMCalls + N => llmCallsUsed' + L' < MaxLLMCalls + N
    <3>1. CASE llmCallsUsed' = llmCallsUsed /\ L' = L
        BY <3>1
    <3>2. CASE llmCallsUsed' = llmCallsUsed /\ L' = L - 1
        BY <1>a, <1>b, <1>f, <1>l, <3>2, SumKept
    <3>3. CASE llmCallsUsed' = llmCallsUsed + 1 /\ L' = L - 1
        BY <1>a, <1>b, <1>f, <1>l, <3>3, SumKept
    <3> QED
        BY <1>l, <3>1, <3>2, <3>3
  <2> QED
      BY <1>c, <2>1
<1>m. ASSUME hintsUsed' \in Nat, H' \in Nat, problemId' = problemId,
             pendingHintRequest' \in {pendingHintRequest, NoRequest},
             \/ hintsUsed' = hintsUsed /\ (H' = H \/ H' = H - 1)
             \/ hintsUsed' = hintsUsed + 1 /\ H' = H - 1
      PROVE  /\ hintsUsed' + H' <= hintLimit' + N
             /\ pendingHintRequest' # NoRequest => hintsUsed' + H' < hintLimit' + N
  <2>1. hintLimit' = hintLimit
      BY <1>e, <1>m
  <2>2. hintsUsed + H <= hintLimit + N => hintsUsed' + H' <= hintLimit + N
    <3>1. CASE hintsUsed' = hintsUsed /\ H' = H
        BY <3>1
    <3>2. CASE hintsUsed' = hintsUsed /\ H' = H - 1
        BY <1>a, <1>b, <1>f, <1>m, <3>2, SumKept
    <3>3. CASE hintsUsed' = hintsUsed + 1 /\ H' = H - 1
        BY <1>a, <1>b, <1>f, <1>m, <3>3, SumKept
    <3> QED
        BY <1>m, <3>1, <3>2, <3>3
  <2>3. hintsUsed + H < hintLimit + N => hintsUsed' + H' < hintLimit + N
    <3>1. CASE hintsUsed' = hintsUsed /\ H' = H
        BY <3>1
    <3>2. CASE hintsUsed' = hintsUsed /\ H' = H - 1
        BY <1>a, <1>b, <1>f, <1>m, <3>2, SumKept
    <3>3. CASE hintsUsed' = hintsUsed + 1 /\ H' = H - 1
        BY <1>a, <1>b, <1>f, <1>m, <3>3, SumKept
    <3> QED
        BY <1>m, <3>1, <3>2, <3>3
  <2> QED
      BY <1>c, <1>m, <2>1, <2>2, <2>3
\* Steps that count nothing and add nobody who will.
<1>g. ASSUME UNCHANGED <<importsUsed, llmCallsUsed, hintsUsed, problemId>>,
             I' \in Nat, L' \in Nat, H' \in Nat,
             I' = I \/ I' = I - 1, L' = L \/ L' = L - 1, H' = H \/ H' = H - 1,
             pendingHintRequest' \in {pendingHintRequest, NoRequest}
      PROVE  LimitsInv'
  <2>1. importsUsed' \in Nat /\ llmCallsUsed' \in Nat /\ hintsUsed' \in Nat
      BY <1>a, <1>g
  <2>2. importsUsed' + I' < ImportLimit + N
      BY <1>g, <1>k, <2>1
  <2>3. llmCallsUsed' + L' < MaxLLMCalls + N
      BY <1>g, <1>l, <2>1
  <2> QED
      BY <1>d, <1>g, <1>m, <2>1, <2>2, <2>3
\* A handler that moves is counted where it goes, and no longer where it was.
<1>h. ASSUME NEW t \in Tasks, NEW to,
             \A r \in Tasks : task'[r].pc = IF r = t THEN to ELSE task[r].pc
      PROVE  /\ I' \in Nat /\ L' \in Nat /\ H' \in Nat
             /\ I' = IF to = "importRun" /\ task[t].pc # "importRun" THEN I + 1
                     ELSE IF to # "importRun" /\ task[t].pc = "importRun" THEN I - 1
                     ELSE I
             /\ L' = IF to \in LLMPcs /\ task[t].pc \notin LLMPcs THEN L + 1
                     ELSE IF to \notin LLMPcs /\ task[t].pc \in LLMPcs THEN L - 1
                     ELSE L
             /\ H' = IF to \in HintPcs /\ task[t].pc \notin HintPcs THEN H + 1
                     ELSE IF to \notin HintPcs /\ task[t].pc \in HintPcs THEN H - 1
                     ELSE H
             /\ I' <= N /\ L' <= N /\ H' <= N
             /\ to \notin HintPcs => H' < N
  <2>1. /\ I' \in Nat /\ I' <= N
        /\ I' = IF to = "importRun" /\ task[t].pc # "importRun" THEN I + 1
                ELSE IF to # "importRun" /\ task[t].pc = "importRun" THEN I - 1
                ELSE I
    <3>1. to \in {"importRun"} <=> to = "importRun"
        OBVIOUS
    <3>2. task[t].pc \in {"importRun"} <=> task[t].pc = "importRun"
        OBVIOUS
    <3>3. /\ I' \in Nat /\ I' <= N
          /\ (to \in {"importRun"} <=> task[t].pc \in {"importRun"}) => I' = I
          /\ to \in {"importRun"} /\ task[t].pc \notin {"importRun"} => I' = I + 1
          /\ to \notin {"importRun"} /\ task[t].pc \in {"importRun"} => I' = I - 1
        BY <1>h, CountMoves DEF I, N
    <3> QED
        BY <3>1, <3>2, <3>3
  <2>2. /\ L' \in Nat /\ L' <= N
        /\ L' = IF to \in LLMPcs /\ task[t].pc \notin LLMPcs THEN L + 1
                ELSE IF to \notin LLMPcs /\ task[t].pc \in LLMPcs THEN L - 1
                ELSE L
      BY <1>h, CountMoves DEF L, N
  <2>3. /\ H' \in Nat /\ H' <= N
        /\ H' = IF to \in HintPcs /\ task[t].pc \notin HintPcs THEN H + 1
                ELSE IF to \notin HintPcs /\ task[t].pc \in HintPcs THEN H - 1
                ELSE H
        /\ to \notin HintPcs => H' < N
      BY <1>h, CountMoves DEF H, N
  <2> QED
      BY <2>1, <2>2, <2>3
<1>p. problemId \in Problems \cup {NoProblem}
    BY DEF TypeOK
<1>1. ASSUME NEW t \in Tasks, NEW u \in Users,
             \/ \E p \in Problems : ProblemSelect(t, u, p)
             \/ ProblemImport(t, u)
             \/ CodeRun(t, u)
             \/ TestcaseAdd(t, u)
      PROVE  LimitsInv'
  <2>1. PICK pc \in {"select", "importLimiter", "execLimiter", "testcase"},
             p \in Problems \cup {NoProblem} : Start(t, pc, p)
      BY <1>1, <1>p DEF ProblemSelect, ProblemImport, CodeRun, TestcaseAdd
  <2>2. /\ task[t].pc = "idle"
        /\ \A r \in Tasks : task'[r].pc = IF r = t THEN pc ELSE task[r].pc
      BY <2>1, StartType DEF Pcs
  <2>3. UNCHANGED <<importsUsed, llmCallsUsed, hintsUsed, problemId, pendingHintRequest>>
      BY <1>1 DEF ProblemSelect, ProblemImport, CodeRun, TestcaseAdd, hintVars, consentVars
  <2>4. /\ I' \in Nat /\ L' \in Nat /\ H' \in Nat
        /\ I' = I /\ L' = L /\ H' = H
      BY <2>1, <2>2, <1>h DEF LLMPcs, HintPcs
  <2> QED
      BY <1>f, <1>g, <2>3, <2>4
<1>2. ASSUME NEW t \in Tasks,
             \/ ExecutionStarts(t)
             \/ ExecutionQueues(t)
             \/ ExecutionSubmits(t)
             \/ HintStreams(t)
      PROVE  LimitsInv'
  <2>1. PICK to \in Pcs :
          /\ \A r \in Tasks : task'[r].pc = IF r = t THEN to ELSE task[r].pc
          /\ \/ to \in ExecPcs /\ task[t].pc \in ExecPcs \cup {"execLimiter"}
             \/ to = "hintStream" /\ task[t].pc = "hintQueue"
    <3>1. CASE ExecutionStarts(t)
      <4>1. \A r \in Tasks : task'[r].pc = IF r = t THEN "execLoad" ELSE task[r].pc
          BY <3>1 DEF ExecutionStarts, TypeOK
      <4> QED
          BY <3>1, <4>1 DEF ExecutionStarts, Pcs, ExecPcs
    <3>2. CASE ExecutionQueues(t)
        BY <3>2, AwaitType DEF ExecutionQueues, Pcs, ExecPcs
    <3>3. CASE ExecutionSubmits(t)
        BY <3>3, AwaitType DEF ExecutionSubmits, Pcs, ExecPcs
    <3>4. CASE HintStreams(t)
        BY <3>4, AwaitType DEF HintStreams, Pcs, HintPcs
    <3> QED
        BY <1>2, <3>1, <3>2, <3>3, <3>4
  <2>2. UNCHANGED <<importsUsed, llmCallsUsed, hintsUsed, problemId, pendingHintRequest>>
      BY <1>2 DEF ExecutionStarts, ExecutionQueues, ExecutionSubmits, HintStreams,
                  hintVars, consentVars
  <2>3. /\ I' \in Nat /\ L' \in Nat /\ H' \in Nat
        /\ I' = I /\ L' = L /\ H' = H
      BY <2>1, <1>h DEF LLMPcs, HintPcs, ExecPcs
  <2> QED
      BY <1>f, <1>g, <2>2, <2>3
<1>i. ASSUME NEW t \in Tasks, Finish(t)
      PROVE  /\ I' \in Nat /\ L' \in Nat /\ H' \in Nat
             /\ I' = IF task[t].pc = "importRun" THEN I - 1 ELSE I
             /\ L' = IF task[t].pc \in LLMPcs THEN L - 1 ELSE L
             /\ H' = IF task[t].pc \in HintPcs THEN H - 1 ELSE H
             /\ H' < N
  <2>1. /\ "idle" # "importRun" /\ "idle" \notin LLMPcs /\ "idle" \notin HintPcs
        /\ \A r \in Tasks : task'[r].pc = IF r = t THEN "idle" ELSE task[r].pc
      BY <1>i, FinishType DEF LLMPcs, HintPcs
  <2> QED
      BY <2>1, <1>h
<1>3. ASSUME NEW t \in Tasks, ExecutionEnds(t) \/ TestcasePushed(t) \/ Rejected(t)
      PROVE  LimitsInv'
  <2>1. Finish(t)
      BY <1>3 DEF ExecutionEnds, TestcasePushed, Rejected
  <2>2. UNCHANGED <<importsUsed, llmCallsUsed, hintsUsed, problemId, pendingHintRequest>>
      BY <1>3 DEF ExecutionEnds, TestcasePushed, Rejected, hintVars, consentVars
  <2>3. (I' = I \/ I' = I - 1) /\ (L' = L \/ L' = L - 1) /\ (H' = H \/ H' = H - 1)
      BY <1>i, <2>1
  <2> QED
      BY <1>g, <1>i, <2>1, <2>2, <2>3
<1>4. ASSUME NEW t \in Tasks, SelectLoads(t) \/ \E p \in Problems : ImportLoads(t, p)
      PROVE  LimitsInv'
  <2>1. PICK p \in Problems : SwitchProblem(p)
      BY <1>4 DEF SelectLoads, ImportLoads, CapturedProblem
  <2>2. hintLimit' \in Nat
      BY <2>1, ConstantsAssumption DEF ConstantsAssumption, SwitchProblem, hintLimit
  <2>3. hintsUsed' = 0 /\ pendingHintRequest' = NoRequest
      BY <2>1 DEF SwitchProblem
  <2>4. Finish(t) /\ llmCallsUsed' = llmCallsUsed /\ task[t].pc \notin LLMPcs
      BY <1>4 DEF SelectLoads, ImportLoads, LLMPcs
  <2>5. importsUsed' + I' < ImportLimit + N
    <3>1. CASE SelectLoads(t)
      <4>1. importsUsed' = importsUsed /\ I' = I
          BY <3>1, <1>i, <2>4 DEF SelectLoads
      <4> QED
          BY <4>1, <1>a, <1>f, <1>k
    <3>2. CASE \E q \in Problems : ImportLoads(t, q)
      <4>1. importsUsed' = importsUsed + 1 /\ I' = I - 1 /\ I' \in Nat
          BY <3>2, <1>i, <2>4 DEF ImportLoads
      <4>2. importsUsed' \in Nat
          BY <4>1, <1>a
      <4> QED
          BY <4>1, <4>2, <1>k
    <3> QED
        BY <1>4, <3>1, <3>2
  <2>6. L' = L /\ H' < N /\ H' \in Nat
      BY <1>i, <2>4
  <2>7. llmCallsUsed' + L' < MaxLLMCalls + N
      BY <1>a, <1>f, <1>l, <2>4, <2>6
  <2>8. 0 + H' <= hintLimit' + N
      BY <1>b, <2>2, <2>6, SumReset
  <2> QED
      BY <1>d, <2>3, <2>5, <2>7, <2>8
<1>5. ASSUME NEW t \in Tasks, ImportRuns(t)
      PROVE  LimitsInv'
  <2>1. /\ task[t].pc = "importLimiter"
        /\ \A r \in Tasks : task'[r].pc = IF r = t THEN "importRun" ELSE task[r].pc
      BY <1>5, AwaitType DEF ImportRuns, Pcs
  <2>2. /\ UNCHANGED <<importsUsed, llmCallsUsed, hintsUsed, problemId, pendingHintRequest>>
        /\ importsUsed < ImportLimit
      BY <1>5 DEF ImportRuns, hintVars, consentVars
  <2>3. I' \in Nat /\ I' <= N /\ L' = L /\ H' = H
      BY <2>1, <1>h DEF LLMPcs, HintPcs
  <2>4. importsUsed' + I' < ImportLimit + N
      BY <1>a, <1>b, <2>2, <2>3, SumTested
  <2>5. llmCallsUsed' + L' < MaxLLMCalls + N
      BY <1>a, <1>f, <1>l, <2>2, <2>3
  <2> QED
      BY <1>a, <1>d, <1>f, <1>m, <2>2, <2>3, <2>4, <2>5
\* A delivery that starts.
<1>j. ASSUME NEW t \in Tasks, Start(t, "hintFind", problemId)
      PROVE  I' = I /\ L' = L /\ H' = H + 1 /\ H' \in Nat /\ H' <= N
  <2>1. /\ task[t].pc = "idle"
        /\ \A r \in Tasks : task'[r].pc = IF r = t THEN "hintFind" ELSE task[r].pc
      BY <1>j, <1>p, StartType DEF Pcs, HintPcs
  <2> QED
      BY <2>1, <1>h DEF LLMPcs, HintPcs
<1>6. ASSUME NEW t \in Tasks, NEW u \in Users, HintRequestAlone(t, u)
      PROVE  LimitsInv'
  <2>1. I' = I /\ L' = L /\ H' \in Nat /\ H' <= N
      BY <1>6, <1>j DEF HintRequestAlone
  <2>2. /\ UNCHANGED <<importsUsed, llmCallsUsed, hintsUsed, problemId, pendingHintRequest>>
        /\ hintsUsed < hintLimit
      BY <1>6 DEF HintRequestAlone, MayRequestHint, hintVars, consentVars
  <2>3. hintLimit' = hintLimit
      BY <1>e, <2>2
  <2>4. importsUsed' + I' < ImportLimit + N /\ llmCallsUsed' + L' < MaxLLMCalls + N
      BY <1>a, <1>f, <1>k, <1>l, <2>1, <2>2
  <2>5. hintsUsed + H' < hintLimit + N
      BY <1>a, <1>b, <2>1, <2>2, SumTested
  <2>6. hintsUsed + H' <= hintLimit + N
      BY <1>a, <1>b, <2>1, <2>5, SumWeakened
  <2> QED
      BY <1>d, <2>2, <2>3, <2>4, <2>5, <2>6
<1>7. ASSUME NEW u \in Users, AnyRequest(u)
      PROVE  LimitsInv'
  <2>1. /\ UNCHANGED <<importsUsed, llmCallsUsed, hintsUsed, problemId, task>>
        /\ hintsUsed < hintLimit
      BY <1>7, RequestFacts DEF MayRequestHint
  <2>2. I' = I /\ L' = L /\ H' = H
      BY <2>1 DEF I, L, H, Count, InFlight
  <2>3. H <= N
    <3>1. InFlight(HintPcs) \subseteq Tasks
        BY DEF InFlight
    <3> QED
        BY <3>1, TasksAssumption, FS_Subset DEF TasksAssumption, H, N, Count
  <2>4. hintLimit' = hintLimit
      BY <1>e, <2>1
  <2>5. importsUsed' + I' < ImportLimit + N /\ llmCallsUsed' + L' < MaxLLMCalls + N
      BY <1>a, <1>f, <1>k, <1>l, <2>1, <2>2
  <2>6. hintsUsed + H < hintLimit + N
      BY <1>a, <1>b, <1>f, <2>1, <2>3, SumTested
  <2> QED
      BY <1>c, <1>d, <2>1, <2>2, <2>4, <2>5, <2>6
<1>8. ASSUME NEW t \in Tasks, NEW u \in Users, HintApprove(t, u)
      PROVE  LimitsInv'
  <2>1. I' = I /\ L' = L /\ H' = H + 1
      BY <1>8, <1>j DEF HintApprove
  <2>2. /\ UNCHANGED <<importsUsed, llmCallsUsed, hintsUsed, problemId>>
        /\ pendingHintRequest # NoRequest /\ pendingHintRequest' = NoRequest
      BY <1>8 DEF HintApprove, MayAnswer, ClearPendingHintRequest, hintVars
  <2>3. hintLimit' = hintLimit
      BY <1>e, <2>2
  <2>4. importsUsed' + I' < ImportLimit + N /\ llmCallsUsed' + L' < MaxLLMCalls + N
      BY <1>a, <1>f, <1>k, <1>l, <2>1, <2>2
  <2>5. hintsUsed + H < hintLimit + N
      BY <1>c, <2>2
  <2>6. hintsUsed + (H + 1) <= hintLimit + N
      BY <1>a, <1>b, <1>f, <2>5, SumWeakened
  <2> QED
      BY <1>d, <2>1, <2>2, <2>3, <2>4, <2>6
<1>9. ASSUME NEW t \in Tasks, HintFallsBack(t)
      PROVE  LimitsInv'
  <2>1. /\ task[t].pc = "hintFind"
        /\ \A r \in Tasks : task'[r].pc = IF r = t THEN "hintQueue" ELSE task[r].pc
      BY <1>9, AwaitType DEF HintFallsBack, Pcs, HintPcs
  <2>2. /\ UNCHANGED <<importsUsed, llmCallsUsed, hintsUsed, problemId, pendingHintRequest>>
        /\ llmCallsUsed < MaxLLMCalls
      BY <1>9 DEF HintFallsBack, hintVars, consentVars
  <2>3. I' = I /\ L' \in Nat /\ L' <= N /\ H' = H
      BY <2>1, <1>h DEF LLMPcs, HintPcs
  <2>4. importsUsed' + I' < ImportLimit + N
      BY <1>a, <1>f, <1>k, <2>2, <2>3
  <2>5. llmCallsUsed' + L' < MaxLLMCalls + N
      BY <1>a, <1>b, <2>2, <2>3, SumTested
  <2> QED
      BY <1>a, <1>d, <1>f, <1>m, <2>2, <2>3, <2>4, <2>5
\* A delivery that ends, counted or not.
<1>10. ASSUME NEW t \in Tasks,
              HintStored(t) \/ \E delivered \in BOOLEAN : HintStreamEnds(t, delivered)
       PROVE  LimitsInv'
  <2>1. /\ Finish(t)
        /\ UNCHANGED <<importsUsed, problemId, pendingHintRequest>>
        /\ task[t].pc \in HintPcs /\ task[t].pc # "importRun"
      BY <1>10 DEF HintStored, HintStreamEnds, consentVars, HintPcs
  <2>2. I' = I /\ H' = H - 1 /\ H' \in Nat /\ L' \in Nat
      BY <1>i, <2>1
  <2>3. hintsUsed' = hintsUsed \/ hintsUsed' = hintsUsed + 1
      BY <1>10 DEF HintStored, HintStreamEnds
  <2>4. \/ llmCallsUsed' = llmCallsUsed /\ (L' = L \/ L' = L - 1)
        \/ llmCallsUsed' = llmCallsUsed + 1 /\ L' = L - 1
    <3>1. CASE HintStored(t)
        BY <3>1, <1>i, <2>1 DEF HintStored, LLMPcs
    <3>2. CASE \E delivered \in BOOLEAN : HintStreamEnds(t, delivered)
        BY <3>2, <1>i, <2>1 DEF HintStreamEnds, LLMPcs
    <3> QED
        BY <1>10, <3>1, <3>2
  <2>5. llmCallsUsed' \in Nat /\ hintsUsed' \in Nat
      BY <1>a, <2>3, <2>4
  <2>6. importsUsed' + I' < ImportLimit + N /\ llmCallsUsed' + L' < MaxLLMCalls + N
      BY <1>a, <1>f, <1>k, <1>l, <2>1, <2>2, <2>4, <2>5
  <2> QED
      BY <1>d, <1>m, <2>1, <2>2, <2>3, <2>5, <2>6
<1>11. ASSUME \/ \E u \in Users : AnyJoin(u) \/ Disconnect(u) \/ HintDeny(u)
              \/ \E n \in 1..MaxRequests : ConsentTimeout(n)
              \/ UNCHANGED vars
       PROVE  LimitsInv'
  <2>1. UNCHANGED <<importsUsed, llmCallsUsed, hintsUsed, problemId, task>>
      BY <1>11, JoinFacts, DisconnectFacts DEF HintDeny, ConsentTimeout, hintVars, vars
  <2>2. pendingHintRequest' \in {pendingHintRequest, NoRequest}
      BY <1>11, JoinFacts, DisconnectFacts
      DEF HintDeny, ConsentTimeout, ClearPendingHintRequest, consentVars, vars
  <2>3. I' = I /\ L' = L /\ H' = H
      BY <2>1 DEF I, L, H, Count, InFlight
  <2> QED
      BY <1>f, <1>g, <2>1, <2>2, <2>3
<1> QED
    BY <1>1, <1>2, <1>3, <1>4, <1>5, <1>6, <1>7, <1>8, <1>9, <1>10, <1>11
    DEF Next, AnyJoin, AnyRequest

\* However the handlers of a room race, its custom test cases stay within their limit,
\* imports and LLM calls exceed theirs by fewer than the handlers in flight, and hints by
\* no more than those (testcaseHandler, problemHandler, hintHandler).
THEOREM LimitsBoundedAlways == Spec => []LimitsBounded
<1>1. LimitsInv /\ CustomTestCasesBounded => LimitsBounded
    BY DEF LimitsInv, LimitsBounded
<1> QED
    BY <1>1, LimitsInit, LimitsNext, CustomTestCasesBoundedAlways, TypeInit, TypeNext, PTL
    DEF Spec
=============================================================================
