---------------------------- MODULE RoomSession ----------------------------
(***************************************************************************)
(* What the members of one live room do with it: selecting and importing   *)
(* problems, running and submitting code, asking for hints with the        *)
(* partner's consent, and adding test cases.                               *)
(*                                                                         *)
(* The server is a single-threaded event loop.  A handler reads and writes *)
(* the Room object between its awaits (rate limiter, database, Judge0,     *)
(* Groq, LeetCode), so each stretch between two awaits is one action, and  *)
(* a handler that waits is a task with the point where it waits.  The auth *)
(* middleware runs in front of the handler: its tests are guards of the    *)
(* action that starts the task.                                            *)
(*                                                                         *)
(* Abstractions.  Who may be in the room is the subject of RoomMembership, *)
(* and the room is registered.  Of the connections only what the handlers  *)
(* can tell is kept: which user they find for the socket of a user.  It is *)
(* another one when joins of one socket raced, and nobody when the socket  *)
(* closed under a waiting join.  Limits of the whole server (per address,  *)
(* per day, the operation limiters) are a choice between passing and       *)
(* rejecting.  "run" and "submit" differ in the test cases they load only. *)
(* The cooldown of hint requests is a delay, and time is not modelled.     *)
(***************************************************************************)
EXTENDS Naturals, FiniteSets, Sequences

CONSTANTS
  Users,            \* the participants of the room
  Interview,        \* room.mode = "interview"
  Interviewer,      \* the user with role "interviewer" of an interview room
  Problems,         \* problems that can be selected or imported
  NoProblem,        \* problemId = null
  HintLimitOf,      \* HINT_LIMIT_BY_DIFFICULTY of each problem
  SubmissionLimit,  \* room.submissionLimit
  ImportLimit,      \* room.importLimit
  CustomLimit,      \* room.customTestCaseLimit
  MaxLLMCalls,      \* deps.maxLLMCallsPerRoom
  Tasks,            \* handler invocations that can be in flight at once
  MaxRequests,      \* bound: how many hint requests ever wait for consent
  NoUser            \* requestedBy of no request, and the host of a closed socket

ASSUME ConstantsAssumption ==
  /\ Interview \in BOOLEAN
  /\ NoProblem \notin Problems
  /\ NoUser \notin Users
  /\ HintLimitOf \in [Problems -> Nat]
  /\ SubmissionLimit \in Nat
  /\ ImportLimit \in Nat
  /\ CustomLimit \in Nat
  /\ MaxLLMCalls \in Nat
  /\ MaxRequests \in Nat

\* At any time a server has finitely many invocations in flight.
ASSUME TasksAssumption == IsFiniteSet(Tasks) /\ Tasks # {}

VARIABLES
  connected,            \* users with user.connected
  host,                 \* of a connected user: the first in room.users with its socketId
  problemId,            \* room.problemId
  executionInProgress,  \* room.executionInProgress
  submissionsUsed,      \* room.submissionsUsed
  importsUsed,          \* room.importsUsed
  customTestCases,      \* room.customTestCases: the problem each was checked against
  hintsUsed,            \* room.hintsUsed, the length of room.hintHistory too
  llmCallsUsed,         \* room.llmCallsUsed
  hintStreaming,        \* room.hintStreaming
  pendingHintRequest,   \* room.pendingHintRequest: who asks, the request's number, and
                        \* whether a partner was sent HINT_PENDING
  consentTimer,         \* request whose timer consentTimers holds for the room, 0 if none
  armedTimers,          \* requests whose timeout is armed in the runtime
  requests,             \* consent requests so far
  task                  \* handlers in flight

hintVars == <<hintsUsed, llmCallsUsed, hintStreaming>>
consentVars == <<pendingHintRequest, consentTimer, armedTimers, requests>>
vars == <<connected, host, problemId, executionInProgress, submissionsUsed, importsUsed,
          customTestCases, hintsUsed, llmCallsUsed, hintStreaming,
          pendingHintRequest, consentTimer, armedTimers, requests, task>>

-----------------------------------------------------------------------------
(* Queries and updates of the Room object.                                 *)

NoRequest == [by |-> NoUser, id |-> 0, asked |-> FALSE]
IdleTask == [pc |-> "idle", problem |-> NoProblem]

\* Where a handler may wait, by handler.
ExecPcs == {"execLoad", "execQueue", "execJudge"}
HintPcs == {"hintFind", "hintQueue", "hintStream"}
Pcs == {"idle", "execLimiter", "select", "importLimiter", "importRun",
        "testcase"} \cup ExecPcs \cup HintPcs

\* The socket of u is open and the middleware takes its events as those of u.
Speaks(u) == u \in connected /\ host[u] = u

hintLimit == IF problemId = NoProblem THEN 0 ELSE HintLimitOf[problemId]

\* Mutant: no lock.
CanExecuteWhileExecuting == problemId # NoProblem /\ submissionsUsed < SubmissionLimit

\* Mutant: <= for <.
CanExecuteOnceMore ==
  /\ problemId # NoProblem
  /\ ~executionInProgress
  /\ submissionsUsed <= SubmissionLimit

CanExecute ==
  /\ problemId # NoProblem
  /\ ~executionInProgress
  /\ submissionsUsed < SubmissionLimit

CanSwitchProblem == ~executionInProgress /\ ~hintStreaming

\* Room.switchProblem; the consent timer of a dropped request keeps running.
SwitchProblem(p) ==
  /\ problemId' = p
  /\ hintsUsed' = 0
  /\ pendingHintRequest' = NoRequest
  /\ customTestCases' = <<>>

Start(t, pc, p) ==
  /\ task[t].pc = "idle"
  /\ task' = [task EXCEPT ![t] = [pc |-> pc, problem |-> p]]

Await(t, from, to) ==
  /\ task[t].pc = from
  /\ task' = [task EXCEPT ![t].pc = to]

Finish(t) == task' = [task EXCEPT ![t] = IdleTask]

\* Mutant: the map entry goes, the timeout stays.
ClearConsentTimerLeaks == consentTimer' = 0 /\ UNCHANGED armedTimers

ClearConsentTimer ==
  /\ consentTimer' = 0
  /\ armedTimers' = armedTimers \ {consentTimer}

\* Mutant: no timeout is armed.
StartConsentTimerForgotten(n) == n > 0 /\ UNCHANGED <<consentTimer, armedTimers>>

\* clearConsentTimer, then a new timeout for request n.
StartConsentTimer(n) ==
  /\ consentTimer' = n
  /\ armedTimers' = (armedTimers \ {consentTimer}) \cup {n}

ClearPendingHintRequest ==
  /\ pendingHintRequest' = NoRequest
  /\ UNCHANGED requests

-----------------------------------------------------------------------------
Init ==
  /\ connected = {}
  /\ host = [u \in Users |-> NoUser]
  /\ problemId = NoProblem
  /\ executionInProgress = FALSE
  /\ submissionsUsed = 0
  /\ importsUsed = 0
  /\ customTestCases = <<>>
  /\ hintsUsed = 0
  /\ llmCallsUsed = 0
  /\ hintStreaming = FALSE
  /\ pendingHintRequest = NoRequest
  /\ consentTimer = 0
  /\ armedTimers = {}
  /\ requests = 0
  /\ task = [t \in Tasks |-> IdleTask]

\* What a user that comes or goes leaves alone.
RestUnchanged ==
  UNCHANGED <<problemId, executionInProgress, submissionsUsed, importsUsed,
              customTestCases, hintVars, task>>

\* A user joins or returns, on a socket of its own.
Join(u) ==
  /\ u \notin connected
  /\ connected' = connected \cup {u}
  /\ host' = [host EXCEPT ![u] = u]
  /\ RestUnchanged /\ UNCHANGED consentVars

\* A second join of the socket of v, which was waiting for the limiter when the first
\* was served: u comes after v in room.users, or returns to its place before it.
JoinShared(u, v) ==
  /\ u \notin connected
  /\ Speaks(v)
  /\ connected' = connected \cup {u}
  /\ \/ host' = [host EXCEPT ![u] = v]
     \/ host' = [w \in Users |-> IF w = u \/ host[w] = v THEN u ELSE host[w]]
  /\ RestUnchanged /\ UNCHANGED consentVars

\* The socket of u closed while its join waited for the limiter.
JoinLate(u) ==
  /\ u \notin connected
  /\ connected' = connected \cup {u}
  /\ RestUnchanged /\ UNCHANGED <<host, consentVars>>

\* The first user found with the closing socket leaves; others stay, with a closed one.
Leave(u) ==
  /\ Speaks(u)
  /\ connected' = connected \ {u}
  /\ host' = [w \in Users |-> IF host[w] = u THEN NoUser ELSE host[w]]

\* Mutant: the hint handler ignores disconnects.
DisconnectKeepsRequest(u) == Leave(u) /\ RestUnchanged /\ UNCHANGED consentVars

\* handleDisconnect, then handleRequesterDisconnect of the hint handler.
Disconnect(u) ==
  /\ Leave(u)
  /\ IF pendingHintRequest.by = u
     THEN ClearConsentTimer /\ ClearPendingHintRequest
     ELSE UNCHANGED consentVars
  /\ RestUnchanged

-----------------------------------------------------------------------------
(* Selecting and importing a problem.                                      *)

MaySelect(u) == Speaks(u) /\ (Interview => u = Interviewer)

ProblemSelect(t, u, p) ==
  /\ MaySelect(u)
  /\ CanSwitchProblem
  /\ Start(t, "select", p)
  /\ UNCHANGED <<connected, host, problemId, executionInProgress, submissionsUsed,
                 importsUsed, customTestCases, hintVars, consentVars>>

\* The problem was found: loadProblemIntoRoom.
SelectLoads(t) ==
  /\ task[t].pc = "select"
  /\ SwitchProblem(task[t].problem)
  /\ Finish(t)
  /\ UNCHANGED <<connected, host, executionInProgress, submissionsUsed, importsUsed,
                 llmCallsUsed, hintStreaming, consentTimer, armedTimers, requests>>

ProblemImport(t, u) ==
  /\ MaySelect(u)
  /\ CanSwitchProblem
  /\ Start(t, "importLimiter", NoProblem)
  /\ UNCHANGED <<connected, host, problemId, executionInProgress, submissionsUsed,
                 importsUsed, customTestCases, hintVars, consentVars>>

\* Mutant: <= for <.
ImportRunsOnceMore(t) ==
  /\ importsUsed <= ImportLimit
  /\ Await(t, "importLimiter", "importRun")
  /\ UNCHANGED <<connected, host, problemId, executionInProgress, submissionsUsed,
                 importsUsed, customTestCases, hintVars, consentVars>>

\* The address may import and the room has imports left: quota, scraper, database.
ImportRuns(t) ==
  /\ importsUsed < ImportLimit
  /\ Await(t, "importLimiter", "importRun")
  /\ UNCHANGED <<connected, host, problemId, executionInProgress, submissionsUsed,
                 importsUsed, customTestCases, hintVars, consentVars>>

ImportLoads(t, p) ==
  /\ task[t].pc = "importRun"
  /\ SwitchProblem(p)
  /\ importsUsed' = importsUsed + 1
  /\ Finish(t)
  /\ UNCHANGED <<connected, host, executionInProgress, submissionsUsed,
                 llmCallsUsed, hintStreaming, consentTimer, armedTimers, requests>>

-----------------------------------------------------------------------------
(* Running and submitting code.                                            *)

CodeRun(t, u) ==
  /\ Speaks(u)
  /\ CanExecute
  /\ Start(t, "execLimiter", NoProblem)
  /\ UNCHANGED <<connected, host, problemId, executionInProgress, submissionsUsed,
                 importsUsed, customTestCases, hintVars, consentVars>>

\* The address may execute, and the room still may: load the current problem.
ExecutionStarts(t) ==
  /\ task[t].pc = "execLimiter"
  /\ CanExecute
  /\ executionInProgress' = TRUE
  /\ task' = [task EXCEPT ![t] = [pc |-> "execLoad", problem |-> problemId]]
  /\ UNCHANGED <<connected, host, problemId, submissionsUsed, importsUsed,
                 customTestCases, hintVars, consentVars>>

\* Code and test cases are loaded: wait for a Judge0 slot and the daily quota.
ExecutionQueues(t) ==
  /\ Await(t, "execLoad", "execQueue")
  /\ UNCHANGED <<connected, host, problemId, executionInProgress, submissionsUsed,
                 importsUsed, customTestCases, hintVars, consentVars>>

\* submissionReserved is set and the harness is submitted.
ExecutionSubmits(t) ==
  /\ Await(t, "execQueue", "execJudge")
  /\ UNCHANGED <<connected, host, problemId, executionInProgress, submissionsUsed,
                 importsUsed, customTestCases, hintVars, consentVars>>

\* Mutant: every execution is charged, a rejected one too.
ExecutionEndsCharged(t) ==
  /\ task[t].pc \in ExecPcs
  /\ executionInProgress' = FALSE
  /\ submissionsUsed' = submissionsUsed + 1
  /\ Finish(t)
  /\ UNCHANGED <<connected, host, problemId, importsUsed, customTestCases, hintVars,
                 consentVars>>

\* A result, an error or a rejection: the finally block counts a submission
\* whose daily quota was reserved, whatever came of it.
ExecutionEnds(t) ==
  /\ task[t].pc \in ExecPcs
  /\ executionInProgress' = FALSE
  /\ submissionsUsed' = IF task[t].pc = "execJudge"
                        THEN submissionsUsed + 1 ELSE submissionsUsed
  /\ Finish(t)
  /\ UNCHANGED <<connected, host, problemId, importsUsed, customTestCases, hintVars,
                 consentVars>>

-----------------------------------------------------------------------------
(* Test cases.                                                             *)

TestcaseAdd(t, u) ==
  /\ Speaks(u)
  /\ problemId # NoProblem
  /\ Len(customTestCases) < CustomLimit
  /\ Start(t, "testcase", problemId)
  /\ UNCHANGED <<connected, host, problemId, executionInProgress, submissionsUsed,
                 importsUsed, customTestCases, hintVars, consentVars>>

\* The keys match the parameters of the problem the boilerplate was read for.
TestcasePushed(t) ==
  /\ task[t].pc = "testcase"
  /\ Len(customTestCases) < CustomLimit
  /\ customTestCases' = Append(customTestCases, task[t].problem)
  /\ Finish(t)
  /\ UNCHANGED <<connected, host, problemId, executionInProgress, submissionsUsed,
                 importsUsed, hintVars, consentVars>>

-----------------------------------------------------------------------------
(* Hints.                                                                  *)

MayRequestHint(u) ==
  /\ Speaks(u)
  /\ ~Interview
  /\ problemId # NoProblem
  /\ hintsUsed < hintLimit
  /\ ~executionInProgress
  /\ pendingHintRequest = NoRequest
  /\ ~hintStreaming

\* Alone in the room: the hint is delivered at once.
HintRequestAlone(t, u) ==
  /\ MayRequestHint(u)
  /\ Cardinality(connected) <= 1
  /\ Start(t, "hintFind", problemId)
  /\ UNCHANGED <<connected, host, problemId, executionInProgress, submissionsUsed,
                 importsUsed, customTestCases, hintVars, consentVars>>

\* sendPendingHintRequest: the request is set, and the first user who is connected with
\* another socket, open or not, is asked.
SetPendingHintRequest(u) ==
  /\ MayRequestHint(u)
  /\ Cardinality(connected) > 1
  /\ requests < MaxRequests
  /\ requests' = requests + 1
  /\ pendingHintRequest' = [by |-> u, id |-> requests + 1,
                            asked |-> \E v \in connected : host[v] # u]
  /\ UNCHANGED <<connected, host, problemId, executionInProgress, submissionsUsed,
                 importsUsed, customTestCases, hintVars, task>>

HintRequestPending(u) ==
  /\ \E v \in connected : host[v] # u
  /\ SetPendingHintRequest(u)
  /\ StartConsentTimer(requests + 1)

\* All who are connected are so with the requester's socket: nobody is asked, and the
\* handler returns before startConsentTimer.
HintRequestUnasked(u) ==
  /\ \A v \in connected : host[v] = u
  /\ SetPendingHintRequest(u)
  /\ UNCHANGED <<consentTimer, armedTimers>>

\* The partner of the requester may answer.
MayAnswer(u) ==
  /\ Speaks(u)
  /\ pendingHintRequest # NoRequest
  /\ pendingHintRequest.by # u

HintApprove(t, u) ==
  /\ MayAnswer(u)
  /\ ClearConsentTimer
  /\ ClearPendingHintRequest
  /\ Start(t, "hintFind", problemId)
  /\ UNCHANGED <<connected, host, problemId, executionInProgress, submissionsUsed,
                 importsUsed, customTestCases, hintVars>>

HintDeny(u) ==
  /\ MayAnswer(u)
  /\ ClearConsentTimer
  /\ ClearPendingHintRequest
  /\ UNCHANGED <<connected, host, problemId, executionInProgress, submissionsUsed,
                 importsUsed, customTestCases, hintVars, task>>

\* The timeout of request n fires, and drops whatever request is pending.
ConsentTimeout(n) ==
  /\ n \in armedTimers
  /\ armedTimers' = armedTimers \ {n}
  /\ consentTimer' = 0
  /\ ClearPendingHintRequest
  /\ UNCHANGED <<connected, host, problemId, executionInProgress, submissionsUsed,
                 importsUsed, customTestCases, hintVars, task>>

\* findStoredHint found one: deliverStoredHint.
HintStored(t) ==
  /\ task[t].pc = "hintFind"
  /\ hintsUsed' = hintsUsed + 1
  /\ Finish(t)
  /\ UNCHANGED <<connected, host, problemId, executionInProgress, submissionsUsed,
                 importsUsed, customTestCases, llmCallsUsed, hintStreaming, consentVars>>

\* No stored hint: prepareLLMHintRequest, then the limiter and the daily quota.
HintFallsBack(t) ==
  /\ llmCallsUsed < MaxLLMCalls
  /\ Await(t, "hintFind", "hintQueue")
  /\ UNCHANGED <<connected, host, problemId, executionInProgress, submissionsUsed,
                 importsUsed, customTestCases, hintVars, consentVars>>

HintStreams(t) ==
  /\ Await(t, "hintQueue", "hintStream")
  /\ hintStreaming' = TRUE
  /\ UNCHANGED <<connected, host, problemId, executionInProgress, submissionsUsed,
                 importsUsed, customTestCases, hintsUsed, llmCallsUsed, consentVars>>

\* The stream ends; a hint the output policy or an error blocks is not counted.
HintStreamEnds(t, delivered) ==
  /\ task[t].pc = "hintStream"
  /\ hintsUsed' = IF delivered THEN hintsUsed + 1 ELSE hintsUsed
  /\ llmCallsUsed' = IF delivered THEN llmCallsUsed + 1 ELSE llmCallsUsed
  /\ hintStreaming' = FALSE
  /\ Finish(t)
  /\ UNCHANGED <<connected, host, problemId, executionInProgress, submissionsUsed,
                 importsUsed, customTestCases, consentVars>>

-----------------------------------------------------------------------------
\* A handler that has written nothing gives up: over a limit, not found, error.
Rejected(t) ==
  /\ task[t].pc \in {"execLimiter", "select", "importLimiter", "importRun",
                     "testcase", "hintFind", "hintQueue"}
  /\ Finish(t)
  /\ UNCHANGED <<connected, host, problemId, executionInProgress, submissionsUsed,
                 importsUsed, customTestCases, hintVars, consentVars>>

Next ==
  \/ \E u \in Users : Join(u)
  \/ \E u, v \in Users : JoinShared(u, v)
  \/ \E u \in Users : JoinLate(u)
  \/ \E u \in Users : Disconnect(u)
  \/ \E t \in Tasks, u \in Users, p \in Problems : ProblemSelect(t, u, p)
  \/ \E t \in Tasks : SelectLoads(t)
  \/ \E t \in Tasks, u \in Users : ProblemImport(t, u)
  \/ \E t \in Tasks : ImportRuns(t)
  \/ \E t \in Tasks, p \in Problems : ImportLoads(t, p)
  \/ \E t \in Tasks, u \in Users : CodeRun(t, u)
  \/ \E t \in Tasks : ExecutionStarts(t)
  \/ \E t \in Tasks : ExecutionQueues(t)
  \/ \E t \in Tasks : ExecutionSubmits(t)
  \/ \E t \in Tasks : ExecutionEnds(t)
  \/ \E t \in Tasks, u \in Users : TestcaseAdd(t, u)
  \/ \E t \in Tasks : TestcasePushed(t)
  \/ \E t \in Tasks, u \in Users : HintRequestAlone(t, u)
  \/ \E u \in Users : HintRequestPending(u)
  \/ \E u \in Users : HintRequestUnasked(u)
  \/ \E t \in Tasks, u \in Users : HintApprove(t, u)
  \/ \E u \in Users : HintDeny(u)
  \/ \E n \in 1..MaxRequests : ConsentTimeout(n)
  \/ \E t \in Tasks : HintStored(t)
  \/ \E t \in Tasks : HintFallsBack(t)
  \/ \E t \in Tasks : HintStreams(t)
  \/ \E t \in Tasks, delivered \in BOOLEAN : HintStreamEnds(t, delivered)
  \/ \E t \in Tasks : Rejected(t)

Spec == Init /\ [][Next]_vars

\* Armed timeouts fire.  The database, the store and Judge0 settle or fail (their
\* clients abort them), and an operation limiter starts what it queued.
Fairness ==
  /\ \A n \in 1..MaxRequests : WF_vars(ConsentTimeout(n))
  /\ \A t \in Tasks : WF_vars(ExecutionEnds(t))

FairSpec == Spec /\ Fairness

-----------------------------------------------------------------------------
(* Properties.                                                             *)

TypeOK ==
  /\ connected \in SUBSET Users
  /\ host \in [Users -> Users \cup {NoUser}]
  /\ problemId \in Problems \cup {NoProblem}
  /\ executionInProgress \in BOOLEAN
  /\ submissionsUsed \in Nat
  /\ importsUsed \in Nat
  /\ customTestCases \in Seq(Problems)
  /\ hintsUsed \in Nat
  /\ llmCallsUsed \in Nat
  /\ hintStreaming \in BOOLEAN
  /\ pendingHintRequest \in [by : Users, id : 1..MaxRequests, asked : BOOLEAN]
                            \cup {NoRequest}
  /\ consentTimer \in 0..MaxRequests
  /\ armedTimers \in SUBSET (1..MaxRequests)
  /\ requests \in 0..MaxRequests
  /\ task \in [Tasks -> [pc : Pcs, problem : Problems \cup {NoProblem}]]

Running == {t \in Tasks : task[t].pc \in ExecPcs}
Reserved == {t \in Tasks : task[t].pc = "execJudge"}

\* room.executionInProgress is the lock of the execution: it is held exactly
\* while some handler is past its second canExecute test and has not reached its
\* finally block, and no two handlers are, although each passes a first test of
\* the middleware and then awaits the rate limiter.
ExecutionExclusive ==
  /\ executionInProgress <=> Running # {}
  /\ \A t1, t2 \in Running : t1 = t2

\* A submission is counted only after its execution, but the room never spends
\* more than submissionLimit of the server's daily quota, one in flight included.
SubmissionsBounded == submissionsUsed + Cardinality(Reserved) <= SubmissionLimit

\* The limit of custom test cases is tested again after the awaited boilerplate.
CustomTestCasesBounded == Len(customTestCases) <= CustomLimit

InFlight(pcs) == {t \in Tasks : task[t].pc \in pcs}

\* The other limits of the room are tested before an await and counted after it, so
\* handlers that race pass the same test.  What they can exceed the limits by is fewer
\* imports and LLM calls than handlers in flight, the ones still to be counted
\* included; and one hint more, since the partner's consent is not tested again, even
\* when deliveries outlive a switch that set the count back.
OvershootBounded ==
  /\ importsUsed + Cardinality(InFlight({"importRun"}))
       < ImportLimit + Cardinality(Tasks)
  /\ llmCallsUsed + Cardinality(InFlight({"hintQueue", "hintStream"}))
       < MaxLLMCalls + Cardinality(Tasks)
  /\ hintsUsed + Cardinality(InFlight(HintPcs)) <= hintLimit + Cardinality(Tasks)

\* What each limit of the room lets through, however its handlers race.
LimitsBounded == CustomTestCasesBounded /\ OvershootBounded

\* A pending hint request a partner was asked about has its own timeout, and no timeout
\* of an earlier request (one dropped by Room.switchProblem, which leaves its timer
\* running) is still armed to cut it short.  A request nobody was asked about, set by a
\* socket that holds all connected users, has none of its own.
ConsentTimerExact ==
  /\ armedTimers \subseteq {consentTimer}
  /\ pendingHintRequest.asked =>
       consentTimer = pendingHintRequest.id /\ consentTimer \in armedTimers

\* A hint request never outlives the connection of the user who made it.
RequesterConnected ==
  pendingHintRequest # NoRequest => pendingHintRequest.by \in connected

\* A hint request a partner was asked about is answered, dropped or timed out, whatever
\* becomes of the partner.
RequestResolved ==
  \A n \in 1..MaxRequests :
    pendingHintRequest.id = n /\ pendingHintRequest.asked ~> pendingHintRequest.id # n

\* The lock of the room, as ExecutionLock promises it: executions follow each other,
\* each is charged once if the daily quota was reserved for it and never otherwise,
\* and each ends with the release of the room, whatever path its handler takes.
Lock == INSTANCE ExecutionLock WITH
  Limit <- SubmissionLimit, locked <- executionInProgress, due <- Reserved # {},
  used <- submissionsUsed

ImplementsExecutionLock == Lock!FairLockSpec

-----------------------------------------------------------------------------
(* What the repository says of the room and the code does not keep.        *)

\* "Cannot switch problems while code is running." and "Cannot switch problems
\* while a hint is being delivered." (apps/server/src/models/Room.ts:158 and 161)
NoSwitchWhileBusy == [][problemId' # problemId => CanSwitchProblem]_vars

\* "Cleared on approve, deny, timeout, or requester disconnect."
\* (apps/server/src/handlers/hintHandler.ts:69)
EveryRequestHasTimer == pendingHintRequest # NoRequest => consentTimer \in armedTimers

\* "rejects hint request when hints are exhausted"
\* (apps/server/src/__tests__/integration/hintHandler.test.ts:129)
HintsWithinLimit == hintsUsed <= hintLimit

\* "rejects import when the room import limit is exhausted"
\* (apps/server/src/__tests__/integration/problemHandler.test.ts:509)
ImportsWithinLimit == importsUsed <= ImportLimit
=============================================================================
