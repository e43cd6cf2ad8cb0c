# CodeShare: a TLA+ verification of the room server

CodeShare is a pair-programming and interview platform.  Two people meet in a
room, edit one document over Yjs, pick or import a problem, run their code on
Judge0, and ask for hints.  The Node server keeps every live room in memory and
is a single-threaded event loop: the code between two `await`s is atomic, and
everything else (another event, a timer, the close of a socket, the answer to a
query) may happen at an `await`.  This project models that concurrency from the
code, checks it with TLC on small instances, and proves its safety properties (those
of grading excepted) with TLAPS for every instance.  The pure
parts (which cases run, how answers are graded, what the curated problems expect)
are checked against what the descriptions of the problems say.

Paths below are relative to `src/`; `S` stands for `apps/server/src`, `C` for
`apps/client/src`, `D` for `packages/db/src`.

## 1. Inventory

| Component | Source | State | Operations | Hard part |
|---|---|---|---|---|
| Room, RoomManager | `S/models` | users, sockets, roles, reconnect tokens, grace timers, Yjs token, problem, counters, flags | add, remove, reconnect, canExecute, canSwitchProblem, switchProblem, destroy, idle sweep | timers racing returns; a registry entry that goes away under a handler |
| Join and disconnect | `S/handlers/roomHandlerCore.ts`, `roomDisconnectHandler.ts` | handlers in flight | user:join, disconnect, grace expiry | two awaits in a join; the socket closes meanwhile |
| Event authorisation | `S/middleware/authMiddleware.ts` | none | tests in front of each event | its answer is stale after the handler's first await |
| Problems | `S/handlers/problemHandler.ts` | `problemId`, `importsUsed` | select, import | check before the await, write after it |
| Execution | `S/handlers/executionHandler.ts` | `executionInProgress`, `submissionsUsed` | run, submit | a lock held over many awaits with many failing exits |
| Hints | `S/handlers/hintHandler.ts` | `pendingHintRequest`, consent timers, `hintsUsed`, `llmCallsUsed`, `hintStreaming` | request, approve, deny, timeout, deliver | consent races a timer, a switch and a disconnect |
| Test cases, solution | `S/handlers/testcaseHandler.ts`, `solutionHandler.ts` | `customTestCases` | add; reveal (reads only) | the limit over an await |
| Operation limiter | `S/lib/operationLimiter.ts` | `active`, `queue` | run, settle, drain | slots lost or given twice |
| Circuit breaker | `S/lib/circuitBreaker.ts` | state, failures, timer | execute, half-open, reset | results that arrive in a later state |
| Reliability store | `S/lib/reliabilityStore.ts`, `rateLimitCounters.ts`, `ipRateLimiter.ts` | fixed windows, daily counters, in memory or in Redis | consume, reserve, snapshot | a call counted after its window ended; lost replies; restarts |
| Yjs server | `S/ws/yjs*.ts` | documents, their connections, two intervals each | connect, admit, message, ping, revalidate, close, destroy | every message awaits an access check; the room goes meanwhile |
| Socket gateway | `S/ws/socketio.ts` | the session of each socket | handshake, event, revalidation, disconnect | access that ends between a check and what it let through |
| Private access | `S/services/AccessService.ts`, `S/routes/access.ts`, `D/repositories/accessRepository.ts`, `C/components/AccessGate.tsx` | invites, sessions, cookies, the gate of a tab | create and revoke invites, login, logout, expire | logins that race for the last session; lost replies |
| Import pipeline | `S/services/ScraperService.ts`, `TestCaseGeneratorService.ts`, `D/seeds/seed.ts` | rows of a problem | import, seed, roll back, restore, generate | rows written one by one outside a transaction |
| Grading, harness | `S/services/ExecutionService.ts`, `pythonHarness.ts` | none | load, run, grade, report | one failing child of many; equality of answers |
| Curated problems | `D/seeds/data` | the catalogue | none | 150 problems of about eight cases, written by hand |
| Client room state | `C/reducers/roomReducer.ts`, `C/providers` | the client's copy of the room | reducer cases, join, rejoin | hydrations that overlap events; messages lost with a connection |
| External clients | `S/clients` | none | Judge0, Groq | timeouts |
| Shutdown | `S/lib/gracefulShutdown.ts`, `S/index.ts` | stages | drain, close, force | a step that does not end |

How they interact.  A Socket.io event passes the gateway's access check and the
authorisation middleware and reaches a handler, which looks the room up in
RoomManager, changes it between awaits, and broadcasts to the Socket.io room of
that code; clients fold what they receive into a copy.  Calls to Judge0, Groq and
LeetCode go through an OperationLimiter, a daily quota of the reliability store
and, inside the Judge0 and Groq clients, a CircuitBreaker.  A Yjs connection is
admitted with the room's Yjs token, which rotates when a user is removed.
Destroying a room destroys its Yjs document; loading a problem replaces its text.

What can go wrong where is listed under `hazards` in `PROJECT.json`, with the
properties that would catch it.

## 2. Modules

| Module | Composes | Models |
|---|---|---|
| `RoomMembership` | | one room, its connections, joins in flight, timers |
| `RoomSession` | implements `ExecutionLock` | problem, executions, hints, test cases of a room |
| `ExecutionLock` | | the abstract lock |
| `OperationLimiter`, `CircuitBreaker` | | the guards of an external dependency |
| `GuardedCalls` | `OperationLimiter` inside the path of `CircuitBreaker` | the whole path of a call |
| `ReliabilityStore` | implements `WindowedQuota` | rate-limit windows and daily quotas |
| `WindowedQuota` | | the abstract quota |
| `YjsServer` | documents, connections, room, shutdown | the shared document |
| `AccessSessions` | database, gate of the tab, Socket.io socket | private access |
| `ProblemCatalogue` | imports, seed, generations | the rows of a problem |
| `Grading` | handler, harness, Judge0, grader | from code to result |
| `Fixtures`, `Fixtures*` | used by `MCGrading` | the curated problems |
| `RoomClient` | client and the handlers that send to it | the copy of the room |

Modules whose names begin with `MC` give constants their values for TLC; modules
that end in `Proofs` hold the theorems of the modules they extend (ExecutionProofs those
of CircuitBreaker, GuardedCalls and Grading).

### RoomMembership

`handleUserJoin` is split at its awaits: `UserJoin` (up to the rate limiter), then
one of `JoinRateLimited`, `JoinReconnects`, `JoinRoomFull`, `JoinAdds`, then
`HydrationDone` if a problem is active.  A repeated join of a socket that has a
user is `UserJoinAgain`.  `Disconnect` is the close of a socket with the whole room
disconnect handler, `GraceExpires` is `removeDisconnectedUser`, `BecomeIdle` and
`DestroyIdleRooms` are the TTL and the periodic sweep.  `RoomActivity` and
`BroadcastRoomSync` are what the other handlers do to the state kept here.

What a client has been told is kept as `view` (the users it shows as connected) and
`yjsKnown` (the newest Yjs token it has).  Socket.io delivers the messages to one
socket in order, so the model records them when they are emitted; a message to a
closed socket is lost.  A handler that returns from an `await` on a promise already
resolved yields for a microtask only, and the model merges those yields with the
step before: between `tryReconnectUser` returning false and `isFull` nothing is
written.

### RoomSession and ExecutionLock

The work of the members of a live room.  Each handler is a task with a program
counter; the middleware's tests are guards of the action that starts the task.
Of the connections the module keeps `host`, the user the handlers find for the socket of
a user: the user itself after `Join`, another one after `JoinShared` (two joins of one
socket that raced for the limiter), nobody after `JoinLate` (the socket closed under the
join).  Only users with `Speaks` send events, and a disconnect is that of the user found.
Execution: `CodeRun`, `ExecutionStarts` (takes the lock), `ExecutionQueues`,
`ExecutionSubmits` (reserves the submission), `ExecutionEnds` (the `finally` block,
from any of these points).  Problems: `ProblemSelect`/`SelectLoads`,
`ProblemImport`/`ImportRuns`/`ImportLoads`.  Hints: `HintRequestAlone`,
`HintRequestPending` (a partner is asked, the consent timer starts), `HintRequestUnasked`
(nobody has another socket, and the handler returns before the timer), `HintApprove`,
`HintDeny`, `ConsentTimeout`, then `HintStored` or `HintFallsBack`, `HintStreams`,
`HintStreamEnds`.  Test cases: `TestcaseAdd`, `TestcasePushed`.  `Rejected` is any exit
of a handler that has written nothing.

`consentTimer` is the entry of the map `consentTimers`, `armedTimers` what is really
armed in the runtime; only the pair can show a leaked timer.  A hint request carries
a number, so that a timer of an older request can be told apart, and whether a partner
was asked: `ConsentTimerExact` and `RequestResolved` promise a timer and an end to those
that were.  Limits of the whole server are a choice between passing and `Rejected`.

`ExecutionLock` says what a room promises of running code: one execution at a time,
none when the submissions are spent, a submission charged exactly if the daily quota
was reserved for it and only at the release, and a release in the end.
`ImplementsExecutionLock` maps `locked` to `executionInProgress`, `due` to whether an
execution in flight has reserved, and `used` to `submissionsUsed`.

`LimitsBounded` says what the other limits of the room let through.  That of custom test
cases is tested again after the await and holds.  Those of imports, LLM calls and hints
are tested before the awaits and counted after them, so handlers that race pass the same
test; the excess is bounded by the handlers in flight.

### OperationLimiter, CircuitBreaker and GuardedCalls

`Settle` includes the drain loop of the `finally` block.  In the breaker a call is
admitted in one state and reports in another; `armed` is the runtime's view of the
timer that `resetTimer` holds.  `GuardedCalls` composes the two the way the
handlers do: a call waits for a slot, reserves the quota, asks the breaker, and
whatever stops it settles it in the same step.  `reset()` is called by tests only;
it is in the model because the breaker exports it.

### ReliabilityStore

One fixed-window counter and one daily counter, in memory or in Redis (`kind`).
`MemoryConsume` and `MemoryReserve` are the memory store.  A call to Redis is
`RedisSend` (clock read, key made), then `RedisEval` (`RESERVE_SCRIPT` and the
reply), `RedisReplyLost` (counted, and the caller gets an error) or `RedisFails`;
time passes between them.  `Tick` advances the clock and expires keys; `Restart`
empties the memory and cuts off the waiting callers, whose commands may still be
counted.  `life` separates what a memory store granted before and after a restart.

`WindowedQuota` says what either store promises: a call is answered once and for one
window; it is granted only while fewer calls than the limit have spent a unit of that
window, a lost answer included; it is rejected only when that many have.  A call that
Redis counts after the time for which its key is sure to live may be granted beyond the
limit, and after it no other call of that window is granted in time.
`ImplementsQuota` maps the answer of a call to what `call` records of it, and a window
to the operation, the start of the window and the life of the store that counted.

### YjsServer

A websocket is accepted, and its handler awaits the access check (`Refuse`,
`Admit`); only then are listeners attached.  Until then a message meets nobody
(`Unheard`).  Each message of a served connection awaits a check of its own
(`DenyMessage`, `Apply`, `RejectMessage`), so messages may be applied out of order
and after their connection or document is gone.  `PingTick`, `PongLate` and
`AccessTick` are the intervals; `CloseEvent` and `Vanish` end a websocket with and
without notice.  `LoadProblem` is the change of the document by the problem handler.
`Shutdown`, `HttpClosed`, `IoClosed`, `WssClosed`, `PoolClosed`, `StoreClosed`,
`ForceExit` are the stages of `executeShutdown` and its timer.

A document is the set of edits it has merged, since Yjs merges are idempotent and
commute; any document with edits may be found too large.  The client is that of
`load-tests/src/lib/yjs-client.ts`, the only one whose code is in the repository; the
browser uses the third-party `y-websocket`, which keeps to the same messages.

### AccessSessions

`accessRepository.createSession` is a transaction of three steps under the row lock
of the invite (`LoginLocks`, `LoginCounts`, `LoginCommits`).  Every check takes the
time when it begins and reads rows when it ends (`EventArrives`/`EventAllowed`); the
handshake awaits its rate limiter after its check (`HandshakeValidated`,
`Connected`).  Every query may fail, and `LoginFails` after the commit is the lost
reply.  The gate of the client (`AccessGate.tsx`) is part of the model because it
decides when a tab logs in, connects and locks.

### ProblemCatalogue

The rows of one slug.  `Writes(w)` lists the child rows of an import or a fixture in
the order of the code; `WriteChild` inserts the next one, with its answer or without;
`WriteFails` and `Rollback` are the catch block.  `ServerCrashes` and `SeedDies` end
writers where they are, and `severed` records when that, a failed rollback or a lost
answer left a row with nobody to finish it.  A generation counts, asks the model,
looks up a place and inserts (`CountHidden`, `Place`, `CreateMany`), with the one
retry of the service.

### Grading and the fixtures

`Grading` follows an execution: the cases it loads, the preflight, a child process
per case, the payload, Judge0's answer, the verdict.  Values are abstracted to their
comparison with the expected one.  What correct code may answer depends on the form
of the problem: the harness passes the JSON values of a fixture to the method and
serialises what it returns, so problems of list or tree nodes, of classes, or that
change their argument in place behave differently from problems of plain values.

Each definition of the `Fixtures*` modules is one curated problem of
`D/seeds/data`: its cases and, as an operator, what its description asks for.  Of a
case four facts are used: whether it is visible, whether its input has a literal of JSON
that is no name of Python (null, true, false), whether its expected output is one the
description accepts, and whether it accepts several.  Several are accepted where the
description fixes no order, says so or not: the outer one (`AnyOrder`, for instance
`generate-parentheses`) or that within the lists of the answer too (`AnyOrders`, for
instance `3sum`); and in single cases that break a guarantee of their description that
the answer is unique (`AnyOf`, for instance two of `gas-station`).  `PlainSolutionsPass`
speaks of the problems none of whose cases accepts several.  137 of the 150 problems
are there.  Left out are the problems whose method is a class of several operations
(all but `kth-largest-element-in-a-stream`), `copy-list-with-random-pointer`,
`serialize-and-deserialize-binary-tree`, `powx-n` (floating point), `reverse-bits`
and `reverse-integer` (machine words).

`KnownWrong` in `MCGrading` names five problems with a case whose expected output is
not what the description asks for: `combination-sum` (case 6), `n-queens` (cases 7
and 8), `swim-in-rising-water` (case 7), `target-sum` (case 7) and `burst-balloons`
(case 7).  The `grading` run leaves them out; with them `PassedIsAccepted` is
violated, which is how they were found.

### RoomClient

The reducer of the client, the messages on the way to it, and the parts of the
handlers that send them.  `HandleJoin` emits ROOM_SYNC, `Hydrate` the PROBLEM_LOADED
that waited for the database, `Break` loses what is on the way, `HintRequestRejected` is
the HINT_ERROR that answers a request at once.  The state is what
the messages can contradict: the problem, the number of hints and custom cases, the
pending request, the two flags, and whether the partner is shown.

### Mutants

Definitions whose comment begins with "Mutant" are variants of the definition that
follows them, each with one plausible programming error.  No specification uses them;
replacing the definition by its variant makes TLC report the property listed with it
in `PROJECT.json`, which shows that the property depends on that piece of code.

## 3. Runs

| Run | Properties | Bounds |
|---|---|---|
| `membership` | `SlotsBounded`, `GraceTimersExact`, `YjsTokenWithMembers`, `PresenceComplete`, `GraceResolves`, `AbandonedRoomGoes` | collaboration room, 2 slots, 3 sockets, 2 joins in flight, 3 users over time, 2 tokens per user |
| `session` | `ExecutionExclusive`, `LimitsBounded`, `ConsentTimerExact`, `RequesterConnected`, `RequestResolved`, `ImplementsExecutionLock` | 2 users, 1 problem that may be selected again, 2 handlers in flight, 2 consent requests, 1 submission, 1 import, 1 LLM call, 1 hint, 1 custom case |
| `guarded_calls` | `CountsExact`, `TimerExact`, `ClosedBelowThreshold`, `NoOvertaking`, `AcceptedSettles`, `OpenOnlyTimesOut`, `OpenEnds` | 5 calls, 2 slots, queue of 2, threshold 2, 3 openings |
| `store` | `QuotaPerWindow`, `ImplementsQuota`, `HasQuotaExact`, `BurstBounded` | both stores, 3 calls, windows of 3 and days of 4 units, limits 1 and 2, time to 6, 1 restart |
| `yjs` | `DocLifetime`, `DeadConnsReaped`, `RevokedDisconnected`, `AnsweredClientsShare` | 2 websockets, both type, 1 change |
| `access` | `SessionsBounded`, `MembersHadAccess`, `EndedSessionsDisconnected` | 2 tabs of one browser, 1 invite with 1 session, 2 rows, lifetime 1, time to 2 |
| `catalogue` | `PartialRowsOwned`, `TestsInOrder`, `RollbackOwnRow` | 2 imports and the seed, 2 visible cases, 2 generated, 2 rows ever |
| `grading` | `ResultMatchesAnswers`, `HiddenStayHidden`, `PassedIsAccepted`, `PlainSolutionsPass` | the curated problems but `KnownWrong`, 0 or 1 custom case, 2 surprising answers in an execution |
| `client` | `NotStuckExecuting`, `NothingInvented`, `PeerShown` | 1 problem, 1 hint, 1 custom case, 3 messages on the way |
| `closed_sockets` | `ClosedSocketsReleased` is violated | 2 sockets, 1 join in flight |
| `clients_share` | `ClientsShare` is violated | 2 websockets, one types |
| `correct_solutions` | `CorrectSolutionsPass` is violated | Two Sum and Invert Binary Tree |

Why the bounds are enough.  A race needs two handlers, so two tasks; the third socket
lets a returning or a new user meet a room whose two slots are taken or held by a
grace period, and three user ids let a room be emptied and entered again.  Two tokens
per user allow a reconnect with a fresh and with an old one.  Two consent requests
let one follow another that a problem switch dropped, with the old timer still
possible, and two users suffice to share a socket, or to have one closed under a join.
One submission is its own limit: the second handler that passes the first test meets it
at the second.  Five calls overflow two slots and a queue of two, open a breaker of
threshold two, and leave calls to report in each later state.  Three calls exceed
both limits of the store, and time 6 lets a call of the first day be counted in the
second, on either side of two fixed windows.  Two websockets let a document be
written by one and read by the other, before and after either joins; an edit that is
merged twice is merged once, so one change shows loss and order.  Two tabs of one
browser share a cookie and race for one session of an invite; time 2 lets a session
expire and another follow.  Two imports and the seed race for a slug in every order,
and the second row id lets one be deleted and made again.  Two surprising answers tell
the first failing case from another.  Three messages are a whole hydration behind an
event.  Where a theorem exists, the bounds do not matter for it.

The systems really may stop (sockets are never reused, calls are finite, users
leave), so most runs do not check for deadlock; the liveness properties say what must
still happen.  `grading` and `client` never stop, and check it.

What the violated runs show.  Each checks a statement of the repository, quoted at the
finding, against what the code does:

- `ClosedSocketsReleased`: the socket closes while the join waits; the join then adds
  a user that is connected for ever, and neither a grace timer nor the idle sweep
  (which spares rooms with connected users) removes it.
- `ClientsShare`: with the access service configured, a message that arrives before
  the check of its connection is answered finds no listener.  The sync step 1 of the
  client is lost, and it stays connected with an empty document.
  `AnsweredClientsShare` is what remains true.
- `CorrectSolutionsPass`: the description of Two Sum accepts its indices in any order;
  the grader compares with one list.  `PlainSolutionsPass` is what remains true.

### Statements the code does not keep, without a run of their own

These definitions are in the modules; adding one to the `.cfg` named here makes TLC
show the behaviour.  How far the limits of a room are passed is bounded: see
`LimitsBounded`.

| Definition | Add to | Statement | What happens |
|---|---|---|---|
| `JoinIdempotent` (RoomMembership) | `RoomMembership.cfg`, INVARIANT | "treats repeated user:join from the same socket as idempotent" (`S/__tests__/integration/roomHandler.test.ts:161`) | two joins of one socket that both wait for the rate limiter add two users |
| `NoSwitchWhileBusy` (RoomSession) | `RoomSession.cfg`, PROPERTY, with a second problem in `MCProblems` | "Cannot switch problems while code is running." (`S/models/Room.ts:158`) | the test is made by the middleware, before the database is read, and not again |
| `EveryRequestHasTimer` (RoomSession) | `RoomSession.cfg`, INVARIANT | "Cleared on approve, deny, timeout, or requester disconnect." (`S/handlers/hintHandler.ts:69`) | with all connected users on the requester's socket, `sendPendingHintRequest` returns at line 216 before the timer starts; the request stays until somebody else joins and answers, the problem is switched, the socket closes, or a timer left over from an earlier request fires |
| `HintsWithinLimit` (RoomSession) | `RoomSession.cfg`, INVARIANT | "rejects hint request when hints are exhausted" (`S/__tests__/integration/hintHandler.test.ts:129`) | the limit is tested at the request and counted at the delivery |
| `ImportsWithinLimit` (RoomSession) | `RoomSession.cfg`, INVARIANT | "rejects import when the room import limit is exhausted" (`S/__tests__/integration/problemHandler.test.ts:509`) | the limit is tested before the awaits and counted after them |
| `StreamingEnds` (RoomClient) | `RoomClient.cfg`, INVARIANT | HINT_ERROR is declared "S -> A" (`packages/shared/src/events.ts:34`) | it goes to one socket, the chunks went to the room |

## 4. Fairness

`WF` is assumed of timers and of handlers whose call must settle, and of nothing a
user does.  Grace and consent timeouts are `setTimeout`s; the idle sweep, the ping and
the access checks of an open connection are `setInterval`s.  Database and store calls
settle or fail; Judge0 calls carry an `AbortController` timeout and Groq calls an
`AbortSignal.timeout`, so a waiting execution or stream ends; the limiter starts what
it queued because running work settles.  `JoinReconnects` and `JoinAdds` carry the
model's bounds on tokens and ids, but a join may always end as `JoinRateLimited`, so a
bound never forces a handler to hang.  In YjsServer a closing websocket is closed by
its handshake or the timeout of `ws`, and messages between live ends arrive; of the
stages of a shutdown only the force timer is fair, since `httpServer.close` waits for
upgraded sockets that nobody closes before it.  In AccessSessions only the access
interval and the disconnect that is due are fair.

## 5. Proofs

A proof module follows one scheme: an inductive invariant that is stronger than the
properties, one lemma for the initial state, one per action or group of actions, and
theorems that conclude `Spec => []P`.  Each needs only the named assumption on the
constants of its module.

- *RoomMembershipProofs*, from `ConstantsAssumption`.  `MembershipInv` is the type
  invariant, `SlotsBounded`, `OneInterviewer` and `GraceTimersExact` with
  `IdsAllocated` (ids in use are below `nextId` and `users` is finite), without which
  a new id could collide with an old user or a cardinality grow by more than one.
  `PresenceInv` adds how sockets, links and the Socket.io room relate
  (`SocketsConsistent`), that no client knows a token of the future (`TokensKnown`),
  and that a hydrating handler stands for a real user (`HydratingOwnUser`); from it
  follow `YjsTokenWithMembers` and `PresenceComplete`.
- *RoomSessionProofs*, from `ConstantsAssumption` and, for `LimitsBounded`,
  `TasksAssumption` (finitely many handlers in flight).  `ExecutionInv` pairs
  `ExecutionExclusive` with `RunningHasRoom` (while an execution runs, one submission is
  still free), because `SubmissionsBounded` counts the one in flight.  `ConsentInv` ties
  the pending request, the map entry and the armed timers together, for requests with
  and without a timer of their own.  `CapturedProblem`
  says a waiting test case has a problem.  `LockImplemented` states `Spec =>
  Lock!LockSpec`: with `ExecutionInv`, `LockStep` maps every step to an acquisition, a
  reservation, a release or a stutter of ExecutionLock.  `LimitsInv` adds to
  `OvershootBounded` that a pending request leaves room for the delivery its consent
  starts without a test.
- *ExecutionProofs*, on the way to Judge0, from `ThresholdAssumption` and `OptionsAssumption`.
  `BreakerInv` relates the timer variable, the armed timeouts and the numbers already
  used.  `PathImplementsBreaker` and `PathImplementsLimiter` say that on the path of the
  calls each part behaves as its own specification, so what holds of the breaker alone
  holds behind the limiter (`PathTimerExact` and the two after it).  For the other
  direction `LimiterInv` says that the queue has every waiting call once and nothing
  unless all slots are taken; with `CallsHaveSlots` (what the breaker has admitted holds a
  slot) it gives `CountsExact` and `NoOvertaking`.
- *ExecutionProofs*, on the grading, from `CasesAssumption` (cases have the form of a row,
  custom ones are visible).  `GradingInv` says what the children may have answered so far,
  that Judge0's answer is an error or the payload of all loaded cases, and that the reply
  is the verdict on it.  `PayloadFacts` shows that such a payload passes
  `hasExactCaseIndexes` and that the entry found for a case is its own; so
  `PayloadsGraded`, `ResultMatchesAnswers` and `HiddenStayHidden`.  That a run loads the
  visible cases only, and all of them, is an induction over the cases:
  `NatLessThanWellFounded` gives `LeastElement` and `SetInduction` for sets in place of
  predicates, with which `FoundExists` and `FoundIsVisible` follow the recursion of
  `findVisible`.  `PlainSolutionsPass` assumes `RightFixtures`, that every expected output
  is one the description accepts.  `PassedIsAccepted` shows it of the curated problems,
  since code that is not correct may answer any case of a submission as expected.
- *ReliabilityStoreProofs*, from `LimitsAssumption`.  `StoreInv` ties every counter to
  the calls it granted: exactly in the memory store; in Redis from below as far as the
  limit, because the script counts the calls it rejects too, and from above until the
  end of the time for which the key is sure to live.  `WindowsApart` (windows of granted
  calls are a length apart) is what `BurstBounded` needs beside `QuotaPerWindow`.
  `QuotaImplemented` is the refinement.  The lemma of each step that answers a call also
  shows what that answer promises (`Promised`, of the state before); `QuotaInv` adds that
  no answer is from the future, so that `PromiseIsStep` makes it a step of the quota.
- *YjsServerProofs*, from `YjsAssumption`.  `DocLifetime` is not inductive: that
  destroying a document leaves no open connection to it needs `OpenConnsKnown` (every
  open connection of the live document is in `doc.conns`), `OnlyLiveDoc` and
  `NoRoomAfterReset`.
- *AccessSessionsProofs*, from `AccessAssumption`.  `SessionsBounded` rests on
  `LockExact` (the row lock is held by exactly the login that counts or inserts) and
  `CountStands` (what a login counted is still true when it inserts, since other
  sessions only end).  `LateStaysInvalid` says that an event sent after its session
  ended cannot be found valid later, from which the action property `MembersHadAccess`
  follows.
- *ProblemCatalogueProofs*, from `CatalogueAssumption`.  `CatalogueInv` says that the
  writer at work on the row there is has created it, and that the child rows are as many
  as its `Progress`; and that a generation at the insert took a place within reach.
  `PartialRowsOwned`, `TestsInOrder` and the action property `RollbackOwnRow` follow.
- *RoomClientProofs*, from `NoneIsNoProblem`.  The properties speak of a browser with
  nothing on the way, so the invariant says what it *will* show: some path of states, one
  per message, leads from its state by the reducer to a state with the property
  (`WillShow`).  A message that is sent extends the path, one that is handled shortens
  it.  The path is a function whose existence is asserted, not a fold, so the proof needs
  no induction over the messages.

`SubmissionsBounded`, `RejectedWhenSpent`, `OneInterviewer`, `CustomTestCasesBounded`,
`OpenConnsKnown`, `LockExact`, the two implementations in ExecutionProofs,
`PayloadsGraded`, and the type invariants are proved and not checked by a run.  Modules
with variables of their own (the abstract ExecutionLock and WindowedQuota apart) have a
`TypeOK`, which no run lists; TLC finds each of them true under the `.cfg` of its
module.  Where the proofs need a type without the bounds of the runs, it is a definition
of the proof module.

Only model-checked:

- The liveness properties: `GraceResolves`, `AbandonedRoomGoes`, `RequestResolved`, the
  last conjunct of the lock, `AcceptedSettles`, `OpenEnds`, `DeadConnsReaped`,
  `RevokedDisconnected`, `AnsweredClientsShare` and `EndedSessionsDisconnected`.  They
  rest on fairness, which TLAPS does not handle here.
- `PassedIsAccepted`.  It is about the data, 137 problems and what their descriptions ask
  for, which TLC computes with recursive operators; assuming the fixtures right, as
  `PlainSolutionsPass` does, would assume it.

## 6. Not modelled

- Rendering and layout of the client, the editor, logging, and the wording of
  messages: no state the properties are about.
- The third-party code (Socket.io, `ws`, Yjs, Fastify, PostgreSQL, Redis): modelled as
  far as the code relies on it and marked external in the map.
- Descriptions, hints and reference solutions of the curated problems, which are
  texts, and the 13 problems named above.
- HTTP routes that only read; schemas, types and constants of `packages/shared`;
  migrations.
- Parsing of LeetCode pages and of what the language model generates: a choice between
  usable and not.
- Load tests and end-to-end tests, but for the Yjs client above.
- That a client shows the newest problem.  A hydration that read the problem before a
  switch and answers after it sends the older one last; the behaviour is in RoomClient
  (`HandleJoin`, `SwitchProblem`, `Hydrate`), and no statement of the repository is about
  it.
- That a room shows its boilerplate at all.  A problem loaded while nobody has the
  document open writes its text nowhere; no statement of the repository decides what
  should happen.

## 7. Plan

1. RoomMembership and RoomSession over one room, so that a join in the middle of an
   execution is one behaviour; the theorems of both then hold of the composition by the
   argument of ExecutionProofs.
