-------------------------- MODULE ReliabilityStore --------------------------
(***************************************************************************)
(* The counters behind every rate limit and daily quota: one fixed-window  *)
(* counter (a bucket and a client address) and one daily counter (Judge0,  *)
(* imports or LLM calls), kept in process memory or in Redis.              *)
(*                                                                         *)
(* The memory store reads the clock and counts in one step.  A call to the *)
(* Redis store reads the clock, derives the key of its window from it, and *)
(* the script that counts runs some time later, after the window has ended *)
(* perhaps, or never; its reply may be lost.  Redis survives a restart of  *)
(* the server and drops a key when its time to live is over.               *)
(*                                                                         *)
(* Time is counted in units of which a window and a day are multiples;     *)
(* retryAfterSeconds is the time at which the caller is told to come back. *)
(***************************************************************************)
EXTENDS Naturals, FiniteSets

CONSTANTS
  Calls,        \* calls of consumeFixedWindow and reserveDailyQuota
  Window,       \* options.windowMs
  Day,          \* 86_400_000
  FixedLimit,   \* options.limit of the fixed window
  DailyLimit,   \* options.limit of the daily quota
  MaxTime,      \* bound: when the model's clock stops
  MaxRestarts   \* bound: how often the server restarts

\* The limits and windows of config.ts are positive.
ASSUME LimitsAssumption ==
  /\ Window \in Nat \ {0}
  /\ Day \in Nat \ {0}
  /\ FixedLimit \in Nat \ {0}
  /\ DailyLimit \in Nat \ {0}
  /\ MaxTime \in Nat
  /\ MaxRestarts \in Nat

VARIABLES
  kind,           \* "memory" or "redis"
  now,            \* the clock
  restarts,       \* restarts so far
  fixedWindow,    \* the entry of MemoryReliabilityStore.fixedWindows
  dailyCounters,  \* MemoryReliabilityStore.dailyCounters, by the start of the day
  keys,           \* the Redis keys: counter and expiry, by kind of window and start
  call            \* what became of each call

vars == <<kind, now, restarts, fixedWindow, dailyCounters, keys, call>>

Ops == {"fixed", "daily"}
Length(op) == IF op = "fixed" THEN Window ELSE Day
Limit(op) == IF op = "fixed" THEN FixedLimit ELSE DailyLimit
Times == 0..MaxTime

-----------------------------------------------------------------------------
\* Mutant: the window is not rounded down.
WindowStartUnaligned(op, t) == IF op = "fixed" THEN t ELSE t - (t % Day)

\* The start of the clock-aligned window, or of the UTC day, that t is in.
WindowStart(op, t) == (t \div Length(op)) * Length(op)

\* Mutant: a daily key goes at the end of its day.
TtlWithinDay(op, t) == WindowStart(op, t) + Length(op) - t

\* Time to live of a key first counted by a call that read the clock at t: to the
\* end of its window, and a day longer for a daily key.
Ttl(op, t) ==
  WindowStart(op, t) + Length(op) - t + (IF op = "daily" THEN Day ELSE 0)

\* Mutant: the last call of the quota is refused.
SpentEarly(op, count) == count + 1 >= Limit(op)

\* Whether the counter leaves nothing for one more call.
Spent(op, count) == count >= Limit(op)

NoWindow == [count |-> 0, resetAt |-> 0]
NoKey == [count |-> 0, expiresAt |-> 0]
NewCall == [op |-> "fixed", status |-> "new", at |-> 0, win |-> 0, done |-> 0,
            retryAt |-> 0, life |-> 0]

\* The memory store lives as long as the process.
Life == IF kind = "memory" THEN restarts ELSE 0

\* The answer to call c, which is counted in the window from win on.
Answer(c, op, status, win, retryAt) ==
  call' = [call EXCEPT ![c] = [op |-> op, status |-> status,
             at |-> 0, win |-> win, done |-> now, retryAt |-> retryAt, life |-> Life]]

Init ==
  /\ kind \in {"memory", "redis"}
  /\ now = 0
  /\ restarts = 0
  /\ fixedWindow = NoWindow
  /\ dailyCounters = [d \in Times |-> 0]
  /\ keys = [k \in Ops \X Times |-> NoKey]
  /\ call = [c \in Calls |-> NewCall]

-----------------------------------------------------------------------------
(* MemoryReliabilityStore.                                                 *)

OpenWindow == [count |-> 1, resetAt |-> now + Window]

\* A window begins with the first call after the end of the last one.
MemoryConsume(c) ==
  /\ kind = "memory"
  /\ call[c].status = "new"
  /\ \/ /\ fixedWindow.resetAt <= now
        /\ fixedWindow' = OpenWindow
        /\ Answer(c, "fixed", "allowed", now, 0)
     \/ /\ fixedWindow.resetAt > now
        /\ Spent("fixed", fixedWindow.count)
        /\ Answer(c, "fixed", "rejected", fixedWindow.resetAt - Window, fixedWindow.resetAt)
        /\ UNCHANGED fixedWindow
     \/ /\ fixedWindow.resetAt > now
        /\ ~Spent("fixed", fixedWindow.count)
        /\ fixedWindow' = [fixedWindow EXCEPT !.count = @ + 1]
        /\ Answer(c, "fixed", "allowed", fixedWindow.resetAt - Window, 0)
  /\ UNCHANGED <<kind, now, restarts, dailyCounters, keys>>

\* Mutant: nextUsed is returned and not stored.
MemoryReserveUncounted(c) ==
  /\ kind = "memory"
  /\ call[c].status = "new"
  /\ ~Spent("daily", dailyCounters[WindowStart("daily", now)])
  /\ Answer(c, "daily", "allowed", WindowStart("daily", now), 0)
  /\ UNCHANGED <<kind, now, restarts, fixedWindow, dailyCounters, keys>>

MemoryReserve(c) ==
  /\ kind = "memory"
  /\ call[c].status = "new"
  /\ LET day == WindowStart("daily", now) IN
     \/ /\ Spent("daily", dailyCounters[day])
        /\ Answer(c, "daily", "rejected", day, day + Day)
        /\ UNCHANGED dailyCounters
     \/ /\ ~Spent("daily", dailyCounters[day])
        /\ dailyCounters' = [dailyCounters EXCEPT ![day] = @ + 1]
        /\ Answer(c, "daily", "allowed", day, 0)
  /\ UNCHANGED <<kind, now, restarts, fixedWindow, keys>>

-----------------------------------------------------------------------------
(* RedisReliabilityStore.                                                  *)

\* The clock is read, the key is made and the command is sent.
RedisSend(c, op) ==
  /\ kind = "redis"
  /\ call[c].status = "new"
  /\ call' = [call EXCEPT ![c].op = op, ![c].status = "sent", ![c].at = now,
                          ![c].win = WindowStart(op, now)]
  /\ UNCHANGED <<kind, now, restarts, fixedWindow, dailyCounters, keys>>

\* RESERVE_SCRIPT: the counter goes up whether or not the call is allowed, and the
\* expiry is set by the call that creates the key.
ReserveScript(op, at) ==
  LET k == <<op, WindowStart(op, at)>> IN
  keys' = [keys EXCEPT ![k] =
             [count |-> @.count + 1,
              expiresAt |-> IF @.count = 0 THEN now + Ttl(op, at) ELSE @.expiresAt]]

RedisEval(c) ==
  /\ call[c].status = "sent"
  /\ LET op == call[c].op
         key == keys[<<op, call[c].win>>]
     IN /\ ReserveScript(op, call[c].at)
        /\ IF Spent(op, key.count)
           THEN Answer(c, op, "rejected", call[c].win, key.expiresAt)
           ELSE Answer(c, op, "allowed", call[c].win, 0)
  /\ UNCHANGED <<kind, now, restarts, fixedWindow, dailyCounters>>

\* The script ran and its reply is lost: counted, and the caller gets an error, if
\* it is still there.
RedisReplyLost(c) ==
  /\ call[c].status \in {"sent", "cut"}
  /\ ReserveScript(call[c].op, call[c].at)
  /\ Answer(c, call[c].op, "lost", call[c].win, 0)
  /\ UNCHANGED <<kind, now, restarts, fixedWindow, dailyCounters>>

\* The command never reaches Redis.
RedisFails(c) ==
  /\ call[c].status = "sent"
  /\ call' = [call EXCEPT ![c] = [NewCall EXCEPT !.status = "failed"]]
  /\ UNCHANGED <<kind, now, restarts, fixedWindow, dailyCounters, keys>>

-----------------------------------------------------------------------------
(* The environment.                                                        *)

\* Time passes, and Redis drops the keys whose time is over.
Tick ==
  /\ now < MaxTime
  /\ now' = now + 1
  /\ keys' = [k \in Ops \X Times |->
                IF keys[k].expiresAt <= now + 1 THEN NoKey ELSE keys[k]]
  /\ UNCHANGED <<kind, restarts, fixedWindow, dailyCounters, call>>

\* The server restarts: its memory is gone.  The commands under way may still reach
\* Redis, and nobody waits for their replies.
Restart ==
  /\ restarts < MaxRestarts
  /\ restarts' = restarts + 1
  /\ fixedWindow' = NoWindow
  /\ dailyCounters' = [d \in Times |-> 0]
  /\ call' = [c \in Calls |-> IF call[c].status = "sent"
                              THEN [call[c] EXCEPT !.status = "cut"] ELSE call[c]]
  /\ UNCHANGED <<kind, now, keys>>

Next ==
  \/ \E c \in Calls : MemoryConsume(c)
  \/ \E c \in Calls : MemoryReserve(c)
  \/ \E c \in Calls, op \in Ops : RedisSend(c, op)
  \/ \E c \in Calls : RedisEval(c)
  \/ \E c \in Calls : RedisReplyLost(c)
  \/ \E c \in Calls : RedisFails(c)
  \/ Tick
  \/ Restart

Spec == Init /\ [][Next]_vars

-----------------------------------------------------------------------------
(* Properties.                                                             *)

TypeOK ==
  /\ kind \in {"memory", "redis"}
  /\ now \in Times
  /\ restarts \in 0..MaxRestarts
  /\ \/ fixedWindow = NoWindow
     \/ fixedWindow.count \in 1..FixedLimit /\ fixedWindow.resetAt \in Window..(MaxTime + Window)
  /\ dailyCounters \in [Times -> 0..DailyLimit]
  /\ \A k \in Ops \X Times : keys[k] = NoKey \/ (keys[k].count > 0 /\ keys[k].expiresAt > now)
  /\ \A c \in Calls :
       /\ call[c].op \in Ops
       /\ call[c].status \in {"new", "sent", "cut", "allowed", "rejected", "lost", "failed"}
       /\ call[c].at \in Times /\ call[c].win \in Times /\ call[c].done \in Times

Answered(statuses, op, win, life) ==
  {c \in Calls : /\ call[c].status \in statuses
                 /\ call[c].op = op /\ call[c].win = win /\ call[c].life = life}

\* How long after the end of its window a Redis key still counts late calls.
Slack(op) == IF op = "daily" THEN Day ELSE 0

\* No window grants more than its limit, whatever order the calls are counted in,
\* late ones included as long as the key is sure to live: until the end of a fixed
\* window, and a whole day longer for a daily quota.  In Redis a restart of the
\* server changes nothing ("`redis` for restart-safe quotas", README.md:53).
QuotaPerWindow ==
  \A op \in Ops, win \in Times, life \in 0..MaxRestarts :
    Cardinality({c \in Answered({"allowed"}, op, win, life) :
                   call[c].done < win + Length(op) + Slack(op)}) <= Limit(op)

\* A call is turned away only if the quota of its own window was spent on calls
\* that were granted, or whose grant was lost on the way: the rejected calls that
\* the script counts too never use up the quota.
RejectedWhenSpent ==
  \A c \in Calls : call[c].status = "rejected" =>
    Cardinality(Answered({"allowed", "lost"}, call[c].op, call[c].win, call[c].life))
      >= Limit(call[c].op)

\* What the caller of a call has been told; a grant is late when the call was counted
\* after the time for which its key is sure to live.
InTime(r) == r.done < r.win + Length(r.op) + Slack(r.op)
CallAnswer(r) ==
  IF r.status \in {"new", "sent", "cut"} THEN [type |-> "none"]
  ELSE IF r.status = "failed" THEN [type |-> "failed"]
  ELSE [type |-> IF r.status # "allowed" THEN r.status
                 ELSE IF InTime(r) THEN "granted" ELSE "late",
        window |-> <<r.op, r.win, r.life>>]

CallAnswers == [c \in Calls |-> CallAnswer(call[c])]

QuotaWindows == Ops \X Times \X (0..MaxRestarts)
WindowLimits == [w \in QuotaWindows |-> Limit(w[1])]

Quota == INSTANCE WindowedQuota WITH
  Windows <- QuotaWindows, Units <- WindowLimits, answer <- CallAnswers

\* Both stores are the quota that WindowedQuota describes: every answer is given once,
\* within the limit or because it is spent, whatever a crash or a delay does.
ImplementsQuota == Quota!QuotaSpec

\* The daily usage that GlobalCounters.hasQuota compares with the limit.
UsageToday ==
  IF kind = "memory" THEN dailyCounters[WindowStart("daily", now)]
  ELSE keys[<<"daily", WindowStart("daily", now)>>].count

\* hasQuota says exactly whether the day has quota left, although Redis counts the
\* rejected calls and the memory store does not.
HasQuotaExact ==
  UsageToday < DailyLimit <=>
    Cardinality(Answered({"allowed", "lost"}, "daily", WindowStart("daily", now), Life))
      < DailyLimit

\* Windows that begin with their first call and windows aligned to the clock both
\* grant at most twice the limit in any period as long as a window (to calls that
\* are counted within their window).
BurstBounded ==
  \A t \in Times, life \in 0..MaxRestarts :
    Cardinality({c \in Calls :
        /\ call[c].status = "allowed" /\ call[c].op = "fixed" /\ call[c].life = life
        /\ call[c].done \in t..(t + Window - 1)
        /\ call[c].done < call[c].win + Window}) <= 2 * FixedLimit
=============================================================================
