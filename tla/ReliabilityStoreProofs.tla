----------------------- MODULE ReliabilityStoreProofs -----------------------
(***************************************************************************)
(* Proofs about ReliabilityStore, for both stores, any lengths of a window *)
(* and a day, any limits, and any number of calls, restarts and delays.    *)
(*                                                                         *)
(* The argument.  What a counter holds is tied to the calls that were      *)
(* granted: exactly in the memory store, whose counters are read and       *)
(* written in one step; in Redis from below up to the limit, because the   *)
(* script counts the calls it rejects as well, and from above only until   *)
(* the end of the window (a day later for a daily quota), because the time *)
(* to live given by the first call keeps the key that long, however late   *)
(* that call is counted.                                                   *)
(*                                                                         *)
(* Every step that answers a call also shows what the answer promises      *)
(* (Promised): with it, the step is a step of the abstract quota.          *)
(***************************************************************************)
EXTENDS ReliabilityStore, FiniteSetTheorems, TLAPS

-----------------------------------------------------------------------------
(* The inductive invariant.                                                *)

Statuses == {"new", "sent", "cut", "allowed", "rejected", "lost", "failed"}

\* A call that has no answer yet.
Pending == {"new", "sent", "cut"}

CallRecord == [op : Ops, status : Statuses, at : Times, win : Times, done : Times,
               retryAt : Nat, life : Nat]
KeyRecord == [count : Nat, expiresAt : Nat]

Types ==
  /\ kind \in {"memory", "redis"}
  /\ now \in Times
  /\ restarts \in Nat
  /\ fixedWindow \in [count : Nat, resetAt : Nat]
  /\ dailyCounters \in [Times -> Nat]
  /\ keys \in [Ops \X Times -> KeyRecord]
  /\ call \in [Calls -> CallRecord]

Begun == {c \in Calls : call[c].status # "new"}

\* The calls that count against the quota of a window.
Granted(op, win, life) == Answered({"allowed", "lost"}, op, win, life)
Grants(op, win, life) == Cardinality(Granted(op, win, life))

\* The end of the time for which a key of the window is sure to live.
SureUntil(op, win) == win + Length(op) + Slack(op)

\* What holds of one call whatever happens to the others.
Sane(r) ==
  /\ r.status \in {"sent", "cut", "lost"} => kind = "redis"
  /\ kind = "redis" => r.life = 0
  /\ r.life <= restarts
  /\ r.status \in {"sent", "cut"} => r.at <= now /\ r.win = WindowStart(r.op, r.at)
  /\ r.status = "allowed" => r.win <= r.done
  /\ kind = "redis" /\ r.status = "allowed" => \E q \in Nat : r.win = q * Length(r.op)

CallsSane == \A c \in Calls : Sane(call[c])

\* The window of the memory store counts its grants, and all earlier windows of this
\* process ended before it began.
MemoryWindowExact ==
  kind = "memory" =>
    /\ \/ fixedWindow.resetAt = 0 /\ fixedWindow.count = 0
       \/ /\ fixedWindow.resetAt >= Window /\ fixedWindow.resetAt <= now + Window
          /\ fixedWindow.count <= FixedLimit
          /\ fixedWindow.count = Grants("fixed", fixedWindow.resetAt - Window, restarts)
    /\ \A c \in Calls :
         /\ call[c].status \in {"allowed", "lost"}
         /\ call[c].op = "fixed" /\ call[c].life = restarts
         => \/ call[c].win + Window = fixedWindow.resetAt
            \/ call[c].win + Window + Window <= fixedWindow.resetAt

MemoryDayExact ==
  kind = "memory" =>
    \A d \in Times : dailyCounters[d] = Grants("daily", d, restarts)

\* A key has counted no more than was granted, up to the limit, and while it is sure to
\* live no less.
KeysExact ==
  kind = "redis" =>
    \A op \in Ops, win \in Times :
      /\ Grants(op, win, 0) >= Limit(op) \/ Grants(op, win, 0) >= keys[<<op, win>>].count
      /\ now < SureUntil(op, win) =>
           /\ Grants(op, win, 0) <= keys[<<op, win>>].count
           /\ keys[<<op, win>>].count > 0 =>
                keys[<<op, win>>].expiresAt >= SureUntil(op, win)

Apart(v, w) == v = w \/ v + Window <= w \/ w + Window <= v

\* Two fixed windows that grant calls are the same or do not overlap.
WindowsApart ==
  \A c, d \in Calls :
    /\ call[c].status = "allowed" /\ call[d].status = "allowed"
    /\ call[c].op = "fixed" /\ call[d].op = "fixed" /\ call[c].life = call[d].life
    => Apart(call[c].win, call[d].win)

\* RejectedWhenSpent, with the window of the call named.
SpentIfRejected ==
  \A c \in Calls, op \in Ops, win \in Times, life \in Nat :
    /\ call[c].status = "rejected"
    /\ call[c].op = op /\ call[c].win = win /\ call[c].life = life
    => Grants(op, win, life) >= Limit(op)

StoreInv ==
  /\ Types
  /\ IsFiniteSet(Begun)
  /\ CallsSane
  /\ MemoryWindowExact
  /\ MemoryDayExact
  /\ KeysExact
  /\ WindowsApart
  /\ QuotaPerWindow
  /\ SpentIfRejected

-----------------------------------------------------------------------------
(* Arithmetic of the windows.                                              *)

LEMMA Lengths ==
  ASSUME NEW op \in Ops
  PROVE  /\ Length(op) \in Nat /\ Length(op) >= 1
         /\ Limit(op) \in Nat /\ Limit(op) >= 1
         /\ Slack(op) \in Nat
BY LimitsAssumption DEF LimitsAssumption, Ops, Length, Limit, Slack

LEMMA Options ==
  /\ Window \in Nat /\ Window >= 1 /\ Day \in Nat /\ Day >= 1
  /\ FixedLimit \in Nat /\ FixedLimit >= 1 /\ DailyLimit \in Nat /\ DailyLimit >= 1
  /\ MaxTime \in Nat /\ Times = 0..MaxTime
  /\ Length("fixed") = Window /\ Length("daily") = Day
  /\ Limit("fixed") = FixedLimit /\ Limit("daily") = DailyLimit
  /\ Slack("fixed") = 0 /\ Slack("daily") = Day
  /\ "fixed" \in Ops /\ "daily" \in Ops
BY LimitsAssumption DEF LimitsAssumption, Ops, Length, Limit, Slack, Times

LEMMA RoundsDown ==
  ASSUME NEW t \in Nat, NEW n \in Nat, n >= 1
  PROVE  /\ t \div n \in Nat /\ (t \div n) * n \in Nat
         /\ (t \div n) * n <= t /\ t < (t \div n) * n + n
OBVIOUS

LEMMA WindowStartFacts ==
  ASSUME NEW op \in Ops, NEW t \in Times
  PROVE  /\ WindowStart(op, t) \in Times /\ WindowStart(op, t) <= t
         /\ t < WindowStart(op, t) + Length(op)
         /\ \E q \in Nat : WindowStart(op, t) = q * Length(op)
<1>1. t \in Nat /\ t <= MaxTime /\ Length(op) \in Nat /\ Length(op) >= 1
    BY Lengths, Options
<1>2. /\ t \div Length(op) \in Nat /\ WindowStart(op, t) \in Nat
      /\ WindowStart(op, t) <= t /\ t < WindowStart(op, t) + Length(op)
    BY <1>1, RoundsDown DEF WindowStart
<1>3. WindowStart(op, t) \in Times
    BY <1>1, <1>2, Options
<1>4. \E q \in Nat : WindowStart(op, t) = q * Length(op)
    BY <1>2 DEF WindowStart
<1> QED
    BY <1>2, <1>3, <1>4

\* Windows aligned to the clock do not overlap.
LEMMA AlignedApart ==
  ASSUME NEW p \in Nat, NEW q \in Nat
  PROVE  Apart(p * Window, q * Window)
<1>1. \A a, b \in Nat : a < b => a * Window + Window <= b * Window
  <2> SUFFICES ASSUME NEW a \in Nat, NEW b \in Nat, a < b
               PROVE  a * Window + Window <= b * Window
      OBVIOUS
  <2>1. PICK d \in Nat : b = a + 1 + d
    <3>1. b - a - 1 \in Nat /\ b = a + 1 + (b - a - 1)
        OBVIOUS
    <3> QED
        BY <3>1
  <2>2. b * Window = a * Window + Window + d * Window
      BY <2>1, Options
  <2>3. d * Window \in Nat /\ a * Window \in Nat
      BY Options
  <2> QED
      BY <2>2, <2>3, Options
<1>2. CASE p < q
    BY <1>1, <1>2 DEF Apart
<1>3. CASE q < p
    BY <1>1, <1>3 DEF Apart
<1>4. CASE p = q
    BY <1>4 DEF Apart
<1> QED
    BY <1>2, <1>3, <1>4

\* A key first counted now by a call that read the clock before lives long enough.
LEMMA TtlSuffices ==
  ASSUME NEW op \in Ops, NEW at \in Times, NEW t \in Times, at <= t
  PROVE  /\ t + Ttl(op, at) \in Nat
         /\ t + Ttl(op, at) >= SureUntil(op, WindowStart(op, at))
<1>a. \A x \in Times : x \in Nat
    BY Options
<1>1. /\ at \in Nat /\ t \in Nat /\ WindowStart(op, at) \in Nat
      /\ at < WindowStart(op, at) + Length(op)
    BY <1>a, WindowStartFacts, Zenon
<1>2. Length(op) \in Nat /\ Slack(op) \in Nat
    BY Lengths
<1>3. Ttl(op, at) = WindowStart(op, at) + Length(op) - at + Slack(op)
    BY DEF Ttl, Slack
<1> QED
    BY <1>1, <1>2, <1>3 DEF SureUntil

-----------------------------------------------------------------------------
(* Counting the calls.                                                     *)

LEMMA GrantsFinite ==
  ASSUME IsFiniteSet(Begun), NEW op, NEW win, NEW life
  PROVE  IsFiniteSet(Granted(op, win, life)) /\ Grants(op, win, life) \in Nat
<1>1. Granted(op, win, life) \in SUBSET Begun
    BY DEF Granted, Answered, Begun
<1> QED
    BY <1>1, FS_Subset, FS_CardinalityType DEF Grants

Grant(r) == r.status \in {"allowed", "lost"}

\* One call is answered with r: it is counted in the window of r, and in no other.
LEMMA OneAnswer ==
  ASSUME Types, IsFiniteSet(Begun),
         NEW c \in Calls, NEW r \in CallRecord, call[c].status \in Pending,
         call' = [call EXCEPT ![c] = r]
  PROVE  /\ IsFiniteSet(Begun')
         /\ call' \in [Calls -> CallRecord]
         /\ call'[c] = r /\ \A d \in Calls \ {c} : call'[d] = call[d]
         /\ \A op, win, life :
              Granted(op, win, life)'
                = IF Grant(r) /\ r.op = op /\ r.win = win /\ r.life = life
                  THEN Granted(op, win, life) \cup {c} ELSE Granted(op, win, life)
         /\ \A op, win, life :
              Grants(op, win, life)'
                = IF Grant(r) /\ r.op = op /\ r.win = win /\ r.life = life
                  THEN Grants(op, win, life) + 1 ELSE Grants(op, win, life)
<1>1. call' \in [Calls -> CallRecord] /\ call'[c] = r /\ \A d \in Calls \ {c} : call'[d] = call[d]
    BY DEF Types
<1>2. IsFiniteSet(Begun')
  <2>1. Begun' \in SUBSET (Begun \cup {c})
      BY <1>1 DEF Begun
  <2> QED
      BY <2>1, FS_AddElement, FS_Subset
<1>3. \A op, win, life : c \notin Granted(op, win, life)
    BY DEF Granted, Answered, Pending
<1>4. ASSUME NEW op, NEW win, NEW life
      PROVE  Granted(op, win, life)'
               = IF Grant(r) /\ r.op = op /\ r.win = win /\ r.life = life
                 THEN Granted(op, win, life) \cup {c} ELSE Granted(op, win, life)
  <2>1. ASSUME NEW d \in Calls \ {c}
        PROVE  d \in Granted(op, win, life)' <=> d \in Granted(op, win, life)
      BY <1>1, <2>1 DEF Granted, Answered
  <2>2. c \in Granted(op, win, life)' <=> Grant(r) /\ r.op = op /\ r.win = win /\ r.life = life
      BY <1>1 DEF Granted, Answered, Grant
  <2>3. Granted(op, win, life) \subseteq Calls /\ Granted(op, win, life)' \subseteq Calls
      BY DEF Granted, Answered
  <2> QED
      BY <1>3, <2>1, <2>2, <2>3
<1>5. ASSUME NEW op, NEW win, NEW life
      PROVE  Grants(op, win, life)'
               = IF Grant(r) /\ r.op = op /\ r.win = win /\ r.life = life
                 THEN Grants(op, win, life) + 1 ELSE Grants(op, win, life)
  <2>1. IsFiniteSet(Granted(op, win, life))
      BY GrantsFinite
  <2>2. Cardinality(Granted(op, win, life) \cup {c}) = Cardinality(Granted(op, win, life)) + 1
      BY <1>3, <2>1, FS_AddElement
  <2> QED
      BY <1>4, <2>2 DEF Grants
<1> QED
    BY <1>1, <1>2, <1>4, <1>5

\* The answer keeps to the promises of the store, given what holds when it is made.
LEMMA AnswerKeepsPromises ==
  ASSUME StoreInv, NEW c \in Calls, NEW r \in CallRecord, call[c].status \in Pending,
         call' = [call EXCEPT ![c] = r],
         r.status = "allowed" /\ r.done < SureUntil(r.op, r.win) =>
           Grants(r.op, r.win, r.life) < Limit(r.op),
         r.status = "rejected" => Grants(r.op, r.win, r.life) >= Limit(r.op),
         r.status = "allowed" /\ r.op = "fixed" =>
           \A d \in Calls :
             call[d].status = "allowed" /\ call[d].op = "fixed" /\ call[d].life = r.life
             => Apart(call[d].win, r.win)
  PROVE  QuotaPerWindow' /\ SpentIfRejected' /\ WindowsApart'
<1>a. Types /\ IsFiniteSet(Begun) /\ QuotaPerWindow /\ SpentIfRejected /\ WindowsApart
    BY DEF StoreInv
<1>b. /\ call' \in [Calls -> CallRecord]
      /\ call'[c] = r /\ \A d \in Calls \ {c} : call'[d] = call[d]
    BY <1>a, OneAnswer
<1>c. \A op, win, life : Grants(op, win, life) \in Nat
    BY <1>a, GrantsFinite
<1>d. \A op, win, life :
        Grants(op, win, life)'
          = IF Grant(r) /\ r.op = op /\ r.win = win /\ r.life = life
            THEN Grants(op, win, life) + 1 ELSE Grants(op, win, life)
    BY ZenonT(30), <1>a, OneAnswer
<1>1. QuotaPerWindow'
  <2> SUFFICES ASSUME NEW op \in Ops, NEW win \in Times, NEW life \in 0..MaxRestarts
               PROVE  Cardinality({d \in Answered({"allowed"}, op, win, life)' :
                        call'[d].done < win + Length(op) + Slack(op)}) <= Limit(op)
      BY DEF QuotaPerWindow
  <2> DEFINE Q == {d \in Answered({"allowed"}, op, win, life) :
                     call[d].done < win + Length(op) + Slack(op)}
             Q1 == {d \in Answered({"allowed"}, op, win, life)' :
                      call'[d].done < win + Length(op) + Slack(op)}
  <2>1. Cardinality(Q) <= Limit(op)
      BY <1>a DEF QuotaPerWindow
  <2>2. Q \in SUBSET Granted(op, win, life)
      BY DEF Granted, Answered
  <2>3. IsFiniteSet(Q) /\ Cardinality(Q) \in Nat /\ Cardinality(Q) <= Grants(op, win, life)
    <3>1. IsFiniteSet(Granted(op, win, life))
        BY <1>a, GrantsFinite
    <3> QED
        BY <2>2, <3>1, FS_Subset, FS_CardinalityType DEF Grants
  <2>4. CASE /\ r.status = "allowed" /\ r.op = op /\ r.win = win /\ r.life = life
             /\ r.done < SureUntil(op, win)
    <3>1. Grants(op, win, life) < Limit(op)
        BY <2>4
    <3>2. Q1 \in SUBSET (Q \cup {c})
        BY <1>b DEF Answered
    <3>3. /\ IsFiniteSet(Q \cup {c}) /\ IsFiniteSet(Q1)
          /\ Cardinality(Q \cup {c}) <= Cardinality(Q) + 1
          /\ Cardinality(Q1) <= Cardinality(Q \cup {c})
          /\ Cardinality(Q1) \in Nat /\ Cardinality(Q \cup {c}) \in Nat
      <4> HIDE DEF Q, Q1
      <4>1. IsFiniteSet(Q \cup {c}) /\ Cardinality(Q \cup {c}) \in Nat
            /\ Cardinality(Q \cup {c}) <= Cardinality(Q) + 1
        <5>1. /\ IsFiniteSet(Q \cup {c})
              /\ Cardinality(Q \cup {c}) = Cardinality(Q)
                 \/ Cardinality(Q \cup {c}) = Cardinality(Q) + 1
            BY <2>3, FS_AddElement
        <5> QED
            BY <2>3, <5>1
      <4> QED
          BY <3>2, <4>1, FS_Subset, FS_CardinalityType
    <3>4. Limit(op) \in Nat /\ Grants(op, win, life) \in Nat
        BY <1>c, Lengths
    <3> HIDE DEF Q, Q1
    <3>5. Cardinality(Q1) <= Limit(op)
        BY <2>3, <3>1, <3>3, <3>4
    <3> QED
        BY <3>5 DEF Q1
  <2>5. CASE ~ (/\ r.status = "allowed" /\ r.op = op /\ r.win = win /\ r.life = life
                /\ r.done < SureUntil(op, win))
    <3>1. Q1 \in SUBSET Q
      <4>1. c \notin Q1
          BY <1>b, <2>5 DEF Answered, SureUntil
      <4> QED
          BY <1>b, <4>1 DEF Answered
    <3>2. IsFiniteSet(Q1) /\ Cardinality(Q1) <= Cardinality(Q) /\ Cardinality(Q1) \in Nat
      <4> HIDE DEF Q, Q1
      <4> QED
          BY <2>3, <3>1, FS_Subset, FS_CardinalityType
    <3>3. Limit(op) \in Nat
        BY Lengths
    <3> HIDE DEF Q, Q1
    <3>4. Cardinality(Q1) <= Limit(op)
        BY <2>1, <2>3, <3>2, <3>3
    <3> QED
        BY <3>4 DEF Q1
  <2> QED
      BY <2>4, <2>5
<1>2. SpentIfRejected'
  <2> SUFFICES ASSUME NEW d \in Calls, NEW op \in Ops, NEW win \in Times, NEW life \in Nat,
                      call'[d].status = "rejected",
                      call'[d].op = op, call'[d].win = win, call'[d].life = life
               PROVE  Grants(op, win, life)' >= Limit(op)
      BY DEF SpentIfRejected
  <2>1. Grants(op, win, life) >= Limit(op)
    <3>1. CASE d = c
        BY <1>b, <3>1
    <3>2. CASE d # c
        BY <1>a, <1>b, <3>2 DEF SpentIfRejected
    <3> QED
        BY <3>1, <3>2
  <2>2. Limit(op) \in Nat /\ Grants(op, win, life) \in Nat
      BY <1>c, Lengths
  <2>3. Grants(op, win, life)' = Grants(op, win, life)
        \/ Grants(op, win, life)' = Grants(op, win, life) + 1
      BY <1>d
  <2> QED
      BY <2>1, <2>2, <2>3
<1>3. WindowsApart'
  <2> SUFFICES ASSUME NEW d \in Calls, NEW e \in Calls,
                      call'[d].status = "allowed", call'[e].status = "allowed",
                      call'[d].op = "fixed", call'[e].op = "fixed",
                      call'[d].life = call'[e].life
               PROVE  Apart(call'[d].win, call'[e].win)
      BY DEF WindowsApart, Apart
  <2>1. Apart(r.win, r.win)
      BY DEF Apart
  <2>2. \A v, w : Apart(v, w) => Apart(w, v)
      BY DEF Apart
  <2>3. CASE d = c /\ e = c
      BY <1>b, <2>1, <2>3
  <2>4. CASE d = c /\ e # c
      BY <1>b, <2>2, <2>4
  <2>5. CASE d # c /\ e = c
      BY <1>b, <2>5
  <2>6. CASE d # c /\ e # c
    <3>1. call'[d] = call[d] /\ call'[e] = call[e]
        BY <1>b, <2>6
    <3> QED
        BY <1>a, <3>1 DEF WindowsApart
  <2> QED
      BY <2>3, <2>4, <2>5, <2>6
<1> QED
    BY <1>1, <1>2, <1>3

LEMMA AnswerKeepsTypes ==
  ASSUME StoreInv, NEW c \in Calls, NEW r \in CallRecord, call[c].status \in Pending,
         call' = [call EXCEPT ![c] = r], Sane(r),
         kind' = kind, now' = now, restarts' = restarts,
         fixedWindow' \in [count : Nat, resetAt : Nat],
         dailyCounters' \in [Times -> Nat],
         keys' \in [Ops \X Times -> KeyRecord]
  PROVE  Types' /\ IsFiniteSet(Begun') /\ CallsSane'
<1>1. Types /\ IsFiniteSet(Begun) /\ CallsSane
    BY DEF StoreInv
<1>2. /\ IsFiniteSet(Begun') /\ call' \in [Calls -> CallRecord]
      /\ call'[c] = r /\ \A d \in Calls \ {c} : call'[d] = call[d]
    BY <1>1, OneAnswer
<1>3. Types'
    BY <1>1, <1>2 DEF Types
<1>4. \A x : Sane(x) => Sane(x)'
    BY DEF Sane
<1>5. CallsSane'
  <2> SUFFICES ASSUME NEW d \in Calls PROVE Sane(call[d])'
      BY DEF CallsSane
  <2>1. PICK x : x = call'[d]
      OBVIOUS
  <2>2. Sane(x)
      BY <1>1, <1>2, <2>1 DEF CallsSane
  <2>3. Sane(x)'
      BY <1>4, <2>2
  <2> QED
      BY <2>1, <2>3 DEF Sane
<1> QED
    BY <1>2, <1>3, <1>5

-----------------------------------------------------------------------------
(* The steps of the memory store.                                          *)

\* The record of an answered call.
AnswerRecord(op, status, win, retryAt, life) ==
  [op |-> op, status |-> status, at |-> 0, win |-> win, done |-> now,
   retryAt |-> retryAt, life |-> life]

\* Call c is answered now, within the limit or because it is spent.
Promise(r) ==
  /\ r.status \in {"allowed", "rejected", "lost"} /\ r.done = now /\ r.life <= restarts
  /\ r.status = "allowed" /\ now < SureUntil(r.op, r.win) =>
       Grants(r.op, r.win, r.life) < Limit(r.op)
  /\ r.status = "rejected" => Grants(r.op, r.win, r.life) >= Limit(r.op)
Promised(c) ==
  /\ call[c].status \in Pending
  /\ \E r \in CallRecord : call' = [call EXCEPT ![c] = r] /\ Promise(r)

LEMMA MemoryConsumeKeeps ==
  ASSUME StoreInv, NEW c \in Calls, MemoryConsume(c)
  PROVE  StoreInv' /\ Promised(c)
<1>a. /\ Types /\ IsFiniteSet(Begun) /\ CallsSane /\ MemoryWindowExact /\ MemoryDayExact
      /\ WindowsApart
    BY DEF StoreInv
<1>b. /\ kind = "memory" /\ call[c].status \in Pending /\ Life = restarts
      /\ kind' = kind /\ now' = now /\ restarts' = restarts
      /\ dailyCounters' = dailyCounters /\ keys' = keys
    BY DEF MemoryConsume, Pending, Life
<1>c. /\ now \in Nat /\ now \in Times /\ restarts \in Nat /\ 0 \in Times
      /\ fixedWindow \in [count : Nat, resetAt : Nat]
      /\ fixedWindow.count \in Nat /\ fixedWindow.resetAt \in Nat
      /\ dailyCounters \in [Times -> Nat] /\ keys \in [Ops \X Times -> KeyRecord]
    BY <1>a, Options DEF Types
<1>d. /\ \/ fixedWindow.resetAt = 0 /\ fixedWindow.count = 0
         \/ /\ fixedWindow.resetAt >= Window /\ fixedWindow.resetAt <= now + Window
            /\ fixedWindow.count <= FixedLimit
            /\ fixedWindow.count = Grants("fixed", fixedWindow.resetAt - Window, restarts)
      /\ \A d \in Calls :
           /\ call[d].status \in {"allowed", "lost"}
           /\ call[d].op = "fixed" /\ call[d].life = restarts
           => \/ call[d].win + Window = fixedWindow.resetAt
              \/ call[d].win + Window + Window <= fixedWindow.resetAt
    BY <1>a, <1>b DEF MemoryWindowExact
<1>e. \A d \in Calls : call[d] \in CallRecord /\ call[d].win \in Nat
    BY <1>a, Options DEF Types, CallRecord
<1>f. ASSUME NEW status \in {"allowed", "rejected"}, NEW win \in Times, NEW retryAt \in Nat,
             win <= now,
             Answer(c, "fixed", status, win, retryAt),
             fixedWindow' \in [count : Nat, resetAt : Nat],
             status = "allowed" => Grants("fixed", win, restarts) < FixedLimit,
             status = "rejected" => Grants("fixed", win, restarts) >= FixedLimit,
             status = "allowed" =>
               \A d \in Calls :
                 call[d].status = "allowed" /\ call[d].op = "fixed" /\ call[d].life = restarts
                 => Apart(call[d].win, win),
             \/ fixedWindow'.resetAt = 0 /\ fixedWindow'.count = 0
             \/ /\ fixedWindow'.resetAt >= Window /\ fixedWindow'.resetAt <= now + Window
                /\ fixedWindow'.count <= FixedLimit
                /\ fixedWindow'.count
                     = Grants("fixed", fixedWindow'.resetAt - Window, restarts)
                       + IF status = "allowed" /\ win = fixedWindow'.resetAt - Window
                         THEN 1 ELSE 0,
             \A d \in Calls :
               /\ call[d].status \in {"allowed", "lost"}
               /\ call[d].op = "fixed" /\ call[d].life = restarts
               => \/ call[d].win + Window = fixedWindow'.resetAt
                  \/ call[d].win + Window + Window <= fixedWindow'.resetAt,
             status = "allowed" => win + Window = fixedWindow'.resetAt
      PROVE  StoreInv' /\ Promised(c)
  <2>1. PICK r : r = AnswerRecord("fixed", status, win, retryAt, restarts)
      OBVIOUS
  <2>2. /\ r \in CallRecord /\ r.op = "fixed" /\ r.status = status /\ r.win = win
        /\ r.done = now /\ r.life = restarts
      BY <1>c, <2>1, Options DEF AnswerRecord, CallRecord, Statuses
  <2>3. call' = [call EXCEPT ![c] = r]
      BY <1>b, <1>f, <2>1 DEF Answer, AnswerRecord
  <2>4. Sane(r)
      BY <1>b, <1>c, <1>f, <2>2 DEF Sane
  <2>5. Types' /\ IsFiniteSet(Begun') /\ CallsSane'
      BY <1>b, <1>c, <1>f, <2>2, <2>3, <2>4, AnswerKeepsTypes
  <2>6. QuotaPerWindow' /\ SpentIfRejected' /\ WindowsApart'
      BY <1>b, <1>f, <2>2, <2>3, AnswerKeepsPromises, Options
  <2>7. /\ call'[c] = r /\ \A d \in Calls \ {c} : call'[d] = call[d]
        /\ \A op, w, life :
             Grants(op, w, life)'
               = IF Grant(r) /\ r.op = op /\ r.win = w /\ r.life = life
                 THEN Grants(op, w, life) + 1 ELSE Grants(op, w, life)
      BY ZenonT(60), <1>a, <1>b, <2>2, <2>3, OneAnswer
  <2>8. MemoryWindowExact'
    <3>1. PICK w : w = fixedWindow'.resetAt - Window
        OBVIOUS
    <3>2. Grants("fixed", w, restarts)'
            = Grants("fixed", w, restarts) + IF status = "allowed" /\ win = w THEN 1 ELSE 0
      <4>1. Grants("fixed", w, restarts) \in Nat
          BY <1>a, GrantsFinite
      <4>2. PICK life : life = restarts
          OBVIOUS
      <4>3. Grants("fixed", w, life)'
              = IF status = "allowed" /\ win = w
                THEN Grants("fixed", w, life) + 1 ELSE Grants("fixed", w, life)
          BY <1>f, <2>2, <2>7, <4>2 DEF Grant
      <4>4. Grants("fixed", w, restarts)' = Grants("fixed", w, life)'
          BY <1>b, <4>2 DEF Grants, Granted, Answered
      <4> QED
          BY <4>1, <4>2, <4>3, <4>4
    <3>3. (Grants("fixed", fixedWindow.resetAt - Window, restarts))' = Grants("fixed", w, restarts)'
        BY <3>1 DEF Grants, Granted, Answered
    <3>4. \/ fixedWindow'.resetAt = 0 /\ fixedWindow'.count = 0
          \/ /\ fixedWindow'.resetAt >= Window /\ fixedWindow'.resetAt <= now' + Window
             /\ fixedWindow'.count <= FixedLimit
             /\ fixedWindow'.count = (Grants("fixed", fixedWindow.resetAt - Window, restarts))'
        BY <1>b, <1>f, <3>1, <3>2, <3>3
    <3>5. ASSUME NEW d \in Calls,
                 call'[d].status \in {"allowed", "lost"},
                 call'[d].op = "fixed", call'[d].life = restarts'
          PROVE  \/ call'[d].win + Window = fixedWindow'.resetAt
                 \/ call'[d].win + Window + Window <= fixedWindow'.resetAt
      <4>1. CASE d = c
          BY <1>f, <2>2, <2>7, <3>5, <4>1
      <4>2. CASE d # c
        <5>1. call'[d] = call[d]
            BY <2>7, <4>2
        <5> QED
            BY <1>b, <1>f, <3>5, <5>1
      <4> QED
          BY <4>1, <4>2
    <3> QED
        BY <3>4, <3>5 DEF MemoryWindowExact
  <2>9. MemoryDayExact'
    <3> SUFFICES ASSUME NEW d \in Times PROVE dailyCounters'[d] = Grants("daily", d, restarts)'
        BY DEF MemoryDayExact
    <3>1. PICK life : life = restarts
        OBVIOUS
    <3>2. Grants("daily", d, life)' = Grants("daily", d, life)
        BY <2>2, <2>7
    <3>3. Grants("daily", d, restarts)' = Grants("daily", d, life)'
        BY <1>b, <3>1 DEF Grants, Granted, Answered
    <3> QED
        BY <1>a, <1>b, <3>1, <3>2, <3>3 DEF MemoryDayExact
  <2>10. KeysExact'
      BY <1>b DEF KeysExact
  <2>11. Promised(c)
    <3>1. /\ r.status = "allowed" => Grants(r.op, r.win, r.life) < Limit(r.op)
          /\ r.status = "rejected" => Grants(r.op, r.win, r.life) >= Limit(r.op)
        BY <1>f, <2>2, Options
    <3>2. r.status \in {"allowed", "rejected", "lost"} /\ r.done = now /\ r.life <= restarts
        BY <1>c, <2>2
    <3>3. Promise(r)
        BY <3>1, <3>2 DEF Promise
    <3> QED
        BY <1>b, <2>2, <2>3, <3>3 DEF Promised
  <2> QED
      BY <2>5, <2>6, <2>8, <2>9, <2>10, <2>11 DEF StoreInv
<1>1. ASSUME fixedWindow.resetAt <= now, fixedWindow' = OpenWindow,
             Answer(c, "fixed", "allowed", now, 0)
      PROVE  StoreInv' /\ Promised(c)
  <2>1. fixedWindow' = [count |-> 1, resetAt |-> now + Window]
      BY <1>1 DEF OpenWindow
  <2>2. /\ fixedWindow' \in [count : Nat, resetAt : Nat]
        /\ fixedWindow'.count = 1 /\ fixedWindow'.resetAt = now + Window
      BY <1>c, <2>1, Options
  <2>3. \A d \in Calls :
          /\ call[d].status \in {"allowed", "lost"}
          /\ call[d].op = "fixed" /\ call[d].life = restarts
          => call[d].win + Window <= now
    <3> SUFFICES ASSUME NEW d \in Calls, call[d].status \in {"allowed", "lost"},
                        call[d].op = "fixed", call[d].life = restarts
                 PROVE  call[d].win + Window <= now
        OBVIOUS
    <3>1. \/ call[d].win + Window = fixedWindow.resetAt
          \/ call[d].win + Window + Window <= fixedWindow.resetAt
        BY <1>d
    <3>2. call[d].win \in Nat
        BY <1>e
    <3> QED
        BY SMTT(30), <1>1, <1>c, <3>1, <3>2, Options
  <2>4. Granted("fixed", now, restarts) = {}
    <3>1. \A d \in Calls : ~(call[d].win + Window <= now /\ call[d].win = now)
        BY <1>c, <1>e, Options
    <3> QED
        BY <2>3, <3>1 DEF Granted, Answered
  <2>5. Grants("fixed", now, restarts) = 0
      BY <2>4, FS_EmptySet DEF Grants
  <2>6. now + Window - Window = now
      BY <1>c, Options
  <2>7. \A d \in Calls :
          call[d].status = "allowed" /\ call[d].op = "fixed" /\ call[d].life = restarts
          => Apart(call[d].win, now)
      BY <2>3 DEF Apart
  <2>8. \A d \in Calls :
          /\ call[d].status \in {"allowed", "lost"}
          /\ call[d].op = "fixed" /\ call[d].life = restarts
          => \/ call[d].win + Window = fixedWindow'.resetAt
             \/ call[d].win + Window + Window <= fixedWindow'.resetAt
    <3> SUFFICES ASSUME NEW d \in Calls, call[d].win + Window <= now
                 PROVE  call[d].win + Window + Window <= now + Window
        BY <2>2, <2>3
    <3>1. call[d].win \in Nat
        BY <1>e
    <3> QED
        BY SMTT(30), <1>c, <3>1, Options
  <2>9. /\ fixedWindow'.resetAt >= Window /\ fixedWindow'.resetAt <= now + Window
        /\ fixedWindow'.count <= FixedLimit
        /\ fixedWindow'.count
             = Grants("fixed", fixedWindow'.resetAt - Window, restarts)
               + IF "allowed" = "allowed" /\ now = fixedWindow'.resetAt - Window THEN 1 ELSE 0
      BY <1>c, <2>2, <2>5, <2>6, Options
  <2>10. /\ now <= now /\ 0 \in Nat /\ Grants("fixed", now, restarts) < FixedLimit
         /\ now + Window = fixedWindow'.resetAt
      BY <1>c, <2>2, <2>5, Options
  <2> QED
      BY <1>1, <1>c, <1>f, <2>2, <2>7, <2>8, <2>9, <2>10
<1>g. ASSUME fixedWindow.resetAt > now
      PROVE  /\ fixedWindow.resetAt >= Window /\ fixedWindow.resetAt <= now + Window
             /\ fixedWindow.count <= FixedLimit
             /\ fixedWindow.count = Grants("fixed", fixedWindow.resetAt - Window, restarts)
             /\ fixedWindow.resetAt - Window \in Times /\ fixedWindow.resetAt - Window <= now
             /\ fixedWindow.resetAt - Window + Window = fixedWindow.resetAt
  <2>1. /\ fixedWindow.resetAt >= Window /\ fixedWindow.resetAt <= now + Window
        /\ fixedWindow.count <= FixedLimit
        /\ fixedWindow.count = Grants("fixed", fixedWindow.resetAt - Window, restarts)
      BY <1>c, <1>d, <1>g
  <2>2. now <= MaxTime
      BY <1>c, Options
  <2>3. /\ fixedWindow.resetAt - Window \in Nat /\ fixedWindow.resetAt - Window <= now
        /\ fixedWindow.resetAt - Window + Window = fixedWindow.resetAt
      BY <1>c, <2>1, Options
  <2>4. fixedWindow.resetAt - Window \in Times
      BY <1>c, <2>2, <2>3, Options
  <2> QED
      BY <2>1, <2>3, <2>4
<1>2. ASSUME fixedWindow.resetAt > now, Spent("fixed", fixedWindow.count),
             Answer(c, "fixed", "rejected", fixedWindow.resetAt - Window, fixedWindow.resetAt),
             fixedWindow' = fixedWindow
      PROVE  StoreInv' /\ Promised(c)
  <2>1. PICK win \in Times : win = fixedWindow.resetAt - Window
      BY <1>2, <1>g
  <2>2. /\ win <= now /\ Grants("fixed", win, restarts) >= FixedLimit
        /\ fixedWindow.count = Grants("fixed", win, restarts) + 0
      BY <1>2, <1>c, <1>g, <2>1, Options DEF Spent
  <2>3. PICK retryAt \in Nat : retryAt = fixedWindow.resetAt
      BY <1>c
  <2>4. Answer(c, "fixed", "rejected", win, retryAt)
      BY <1>2, <2>1, <2>3
  <2>5. /\ fixedWindow'.resetAt >= Window /\ fixedWindow'.resetAt <= now + Window
        /\ fixedWindow'.count <= FixedLimit
        /\ fixedWindow'.count
             = Grants("fixed", fixedWindow'.resetAt - Window, restarts)
               + IF "rejected" = "allowed" /\ win = fixedWindow'.resetAt - Window
                 THEN 1 ELSE 0
      BY <1>2, <1>g, <2>1, <2>2
  <2> QED
      BY <1>2, <1>c, <1>d, <1>f, <2>2, <2>4, <2>5
<1>3. ASSUME fixedWindow.resetAt > now, ~Spent("fixed", fixedWindow.count),
             fixedWindow' = [fixedWindow EXCEPT !.count = @ + 1],
             Answer(c, "fixed", "allowed", fixedWindow.resetAt - Window, 0)
      PROVE  StoreInv' /\ Promised(c)
  <2>1. PICK win \in Times : win = fixedWindow.resetAt - Window
      BY <1>3, <1>g
  <2>2. /\ fixedWindow' \in [count : Nat, resetAt : Nat]
        /\ fixedWindow'.count = fixedWindow.count + 1
        /\ fixedWindow'.resetAt = fixedWindow.resetAt
      BY <1>3, <1>c
  <2>3. /\ win <= now /\ Grants("fixed", win, restarts) < FixedLimit
        /\ fixedWindow.count = Grants("fixed", win, restarts)
        /\ fixedWindow.count + 1 <= FixedLimit
        /\ win + Window = fixedWindow.resetAt
      BY <1>3, <1>c, <1>g, <2>1, Options, SMTT(30) DEF Spent
  <2>4. Answer(c, "fixed", "allowed", win, 0)
      BY <1>3, <2>1
  <2>5. /\ fixedWindow'.resetAt >= Window /\ fixedWindow'.resetAt <= now + Window
        /\ fixedWindow'.count <= FixedLimit
        /\ fixedWindow'.count
             = Grants("fixed", fixedWindow'.resetAt - Window, restarts)
               + IF "allowed" = "allowed" /\ win = fixedWindow'.resetAt - Window
                 THEN 1 ELSE 0
      BY <1>3, <1>g, <2>1, <2>2, <2>3
  <2>6. ASSUME NEW d \in Calls, call[d].status = "allowed", call[d].op = "fixed",
               call[d].life = restarts
        PROVE  Apart(call[d].win, win)
    <3>1. \/ call[d].win + Window = fixedWindow.resetAt
          \/ call[d].win + Window + Window <= fixedWindow.resetAt
        BY <1>d, <2>6
    <3>2. call[d].win \in Nat /\ win \in Nat
        BY <1>e, Options
    <3> QED
        BY <2>3, <3>1, <3>2, Options DEF Apart
  <2>7. \A d \in Calls :
          /\ call[d].status \in {"allowed", "lost"}
          /\ call[d].op = "fixed" /\ call[d].life = restarts
          => \/ call[d].win + Window = fixedWindow'.resetAt
             \/ call[d].win + Window + Window <= fixedWindow'.resetAt
      BY <1>d, <2>2
  <2> QED
      BY <1>c, <1>f, <2>2, <2>3, <2>4, <2>5, <2>6, <2>7
<1> QED
    BY <1>1, <1>2, <1>3 DEF MemoryConsume

LEMMA MemoryReserveKeeps ==
  ASSUME StoreInv, NEW c \in Calls, MemoryReserve(c)
  PROVE  StoreInv' /\ Promised(c)
<1>a. /\ Types /\ IsFiniteSet(Begun) /\ CallsSane /\ MemoryWindowExact /\ MemoryDayExact
      /\ WindowsApart
    BY DEF StoreInv
<1>b. /\ kind = "memory" /\ call[c].status \in Pending /\ Life = restarts
      /\ kind' = kind /\ now' = now /\ restarts' = restarts
      /\ fixedWindow' = fixedWindow /\ keys' = keys
    BY DEF MemoryReserve, Pending, Life
<1>c. /\ now \in Nat /\ now \in Times /\ restarts \in Nat /\ 0 \in Times
      /\ fixedWindow \in [count : Nat, resetAt : Nat]
      /\ dailyCounters \in [Times -> Nat] /\ keys \in [Ops \X Times -> KeyRecord]
    BY <1>a, Options DEF Types
<1>1. PICK day \in Times : day = WindowStart("daily", now)
    BY <1>c, WindowStartFacts, Options
<1>2. day <= now /\ dailyCounters[day] \in Nat /\ day \in Nat
    BY <1>1, <1>c, WindowStartFacts, Options
<1>3. PICK life \in Nat : life = restarts
    BY <1>c
<1>4. dailyCounters[day] = Grants("daily", day, life)
    BY <1>1, <1>3, <1>a, <1>b DEF MemoryDayExact
<1>5. ASSUME NEW status \in {"allowed", "rejected"}, NEW retryAt \in Nat,
             Answer(c, "daily", status, day, retryAt),
             dailyCounters' = IF status = "allowed"
                              THEN [dailyCounters EXCEPT ![day] = @ + 1] ELSE dailyCounters,
             status = "allowed" => Grants("daily", day, life) < DailyLimit,
             status = "rejected" => Grants("daily", day, life) >= DailyLimit
      PROVE  StoreInv' /\ Promised(c)
  <2>1. PICK r : r = AnswerRecord("daily", status, day, retryAt, life)
      OBVIOUS
  <2>2. /\ r \in CallRecord /\ r.op = "daily" /\ r.status = status /\ r.win = day
        /\ r.done = now /\ r.life = life
      BY <1>c, <2>1, Options DEF AnswerRecord, CallRecord, Statuses
  <2>3. call' = [call EXCEPT ![c] = r]
      BY <1>3, <1>5, <1>b, <2>1 DEF Answer, AnswerRecord
  <2>4. Sane(r)
      BY <1>2, <1>3, <1>b, <1>c, <2>2 DEF Sane
  <2>5. dailyCounters' \in [Times -> Nat]
        /\ \A d \in Times : dailyCounters'[d]
             = IF status = "allowed" /\ d = day THEN dailyCounters[d] + 1 ELSE dailyCounters[d]
      BY <1>2, <1>5, <1>c
  <2>6. Types' /\ IsFiniteSet(Begun') /\ CallsSane'
      BY <1>b, <1>c, <2>2, <2>3, <2>4, <2>5, AnswerKeepsTypes
  <2>7. QuotaPerWindow' /\ SpentIfRejected' /\ WindowsApart'
      BY <1>5, <1>b, <2>2, <2>3, AnswerKeepsPromises, Options
  <2>8. /\ call'[c] = r /\ \A d \in Calls \ {c} : call'[d] = call[d]
        /\ \A op, w, l :
             Grants(op, w, l)'
               = IF Grant(r) /\ r.op = op /\ r.win = w /\ r.life = l
                 THEN Grants(op, w, l) + 1 ELSE Grants(op, w, l)
      BY ZenonT(60), <1>a, <1>b, <2>2, <2>3, OneAnswer
  <2>9. MemoryWindowExact'
    <3>1. PICK w : w = fixedWindow.resetAt - Window
        OBVIOUS
    <3>2. Grants("fixed", w, life)' = Grants("fixed", w, life)
        BY <2>2, <2>8
    <3>3. (Grants("fixed", fixedWindow.resetAt - Window, restarts))' = Grants("fixed", w, life)'
        BY <1>3, <1>b, <3>1 DEF Grants, Granted, Answered
    <3>4. \/ fixedWindow'.resetAt = 0 /\ fixedWindow'.count = 0
          \/ /\ fixedWindow'.resetAt >= Window /\ fixedWindow'.resetAt <= now' + Window
             /\ fixedWindow'.count <= FixedLimit
             /\ fixedWindow'.count = (Grants("fixed", fixedWindow.resetAt - Window, restarts))'
        BY <1>3, <1>a, <1>b, <3>1, <3>2, <3>3 DEF MemoryWindowExact
    <3>5. ASSUME NEW d \in Calls,
                 call'[d].status \in {"allowed", "lost"},
                 call'[d].op = "fixed", call'[d].life = restarts'
          PROVE  \/ call'[d].win + Window = fixedWindow'.resetAt
                 \/ call'[d].win + Window + Window <= fixedWindow'.resetAt
      <4>1. d # c
          BY <2>2, <2>8, <3>5
      <4>2. call'[d] = call[d]
          BY <2>8, <4>1
      <4> QED
          BY <1>a, <1>b, <3>5, <4>2 DEF MemoryWindowExact
    <3> QED
        BY <3>4, <3>5 DEF MemoryWindowExact
  <2>10. MemoryDayExact'
    <3> SUFFICES ASSUME NEW d \in Times PROVE dailyCounters'[d] = Grants("daily", d, restarts)'
        BY DEF MemoryDayExact
    <3>1. Grants("daily", d, life)'
            = IF status = "allowed" /\ d = day
              THEN Grants("daily", d, life) + 1 ELSE Grants("daily", d, life)
        BY <1>5, <2>2, <2>8 DEF Grant
    <3>2. Grants("daily", d, restarts)' = Grants("daily", d, life)'
        BY <1>3, <1>b DEF Grants, Granted, Answered
    <3>3. dailyCounters[d] = Grants("daily", d, life)
        BY <1>3, <1>a, <1>b DEF MemoryDayExact
    <3> QED
        BY <2>5, <3>1, <3>2, <3>3
  <2>11. KeysExact'
      BY <1>b DEF KeysExact
  <2>12. Promised(c)
    <3>1. /\ r.status = "allowed" => Grants(r.op, r.win, r.life) < Limit(r.op)
          /\ r.status = "rejected" => Grants(r.op, r.win, r.life) >= Limit(r.op)
        BY <1>5, <2>2, Options
    <3>2. r.status \in {"allowed", "rejected", "lost"} /\ r.done = now /\ r.life <= restarts
        BY <1>3, <1>c, <2>2
    <3>3. Promise(r)
        BY <3>1, <3>2 DEF Promise
    <3> QED
        BY <1>b, <2>2, <2>3, <3>3 DEF Promised
  <2> QED
      BY <2>6, <2>7, <2>9, <2>10, <2>11, <2>12 DEF StoreInv
<1>6. ASSUME Spent("daily", dailyCounters[day]), Answer(c, "daily", "rejected", day, day + Day),
             dailyCounters' = dailyCounters
      PROVE  StoreInv' /\ Promised(c)
  <2>1. PICK retryAt \in Nat : retryAt = day + Day
      BY <1>2, Options
  <2>2. Grants("daily", day, life) >= DailyLimit
      BY <1>4, <1>6, Options DEF Spent
  <2> QED
      BY <1>5, <1>6, <2>1, <2>2
<1>7. ASSUME ~Spent("daily", dailyCounters[day]), Answer(c, "daily", "allowed", day, 0),
             dailyCounters' = [dailyCounters EXCEPT ![day] = @ + 1]
      PROVE  StoreInv' /\ Promised(c)
  <2>1. Grants("daily", day, life) < DailyLimit
      BY <1>2, <1>4, <1>7, Options DEF Spent
  <2> QED
      BY <1>5, <1>7, <2>1
<1> QED
    BY <1>1, <1>6, <1>7 DEF MemoryReserve

-----------------------------------------------------------------------------
(* The steps of the Redis store.                                           *)

\* The script runs for call c, with or without a reply.
LEMMA CountedKeeps ==
  ASSUME StoreInv, NEW c \in Calls, NEW status \in {"allowed", "rejected", "lost"},
         NEW retryAt \in Nat,
         call[c].status \in {"sent", "cut"},
         ReserveScript(call[c].op, call[c].at),
         Answer(c, call[c].op, status, call[c].win, retryAt),
         UNCHANGED <<kind, now, restarts, fixedWindow, dailyCounters>>,
         status = "allowed" => ~Spent(call[c].op, keys[<<call[c].op, call[c].win>>].count),
         status = "rejected" => Spent(call[c].op, keys[<<call[c].op, call[c].win>>].count)
  PROVE  StoreInv' /\ Promised(c)
<1>a. /\ Types /\ IsFiniteSet(Begun) /\ CallsSane /\ KeysExact
    BY DEF StoreInv
<1>b. /\ call[c] \in CallRecord /\ Sane(call[c]) /\ kind = "redis"
      /\ call[c].status \in Pending
    BY <1>a DEF CallsSane, Types, Sane, Pending
<1>c. /\ now \in Nat /\ now \in Times /\ restarts \in Nat /\ 0 \in Times
      /\ fixedWindow \in [count : Nat, resetAt : Nat]
      /\ dailyCounters \in [Times -> Nat] /\ keys \in [Ops \X Times -> KeyRecord]
    BY <1>a, Options DEF Types
<1>1. PICK op \in Ops : op = call[c].op
    BY <1>b DEF CallRecord
<1>2. PICK at \in Times : at = call[c].at
    BY <1>b DEF CallRecord
<1>3. PICK win \in Times : win = call[c].win
    BY <1>b DEF CallRecord
<1>4. win = WindowStart(op, at) /\ at <= now /\ win \in Nat /\ at \in Nat /\ win <= now
  <2>1. win = WindowStart(op, at) /\ at <= now
      BY <1>b, <1>1, <1>2, <1>3 DEF Sane
  <2>2. win \in Nat /\ at \in Nat /\ win <= at
      BY <2>1, WindowStartFacts, Options
  <2> QED
      BY <1>c, <2>1, <2>2
<1>5. PICK n \in Nat : n = keys[<<op, win>>].count
    BY <1>c DEF KeyRecord
<1>6. PICK e \in Nat : e = IF n = 0 THEN now + Ttl(op, at) ELSE keys[<<op, win>>].expiresAt
  <2>1. now + Ttl(op, at) \in Nat /\ keys[<<op, win>>].expiresAt \in Nat
      BY <1>c, <1>4, TtlSuffices DEF KeyRecord
  <2> QED
      BY <2>1
<1>7. keys' = [keys EXCEPT ![<<op, win>>] = [count |-> n + 1, expiresAt |-> e]]
    BY <1>1, <1>2, <1>4, <1>5, <1>6 DEF ReserveScript
<1>8. /\ keys' \in [Ops \X Times -> KeyRecord]
      /\ keys'[<<op, win>>].count = n + 1 /\ keys'[<<op, win>>].expiresAt = e
      /\ \A o \in Ops, w \in Times : ~(o = op /\ w = win) => keys'[<<o, w>>] = keys[<<o, w>>]
  <2>1. [count |-> n + 1, expiresAt |-> e] \in KeyRecord
      BY DEF KeyRecord
  <2> QED
      BY <1>c, <1>7, <2>1
<1>9. PICK r : r = AnswerRecord(op, status, win, retryAt, 0)
    OBVIOUS
<1>10. /\ r \in CallRecord /\ r.op = op /\ r.status = status /\ r.win = win
       /\ r.done = now /\ r.life = 0
    BY <1>c, <1>9 DEF AnswerRecord, CallRecord, Statuses
<1>11. call' = [call EXCEPT ![c] = r]
    BY <1>b, <1>1, <1>3, <1>9 DEF Answer, AnswerRecord, Life
<1>12. Sane(r)
    BY <1>b, <1>c, <1>4, <1>10, WindowStartFacts DEF Sane
<1>13. Types' /\ IsFiniteSet(Begun') /\ CallsSane'
    BY <1>b, <1>c, <1>8, <1>10, <1>11, <1>12, AnswerKeepsTypes
<1>14. /\ Grants(op, win, 0) \in Nat /\ Limit(op) \in Nat
       /\ Grants(op, win, 0) >= Limit(op) \/ Grants(op, win, 0) >= n
       /\ now < SureUntil(op, win) =>
            /\ Grants(op, win, 0) <= n
            /\ n > 0 => keys[<<op, win>>].expiresAt >= SureUntil(op, win)
    BY <1>a, <1>b, <1>5, GrantsFinite, Lengths DEF KeysExact
<1>15. (status = "allowed" => n < Limit(op)) /\ (status = "rejected" => n >= Limit(op))
    BY <1>1, <1>3, <1>5, <1>14 DEF Spent
<1>16. QuotaPerWindow' /\ SpentIfRejected' /\ WindowsApart'
  <2>1. r.status = "allowed" /\ r.done < SureUntil(r.op, r.win) =>
          Grants(r.op, r.win, r.life) < Limit(r.op)
      BY <1>10, <1>14, <1>15
  <2>2. r.status = "rejected" => Grants(r.op, r.win, r.life) >= Limit(r.op)
      BY <1>10, <1>14, <1>15
  <2>3. ASSUME r.status = "allowed", r.op = "fixed",
               NEW d \in Calls,
               call[d].status = "allowed", call[d].op = "fixed", call[d].life = r.life
        PROVE  Apart(call[d].win, r.win)
    <3>1. PICK p \in Nat : call[d].win = p * Window
        BY <1>a, <1>b, <2>3, Options DEF CallsSane, Sane
    <3>2. PICK q \in Nat : r.win = q * Window
        BY <1>b, <1>12, <2>3, Options DEF Sane
    <3> QED
        BY <3>1, <3>2, AlignedApart
  <2> QED
      BY <1>b, <1>10, <1>11, <2>1, <2>2, <2>3, AnswerKeepsPromises
<1>17. \A o, w, l :
         Grants(o, w, l)'
           = IF Grant(r) /\ r.op = o /\ r.win = w /\ r.life = l
             THEN Grants(o, w, l) + 1 ELSE Grants(o, w, l)
    BY <1>a, <1>b, <1>10, <1>11, OneAnswer
<1>18. KeysExact'
  <2> SUFFICES ASSUME NEW o \in Ops, NEW w \in Times
               PROVE  /\ \/ Grants(o, w, 0)' >= Limit(o)
                         \/ Grants(o, w, 0)' >= keys'[<<o, w>>].count
                      /\ now < SureUntil(o, w) =>
                           /\ Grants(o, w, 0)' <= keys'[<<o, w>>].count
                           /\ keys'[<<o, w>>].count > 0 =>
                                keys'[<<o, w>>].expiresAt >= SureUntil(o, w)
      BY DEF KeysExact, SureUntil
  <2>1. CASE ~(o = op /\ w = win)
    <3>1. Grants(o, w, 0)' = Grants(o, w, 0) /\ keys'[<<o, w>>] = keys[<<o, w>>]
        BY <1>8, <1>10, <1>17, <2>1
    <3> QED
        BY <1>a, <1>b, <3>1 DEF KeysExact
  <2>2. CASE o = op /\ w = win
    <3>1. Grants(op, win, 0)'
            = IF status = "rejected" THEN Grants(op, win, 0) ELSE Grants(op, win, 0) + 1
        BY <1>10, <1>17 DEF Grant
    <3>2. now < SureUntil(op, win) => e >= SureUntil(op, win)
        BY <1>c, <1>4, <1>6, <1>14, TtlSuffices
    <3>3. Grants(op, win, 0)' >= Limit(op) \/ Grants(op, win, 0)' >= n + 1
        BY <1>14, <1>15, <3>1
    <3>4. now < SureUntil(op, win) => Grants(op, win, 0)' <= n + 1
        BY <1>14, <3>1
    <3> QED
        BY <1>8, <2>2, <3>2, <3>3, <3>4
  <2> QED
      BY <2>1, <2>2
<1>19. MemoryWindowExact' /\ MemoryDayExact'
    BY <1>b DEF MemoryWindowExact, MemoryDayExact
<1>20. Promised(c)
  <2>1. r.status = "allowed" /\ now < SureUntil(r.op, r.win) =>
          Grants(r.op, r.win, r.life) < Limit(r.op)
      BY <1>10, <1>14, <1>15
  <2>2. r.status = "rejected" => Grants(r.op, r.win, r.life) >= Limit(r.op)
      BY <1>10, <1>14, <1>15
  <2>3. r.status \in {"allowed", "rejected", "lost"} /\ r.done = now /\ r.life <= restarts
      BY <1>c, <1>10
  <2>4. Promise(r)
      BY <2>1, <2>2, <2>3 DEF Promise
  <2> QED
      BY <1>b, <1>10, <1>11, <2>4 DEF Promised
<1> QED
    BY <1>13, <1>16, <1>18, <1>19, <1>20 DEF StoreInv

LEMMA RedisEvalKeeps ==
  ASSUME StoreInv, NEW c \in Calls, RedisEval(c)
  PROVE  StoreInv' /\ Promised(c)
<1>1. PICK op : op = call[c].op
    OBVIOUS
<1>2. PICK win : win = call[c].win
    OBVIOUS
<1>3. /\ call[c].status \in {"sent", "cut"} /\ ReserveScript(call[c].op, call[c].at)
      /\ UNCHANGED <<kind, now, restarts, fixedWindow, dailyCounters>>
      /\ IF Spent(call[c].op, keys[<<call[c].op, call[c].win>>].count)
         THEN Answer(c, call[c].op, "rejected", call[c].win,
                     keys[<<call[c].op, call[c].win>>].expiresAt)
         ELSE Answer(c, call[c].op, "allowed", call[c].win, 0)
    BY DEF RedisEval
<1>4. PICK retryAt \in Nat : retryAt = keys[<<call[c].op, call[c].win>>].expiresAt
  <2>1. <<call[c].op, call[c].win>> \in Ops \X Times
      BY DEF StoreInv, Types, CallRecord
  <2> QED
      BY <2>1 DEF StoreInv, Types, KeyRecord
<1>5. CASE Spent(call[c].op, keys[<<call[c].op, call[c].win>>].count)
  <2>1. Answer(c, call[c].op, "rejected", call[c].win, retryAt)
      BY <1>3, <1>4, <1>5
  <2> QED
      BY <1>3, <1>5, <2>1, CountedKeeps
<1>6. CASE ~Spent(call[c].op, keys[<<call[c].op, call[c].win>>].count)
    BY <1>3, <1>6, CountedKeeps
<1> QED
    BY <1>5, <1>6

LEMMA RedisReplyLostKeeps ==
  ASSUME StoreInv, NEW c \in Calls, RedisReplyLost(c)
  PROVE  StoreInv' /\ Promised(c)
BY CountedKeeps DEF RedisReplyLost

\* A step that answers no call with a grant or a rejection, and moves no counter.
LEMMA UncountedKeeps ==
  ASSUME StoreInv, NEW c \in Calls, NEW r \in CallRecord,
         kind = "redis", call[c].status \in Pending,
         call' = [call EXCEPT ![c] = r], Sane(r), r.status \in {"sent", "failed"},
         UNCHANGED <<kind, now, restarts, fixedWindow, dailyCounters, keys>>
  PROVE  StoreInv'
<1>a. Types /\ IsFiniteSet(Begun) /\ KeysExact
    BY DEF StoreInv
<1>1. Types' /\ IsFiniteSet(Begun') /\ CallsSane'
    BY <1>a, AnswerKeepsTypes DEF Types
<1>2. QuotaPerWindow' /\ SpentIfRejected' /\ WindowsApart'
    BY AnswerKeepsPromises
<1>3. \A o, w, l : Grants(o, w, l)' = Grants(o, w, l)
  <2>1. \A o, w, l :
          Grants(o, w, l)'
            = IF Grant(r) /\ r.op = o /\ r.win = w /\ r.life = l
              THEN Grants(o, w, l) + 1 ELSE Grants(o, w, l)
      BY ZenonT(30), <1>a, OneAnswer
  <2> QED
      BY <2>1 DEF Grant
<1>4. KeysExact'
  <2> SUFFICES ASSUME NEW o \in Ops, NEW w \in Times
               PROVE  /\ \/ Grants(o, w, 0)' >= Limit(o)
                         \/ Grants(o, w, 0)' >= keys'[<<o, w>>].count
                      /\ now < SureUntil(o, w) =>
                           /\ Grants(o, w, 0)' <= keys'[<<o, w>>].count
                           /\ keys'[<<o, w>>].count > 0 =>
                                keys'[<<o, w>>].expiresAt >= SureUntil(o, w)
      BY DEF KeysExact, SureUntil
  <2>1. Grants(o, w, 0)' = Grants(o, w, 0)
      BY <1>3
  <2> QED
      BY <1>a, <2>1 DEF KeysExact
<1>5. MemoryWindowExact' /\ MemoryDayExact'
    BY DEF MemoryWindowExact, MemoryDayExact
<1> QED
    BY <1>1, <1>2, <1>4, <1>5 DEF StoreInv

LEMMA RedisSendKeeps ==
  ASSUME StoreInv, NEW c \in Calls, NEW op \in Ops, RedisSend(c, op)
  PROVE  StoreInv'
<1>1. /\ kind = "redis" /\ call[c].status \in Pending
      /\ call' = [call EXCEPT ![c].op = op, ![c].status = "sent", ![c].at = now,
                              ![c].win = WindowStart(op, now)]
      /\ UNCHANGED <<kind, now, restarts, fixedWindow, dailyCounters, keys>>
    BY DEF RedisSend, Pending
<1>2. /\ call \in [Calls -> CallRecord] /\ now \in Times /\ now \in Nat
      /\ Sane(call[c])
    BY Options DEF StoreInv, Types, CallsSane
<1>3. PICK win \in Times : win = WindowStart(op, now)
    BY <1>2, WindowStartFacts
<1>4. PICK r \in CallRecord : r = [op |-> op, status |-> "sent", at |-> now, win |-> win,
                                   done |-> call[c].done, retryAt |-> call[c].retryAt,
                                   life |-> call[c].life]
    BY <1>2 DEF CallRecord, Statuses
<1>5. call' = [call EXCEPT ![c] = r]
  <2>1. call[c] \in CallRecord
      BY <1>2
  <2>2. call'[c] = r
    <3>1. call'[c] = [[[[call[c] EXCEPT !.op = op] EXCEPT !.status = "sent"]
                        EXCEPT !.at = now] EXCEPT !.win = win]
        BY <1>1, <1>2, <1>3
    <3> QED
        BY <1>4, <2>1, <3>1 DEF CallRecord
  <2>3. /\ DOMAIN call' = Calls /\ call' = [d \in Calls |-> call'[d]]
        /\ \A d \in Calls \ {c} : call'[d] = call[d]
      BY <1>1, <1>2
  <2> QED
      BY <1>2, <2>2, <2>3
<1>6. Sane(r)
    BY <1>1, <1>2, <1>3, <1>4 DEF Sane
<1> QED
    BY <1>1, <1>4, <1>5, <1>6, UncountedKeeps

LEMMA RedisFailsKeeps ==
  ASSUME StoreInv, NEW c \in Calls, RedisFails(c)
  PROVE  StoreInv'
<1>1. /\ call[c].status = "sent"
      /\ call' = [call EXCEPT ![c] = [NewCall EXCEPT !.status = "failed"]]
      /\ UNCHANGED <<kind, now, restarts, fixedWindow, dailyCounters, keys>>
    BY DEF RedisFails
<1>2. kind = "redis" /\ call[c].status \in Pending /\ restarts \in Nat
    BY <1>1 DEF StoreInv, CallsSane, Sane, Pending, Types
<1>3. PICK r : r = [op |-> "fixed", status |-> "failed", at |-> 0, win |-> 0, done |-> 0,
                    retryAt |-> 0, life |-> 0]
    OBVIOUS
<1>4. r \in CallRecord /\ r.status = "failed" /\ r.life = 0
    BY <1>3, Options DEF CallRecord, Statuses
<1>5. [NewCall EXCEPT !.status = "failed"] = r
    BY <1>3 DEF NewCall
<1>6. call' = [call EXCEPT ![c] = r]
    BY <1>1, <1>5
<1>7. Sane(r)
    BY <1>2, <1>4 DEF Sane
<1> QED
    BY <1>1, <1>2, <1>4, <1>6, <1>7, UncountedKeeps

-----------------------------------------------------------------------------
(* The environment.                                                        *)

\* What only depends on the answers is kept when no call is answered.
LEMMA SameAnswers ==
  ASSUME StoreInv,
         \A c \in Calls : /\ call'[c].op = call[c].op /\ call'[c].win = call[c].win
                          /\ call'[c].life = call[c].life /\ call'[c].done = call[c].done
                          /\ call'[c].status \in {"allowed", "rejected", "lost"}
                             \/ call[c].status \in {"allowed", "rejected", "lost"}
                             => call'[c].status = call[c].status
  PROVE  /\ QuotaPerWindow' /\ SpentIfRejected' /\ WindowsApart'
         /\ \A o, w, l : Grants(o, w, l)' = Grants(o, w, l)
<1>1. \A o, w, l : Granted(o, w, l)' = Granted(o, w, l)
    BY DEF Granted, Answered
<1>2. \A o, w, l : Grants(o, w, l)' = Grants(o, w, l)
    BY <1>1 DEF Grants
<1>3. SpentIfRejected'
    BY <1>2 DEF StoreInv, SpentIfRejected
<1>4. WindowsApart'
    BY DEF StoreInv, WindowsApart
<1>5. QuotaPerWindow'
  <2> SUFFICES ASSUME NEW op \in Ops, NEW win \in Times, NEW life \in 0..MaxRestarts
               PROVE  Cardinality({d \in Answered({"allowed"}, op, win, life)' :
                        call'[d].done < win + Length(op) + Slack(op)}) <= Limit(op)
      BY DEF QuotaPerWindow
  <2>1. {d \in Answered({"allowed"}, op, win, life)' :
           call'[d].done < win + Length(op) + Slack(op)}
        = {d \in Answered({"allowed"}, op, win, life) :
             call[d].done < win + Length(op) + Slack(op)}
      BY DEF Answered
  <2> QED
      BY <2>1 DEF StoreInv, QuotaPerWindow
<1> QED
    BY <1>2, <1>3, <1>4, <1>5

LEMMA TickKeeps == StoreInv /\ Tick => StoreInv'
<1> SUFFICES ASSUME StoreInv, Tick PROVE StoreInv'
    OBVIOUS
<1>1. /\ now < MaxTime /\ now' = now + 1
      /\ keys' = [k \in Ops \X Times |-> IF keys[k].expiresAt <= now + 1 THEN NoKey ELSE keys[k]]
      /\ UNCHANGED <<kind, restarts, fixedWindow, dailyCounters, call>>
    BY DEF Tick
<1>2. Types /\ IsFiniteSet(Begun) /\ CallsSane /\ MemoryWindowExact /\ MemoryDayExact /\ KeysExact
    BY DEF StoreInv
<1>3. now \in Nat /\ now' \in Nat /\ now' \in Times /\ now <= now'
    BY <1>1, <1>2, Options DEF Types
<1>4. NoKey \in KeyRecord /\ NoKey.count = 0
    BY DEF NoKey, KeyRecord
<1>5. keys' \in [Ops \X Times -> KeyRecord]
    BY <1>1, <1>2, <1>4 DEF Types
<1>6. Types' /\ IsFiniteSet(Begun')
    BY <1>1, <1>2, <1>3, <1>5 DEF Types, Begun
<1>7. CallsSane'
  <2> SUFFICES ASSUME NEW c \in Calls PROVE Sane(call[c])'
      BY DEF CallsSane
  <2>1. Sane(call[c]) /\ call[c].at \in Nat
      BY <1>2, Options DEF CallsSane, Types, CallRecord
  <2> QED
      BY <1>1, <1>3, <2>1 DEF Sane
<1>8. /\ QuotaPerWindow' /\ SpentIfRejected' /\ WindowsApart'
      /\ \A o, w, l : Grants(o, w, l)' = Grants(o, w, l)
    BY <1>1, SameAnswers
<1>9. MemoryWindowExact'
  <2>1. (Grants("fixed", fixedWindow.resetAt - Window, restarts))'
          = Grants("fixed", fixedWindow.resetAt - Window, restarts)
      BY <1>1 DEF Grants, Granted, Answered
  <2>2. fixedWindow.resetAt \in Nat /\ fixedWindow' = fixedWindow
      BY <1>1, <1>2 DEF Types
  <2>3. fixedWindow.resetAt <= now + Window => fixedWindow.resetAt <= now' + Window
      BY <1>1, <1>3, <2>2, Options
  <2> QED
      BY <1>1, <1>2, <2>1, <2>2, <2>3 DEF MemoryWindowExact
<1>10. MemoryDayExact'
  <2>1. \A d \in Times : Grants("daily", d, restarts)' = Grants("daily", d, restarts)
      BY <1>1 DEF Grants, Granted, Answered
  <2> QED
      BY <1>1, <1>2, <2>1 DEF MemoryDayExact
<1>11. KeysExact'
  <2> SUFFICES ASSUME kind = "redis", NEW o \in Ops, NEW w \in Times
               PROVE  /\ \/ Grants(o, w, 0)' >= Limit(o)
                         \/ Grants(o, w, 0)' >= keys'[<<o, w>>].count
                      /\ now' < SureUntil(o, w) =>
                           /\ Grants(o, w, 0)' <= keys'[<<o, w>>].count
                           /\ keys'[<<o, w>>].count > 0 =>
                                keys'[<<o, w>>].expiresAt >= SureUntil(o, w)
      BY <1>1 DEF KeysExact, SureUntil
  <2>1. Grants(o, w, 0)' = Grants(o, w, 0) /\ Grants(o, w, 0) \in Nat
      BY <1>2, <1>8, GrantsFinite
  <2>2. PICK k \in KeyRecord : k = keys[<<o, w>>]
      BY <1>2 DEF Types
  <2>3. keys'[<<o, w>>] = IF k.expiresAt <= now + 1 THEN NoKey ELSE k
      BY <1>1, <2>2
  <2>4. /\ Grants(o, w, 0) >= Limit(o) \/ Grants(o, w, 0) >= k.count
        /\ now < SureUntil(o, w) =>
             /\ Grants(o, w, 0) <= k.count
             /\ k.count > 0 => k.expiresAt >= SureUntil(o, w)
      BY <1>2, <2>2 DEF KeysExact
  <2>5. k.count \in Nat /\ k.expiresAt \in Nat
      BY DEF KeyRecord
  <2>6. SureUntil(o, w) \in Nat
      BY Lengths, Options DEF SureUntil
  <2>7. CASE k.expiresAt <= now + 1
    <3>1. keys'[<<o, w>>].count = 0
        BY <1>4, <2>3, <2>7
    <3>2. now' < SureUntil(o, w) => Grants(o, w, 0) <= 0
        BY <1>1, <1>3, <2>1, <2>4, <2>5, <2>6, <2>7
    <3> QED
        BY <2>1, <3>1, <3>2
  <2>8. CASE ~(k.expiresAt <= now + 1)
    <3>1. keys'[<<o, w>>] = k
        BY <2>3, <2>8
    <3>2. now' < SureUntil(o, w) => now < SureUntil(o, w)
        BY <1>1, <1>3, <2>6
    <3> QED
        BY <2>1, <2>4, <3>1, <3>2
  <2> QED
      BY <2>7, <2>8
<1> QED
    BY <1>6, <1>7, <1>8, <1>9, <1>10, <1>11 DEF StoreInv

LEMMA RestartKeeps == StoreInv /\ Restart => StoreInv'
<1> SUFFICES ASSUME StoreInv, Restart PROVE StoreInv'
    OBVIOUS
<1>1. /\ restarts' = restarts + 1 /\ fixedWindow' = NoWindow
      /\ dailyCounters' = [d \in Times |-> 0]
      /\ call' = [c \in Calls |-> IF call[c].status = "sent"
                                  THEN [call[c] EXCEPT !.status = "cut"] ELSE call[c]]
      /\ UNCHANGED <<kind, now, keys>>
    BY DEF Restart
<1>2. Types /\ IsFiniteSet(Begun) /\ CallsSane /\ KeysExact
    BY DEF StoreInv
<1>3. /\ restarts \in Nat /\ restarts' \in Nat
      /\ fixedWindow' \in [count : Nat, resetAt : Nat]
      /\ fixedWindow'.resetAt = 0 /\ fixedWindow'.count = 0
      /\ dailyCounters' \in [Times -> Nat]
    BY <1>1, <1>2 DEF Types, NoWindow
<1>4. ASSUME NEW c \in Calls
      PROVE  /\ call'[c] \in CallRecord
             /\ call'[c].op = call[c].op /\ call'[c].at = call[c].at
             /\ call'[c].win = call[c].win
             /\ call'[c].life = call[c].life /\ call'[c].done = call[c].done
             /\ call'[c].status = IF call[c].status = "sent" THEN "cut" ELSE call[c].status
  <2>1. call[c] \in CallRecord
      BY <1>2 DEF Types
  <2>2. CASE call[c].status = "sent"
    <3>1. call'[c] = [call[c] EXCEPT !.status = "cut"]
        BY <1>1, <2>2
    <3> QED
        BY <2>1, <2>2, <3>1 DEF CallRecord, Statuses
  <2>3. CASE call[c].status # "sent"
    <3>1. call'[c] = call[c]
        BY <1>1, <2>3
    <3> QED
        BY <2>1, <2>3, <3>1
  <2> QED
      BY <2>2, <2>3
<1>5. call' \in [Calls -> CallRecord]
    BY <1>1, <1>4
<1>6. Types'
    BY <1>1, <1>2, <1>3, <1>5 DEF Types
<1>7. IsFiniteSet(Begun')
  <2>1. Begun' = Begun
      BY <1>4 DEF Begun
  <2> QED
      BY <1>2, <2>1
<1>8. CallsSane'
  <2> SUFFICES ASSUME NEW c \in Calls PROVE Sane(call[c])'
      BY DEF CallsSane
  <2>1. Sane(call[c]) /\ call[c].life \in Nat
      BY <1>2 DEF CallsSane, Types, CallRecord
  <2> QED
      BY <1>1, <1>3, <1>4, <2>1 DEF Sane
<1>9. /\ QuotaPerWindow' /\ SpentIfRejected' /\ WindowsApart'
      /\ \A o, w, l : Grants(o, w, l)' = Grants(o, w, l)
    BY <1>4, SameAnswers
<1>10. \A c \in Calls : call'[c].life # restarts'
  <2>1. \A c \in Calls : call[c].life \in Nat /\ call[c].life <= restarts
      BY <1>2 DEF CallsSane, Sane, Types, CallRecord
  <2> QED
      BY <1>1, <1>3, <1>4, <2>1
<1>11. MemoryWindowExact'
    BY <1>3, <1>10 DEF MemoryWindowExact
<1>12. MemoryDayExact'
  <2> SUFFICES ASSUME NEW d \in Times PROVE dailyCounters'[d] = Grants("daily", d, restarts)'
      BY DEF MemoryDayExact
  <2>1. Granted("daily", d, restarts)' = {}
      BY <1>10 DEF Granted, Answered
  <2>2. Grants("daily", d, restarts)' = 0
      BY <2>1, FS_EmptySet DEF Grants
  <2> QED
      BY <1>1, <2>2
<1>13. KeysExact'
    BY <1>1, <1>2, <1>9 DEF KeysExact, SureUntil
<1> QED
    BY <1>6, <1>7, <1>8, <1>9, <1>11, <1>12, <1>13 DEF StoreInv

LEMMA StutterKeeps == StoreInv /\ UNCHANGED vars => StoreInv'
<1> SUFFICES ASSUME StoreInv, UNCHANGED vars PROVE StoreInv'
    OBVIOUS
<1>1. UNCHANGED <<kind, now, restarts, fixedWindow, dailyCounters, keys, call>>
    BY DEF vars
<1>2. Types' /\ IsFiniteSet(Begun') /\ CallsSane' /\ WindowsApart'
    BY <1>1 DEF StoreInv, Types, Begun, CallsSane, Sane, WindowsApart
<1>3. QuotaPerWindow' /\ SpentIfRejected'
    BY <1>1, SameAnswers
<1>4. MemoryWindowExact' /\ MemoryDayExact' /\ KeysExact'
    BY <1>1 DEF StoreInv, MemoryWindowExact, MemoryDayExact, KeysExact, Grants, Granted,
                Answered, SureUntil
<1> QED
    BY <1>2, <1>3, <1>4 DEF StoreInv

LEMMA StoreInit == Init => StoreInv
<1> SUFFICES ASSUME Init PROVE StoreInv
    OBVIOUS
<1>1. /\ kind \in {"memory", "redis"} /\ now = 0 /\ restarts = 0 /\ fixedWindow = NoWindow
      /\ dailyCounters = [d \in Times |-> 0] /\ keys = [k \in Ops \X Times |-> NoKey]
      /\ call = [c \in Calls |-> NewCall]
    BY DEF Init
<1>2. /\ NewCall \in CallRecord /\ NewCall.status = "new" /\ NewCall.life = 0
    BY Options DEF NewCall, CallRecord, Statuses
<1>3. \A c \in Calls : call[c].status = "new" /\ call[c].life = 0
    BY <1>1, <1>2
<1>4. Types
    BY <1>1, <1>2, Options DEF Types, NoWindow, NoKey, KeyRecord
<1>5. Begun = {}
    BY <1>3 DEF Begun
<1>6. CallsSane /\ WindowsApart /\ SpentIfRejected
    BY <1>1, <1>3 DEF CallsSane, Sane, WindowsApart, SpentIfRejected
<1>7. \A o, w, l : Grants(o, w, l) = 0
  <2>1. \A o, w, l : Granted(o, w, l) = {}
      BY <1>3 DEF Granted, Answered
  <2> QED
      BY <2>1, FS_EmptySet DEF Grants
<1>8. QuotaPerWindow
  <2> SUFFICES ASSUME NEW op \in Ops, NEW win \in Times, NEW life \in 0..MaxRestarts
               PROVE  Cardinality({d \in Answered({"allowed"}, op, win, life) :
                        call[d].done < win + Length(op) + Slack(op)}) <= Limit(op)
      BY DEF QuotaPerWindow
  <2>1. {d \in Answered({"allowed"}, op, win, life) :
           call[d].done < win + Length(op) + Slack(op)} = {}
      BY <1>3 DEF Answered
  <2>2. Cardinality({}) = 0
      BY FS_EmptySet
  <2>3. 0 <= Limit(op)
      BY Lengths
  <2> QED
      BY ONLY <2>1, <2>2, <2>3
<1>9. MemoryWindowExact
    BY <1>1, <1>3 DEF MemoryWindowExact, NoWindow
<1>10. MemoryDayExact
    BY <1>1, <1>7 DEF MemoryDayExact
<1>11. KeysExact
    BY <1>1, <1>7 DEF KeysExact, NoKey
<1> QED
    BY <1>4, <1>5, <1>6, <1>8, <1>9, <1>10, <1>11, FS_EmptySet DEF StoreInv

LEMMA StoreNext == StoreInv /\ [Next]_vars => StoreInv'
BY MemoryConsumeKeeps, MemoryReserveKeeps, RedisSendKeeps, RedisEvalKeeps,
   RedisReplyLostKeeps, RedisFailsKeeps, TickKeeps, RestartKeeps, StutterKeeps DEF Next

LEMMA StoreInvariant == Spec => []StoreInv
BY StoreInit, StoreNext, PTL DEF Spec

-----------------------------------------------------------------------------
(* The stores implement the quota.                                         *)

\* No answer is from the future, and the server restarts as often as it may.
AnsweredBefore ==
  /\ restarts \in 0..MaxRestarts
  /\ \A c \in Calls : call[c].done <= now

QuotaInv == StoreInv /\ AnsweredBefore

LEMMA PromisedBefore ==
  ASSUME QuotaInv, NEW c \in Calls, Promised(c), now' = now, restarts' = restarts
  PROVE  AnsweredBefore'
<1>1. PICK r \in CallRecord : call' = [call EXCEPT ![c] = r] /\ Promise(r)
    BY DEF Promised
<1>2. \A d \in Calls : call'[d] = IF d = c THEN r ELSE call[d]
    BY <1>1 DEF QuotaInv, StoreInv, Types
<1>3. r.done = now /\ now \in Nat
    BY <1>1, Options DEF Promise, QuotaInv, StoreInv, Types
<1> QED
    BY <1>2, <1>3 DEF QuotaInv, AnsweredBefore

LEMMA QuotaNextKeeps == QuotaInv /\ [Next]_vars => QuotaInv'
<1> SUFFICES ASSUME QuotaInv, [Next]_vars PROVE AnsweredBefore'
    BY StoreNext DEF QuotaInv
<1>a. StoreInv /\ AnsweredBefore
    BY DEF QuotaInv
<1>b. /\ now \in Nat /\ restarts \in Nat /\ MaxRestarts \in Nat /\ 0 <= now
      /\ call \in [Calls -> CallRecord] /\ \A d \in Calls : call[d].done \in Nat
  <2>1. MaxRestarts \in Nat
      BY LimitsAssumption DEF LimitsAssumption
  <2>2. now \in Times /\ restarts \in Nat /\ call \in [Calls -> CallRecord]
      BY <1>a DEF StoreInv, Types
  <2>3. \A d \in Calls : call[d].done \in Times
      BY <2>2 DEF CallRecord
  <2>4. \A t \in Times : t \in Nat /\ 0 <= t
      BY Options
  <2> QED
      BY <2>1, <2>2, <2>3, <2>4
<1>1. ASSUME NEW c \in Calls, MemoryConsume(c) \/ MemoryReserve(c) \/ RedisEval(c) \/ RedisReplyLost(c)
      PROVE  AnsweredBefore'
  <2>1. Promised(c)
      BY <1>1, <1>a, MemoryConsumeKeeps, MemoryReserveKeeps, RedisEvalKeeps, RedisReplyLostKeeps
  <2>2. now' = now /\ restarts' = restarts
      BY <1>1 DEF MemoryConsume, MemoryReserve, RedisEval, RedisReplyLost
  <2> QED
      BY <2>1, <2>2, PromisedBefore
<1>2. ASSUME NEW c \in Calls, NEW op \in Ops, RedisSend(c, op)
      PROVE  AnsweredBefore'
  <2>1. \A d \in Calls : call'[d].done = call[d].done
      BY <1>2, <1>b DEF RedisSend, CallRecord
  <2> QED
      BY <1>2, <1>a, <2>1 DEF RedisSend, AnsweredBefore
<1>3. ASSUME NEW c \in Calls, RedisFails(c)
      PROVE  AnsweredBefore'
  <2>1. \A d \in Calls : call'[d].done = call[d].done \/ call'[d].done = 0
      BY <1>3, <1>b DEF RedisFails, NewCall
  <2> QED
      BY <1>3, <1>a, <1>b, <2>1 DEF RedisFails, AnsweredBefore
<1>4. CASE Tick
  <2>1. now' = now + 1 /\ restarts' = restarts /\ call' = call
      BY <1>4 DEF Tick
  <2> QED
      BY <1>a, <1>b, <2>1 DEF AnsweredBefore
<1>5. CASE Restart
  <2>1. \A d \in Calls : call'[d].done = call[d].done
      BY <1>5, <1>b DEF Restart, CallRecord
  <2>2. now' = now /\ restarts' = restarts + 1 /\ restarts < MaxRestarts
      BY <1>5 DEF Restart
  <2> QED
      BY <1>a, <1>b, <2>1, <2>2 DEF AnsweredBefore
<1>6. CASE UNCHANGED vars
    BY <1>6, <1>a DEF vars, AnsweredBefore
<1> QED
    BY <1>1, <1>2, <1>3, <1>4, <1>5, <1>6 DEF Next

LEMMA QuotaInvariant == Spec => []QuotaInv
<1>1. Init => QuotaInv
  <2> SUFFICES ASSUME Init PROVE QuotaInv
      OBVIOUS
  <2>1. restarts = 0 /\ now = 0 /\ call = [c \in Calls |-> NewCall]
      BY DEF Init
  <2>2. NewCall.done = 0
      BY DEF NewCall
  <2>3. restarts \in 0..MaxRestarts
      BY <2>1, LimitsAssumption DEF LimitsAssumption
  <2>4. AnsweredBefore
      BY <2>1, <2>2, <2>3 DEF AnsweredBefore
  <2> QED
      BY <2>4, StoreInit DEF QuotaInv
<1> QED
    BY <1>1, QuotaNextKeeps, PTL DEF Spec

LEMMA SameCardinality == \A S : Quota!Cardinality(S) = Cardinality(S)
BY DEF Quota!Cardinality, Cardinality

\* What the record of a call says of its answer.
LEMMA CallAnswerFacts ==
  ASSUME NEW r
  PROVE  /\ r.status \in Pending => CallAnswer(r) = Quota!Unanswered
         /\ r.status = "failed" => CallAnswer(r) = Quota!Failure
         /\ r.status = "allowed" =>
              CallAnswer(r) = Quota!About(<<r.op, r.win, r.life>>, IF InTime(r) THEN "granted" ELSE "late")
         /\ r.status \in {"rejected", "lost"} =>
              CallAnswer(r) = Quota!About(<<r.op, r.win, r.life>>, r.status)
BY DEF CallAnswer, Pending, Quota!Unanswered, Quota!Failure, Quota!About

\* The calls that have spent a window are those it counts.
LEMMA SpendersFacts ==
  ASSUME Types, NEW op \in Ops, NEW win \in Times, NEW life \in 0..MaxRestarts
  PROVE  /\ Quota!Spenders(<<op, win, life>>) = Granted(op, win, life)
         /\ Quota!IsSpent(<<op, win, life>>) <=> Grants(op, win, life) >= Limit(op)
<1> DEFINE w == <<op, win, life>>
<1>1. ASSUME NEW c \in Calls
      PROVE  (\E type \in {"granted", "late", "lost"} : CallAnswers[c] = Quota!About(w, type))
               <=> c \in Granted(op, win, life)
  <2>1. PICK r \in CallRecord : r = call[c]
      BY DEF Types
  <2>2. CallAnswers[c] = CallAnswer(r)
      BY <2>1 DEF CallAnswers
  <2>3. c \in Granted(op, win, life)
          <=> r.status \in {"allowed", "lost"} /\ r.op = op /\ r.win = win /\ r.life = life
      BY <2>1 DEF Granted, Answered
  <2>4. <<r.op, r.win, r.life>> = w <=> r.op = op /\ r.win = win /\ r.life = life
      OBVIOUS
  <2>5. \A v, x, y : Quota!About(v, x) = Quota!About(w, y) <=> v = w /\ x = y
      BY DEF Quota!About
  <2>6. \A x : Quota!Unanswered # Quota!About(w, x) \/ x \notin {"granted", "late", "lost"}
      BY DEF Quota!About, Quota!Unanswered
  <2>7. \A x : Quota!Failure # Quota!About(w, x) \/ x \notin {"granted", "late", "lost"}
      BY DEF Quota!About, Quota!Failure
  <2> HIDE DEF w
  <2>8. CASE r.status = "allowed"
    <3>1. PICK x \in {"granted", "late"} : CallAnswer(r) = Quota!About(<<r.op, r.win, r.life>>, x)
        BY <2>8, CallAnswerFacts
    <3> QED
        BY <2>2, <2>3, <2>4, <2>5, <2>8, <3>1
  <2>9. CASE r.status = "lost"
    <3>1. CallAnswer(r) = Quota!About(<<r.op, r.win, r.life>>, "lost")
        BY <2>9, CallAnswerFacts
    <3> QED
        BY <2>2, <2>3, <2>4, <2>5, <2>9, <3>1
  <2>10. CASE r.status = "rejected"
    <3>1. CallAnswer(r) = Quota!About(<<r.op, r.win, r.life>>, "rejected")
        BY <2>10, CallAnswerFacts
    <3> QED
        BY <2>2, <2>3, <2>5, <2>10, <3>1
  <2>11. CASE r.status \in Pending
    <3>1. r.status \notin {"allowed", "lost"}
        BY <2>11 DEF Pending
    <3> QED
        BY <2>2, <2>3, <2>6, <2>11, <3>1, CallAnswerFacts
  <2>12. CASE r.status = "failed"
      BY <2>2, <2>3, <2>7, <2>12, CallAnswerFacts
  <2>13. r.status \in {"allowed", "lost", "rejected", "failed"} \cup Pending
      BY DEF CallRecord, Statuses, Pending
  <2> QED
      BY <2>8, <2>9, <2>10, <2>11, <2>12, <2>13
<1>2. Quota!Spenders(w) = Granted(op, win, life)
  <2>1. Granted(op, win, life) \subseteq Calls
      BY DEF Granted, Answered
  <2> HIDE DEF w
  <2> QED
      BY <1>1, <2>1 DEF Quota!Spenders
<1>3. WindowLimits[w] = Limit(op)
  <2>1. w \in QuotaWindows /\ w[1] = op
      BY DEF QuotaWindows
  <2> QED
      BY <2>1 DEF WindowLimits
<1> QED
  <2>1. Quota!IsSpent(w) <=> Quota!Cardinality(Quota!Spenders(w)) >= WindowLimits[w]
      BY DEF Quota!IsSpent
  <2>2. Quota!Cardinality(Quota!Spenders(w)) = Grants(op, win, life)
      BY <1>2, SameCardinality DEF Grants
  <2> QED
      BY <1>2, <1>3, <2>1, <2>2

\* A promised answer is a step of the quota.
LEMMA PromiseIsStep ==
  ASSUME QuotaInv, NEW c \in Calls, Promised(c)
  PROVE  Quota!QuotaNext
<1>a. Types /\ CallsSane /\ restarts \in 0..MaxRestarts /\ \A d \in Calls : call[d].done <= now
    BY DEF QuotaInv, StoreInv, AnsweredBefore
<1>1. PICK r \in CallRecord : call' = [call EXCEPT ![c] = r] /\ Promise(r)
    BY DEF Promised
<1>2. PICK op \in Ops, win \in Times, life \in 0..MaxRestarts :
        op = r.op /\ win = r.win /\ life = r.life
  <2>1. r.op \in Ops /\ r.win \in Times /\ r.life \in Nat
      BY DEF CallRecord
  <2>2. r.life <= restarts /\ MaxRestarts \in Nat
      BY <1>1, LimitsAssumption DEF Promise, LimitsAssumption
  <2>3. r.life \in 0..MaxRestarts
      BY <1>a, <2>1, <2>2
  <2> QED
      BY <2>1, <2>3
<1>3. PICK w \in QuotaWindows : w = <<op, win, life>>
    BY DEF QuotaWindows
<1>4. Quota!IsSpent(w) <=> Grants(op, win, life) >= Limit(op)
    BY <1>a, <1>3, SpendersFacts
<1>5. Grants(op, win, life) \in Nat /\ Limit(op) \in Nat
    BY GrantsFinite, Lengths DEF QuotaInv, StoreInv
<1>6. /\ CallAnswers \in [Calls -> {CallAnswer(call[d]) : d \in Calls}]
      /\ CallAnswers[c] = Quota!Unanswered
      /\ CallAnswers' = [CallAnswers EXCEPT ![c] = CallAnswer(r)]
      /\ CallAnswers'[c] = CallAnswer(r)
  <2>1. \A d \in Calls : call'[d] = IF d = c THEN r ELSE call[d]
      BY <1>a, <1>1 DEF Types
  <2>2. CallAnswers' = [d \in Calls |-> CallAnswer(call'[d])]
      BY DEF CallAnswers, CallAnswer, InTime, Length, Slack
  <2>3. CallAnswers[c] = Quota!Unanswered
      BY CallAnswerFacts DEF CallAnswers, Promised
  <2>4. CallAnswers' = [d \in Calls |-> IF d = c THEN CallAnswer(r) ELSE CallAnswer(call[d])]
      BY <2>1, <2>2
  <2> QED
      BY <2>3, <2>4 DEF CallAnswers
<1>7. CallAnswer(r) # Quota!Unanswered
    BY <1>1, CallAnswerFacts DEF Promise, Quota!About, Quota!Unanswered
<1>8. Quota!Grant(c, w) \/ Quota!GrantLate(c, w) \/ Quota!Reject(c, w) \/ Quota!Lose(c, w)
  <2>1. CASE r.status = "allowed" /\ InTime(r)
    <3>1. Quota!Reply(c, Quota!About(w, "granted"))
        BY <1>2, <1>3, <1>6, <2>1, CallAnswerFacts DEF Quota!Reply
    <3>2. now < SureUntil(op, win)
        BY <1>1, <1>2, <2>1 DEF InTime, SureUntil, Promise
    <3>3. ~Quota!IsSpent(w)
        BY <1>1, <1>2, <1>4, <1>5, <2>1, <3>2 DEF Promise
    <3>4. ~Quota!IsOver(w)
      <4> SUFFICES ASSUME NEW d \in Calls, CallAnswers[d] = Quota!About(w, "late")
                   PROVE  FALSE
          BY DEF Quota!IsOver
      <4>1. PICK x \in CallRecord : x = call[d]
          BY <1>a DEF Types
      <4>2. CallAnswer(x) = Quota!About(w, "late")
          BY <4>1 DEF CallAnswers
      <4>3. x.op = op /\ x.win = win /\ ~InTime(x)
        <5>1. x.status = "allowed"
          <6>1. CallAnswer(x) # Quota!Unanswered /\ CallAnswer(x) # Quota!Failure
              BY <4>2 DEF Quota!About, Quota!Unanswered, Quota!Failure
          <6>2. x.status \in Pending \cup {"allowed", "rejected", "lost", "failed"}
              BY <4>1 DEF CallRecord, Statuses, Pending
          <6>3. \A v, y : Quota!About(v, y) = Quota!About(w, "late") => y = "late"
              BY DEF Quota!About
          <6> QED
              BY <4>2, <6>1, <6>2, <6>3, CallAnswerFacts
        <5>2. CallAnswer(x) = Quota!About(<<x.op, x.win, x.life>>,
                                          IF InTime(x) THEN "granted" ELSE "late")
            BY <5>1, CallAnswerFacts
        <5>3. <<x.op, x.win, x.life>> = w /\ ~InTime(x)
          <6>1. \A v, y : Quota!About(v, y) = Quota!About(w, "late") => v = w /\ y = "late"
              BY DEF Quota!About
          <6> QED
              BY <4>2, <5>2, <6>1
        <5> QED
            BY <1>3, <5>3
      <4>4. x.done <= now
          BY <1>a, <4>1
      <4>5. x.done \in Nat /\ now \in Nat /\ win \in Nat
          BY <1>a, Options DEF Types, CallRecord
      <4> QED
          BY <3>2, <4>3, <4>4, <4>5, Lengths DEF InTime, SureUntil
    <3> QED
        BY <3>1, <3>3, <3>4 DEF Quota!Grant
  <2>2. CASE r.status = "allowed" /\ ~InTime(r)
    <3>1. Quota!Reply(c, Quota!About(w, "late"))
        BY <1>2, <1>3, <1>6, <2>2, CallAnswerFacts DEF Quota!Reply
    <3> QED
        BY <3>1 DEF Quota!GrantLate
  <2>3. CASE r.status = "rejected"
    <3>1. Quota!Reply(c, Quota!About(w, "rejected"))
        BY <1>2, <1>3, <1>6, <2>3, CallAnswerFacts DEF Quota!Reply
    <3>2. Quota!IsSpent(w)
        BY <1>1, <1>2, <1>4, <2>3 DEF Promise
    <3> QED
        BY <3>1, <3>2 DEF Quota!Reject
  <2>4. CASE r.status = "lost"
    <3>1. Quota!Reply(c, Quota!About(w, "lost"))
        BY <1>2, <1>3, <1>6, <2>4, CallAnswerFacts DEF Quota!Reply
    <3> QED
        BY <3>1 DEF Quota!Lose
  <2> QED
      BY <1>1, <2>1, <2>2, <2>3, <2>4 DEF Promise
<1> QED
    BY <1>6, <1>7, <1>8 DEF Quota!QuotaNext

LEMMA QuotaStep == QuotaInv /\ [Next]_vars => [Quota!QuotaNext]_CallAnswers
<1> SUFFICES ASSUME QuotaInv, [Next]_vars
             PROVE  Quota!QuotaNext \/ CallAnswers' = CallAnswers
    OBVIOUS
<1>a. StoreInv /\ Types
    BY DEF QuotaInv, StoreInv
<1>b. CallAnswers' = [d \in Calls |-> CallAnswer(call'[d])]
    BY DEF CallAnswers, CallAnswer, InTime, Length, Slack
<1>1. ASSUME NEW c \in Calls, MemoryConsume(c) \/ MemoryReserve(c) \/ RedisEval(c) \/ RedisReplyLost(c)
      PROVE  Quota!QuotaNext
  <2>1. Promised(c)
      BY <1>1, <1>a, MemoryConsumeKeeps, MemoryReserveKeeps, RedisEvalKeeps, RedisReplyLostKeeps
  <2> QED
      BY <2>1, PromiseIsStep
<1>2. ASSUME \A d \in Calls : CallAnswer(call'[d]) = CallAnswer(call[d])
      PROVE  CallAnswers' = CallAnswers
    BY <1>b, <1>2 DEF CallAnswers
<1>3. ASSUME NEW c \in Calls, NEW op \in Ops, RedisSend(c, op)
      PROVE  CallAnswers' = CallAnswers
  <2>1. call[c].status = "new" /\ call'[c].status = "sent"
      BY <1>3, <1>a DEF RedisSend, Types, CallRecord
  <2>2. \A d \in Calls \ {c} : call'[d] = call[d]
      BY <1>3, <1>a DEF RedisSend, Types
  <2>3. CallAnswer(call'[c]) = CallAnswer(call[c])
      BY <2>1, CallAnswerFacts DEF Pending
  <2> QED
      BY <1>2, <2>2, <2>3
<1>4. ASSUME NEW c \in Calls, RedisFails(c)
      PROVE  Quota!QuotaNext
  <2>1. PICK r : r = [NewCall EXCEPT !.status = "failed"]
      OBVIOUS
  <2>2. r.status = "failed"
      BY <2>1 DEF NewCall
  <2>3. call[c].status = "sent" /\ call' = [call EXCEPT ![c] = r]
      BY <1>4, <2>1 DEF RedisFails
  <2>4. \A d \in Calls : call'[d] = IF d = c THEN r ELSE call[d]
      BY <1>a, <2>3 DEF Types
  <2>5. CallAnswers' = [d \in Calls |-> IF d = c THEN CallAnswer(r) ELSE CallAnswer(call[d])]
      BY <1>b, <2>4
  <2>6. CallAnswers[c] = Quota!Unanswered /\ CallAnswer(r) = Quota!Failure
      BY <2>2, <2>3, CallAnswerFacts DEF CallAnswers, Pending
  <2>7. Quota!Failure # Quota!Unanswered
      BY DEF Quota!Failure, Quota!Unanswered
  <2>8. CallAnswers' = [CallAnswers EXCEPT ![c] = CallAnswers'[c]] /\ CallAnswers'[c] = Quota!Failure
      BY <2>5, <2>6 DEF CallAnswers
  <2>9. Quota!Fail(c)
      BY <2>6, <2>8 DEF Quota!Fail, Quota!Reply
  <2> QED
      BY <2>6, <2>7, <2>8, <2>9 DEF Quota!QuotaNext
<1>5. CASE Tick
  <2>1. call' = call
      BY <1>5 DEF Tick
  <2> QED
      BY <1>2, <2>1
<1>6. CASE Restart
  <2>1. ASSUME NEW d \in Calls PROVE CallAnswer(call'[d]) = CallAnswer(call[d])
    <3>1. CASE call[d].status = "sent"
      <4>1. call'[d] = [call[d] EXCEPT !.status = "cut"]
          BY <1>6, <3>1 DEF Restart
      <4>2. call'[d].status = "cut"
          BY <1>a, <4>1 DEF Types, CallRecord
      <4> QED
          BY <3>1, <4>2, CallAnswerFacts DEF Pending
    <3>2. CASE call[d].status # "sent"
        BY <1>6, <3>2 DEF Restart
    <3> QED
        BY <3>1, <3>2
  <2> QED
      BY <1>2, <2>1
<1>7. CASE UNCHANGED vars
    BY <1>2, <1>7 DEF vars
<1> QED
    BY <1>1, <1>3, <1>4, <1>5, <1>6, <1>7 DEF Next

(***************************************************************************)
(* Either store is the windowed quota: every call is answered once, within *)
(* the limit of its window or because that is spent, in whatever order the *)
(* calls reach Redis and whenever the server restarts                      *)
(* (MemoryReliabilityStore, RedisReliabilityStore).                        *)
(***************************************************************************)
THEOREM QuotaImplemented == Spec => ImplementsQuota
<1>1. Init => Quota!QuotaInit
  <2> SUFFICES ASSUME Init PROVE Quota!QuotaInit
      OBVIOUS
  <2>1. call = [c \in Calls |-> NewCall]
      BY DEF Init
  <2>2. CallAnswer(NewCall) = Quota!Unanswered
      BY CallAnswerFacts DEF NewCall, Pending
  <2>3. CallAnswers = [c \in Calls |-> Quota!Unanswered]
      BY <2>1, <2>2 DEF CallAnswers
  <2> QED
      BY <2>3 DEF Quota!QuotaInit
<1> QED
    BY <1>1, QuotaStep, QuotaInvariant, PTL DEF Spec, ImplementsQuota, Quota!QuotaSpec

-----------------------------------------------------------------------------
(* The promises.                                                           *)

\* No window and no day grants more than its limit, in either store, however the calls
\* are delayed, lost or cut off by a restart of the server.
THEOREM QuotaPerWindowAlways == Spec => []QuotaPerWindow
<1>1. StoreInv => QuotaPerWindow
    BY DEF StoreInv
<1> QED
    BY <1>1, StoreInvariant, PTL

\* A call is turned away only if the quota of its window was spent on granted calls.
THEOREM RejectedWhenSpentAlways == Spec => []RejectedWhenSpent
<1>1. StoreInv => RejectedWhenSpent
  <2> SUFFICES ASSUME StoreInv, NEW c \in Calls, call[c].status = "rejected"
               PROVE  Cardinality(Answered({"allowed", "lost"}, call[c].op, call[c].win,
                                           call[c].life)) >= Limit(call[c].op)
      BY DEF RejectedWhenSpent
  <2>1. call[c].op \in Ops /\ call[c].win \in Times /\ call[c].life \in Nat
      BY DEF StoreInv, Types, CallRecord
  <2>2. Grants(call[c].op, call[c].win, call[c].life) >= Limit(call[c].op)
      BY <2>1 DEF StoreInv, SpentIfRejected
  <2> QED
      BY <2>2 DEF Grants, Granted
<1> QED
    BY <1>1, StoreInvariant, PTL

\* hasQuota answers whether the day has quota left, and both stores agree on that.
THEOREM HasQuotaExactAlways == Spec => []HasQuotaExact
<1>1. StoreInv => HasQuotaExact
  <2> SUFFICES ASSUME StoreInv PROVE HasQuotaExact
      OBVIOUS
  <2>1. now \in Times /\ now \in Nat /\ IsFiniteSet(Begun)
      BY Options DEF StoreInv, Types
  <2>2. PICK day \in Times : day = WindowStart("daily", now)
      BY <2>1, WindowStartFacts, Options
  <2>3. day \in Nat /\ now < day + Day
      BY <2>1, <2>2, WindowStartFacts, Options
  <2>4. UsageToday < DailyLimit <=> Grants("daily", day, Life) < DailyLimit
    <3>1. CASE kind = "memory"
        BY <2>2, <3>1 DEF StoreInv, MemoryDayExact, UsageToday, Life
    <3>2. CASE kind = "redis"
      <4>1. now < SureUntil("daily", day)
          BY <2>1, <2>3, Options DEF SureUntil
      <4>2. PICK k \in KeyRecord : k = keys[<<"daily", day>>]
          BY Options DEF StoreInv, Types
      <4>3. /\ Grants("daily", day, 0) >= DailyLimit \/ Grants("daily", day, 0) >= k.count
            /\ Grants("daily", day, 0) <= k.count
          BY <3>2, <4>1, <4>2, Options DEF StoreInv, KeysExact
      <4>4. Grants("daily", day, 0) \in Nat /\ k.count \in Nat
          BY <2>1, GrantsFinite DEF KeyRecord
      <4>5. UsageToday = k.count /\ Life = 0
          BY <2>2, <3>2, <4>2 DEF UsageToday, Life
      <4> QED
          BY <4>3, <4>4, <4>5, Options
    <3> QED
        BY <3>1, <3>2 DEF StoreInv, Types
  <2> QED
      BY <2>2, <2>4 DEF HasQuotaExact, Grants, Granted
<1> QED
    BY <1>1, StoreInvariant, PTL

\* No three windows reach into one period as long as a window.
LEMMA TwoWindows ==
  ASSUME NEW t \in Times, NEW u \in Nat, NEW v \in Nat, NEW w \in Nat,
         Apart(u, v), Apart(u, w), Apart(v, w),
         u + Window > t, u <= t + Window - 1,
         v + Window > t, v <= t + Window - 1,
         w + Window > t, w <= t + Window - 1
  PROVE  u = v \/ u = w \/ v = w
<1>1. t \in Nat
    BY Options
<1> QED
    BY <1>1, Options DEF Apart

\* Whatever the alignment of the windows, at most twice the limit is granted in any
\* period as long as a window.
THEOREM BurstBoundedAlways == Spec => []BurstBounded
<1>1. StoreInv => BurstBounded
  <2> SUFFICES ASSUME StoreInv, NEW t \in Times, NEW life \in 0..MaxRestarts
               PROVE  Cardinality({c \in Calls :
                        /\ call[c].status = "allowed" /\ call[c].op = "fixed"
                        /\ call[c].life = life
                        /\ call[c].done \in t..(t + Window - 1)
                        /\ call[c].done < call[c].win + Window}) <= 2 * FixedLimit
      BY DEF BurstBounded
  <2> DEFINE S == {c \in Calls :
                     /\ call[c].status = "allowed" /\ call[c].op = "fixed"
                     /\ call[c].life = life
                     /\ call[c].done \in t..(t + Window - 1)
                     /\ call[c].done < call[c].win + Window}
             Q(w) == {c \in Answered({"allowed"}, "fixed", w, life) :
                        call[c].done < w + Window}
  <2>1. \A c \in Calls : call[c].win \in Times /\ call[c].win \in Nat /\ call[c].done \in Nat
      BY SMTT(30), Options DEF StoreInv, Types, CallRecord
  <2>2. ASSUME NEW w \in Times
        PROVE  IsFiniteSet(Q(w)) /\ Cardinality(Q(w)) \in Nat /\ Cardinality(Q(w)) <= FixedLimit
    <3>1. Q(w) \in SUBSET Begun
        BY DEF Answered, Begun
    <3>2. IsFiniteSet(Begun)
        BY DEF StoreInv
    <3>3. IsFiniteSet(Q(w)) /\ Cardinality(Q(w)) \in Nat
      <4> HIDE DEF Q
      <4> QED
          BY <3>1, <3>2, FS_Subset, FS_CardinalityType
    <3>4. Q(w) = {c \in Answered({"allowed"}, "fixed", w, life) :
                    call[c].done < w + Length("fixed") + Slack("fixed")}
        BY Options
    <3>5. Cardinality(Q(w)) <= FixedLimit
        BY <3>4, Options DEF StoreInv, QuotaPerWindow
    <3> QED
        BY <3>3, <3>5
  <2>3. \A c \in S : c \in Calls /\ c \in Q(call[c].win)
      BY DEF Answered
  <2>4. \A c, d \in S : Apart(call[c].win, call[d].win)
      BY DEF StoreInv, WindowsApart
  <2>5. ASSUME NEW c \in S
        PROVE  /\ call[c].win \in Nat /\ call[c].win + Window > t
               /\ call[c].win <= t + Window - 1
    <3>1. call[c].win <= call[c].done
        BY DEF StoreInv, CallsSane, Sane
    <3>2. call[c].done \in Nat /\ call[c].win \in Nat /\ t \in Nat
        BY <2>1, Options
    <3> QED
        BY SMTT(30), <3>1, <3>2, Options
  <2>6. CASE S = {}
    <3>1. Cardinality({}) = 0 /\ 0 <= 2 * FixedLimit
        BY FS_EmptySet, Options
    <3> QED
        BY ONLY <2>6, <3>1
  <2>7. CASE S # {}
    <3>1. PICK c \in S : TRUE
        BY <2>7
    <3>2. PICK v \in Times : v = call[c].win
        BY <2>1
    <3>3. PICK w \in Times : S \subseteq Q(v) \cup Q(w)
      <4>1. CASE \A d \in S : call[d].win = v
          BY <2>3, <4>1
      <4>2. CASE \E d \in S : call[d].win # v
        <5>1. PICK d \in S : call[d].win # v
            BY <4>2
        <5>2. PICK w \in Times : w = call[d].win
            BY <2>1
        <5>3. ASSUME NEW e \in S PROVE call[e].win = v \/ call[e].win = w
          <6>1. PICK u : u = call[e].win
              OBVIOUS
          <6>2. Apart(v, w) /\ Apart(u, v) /\ Apart(u, w)
              BY <2>4, <3>2, <5>2, <6>1
          <6>3. u \in Nat /\ u + Window > t /\ u <= t + Window - 1
              BY <2>5, <6>1
          <6>4. v \in Nat /\ v + Window > t /\ v <= t + Window - 1
              BY <2>5, <3>2
          <6>5. w \in Nat /\ w + Window > t /\ w <= t + Window - 1
              BY <2>5, <5>2
          <6>6. u = v \/ u = w \/ v = w
              BY <6>2, <6>3, <6>4, <6>5, TwoWindows
          <6> QED
              BY <5>1, <5>2, <6>1, <6>6
        <5>4. S \subseteq Q(v) \cup Q(w)
            BY <2>3, <5>3
        <5> QED
            BY <5>4
      <4> QED
          BY <4>1, <4>2
    <3> HIDE DEF S, Q
    <3>4. /\ IsFiniteSet(Q(v) \cup Q(w))
          /\ Cardinality(Q(v) \cup Q(w))
               = Cardinality(Q(v)) + Cardinality(Q(w)) - Cardinality(Q(v) \cap Q(w))
        BY <2>2, FS_Union
    <3>5. Cardinality(Q(v) \cap Q(w)) \in Nat
      <4>1. Q(v) \cap Q(w) \in SUBSET Q(v)
          OBVIOUS
      <4> QED
          BY <2>2, <4>1, FS_Subset, FS_CardinalityType
    <3>6. /\ Cardinality(Q(v)) \in Nat /\ Cardinality(Q(v)) <= FixedLimit
          /\ Cardinality(Q(w)) \in Nat /\ Cardinality(Q(w)) <= FixedLimit
        BY <2>2
    <3>7. Cardinality(S) <= Cardinality(Q(v) \cup Q(w)) /\ Cardinality(S) \in Nat
        BY <3>3, <3>4, FS_Subset, FS_CardinalityType
    <3>8. Cardinality(Q(v) \cup Q(w)) <= 2 * FixedLimit
          /\ Cardinality(Q(v) \cup Q(w)) \in Nat
        BY <3>4, <3>5, <3>6, FS_CardinalityType, Options
    <3>9. Cardinality(S) <= 2 * FixedLimit
        BY <3>7, <3>8, Options
    <3> QED
        BY <3>9 DEF S
  <2> QED
      BY <2>6, <2>7
<1> QED
    BY <1>1, StoreInvariant, PTL
=============================================================================
