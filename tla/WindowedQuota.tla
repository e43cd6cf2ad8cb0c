---------------------------- MODULE WindowedQuota ----------------------------
(***************************************************************************)
(* What a rate limit or a daily quota promises its callers, wherever it    *)
(* counts: each call is answered once, for one window; it is granted only  *)
(* while fewer calls than the limit have spent the window, and rejected    *)
(* only when that many have.  A call whose answer is lost has spent its    *)
(* unit.  A call that is counted when the window is over may be granted    *)
(* beyond the limit, and then no other is granted in time.                 *)
(***************************************************************************)
EXTENDS Naturals, FiniteSets

CONSTANTS
  Calls,
  Windows,  \* the windows, or days, that calls are counted in
  Units     \* the quota of each window

VARIABLE answer  \* to each call

Unanswered == [type |-> "none"]
Failure == [type |-> "failed"]
About(w, type) == [type |-> type, window |-> w]

\* The calls that have spent a unit of the window.
Spenders(w) ==
  {c \in Calls : \E type \in {"granted", "late", "lost"} : answer[c] = About(w, type)}

IsSpent(w) == Cardinality(Spenders(w)) >= Units[w]
IsOver(w) == \E c \in Calls : answer[c] = About(w, "late")

Reply(c, a) ==
  /\ answer[c] = Unanswered
  /\ answer'[c] = a

QuotaInit == answer = [c \in Calls |-> Unanswered]

Grant(c, w) == Reply(c, About(w, "granted")) /\ ~IsSpent(w) /\ ~IsOver(w)

GrantLate(c, w) == Reply(c, About(w, "late"))

Reject(c, w) == Reply(c, About(w, "rejected")) /\ IsSpent(w)

\* The call was counted, and nobody hears of it.
Lose(c, w) == Reply(c, About(w, "lost"))

\* The call was never counted.
Fail(c) == Reply(c, Failure)

\* One call is answered, and the others are as they were.
QuotaNext ==
  \E c \in Calls :
    /\ answer'[c] # answer[c]
    /\ answer' = [answer EXCEPT ![c] = answer'[c]]
    /\ \/ \E w \in Windows : Grant(c, w) \/ GrantLate(c, w) \/ Reject(c, w) \/ Lose(c, w)
       \/ Fail(c)

QuotaSpec == QuotaInit /\ [][QuotaNext]_answer
=============================================================================
