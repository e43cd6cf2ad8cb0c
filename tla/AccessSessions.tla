--------------------------- MODULE AccessSessions ---------------------------
(***************************************************************************)
(* Private access: invite codes, the sessions logged in with them, the     *)
(* gate that a browser tab shows, and the checks of the session on every   *)
(* path by which a Socket.io connection reaches a room.                    *)
(*                                                                         *)
(* A session is a row that a cookie names.  Every check reads the row and  *)
(* the row of its invite anew, and compares their expiry with the time at  *)
(* which the check began.  A login counts the sessions of its invite in a  *)
(* transaction that holds the row lock of the invite.  A connection keeps  *)
(* the cookie it was opened with.                                          *)
(*                                                                         *)
(* Abstractions.  Codes, hashes, tokens and signatures are left out: a     *)
(* code is the invite it belongs to, found by its lookup hash or among the *)
(* invites that have none, and a cookie is the session it names.  Clocks   *)
(* do not run backwards.  A query may always fail, since the database may  *)
(* be unreachable.  A connection has one event under way at a time, and    *)
(* the only event told apart is the join that makes its user a member.     *)
(* The check of the access interval begins and ends in one step.           *)
(***************************************************************************)
EXTENDS Naturals, FiniteSets, Sequences

CONSTANTS
  Tabs,          \* browser tabs, each with a socket of its own
  Browsers,      \* cookie jars
  BrowserOf,     \* BrowserOf[t] is the browser of tab t
  Invites,
  MaxSessions,   \* max_sessions of every invite
  Ttl,           \* session lifetime, sessionTtlDays
  MaxTime,       \* bound: the last instant
  MaxRows        \* bound: rows of access_sessions ever inserted

None == "none"

\* No tab has the name that stands for none.
ASSUME AccessAssumption ==
  /\ BrowserOf \in [Tabs -> Browsers] /\ None \notin Tabs
  /\ MaxSessions \in Nat \ {0} /\ Ttl \in Nat \ {0} /\ MaxTime \in Nat /\ MaxRows \in Nat

VARIABLES
  now,
  invites,       \* rows of invite_codes
  rowLock,       \* the tab whose login holds the row lock of an invite
  sessions,      \* rows of access_sessions, in order of insertion
  cookie,        \* the session the cookie of a browser names, 0 if none
  tab,           \* AccessGate of each tab and its request under way
  socket         \* the Socket.io connection of each tab, as the server sees it

tables == <<invites, rowLock, sessions>>
vars == <<now, tables, cookie, tab, socket>>

Instants == 0..MaxTime
Never == MaxTime + Ttl + 1

NoInvite == [exists |-> FALSE, revoked |-> FALSE, expiresAt |-> Never]
Idle == [gate |-> "checking", pc |-> "idle", at |-> 0, invite |-> None, created |-> 0]
NoEvent == [pending |-> FALSE, at |-> 0, late |-> FALSE]
Unconnected == [state |-> "none", session |-> 0, event |-> NoEvent, member |-> FALSE]

\* An invite that is usable at an instant.
Usable(i, at) == invites[i].exists /\ ~invites[i].revoked /\ invites[i].expiresAt > at

\* Sessions of an invite that are not revoked and not expired at an instant.
Active(i, at) ==
  {s \in DOMAIN sessions : sessions[s].invite = i /\ ~sessions[s].revoked /\ sessions[s].expiresAt > at}

\* validateCookie, its query answered: session and invite are valid at the instant it began.
Valid(s, at) ==
  /\ s \in DOMAIN sessions
  /\ s \in Active(sessions[s].invite, at)
  /\ Usable(sessions[s].invite, at)

-----------------------------------------------------------------------------
Init ==
  /\ now = 0
  /\ invites = [i \in Invites |-> NoInvite]
  /\ rowLock = [i \in Invites |-> None]
  /\ sessions = <<>>
  /\ cookie = [b \in Browsers |-> 0]
  /\ tab = [t \in Tabs |-> Idle]
  /\ socket = [t \in Tabs |-> Unconnected]

Tick ==
  /\ now < MaxTime /\ now' = now + 1
  /\ UNCHANGED <<tables, cookie, tab, socket>>

\* The invite script: create, with or without --expires-at, and revoke, whose
\* UPDATE waits for the row lock.
CreateInvite(i, expiresAt) ==
  /\ ~invites[i].exists
  /\ invites' = [invites EXCEPT ![i] = [exists |-> TRUE, revoked |-> FALSE, expiresAt |-> expiresAt]]
  /\ UNCHANGED <<now, rowLock, sessions, cookie, tab, socket>>

RevokeInvite(i) ==
  /\ invites[i].exists /\ ~invites[i].revoked /\ rowLock[i] = None
  /\ invites' = [invites EXCEPT ![i].revoked = TRUE]
  /\ UNCHANGED <<now, rowLock, sessions, cookie, tab, socket>>

\* POST /access/logout: the row is revoked and the cookie cleared.
Logout(b) ==
  /\ cookie[b] # 0
  /\ sessions' = [sessions EXCEPT ![cookie[b]].revoked = TRUE]
  /\ cookie' = [cookie EXCEPT ![b] = 0]
  /\ UNCHANGED <<now, invites, rowLock, tab, socket>>

-----------------------------------------------------------------------------
(* The gate of a tab.  Its room page, with the socket, is there only while  *)
(* the gate is "authorized".                                                *)

Cookie(t) == cookie[BrowserOf[t]]

\* The gate changes; the socket of a page that goes is disconnected.
Gate(t, gate) ==
  /\ tab' = [tab EXCEPT ![t] = [Idle EXCEPT !.gate = gate]]
  /\ socket' = [socket EXCEPT ![t] = IF gate = "authorized" THEN @ ELSE Unconnected]

\* The page is loaded again, or its user retries: refreshSession.
Reload(t) ==
  /\ tab[t].pc = "idle" /\ tab[t].gate # "checking"
  /\ Gate(t, "checking")
  /\ UNCHANGED <<now, tables, cookie>>

\* The answer of GET /access/session, which is no if its query fails.
SessionAnswered(t) ==
  /\ tab[t].gate = "checking"
  /\ \/ Valid(Cookie(t), now) /\ Gate(t, "authorized")
     \/ Gate(t, "locked")
     \/ Gate(t, "unavailable")
  /\ UNCHANGED <<now, tables, cookie>>

(* POST /access/login.                                                      *)

Submit(t) ==
  /\ tab[t].gate = "locked" /\ tab[t].pc = "idle"
  /\ tab' = [tab EXCEPT ![t].pc = "existing"]
  /\ UNCHANGED <<now, tables, cookie, socket>>

\* A valid session is kept, unless the query fails; otherwise the login
\* proper begins, and its time is taken.
LoginExisting(t) ==
  /\ tab[t].pc = "existing"
  /\ \/ Valid(Cookie(t), now) /\ Gate(t, "authorized")
     \/ /\ tab' = [tab EXCEPT ![t].pc = "finding", ![t].at = now]
        /\ UNCHANGED socket
  /\ UNCHANGED <<now, tables, cookie>>

\* findMatchingInvite: the code belongs to a usable invite, or the login fails.
LoginFinds(t, i) ==
  /\ tab[t].pc = "finding" /\ Usable(i, tab[t].at)
  /\ tab' = [tab EXCEPT ![t].pc = "locking", ![t].invite = i]
  /\ UNCHANGED <<now, tables, cookie, socket>>

\* Mutant: SELECT without FOR UPDATE.
LockRowUnlocked(t, i) == rowLock' = rowLock

\* SELECT ... FOR UPDATE.
LockRow(t, i) == rowLock[i] = None /\ rowLock' = [rowLock EXCEPT ![i] = t]

\* The end of a transaction.
UnlockRow(t) == rowLock' = [i \in Invites |-> IF rowLock[i] = t THEN None ELSE rowLock[i]]

LoginLocks(t) ==
  /\ tab[t].pc = "locking"
  /\ LockRow(t, tab[t].invite)
  /\ tab' = [tab EXCEPT ![t].pc = "counting"]
  /\ UNCHANGED <<now, invites, sessions, cookie, socket>>

\* The sessions active when the login began are fewer than the invite allows.
LoginCounts(t) ==
  /\ tab[t].pc = "counting"
  /\ Cardinality(Active(tab[t].invite, tab[t].at)) < MaxSessions
  /\ tab' = [tab EXCEPT ![t].pc = "inserting"]
  /\ UNCHANGED <<now, tables, cookie, socket>>

\* INSERT and COMMIT.
LoginCommits(t) ==
  /\ tab[t].pc = "inserting" /\ Len(sessions) < MaxRows
  /\ sessions' = Append(sessions, [invite |-> tab[t].invite, expiresAt |-> tab[t].at + Ttl,
                                   revoked |-> FALSE])
  /\ UnlockRow(t)
  /\ tab' = [tab EXCEPT ![t].pc = "replying", ![t].created = Len(sessions) + 1]
  /\ UNCHANGED <<now, invites, cookie, socket>>

LoginSucceeds(t) ==
  /\ tab[t].pc = "replying"
  /\ cookie' = [cookie EXCEPT ![BrowserOf[t]] = tab[t].created]
  /\ Gate(t, "authorized")
  /\ UNCHANGED <<now, tables>>

\* The code is wrong, the invite is at its limit, a query fails, or the reply
\* is lost: a transaction not committed is rolled back.
LoginFails(t) ==
  /\ tab[t].pc \in {"existing", "finding", "locking", "counting", "inserting", "replying"}
  /\ UnlockRow(t)
  /\ Gate(t, "locked")
  /\ UNCHANGED <<now, invites, sessions, cookie>>

-----------------------------------------------------------------------------
(* The Socket.io connection.                                                *)

Denied(t) ==
  /\ socket' = [socket EXCEPT ![t].state = "closing", ![t].event = NoEvent]

\* The page connects, or connects again; the request carries the cookie the
\* browser has now.
Handshake(t) ==
  /\ tab[t].gate = "authorized" /\ socket[t].state = "none"
  /\ socket' = [socket EXCEPT ![t].state = "validating", ![t].session = Cookie(t)]
  /\ UNCHANGED <<now, tables, cookie, tab>>

\* The handshake middleware: the session is validated, then the rate limiter awaited.
HandshakeValidated(t) ==
  /\ socket[t].state = "validating"
  /\ Valid(socket[t].session, now)
  /\ socket' = [socket EXCEPT ![t].state = "limiting"]
  /\ UNCHANGED <<now, tables, cookie, tab>>

Connected(t) ==
  /\ socket[t].state = "limiting"
  /\ socket' = [socket EXCEPT ![t].state = "connected"]
  /\ UNCHANGED <<now, tables, cookie, tab>>

\* A refused handshake: the client is told by connect_error and stays as it is.
HandshakeRefused(t) ==
  /\ socket[t].state \in {"validating", "limiting"}
  /\ socket' = [socket EXCEPT ![t] = [Unconnected EXCEPT !.state = "refused"]]
  /\ UNCHANGED <<now, tables, cookie, tab>>

\* An event arrives: its access check begins.  "late" tells whether access had
\* ended before.
EventArrives(t) ==
  /\ socket[t].state = "connected" /\ ~socket[t].event.pending /\ ~socket[t].member
  /\ socket' = [socket EXCEPT ![t].event =
       [pending |-> TRUE, at |-> now, late |-> ~Valid(socket[t].session, now)]]
  /\ UNCHANGED <<now, tables, cookie, tab>>

\* Mutant: a connection that was validated once is not validated again.
EventValidOnce(t) == TRUE

EventValid(t) == Valid(socket[t].session, socket[t].event.at)

EventAllowed(t) ==
  /\ socket[t].event.pending
  /\ EventValid(t)
  /\ socket' = [socket EXCEPT ![t].event = NoEvent, ![t].member = TRUE]
  /\ UNCHANGED <<now, tables, cookie, tab>>

\* The access check of an event denies: ACCESS_REQUIRED is sent and the socket
\* disconnected in a later turn.
EventDenied(t) ==
  /\ socket[t].event.pending
  /\ Denied(t)
  /\ UNCHANGED <<now, tables, cookie, tab>>

\* Mutant: the interval never denies.
RevalidationNever(t) == FALSE

RevalidationFails(t) == socket[t].state = "connected" /\ ~Valid(socket[t].session, now)

\* The access interval of a connected socket is denied, rightly or because the
\* query failed.
Revalidate(t) ==
  /\ RevalidationFails(t)
  /\ Denied(t)
  /\ UNCHANGED <<now, tables, cookie, tab>>

RevalidateUnavailable(t) ==
  /\ socket[t].state = "connected"
  /\ Denied(t)
  /\ UNCHANGED <<now, tables, cookie, tab>>

\* disconnect(true).  The client, unless the connection broke before, has had
\* ACCESS_REQUIRED by then, and its gate locks.
DisconnectDenied(t) ==
  /\ socket[t].state = "closing"
  /\ \/ Gate(t, "locked")
     \/ socket' = [socket EXCEPT ![t] = Unconnected] /\ UNCHANGED tab
  /\ UNCHANGED <<now, tables, cookie>>

\* The transport breaks; the client connects again.
TransportClose(t) ==
  /\ socket[t].state \in {"connected", "closing"}
  /\ socket' = [socket EXCEPT ![t] = Unconnected]
  /\ UNCHANGED <<now, tables, cookie, tab>>

-----------------------------------------------------------------------------
GateStep(t) ==
  \/ Reload(t) \/ SessionAnswered(t) \/ Submit(t)
  \/ LoginExisting(t) \/ LoginLocks(t) \/ LoginCounts(t) \/ LoginCommits(t)
  \/ LoginSucceeds(t) \/ LoginFails(t)
  \/ \E i \in Invites : LoginFinds(t, i)

SocketStep(t) ==
  \/ Handshake(t) \/ HandshakeValidated(t) \/ Connected(t) \/ HandshakeRefused(t)
  \/ EventArrives(t) \/ EventAllowed(t) \/ EventDenied(t)
  \/ Revalidate(t) \/ RevalidateUnavailable(t) \/ DisconnectDenied(t) \/ TransportClose(t)

Next ==
  \/ Tick
  \/ \E i \in Invites : RevokeInvite(i) \/ \E e \in Instants \cup {Never} : CreateInvite(i, e)
  \/ \E b \in Browsers : Logout(b)
  \/ \E t \in Tabs : GateStep(t) \/ SocketStep(t)

\* The access interval fires, and a disconnect that is due is made.
Fairness ==
  \A t \in Tabs : WF_vars(Revalidate(t)) /\ WF_vars(DisconnectDenied(t))

Spec == Init /\ [][Next]_vars
FairSpec == Spec /\ Fairness

-----------------------------------------------------------------------------
(* Properties.                                                              *)

\* The variables have the values the code gives them.
TypeOK ==
  /\ now \in Instants
  /\ invites \in [Invites -> [exists : BOOLEAN, revoked : BOOLEAN, expiresAt : Instants \cup {Never}]]
  /\ rowLock \in [Invites -> Tabs \cup {None}]
  /\ sessions \in Seq([invite : Invites, expiresAt : 0..Never, revoked : BOOLEAN])
  /\ Len(sessions) <= MaxRows
  /\ cookie \in [Browsers -> 0..Len(sessions)]
  /\ tab \in [Tabs -> [gate : {"checking", "authorized", "locked", "unavailable"},
                       pc : {"idle", "existing", "finding", "locking", "counting", "inserting", "replying"},
                       at : Instants, invite : Invites \cup {None}, created : 0..Len(sessions)]]
  /\ socket \in [Tabs -> [state : {"none", "validating", "limiting", "connected", "closing", "refused"},
                          session : 0..Len(sessions), member : BOOLEAN,
                          event : [pending : BOOLEAN, at : Instants, late : BOOLEAN]]]

\* No invite ever has more active sessions than its max_sessions, however
\* many logins with its code overlap, and although each of them counts the
\* sessions of the instant at which it began.
SessionsBounded == \A i \in Invites : Cardinality(Active(i, now)) <= MaxSessions

\* Nobody becomes a member of a room by an event sent after its session or
\* invite ended, although the handshake was accepted before.
MembersHadAccess ==
  [][\A t \in Tabs : socket'[t].member /\ ~socket[t].member => ~socket[t].event.late]_vars

\* A connection whose session or invite has ended does not stay, typing or idle.
EndedSessionsDisconnected ==
  \A t \in Tabs :
    (socket[t].state = "connected" /\ ~Valid(socket[t].session, now)) ~> socket[t].state # "connected"
====
