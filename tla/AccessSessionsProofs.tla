------------------------ MODULE AccessSessionsProofs ------------------------
(***************************************************************************)
(* Proofs about AccessSessions, for any numbers of tabs, browsers and      *)
(* invites, any limit of sessions and any lifetime.                        *)
(*                                                                         *)
(* A login counts the sessions of its invite at one time and inserts its   *)
(* own later.  That the count is still right then rests on the row lock:   *)
(* it is held by exactly the login that counts or inserts, so nobody else  *)
(* inserts for that invite, and without insertions the sessions that are   *)
(* active only become fewer.  AccessInv says both, and that a membership   *)
(* under way belongs to an event whose access had not ended.               *)
(***************************************************************************)
EXTENDS AccessSessions, FiniteSetTheorems, SequenceTheorems, TLAPS

\* A login runs behind a locked gate, and a socket behind an authorized one.
GateExact ==
  \A t \in Tabs :
    /\ tab[t].pc # "idle" => tab[t].gate = "locked"
    /\ socket[t].state # "none" => tab[t].gate = "authorized"

\* A login that found its invite keeps it; the invites of logins and of
\* sessions exist, and no login began later than now.
InvitesKnown ==
  /\ \A t \in Tabs : tab[t].pc \in {"locking", "counting", "inserting", "replying"} =>
       tab[t].invite \in Invites /\ invites[tab[t].invite].exists
  /\ \A s \in DOMAIN sessions : invites[sessions[s].invite].exists
  /\ \A t \in Tabs : tab[t].at <= now

\* The row lock of an invite is held by the login that counts or inserts for it.
LockExact ==
  \A t \in Tabs, i \in Invites :
    rowLock[i] = t <=> tab[t].pc \in {"counting", "inserting"} /\ tab[t].invite = i

\* What a login counted is still true when it inserts.
CountStands ==
  \A t \in Tabs : tab[t].pc = "inserting" =>
    Cardinality(Active(tab[t].invite, tab[t].at)) < MaxSessions

\* Only a connected socket has an event under way, and one that was sent too
\* late cannot be found valid any more.
LateStaysInvalid ==
  \A t \in Tabs : socket[t].event.pending =>
    /\ socket[t].state = "connected"
    /\ socket[t].event.late => ~Valid(socket[t].session, socket[t].event.at)

AccessInv ==
  /\ TypeOK
  /\ GateExact
  /\ InvitesKnown
  /\ LockExact
  /\ CountStands
  /\ LateStaysInvalid
  /\ SessionsBounded

-----------------------------------------------------------------------------
(* Types.                                                                   *)

SessionRow == [invite : Invites, expiresAt : 0..Never, revoked : BOOLEAN]

TabRow(n) ==
  [gate : {"checking", "authorized", "locked", "unavailable"},
   pc : {"idle", "existing", "finding", "locking", "counting", "inserting", "replying"},
   at : Instants, invite : Invites \cup {None}, created : 0..n]

SocketRow(n) ==
  [state : {"none", "validating", "limiting", "connected", "closing", "refused"},
   session : 0..n, member : BOOLEAN,
   event : [pending : BOOLEAN, at : Instants, late : BOOLEAN]]

LEMMA Constants ==
  /\ BrowserOf \in [Tabs -> Browsers] /\ None \notin Tabs
  /\ MaxSessions \in Nat /\ MaxSessions > 0 /\ Ttl \in Nat /\ Ttl > 0
  /\ MaxTime \in Nat /\ MaxRows \in Nat
  /\ Instants \subseteq 0..Never /\ 0 \in Instants
  /\ Never \in Nat /\ Never > MaxTime
BY AccessAssumption DEF AccessAssumption, Instants, Never

\* The type invariant, with the rows named.
LEMMA RowTypes ==
  ASSUME TypeOK
  PROVE  /\ sessions \in Seq(SessionRow) /\ Len(sessions) \in Nat
         /\ tab \in [Tabs -> TabRow(Len(sessions))]
         /\ socket \in [Tabs -> SocketRow(Len(sessions))]
<1>1. sessions \in Seq(SessionRow)
    BY DEF TypeOK, SessionRow
<1> QED
    BY <1>1, LenProperties DEF TypeOK, TabRow, SocketRow

LEMMA NewRows ==
  ASSUME NEW n \in Nat
  PROVE  /\ \A g \in {"checking", "authorized", "locked", "unavailable"} :
              [Idle EXCEPT !.gate = g] \in TabRow(n)
         /\ Unconnected \in SocketRow(n)
         /\ [Unconnected EXCEPT !.state = "refused"] \in SocketRow(n)
         /\ NoEvent \in [pending : BOOLEAN, at : Instants, late : BOOLEAN]
<1>1. 0 \in 0..n /\ 0 \in Instants
    BY Constants
<1>2. ASSUME NEW g \in {"checking", "authorized", "locked", "unavailable"}
      PROVE  [Idle EXCEPT !.gate = g] \in TabRow(n)
    BY <1>1 DEF Idle, TabRow
<1>3. NoEvent \in [pending : BOOLEAN, at : Instants, late : BOOLEAN]
    BY <1>1 DEF NoEvent
<1>4. Unconnected \in SocketRow(n) /\ [Unconnected EXCEPT !.state = "refused"] \in SocketRow(n)
    BY <1>1, <1>3 DEF Unconnected, SocketRow
<1> QED
    BY <1>2, <1>3, <1>4

\* The gate of a tab changes.
LEMMA GateType ==
  ASSUME TypeOK, NEW t \in Tabs,
         NEW g \in {"checking", "authorized", "locked", "unavailable"}, Gate(t, g)
  PROVE  /\ tab' \in [Tabs -> TabRow(Len(sessions))]
         /\ socket' \in [Tabs -> SocketRow(Len(sessions))]
<1>1. [Idle EXCEPT !.gate = g] \in TabRow(Len(sessions)) /\ Unconnected \in SocketRow(Len(sessions))
    BY RowTypes, NewRows
<1> QED
    BY <1>1, RowTypes DEF Gate

LEMMA TypeInit == Init => TypeOK
<1> SUFFICES ASSUME Init PROVE TypeOK
    OBVIOUS
<1>1. sessions \in Seq(SessionRow) /\ Len(sessions) = 0
    BY DEF Init
<1>2. Idle \in TabRow(0) /\ Unconnected \in SocketRow(0)
    BY Constants DEF Idle, TabRow, Unconnected, SocketRow, NoEvent
<1>3. tab \in [Tabs -> TabRow(0)] /\ socket \in [Tabs -> SocketRow(0)]
    BY <1>2 DEF Init
<1>4. invites \in [Invites -> [exists : BOOLEAN, revoked : BOOLEAN, expiresAt : Instants \cup {Never}]]
    BY DEF Init, NoInvite
<1> QED
    BY <1>1, <1>3, <1>4, Constants DEF Init, TypeOK, TabRow, SocketRow, SessionRow

\* The rows of a login and of a connection name sessions that exist, so they
\* keep their types when sessions are only added or revoked.
LEMMA TablesType ==
  ASSUME TypeOK, now' \in Instants,
         invites' \in [Invites -> [exists : BOOLEAN, revoked : BOOLEAN, expiresAt : Instants \cup {Never}]],
         rowLock' \in [Invites -> Tabs \cup {None}],
         UNCHANGED sessions,
         cookie' \in [Browsers -> 0..Len(sessions)],
         tab' \in [Tabs -> TabRow(Len(sessions))],
         socket' \in [Tabs -> SocketRow(Len(sessions))]
  PROVE  TypeOK'
<1>1. Len(sessions') = Len(sessions)
    OBVIOUS
<1> QED
    BY <1>1 DEF TypeOK, TabRow, SocketRow

LEMMA CookieType ==
  ASSUME TypeOK, NEW t \in Tabs
  PROVE  /\ Cookie(t) \in 0..Len(sessions)
         /\ BrowserOf[t] \in Browsers
BY Constants DEF TypeOK, Cookie

\* UnlockRow leaves the locks of the others alone.
LEMMA UnlockType ==
  ASSUME TypeOK, NEW t \in Tabs, UnlockRow(t)
  PROVE  /\ rowLock' \in [Invites -> Tabs \cup {None}]
         /\ \A i \in Invites : rowLock'[i] = IF rowLock[i] = t THEN None ELSE rowLock[i]
BY DEF TypeOK, UnlockRow

\* The session a login inserts.
LEMMA CommitType ==
  ASSUME TypeOK, NEW t \in Tabs, LoginCommits(t), tab[t].invite \in Invites
  PROVE  /\ sessions' \in Seq(SessionRow) /\ Len(sessions') = Len(sessions) + 1
         /\ Len(sessions') <= MaxRows
         /\ DOMAIN sessions' = DOMAIN sessions \cup {Len(sessions) + 1}
         /\ DOMAIN sessions = 1..Len(sessions)
         /\ \A s \in DOMAIN sessions : sessions'[s] = sessions[s]
         /\ sessions'[Len(sessions) + 1] =
              [invite |-> tab[t].invite, expiresAt |-> tab[t].at + Ttl, revoked |-> FALSE]
<1>1. sessions \in Seq(SessionRow) /\ Len(sessions) \in Nat /\ tab[t] \in TabRow(Len(sessions))
    BY RowTypes
<1> DEFINE r == [invite |-> tab[t].invite, expiresAt |-> tab[t].at + Ttl, revoked |-> FALSE]
<1>2. r \in SessionRow
    BY <1>1, Constants DEF SessionRow, TabRow, Instants, Never
<1>3. sessions' = Append(sessions, r) /\ Len(sessions) < MaxRows
    BY DEF LoginCommits
<1> HIDE DEF r
<1>4. /\ sessions' \in Seq(SessionRow) /\ Len(sessions') = Len(sessions) + 1
      /\ \A s \in 1..Len(sessions) : sessions'[s] = sessions[s]
      /\ sessions'[Len(sessions) + 1] = r
    BY <1>1, <1>2, <1>3, AppendProperties
<1>5. DOMAIN sessions = 1..Len(sessions) /\ DOMAIN sessions' = 1..Len(sessions')
    BY <1>1, <1>4, LenProperties
<1> QED
    BY <1>1, <1>3, <1>4, <1>5, Constants DEF r

\* The session a logout revokes.
LEMMA LogoutType ==
  ASSUME TypeOK, NEW b \in Browsers, Logout(b)
  PROVE  /\ sessions' \in Seq(SessionRow) /\ Len(sessions') = Len(sessions)
         /\ DOMAIN sessions' = DOMAIN sessions /\ DOMAIN sessions = 1..Len(sessions)
         /\ \A s \in DOMAIN sessions :
              /\ sessions'[s].invite = sessions[s].invite
              /\ sessions'[s].expiresAt = sessions[s].expiresAt
              /\ sessions[s].revoked => sessions'[s].revoked
<1>1. sessions \in Seq(SessionRow) /\ Len(sessions) \in Nat
    BY RowTypes
<1>2. DOMAIN sessions = 1..Len(sessions)
    BY <1>1, LenProperties
<1>3. cookie[b] \in 1..Len(sessions)
    BY <1>1 DEF Logout, TypeOK
<1> DEFINE r == [sessions[cookie[b]] EXCEPT !.revoked = TRUE]
<1>4. sessions[cookie[b]] \in SessionRow
    BY <1>1, <1>3, ElementOfSeq
<1>5. /\ r \in SessionRow /\ r.invite = sessions[cookie[b]].invite
      /\ r.expiresAt = sessions[cookie[b]].expiresAt /\ r.revoked
    BY <1>4 DEF SessionRow
<1>6. sessions' = [sessions EXCEPT ![cookie[b]] = r]
    BY DEF Logout
<1> HIDE DEF r
<1>7. /\ sessions' \in Seq(SessionRow) /\ Len(sessions') = Len(sessions)
      /\ \A s \in 1..Len(sessions) : sessions'[s] = IF s = cookie[b] THEN r ELSE sessions[s]
    BY <1>1, <1>3, <1>5, <1>6, ExceptSeq
<1>8. DOMAIN sessions' = 1..Len(sessions)
    BY <1>7, LenProperties
<1> QED
    BY <1>2, <1>5, <1>7, <1>8

\* A step of a login that only takes the tab further.
LEMMA TabType ==
  ASSUME TypeOK, NEW t \in Tabs,
         NEW pc \in {"existing", "finding", "locking", "counting", "inserting"}
  PROVE  /\ [tab EXCEPT ![t].pc = pc] \in [Tabs -> TabRow(Len(sessions))]
         /\ \A i \in Invites :
              [tab EXCEPT ![t].pc = pc, ![t].invite = i] \in [Tabs -> TabRow(Len(sessions))]
         /\ [tab EXCEPT ![t].pc = pc, ![t].at = now] \in [Tabs -> TabRow(Len(sessions))]
<1>1. tab \in [Tabs -> TabRow(Len(sessions))] /\ now \in Instants
    BY RowTypes DEF TypeOK
<1> QED
    BY ZenonT(60), <1>1 DEF TabRow

LEMMA GateStepType ==
  ASSUME TypeOK, InvitesKnown, NEW t \in Tabs, GateStep(t)
  PROVE  TypeOK'
<1> USE DEF tables
<1>a. /\ now \in Instants /\ rowLock \in [Invites -> Tabs \cup {None}]
      /\ invites \in [Invites -> [exists : BOOLEAN, revoked : BOOLEAN, expiresAt : Instants \cup {Never}]]
      /\ cookie \in [Browsers -> 0..Len(sessions)]
      /\ tab \in [Tabs -> TabRow(Len(sessions))]
      /\ socket \in [Tabs -> SocketRow(Len(sessions))]
      /\ Len(sessions) \in Nat
    BY RowTypes DEF TypeOK
<1>1. CASE Reload(t)
    BY <1>1, <1>a, GateType, TablesType DEF Reload
<1>2. CASE SessionAnswered(t)
    BY <1>2, <1>a, GateType, TablesType DEF SessionAnswered
<1>3. CASE Submit(t)
    BY <1>3, <1>a, TabType, TablesType DEF Submit
<1>4. CASE LoginExisting(t)
  <2>1. CASE Gate(t, "authorized")
      BY <1>4, <2>1, <1>a, GateType, TablesType DEF LoginExisting
  <2>2. CASE UNCHANGED socket /\ tab' = [tab EXCEPT ![t].pc = "finding", ![t].at = now]
      BY <1>4, <2>2, <1>a, TabType, TablesType DEF LoginExisting
  <2> QED
      BY <1>4, <2>1, <2>2 DEF LoginExisting
<1>5. ASSUME NEW i \in Invites, LoginFinds(t, i) PROVE TypeOK'
    BY <1>5, <1>a, TabType, TablesType DEF LoginFinds
<1>6. CASE LoginLocks(t)
  <2>1. tab' \in [Tabs -> TabRow(Len(sessions))]
      BY <1>6, TabType DEF LoginLocks
  <2>2. rowLock' \in [Invites -> Tabs \cup {None}]
      BY <1>6, <1>a DEF LoginLocks, LockRow
  <2> QED
      BY <1>6, <1>a, <2>1, <2>2, TablesType DEF LoginLocks
<1>7. CASE LoginCounts(t)
    BY <1>7, <1>a, TabType, TablesType DEF LoginCounts
<1>8. CASE LoginCommits(t)
  <2>1. tab[t].invite \in Invites
      BY <1>8 DEF LoginCommits, InvitesKnown
  <2>2. sessions' \in Seq(SessionRow) /\ Len(sessions') = Len(sessions) + 1 /\ Len(sessions') <= MaxRows
      BY <1>8, <2>1, CommitType
  <2>3. 0..Len(sessions) \subseteq 0..Len(sessions') /\ Len(sessions') \in 0..Len(sessions')
      BY <1>a, <2>2
  <2>4. tab' \in [Tabs -> TabRow(Len(sessions'))]
    <3>1. tab' = [tab EXCEPT ![t].pc = "replying", ![t].created = Len(sessions')]
        BY <1>8, <2>2 DEF LoginCommits
    <3>2. TabRow(Len(sessions)) \subseteq TabRow(Len(sessions'))
        BY <2>3 DEF TabRow
    <3>3. tab \in [Tabs -> TabRow(Len(sessions'))]
        BY <1>a, <3>2
    <3> QED
        BY ZenonT(60), <3>1, <3>3, <2>3 DEF TabRow
  <2>5. cookie' \in [Browsers -> 0..Len(sessions')]
      BY <1>8, <1>a, <2>3 DEF LoginCommits
  <2>6. socket' \in [Tabs -> SocketRow(Len(sessions'))]
    <3>1. SocketRow(Len(sessions)) \subseteq SocketRow(Len(sessions'))
        BY <2>3 DEF SocketRow
    <3> QED
        BY <1>8, <1>a, <3>1 DEF LoginCommits
  <2>7. rowLock' \in [Invites -> Tabs \cup {None}]
      BY <1>8, UnlockType DEF LoginCommits
  <2> QED
      BY <1>8, <1>a, <2>2, <2>4, <2>5, <2>6, <2>7 DEF LoginCommits, TypeOK, TabRow, SocketRow, SessionRow
<1>9. CASE LoginSucceeds(t)
  <2>1. tab[t].created \in 0..Len(sessions)
      BY <1>a DEF TabRow
  <2>2. cookie' \in [Browsers -> 0..Len(sessions)]
      BY <1>9, <1>a, <2>1, Constants DEF LoginSucceeds
  <2> QED
      BY <1>9, <1>a, <2>2, GateType, TablesType DEF LoginSucceeds
<1>10. CASE LoginFails(t)
    BY <1>10, <1>a, GateType, UnlockType, TablesType DEF LoginFails
<1> QED
    BY <1>1, <1>2, <1>3, <1>4, <1>5, <1>6, <1>7, <1>8, <1>9, <1>10 DEF GateStep

\* What a step does to a socket keeps it one.
LEMMA SocketType ==
  ASSUME NEW n \in Nat, NEW w \in SocketRow(n)
  PROVE  /\ \A s \in {"limiting", "connected"} : [w EXCEPT !.state = s] \in SocketRow(n)
         /\ [w EXCEPT !.event = NoEvent, !.member = TRUE] \in SocketRow(n)
         /\ [w EXCEPT !.state = "closing", !.event = NoEvent] \in SocketRow(n)
<1>1. NoEvent \in [pending : BOOLEAN, at : Instants, late : BOOLEAN]
    BY NewRows
<1>2. ASSUME NEW s \in {"limiting", "connected"} PROVE [w EXCEPT !.state = s] \in SocketRow(n)
    BY <1>2 DEF SocketRow
<1>3. [w EXCEPT !.event = NoEvent, !.member = TRUE] \in SocketRow(n)
    BY <1>1 DEF SocketRow
<1>4. [w EXCEPT !.state = "closing", !.event = NoEvent] \in SocketRow(n)
    BY <1>1 DEF SocketRow
<1> QED
    BY <1>2, <1>3, <1>4

LEMMA SocketStepType ==
  ASSUME TypeOK, NEW t \in Tabs, SocketStep(t)
  PROVE  TypeOK'
<1> USE DEF tables
<1>a. /\ now \in Instants /\ rowLock \in [Invites -> Tabs \cup {None}]
      /\ invites \in [Invites -> [exists : BOOLEAN, revoked : BOOLEAN, expiresAt : Instants \cup {Never}]]
      /\ cookie \in [Browsers -> 0..Len(sessions)]
      /\ tab \in [Tabs -> TabRow(Len(sessions))]
      /\ socket \in [Tabs -> SocketRow(Len(sessions))]
      /\ Len(sessions) \in Nat
    BY RowTypes DEF TypeOK
<1>b. UNCHANGED <<now, invites, rowLock, sessions, cookie>>
    BY DEF SocketStep, Handshake, HandshakeValidated, Connected, HandshakeRefused, EventArrives,
       EventAllowed, EventDenied, Revalidate, RevalidateUnavailable, DisconnectDenied, TransportClose
<1>1. CASE Handshake(t)
  <2>1. socket' \in [Tabs -> SocketRow(Len(sessions))]
      BY ZenonT(30), <1>1, <1>a, CookieType DEF Handshake, SocketRow
  <2> QED
      BY <1>1, <1>a, <1>b, <2>1, TablesType DEF Handshake
<1>2. CASE HandshakeValidated(t) \/ Connected(t)
  <2>1. \/ socket' = [socket EXCEPT ![t] = [socket[t] EXCEPT !.state = "limiting"]]
        \/ socket' = [socket EXCEPT ![t] = [socket[t] EXCEPT !.state = "connected"]]
      BY <1>2 DEF HandshakeValidated, Connected
  <2>2. PICK w \in SocketRow(Len(sessions)) : socket' = [socket EXCEPT ![t] = w]
    <3>1. socket[t] \in SocketRow(Len(sessions))
        BY <1>a
    <3>2. /\ [socket[t] EXCEPT !.state = "limiting"] \in SocketRow(Len(sessions))
          /\ [socket[t] EXCEPT !.state = "connected"] \in SocketRow(Len(sessions))
        BY <3>1, <1>a, SocketType
    <3> QED
        BY <2>1, <3>2, Zenon
  <2>3. socket' \in [Tabs -> SocketRow(Len(sessions))]
      BY <2>2, <1>a
  <2> QED
      BY <1>2, <1>a, <1>b, <2>3, TablesType DEF HandshakeValidated, Connected
<1>3. CASE HandshakeRefused(t) \/ TransportClose(t)
  <2>1. socket' \in [Tabs -> SocketRow(Len(sessions))]
      BY <1>3, <1>a, NewRows DEF HandshakeRefused, TransportClose
  <2> QED
      BY <1>3, <1>a, <1>b, <2>1, TablesType DEF HandshakeRefused, TransportClose
<1>4. CASE EventArrives(t)
  <2>1. Valid(socket[t].session, now) \in BOOLEAN
      BY DEF Valid
  <2>2. socket' \in [Tabs -> SocketRow(Len(sessions))]
      BY ZenonT(30), <1>4, <1>a, <2>1 DEF EventArrives, SocketRow
  <2> QED
      BY <1>4, <1>a, <1>b, <2>2, TablesType DEF EventArrives
<1>5. CASE EventAllowed(t) \/ EventDenied(t) \/ Revalidate(t) \/ RevalidateUnavailable(t)
  <2>1. \/ socket' = [socket EXCEPT ![t] = [socket[t] EXCEPT !.event = NoEvent, !.member = TRUE]]
        \/ socket' = [socket EXCEPT ![t] = [socket[t] EXCEPT !.state = "closing", !.event = NoEvent]]
      BY <1>5, <1>a DEF EventAllowed, EventDenied, Revalidate, RevalidateUnavailable, Denied
  <2>2. PICK w \in SocketRow(Len(sessions)) : socket' = [socket EXCEPT ![t] = w]
    <3>1. socket[t] \in SocketRow(Len(sessions))
        BY <1>a
    <3>2. /\ [socket[t] EXCEPT !.event = NoEvent, !.member = TRUE] \in SocketRow(Len(sessions))
          /\ [socket[t] EXCEPT !.state = "closing", !.event = NoEvent] \in SocketRow(Len(sessions))
        BY <3>1, <1>a, SocketType
    <3> QED
        BY <2>1, <3>2, Zenon
  <2>3. socket' \in [Tabs -> SocketRow(Len(sessions))]
      BY <2>2, <1>a
  <2>4. UNCHANGED tab
      BY <1>5 DEF EventAllowed, EventDenied, Revalidate, RevalidateUnavailable
  <2> QED
      BY <1>a, <1>b, <2>3, <2>4, TablesType
<1>6. CASE DisconnectDenied(t)
    BY <1>6, <1>a, <1>b, GateType, NewRows, TablesType DEF DisconnectDenied
<1> QED
    BY <1>1, <1>2, <1>3, <1>4, <1>5, <1>6 DEF SocketStep

LEMMA TypeNext == TypeOK /\ InvitesKnown /\ [Next]_vars => TypeOK'
<1> SUFFICES ASSUME TypeOK, InvitesKnown, [Next]_vars PROVE TypeOK'
    OBVIOUS
<1> USE DEF tables
<1>a. /\ now \in Instants /\ rowLock \in [Invites -> Tabs \cup {None}]
      /\ invites \in [Invites -> [exists : BOOLEAN, revoked : BOOLEAN, expiresAt : Instants \cup {Never}]]
      /\ cookie \in [Browsers -> 0..Len(sessions)]
      /\ tab \in [Tabs -> TabRow(Len(sessions))]
      /\ socket \in [Tabs -> SocketRow(Len(sessions))]
      /\ Len(sessions) \in Nat
    BY RowTypes DEF TypeOK
<1>1. CASE Tick
  <2>1. now' \in Instants
      BY <1>1, <1>a, Constants DEF Tick, Instants
  <2> QED
      BY <1>1, <1>a, <2>1, TablesType DEF Tick
<1>2. ASSUME NEW i \in Invites, RevokeInvite(i) PROVE TypeOK'
    BY <1>2, <1>a, TablesType DEF RevokeInvite
<1>3. ASSUME NEW i \in Invites, NEW e \in Instants \cup {Never}, CreateInvite(i, e) PROVE TypeOK'
    BY <1>3, <1>a, TablesType DEF CreateInvite
<1>4. ASSUME NEW b \in Browsers, Logout(b) PROVE TypeOK'
  <2>1. sessions' \in Seq(SessionRow) /\ Len(sessions') = Len(sessions)
      BY <1>4, LogoutType
  <2>2. cookie' \in [Browsers -> 0..Len(sessions)]
      BY <1>4, <1>a DEF Logout
  <2> QED
      BY <1>4, <1>a, <2>1, <2>2 DEF Logout, TypeOK, TabRow, SocketRow, SessionRow
<1>5. ASSUME NEW t \in Tabs, GateStep(t) \/ SocketStep(t) PROVE TypeOK'
    BY <1>5, GateStepType, SocketStepType
<1>6. CASE UNCHANGED vars
    BY <1>6, <1>a, TablesType DEF vars
<1> QED
    BY <1>1, <1>2, <1>3, <1>4, <1>5, <1>6 DEF Next

-----------------------------------------------------------------------------
(* Sessions and invites only end.                                           *)

\* Rows stay, and neither a session nor an invite is renewed.
RowsOnlyEnd ==
  /\ \A s \in DOMAIN sessions :
       /\ s \in DOMAIN sessions'
       /\ sessions'[s].invite = sessions[s].invite
       /\ sessions'[s].expiresAt = sessions[s].expiresAt
       /\ sessions[s].revoked => sessions'[s].revoked
  /\ \A i \in Invites : invites[i].exists =>
       /\ invites'[i].exists
       /\ invites'[i].expiresAt = invites[i].expiresAt
       /\ invites[i].revoked => invites'[i].revoked

LEMMA RowsNext ==
  ASSUME TypeOK, InvitesKnown, [Next]_vars
  PROVE  RowsOnlyEnd /\ now' >= now
<1> USE DEF tables
<1>a. /\ now \in Nat
      /\ invites \in [Invites -> [exists : BOOLEAN, revoked : BOOLEAN, expiresAt : Instants \cup {Never}]]
    BY Constants DEF TypeOK, Instants
<1>1. CASE Tick
    BY <1>1, <1>a DEF Tick, RowsOnlyEnd
<1>2. ASSUME NEW i \in Invites, RevokeInvite(i) PROVE RowsOnlyEnd /\ now' >= now
    BY <1>2, <1>a DEF RevokeInvite, RowsOnlyEnd
<1>3. ASSUME NEW i \in Invites, NEW e \in Instants \cup {Never}, CreateInvite(i, e)
      PROVE  RowsOnlyEnd /\ now' >= now
    BY <1>3, <1>a DEF CreateInvite, RowsOnlyEnd
<1>4. ASSUME NEW b \in Browsers, Logout(b) PROVE RowsOnlyEnd /\ now' >= now
    BY <1>4, <1>a, LogoutType DEF Logout, RowsOnlyEnd
<1>5. ASSUME NEW t \in Tabs, GateStep(t) PROVE RowsOnlyEnd /\ now' >= now
  <2>1. CASE LoginCommits(t)
    <3>1. tab[t].invite \in Invites
        BY <2>1 DEF LoginCommits, InvitesKnown
    <3> QED
        BY <2>1, <3>1, <1>a, CommitType DEF LoginCommits, RowsOnlyEnd
  <2>2. CASE ~LoginCommits(t)
    <3>1. UNCHANGED <<now, invites, sessions>>
        BY <1>5, <2>2 DEF GateStep, Reload, SessionAnswered, Submit, LoginExisting, LoginFinds,
           LoginLocks, LoginCounts, LoginSucceeds, LoginFails
    <3> QED
        BY <3>1, <1>a DEF RowsOnlyEnd
  <2> QED
      BY <2>1, <2>2
<1>6. ASSUME NEW t \in Tabs, SocketStep(t) PROVE RowsOnlyEnd /\ now' >= now
  <2>1. UNCHANGED <<now, invites, sessions>>
      BY <1>6 DEF SocketStep, Handshake, HandshakeValidated, Connected, HandshakeRefused, EventArrives,
         EventAllowed, EventDenied, Revalidate, RevalidateUnavailable, DisconnectDenied, TransportClose
  <2> QED
      BY <2>1, <1>a DEF RowsOnlyEnd
<1>7. CASE UNCHANGED vars
    BY <1>7, <1>a DEF vars, RowsOnlyEnd
<1> QED
    BY <1>1, <1>2, <1>3, <1>4, <1>5, <1>6, <1>7 DEF Next

\* What an access check finds valid for an instant was valid for it before.
LEMMA ValidBefore ==
  ASSUME TypeOK, TypeOK', InvitesKnown, RowsOnlyEnd, NEW s \in 0..Len(sessions), NEW at, Valid(s, at)'
  PROVE  Valid(s, at)
<1>1. DOMAIN sessions = 1..Len(sessions) /\ DOMAIN sessions' = 1..Len(sessions')
  <2>1. sessions \in Seq(SessionRow)
      BY RowTypes
  <2>2. sessions' \in Seq(SessionRow)
      BY DEF TypeOK, SessionRow
  <2> QED
      BY <2>1, <2>2, LenProperties
<1>2. s \in DOMAIN sessions
    BY <1>1, LenProperties, RowTypes DEF Valid
<1>3. sessions[s].invite \in Invites /\ invites[sessions[s].invite].exists
  <2>1. sessions[s] \in SessionRow
      BY <1>1, <1>2, RowTypes, ElementOfSeq
  <2> QED
      BY <1>2, <2>1 DEF SessionRow, InvitesKnown
<1>4. s \in DOMAIN sessions' /\ sessions'[s].invite = sessions[s].invite
    BY <1>2 DEF RowsOnlyEnd
<1>5. s \in Active(sessions[s].invite, at)
    BY <1>2, <1>4 DEF Valid, Active, RowsOnlyEnd
<1>6. Usable(sessions[s].invite, at)
    BY <1>3, <1>4 DEF Valid, Usable, RowsOnlyEnd
<1> QED
    BY <1>2, <1>5, <1>6 DEF Valid

-----------------------------------------------------------------------------
(* Counting sessions.                                                       *)

LEMMA ActiveFinite ==
  ASSUME TypeOK, NEW i, NEW at
  PROVE  IsFiniteSet(Active(i, at)) /\ Cardinality(Active(i, at)) \in Nat
<1>1. IsFiniteSet(1..Len(sessions))
    BY RowTypes, FS_Interval
<1>2. Active(i, at) \subseteq 1..Len(sessions)
    BY RowTypes, LenProperties DEF Active
<1> QED
    BY <1>1, <1>2, FS_Subset, FS_CardinalityType

\* Later, and without insertions for its invite, no session is active that was not.
LEMMA ActiveShrinks ==
  ASSUME TypeOK, TypeOK', RowsOnlyEnd, NEW i, NEW a \in Nat, NEW b \in Nat, a <= b,
         \A s \in DOMAIN sessions' \ DOMAIN sessions : sessions'[s].invite # i
  PROVE  /\ Active(i, b)' \subseteq Active(i, a)
         /\ Cardinality(Active(i, b)') <= Cardinality(Active(i, a))
<1>1. ASSUME NEW s \in Active(i, b)' PROVE s \in Active(i, a)
  <2>1. s \in DOMAIN sessions
      BY DEF Active
  <2>2. sessions[s].expiresAt \in Nat
    <3>1. sessions[s] \in SessionRow
        BY <2>1, RowTypes, LenProperties, ElementOfSeq
    <3> QED
        BY <3>1, Constants DEF SessionRow
  <2> QED
      BY <2>1, <2>2 DEF Active, RowsOnlyEnd
<1> QED
    BY <1>1, ActiveFinite, FS_Subset

\* A login adds one session to those of its invite.
LEMMA ActiveAfterCommit ==
  ASSUME TypeOK, TypeOK', RowsOnlyEnd, NEW t \in Tabs, LoginCommits(t),
         NEW i \in Invites, tab[t].invite = i, NEW a \in Nat, NEW b \in Nat, a <= b
  PROVE  Cardinality(Active(i, b)') <= Cardinality(Active(i, a)) + 1
<1> DEFINE n == Len(sessions) + 1
<1>1. DOMAIN sessions' = DOMAIN sessions \cup {n}
    BY CommitType
<1>2. ASSUME NEW s \in Active(i, b)' PROVE s \in Active(i, a) \cup {n}
  <2>1. CASE s \in DOMAIN sessions
    <3>1. sessions[s] \in SessionRow
        BY <2>1, RowTypes, LenProperties, ElementOfSeq
    <3>2. sessions[s].expiresAt \in Nat
        BY <3>1, Constants DEF SessionRow
    <3> QED
        BY <1>2, <2>1, <3>2 DEF Active, RowsOnlyEnd
  <2>2. s \in DOMAIN sessions'
      BY <1>2 DEF Active
  <2> QED
      BY <1>1, <2>1, <2>2
<1> HIDE DEF n
<1>3. IsFiniteSet(Active(i, a) \cup {n}) /\ Cardinality(Active(i, a) \cup {n}) <= Cardinality(Active(i, a)) + 1
  <2>1. IsFiniteSet(Active(i, a)) /\ Cardinality(Active(i, a)) \in Nat
      BY ActiveFinite
  <2>2. /\ IsFiniteSet(Active(i, a) \cup {n})
        /\ \/ Cardinality(Active(i, a) \cup {n}) = Cardinality(Active(i, a))
           \/ Cardinality(Active(i, a) \cup {n}) = Cardinality(Active(i, a)) + 1
      BY <2>1, FS_AddElement
  <2> QED
      BY <2>1, <2>2
<1>4. Active(i, b)' \subseteq Active(i, a) \cup {n}
    BY <1>2
<1>5. Cardinality(Active(i, b)') <= Cardinality(Active(i, a) \cup {n}) /\ Cardinality(Active(i, b)') \in Nat
    BY <1>3, <1>4, FS_Subset, FS_CardinalityType
<1>6. Cardinality(Active(i, a)) \in Nat /\ Cardinality(Active(i, a) \cup {n}) \in Nat
    BY <1>3, ActiveFinite, FS_CardinalityType
<1> QED
    BY <1>3, <1>5, <1>6

-----------------------------------------------------------------------------
(* The invariant.                                                           *)

LEMMA AccessInit == Init => AccessInv
<1> SUFFICES ASSUME Init PROVE AccessInv
    OBVIOUS
<1>1. TypeOK
    BY TypeInit
<1>2. GateExact /\ InvitesKnown /\ LockExact /\ CountStands /\ LateStaysInvalid
    BY Constants DEF Init, Idle, Unconnected, NoEvent, GateExact, InvitesKnown, LockExact, CountStands,
       LateStaysInvalid
<1>3. SessionsBounded
  <2>1. ASSUME NEW i \in Invites PROVE Active(i, now) = {}
      BY DEF Active, Init
  <2> QED
      BY <2>1, Constants, FS_EmptySet DEF SessionsBounded
<1> QED
    BY <1>1, <1>2, <1>3 DEF AccessInv

\* The sessions active now are bounded after every step but an insertion.
LEMMA BoundKept ==
  ASSUME AccessInv, TypeOK', RowsOnlyEnd, now' >= now, DOMAIN sessions' = DOMAIN sessions
  PROVE  SessionsBounded'
<1>1. TypeOK /\ now \in Nat /\ now' \in Nat
    BY Constants DEF AccessInv, TypeOK, Instants
<1>2. ASSUME NEW i \in Invites PROVE Cardinality(Active(i, now)') <= MaxSessions
  <2>1. PICK a \in Nat, b \in Nat : a = now /\ b = now'
      BY <1>1
  <2>2. Cardinality(Active(i, b)') <= Cardinality(Active(i, a))
      BY <1>1, <2>1, ActiveShrinks
  <2>3. Active(i, b)' = Active(i, now)'
      BY <2>1 DEF Active
  <2>4. Cardinality(Active(i, a)) <= MaxSessions
      BY <2>1 DEF AccessInv, SessionsBounded
  <2>5. Cardinality(Active(i, b)') \in Nat /\ Cardinality(Active(i, a)) \in Nat
    <3>1. IsFiniteSet(Active(i, a))
        BY <1>1, ActiveFinite
    <3>2. Active(i, b)' \subseteq Active(i, a)
        BY <1>1, <2>1, ActiveShrinks
    <3> QED
        BY <3>1, <3>2, FS_Subset, FS_CardinalityType
  <2> QED
      BY <2>2, <2>3, <2>4, <2>5, Constants
<1> QED
    BY <1>2 DEF SessionsBounded

\* What was counted stands for a login that stays where it is, when nobody
\* inserts for its invite.
LEMMA CountKept ==
  ASSUME AccessInv, TypeOK', RowsOnlyEnd, NEW k \in Tabs, tab'[k] = tab[k], tab[k].pc = "inserting",
         \A s \in DOMAIN sessions' \ DOMAIN sessions : sessions'[s].invite # tab[k].invite
  PROVE  Cardinality(Active(tab[k].invite, tab[k].at)') < MaxSessions
<1>1. TypeOK /\ tab[k].at \in Nat /\ tab[k].invite \in Invites
    BY RowTypes, Constants DEF AccessInv, TabRow, Instants, InvitesKnown
<1>2. PICK i \in Invites, a \in Nat : i = tab[k].invite /\ a = tab[k].at
    BY <1>1
<1>3. Cardinality(Active(i, a)') <= Cardinality(Active(i, a)) /\ Active(i, a)' \subseteq Active(i, a)
    BY <1>1, <1>2, ActiveShrinks
<1>4. Cardinality(Active(i, a)) < MaxSessions
    BY <1>2 DEF AccessInv, CountStands
<1>5. Cardinality(Active(i, a)') \in Nat /\ Cardinality(Active(i, a)) \in Nat
    BY <1>1, <1>3, ActiveFinite, FS_Subset, FS_CardinalityType
<1>6. Active(tab[k].invite, tab[k].at)' = Active(i, a)'
    BY <1>2 DEF Active
<1> QED
    BY <1>3, <1>4, <1>5, <1>6, Constants

\* An event stays too late, and a new one is late exactly if it is.
LEMMA LateKept ==
  ASSUME AccessInv, TypeOK', RowsOnlyEnd, NEW k \in Tabs,
         socket'[k].event.pending, socket'[k] = socket[k]
  PROVE  /\ socket'[k].state = "connected"
         /\ socket'[k].event.late => ~Valid(socket[k].session, socket[k].event.at)'
<1>1. /\ TypeOK /\ InvitesKnown /\ socket[k].session \in 0..Len(sessions)
      /\ socket[k].event.at \in Instants
    BY RowTypes DEF AccessInv, SocketRow
<1>2. PICK s \in 0..Len(sessions), at \in Instants : s = socket[k].session /\ at = socket[k].event.at
    BY <1>1
<1>3. Valid(s, at)' => Valid(s, at)
    BY <1>1, ValidBefore
<1>4. Valid(socket[k].session, socket[k].event.at)' <=> Valid(s, at)'
    BY <1>2 DEF Valid, Active, Usable
<1> QED
    BY <1>2, <1>3, <1>4 DEF AccessInv, LateStaysInvalid

\* A step that leaves tabs, sockets and row locks alone.
LEMMA RowsStep ==
  ASSUME AccessInv, TypeOK', RowsOnlyEnd, now' >= now, DOMAIN sessions' = DOMAIN sessions,
         \A s \in DOMAIN sessions : sessions'[s].invite = sessions[s].invite,
         UNCHANGED <<rowLock, tab, socket>>
  PROVE  AccessInv'
<1>1. GateExact' /\ LockExact'
    BY DEF AccessInv, GateExact, LockExact
<1>2. InvitesKnown'
  <2>1. ASSUME NEW t \in Tabs PROVE tab[t].at <= now'
    <3>1. now \in Nat /\ now' \in Nat /\ tab[t].at \in Nat
        BY RowTypes, Constants DEF AccessInv, TypeOK, Instants, TabRow
    <3> QED
        BY <3>1 DEF AccessInv, InvitesKnown
  <2>2. ASSUME NEW s \in DOMAIN sessions PROVE sessions[s].invite \in Invites
    <3>1. sessions \in Seq(SessionRow) /\ s \in 1..Len(sessions)
        BY RowTypes, LenProperties DEF AccessInv
    <3>2. sessions[s] \in SessionRow
        BY <3>1, ElementOfSeq
    <3> QED
        BY <3>2 DEF SessionRow
  <2> QED
      BY <2>1, <2>2 DEF AccessInv, InvitesKnown, RowsOnlyEnd
<1>3. CountStands'
    BY CountKept DEF CountStands
<1>4. LateStaysInvalid'
    BY LateKept DEF LateStaysInvalid
<1> QED
    BY <1>1, <1>2, <1>3, <1>4, BoundKept DEF AccessInv

\* What a change of the gate does to its tab and its socket.
LEMMA GateEffect ==
  ASSUME TypeOK, NEW t \in Tabs, NEW g, Gate(t, g)
  PROVE  /\ tab'[t].gate = g /\ tab'[t].pc = "idle" /\ tab'[t].at = 0
         /\ socket'[t] = IF g = "authorized" THEN socket[t] ELSE Unconnected
         /\ \A k \in Tabs \ {t} : tab'[k] = tab[k] /\ socket'[k] = socket[k]
<1>1. tab \in [Tabs -> TabRow(Len(sessions))] /\ socket \in [Tabs -> SocketRow(Len(sessions))]
    BY RowTypes
<1> QED
    BY <1>1 DEF Gate, Idle

\* The gate of a tab changes, and with it goes the row lock, if there was one.
LEMMA GateStepKept ==
  ASSUME AccessInv, TypeOK', RowsOnlyEnd, UNCHANGED <<now, invites, sessions>>,
         NEW t \in Tabs, NEW g, Gate(t, g),
         \/ UnlockRow(t)
         \/ UNCHANGED rowLock /\ tab[t].pc \notin {"counting", "inserting"}
  PROVE  AccessInv'
<1>1. /\ tab'[t].gate = g /\ tab'[t].pc = "idle" /\ tab'[t].at = 0
      /\ socket'[t] = IF g = "authorized" THEN socket[t] ELSE Unconnected
      /\ \A k \in Tabs \ {t} : tab'[k] = tab[k] /\ socket'[k] = socket[k]
    BY GateEffect DEF AccessInv
<1>2. now \in Nat
    BY Constants DEF AccessInv, TypeOK, Instants
<1>3. GateExact'
    BY <1>1 DEF AccessInv, GateExact, Unconnected
<1>4. InvitesKnown'
    BY <1>1, <1>2 DEF AccessInv, InvitesKnown
<1>5. LockExact'
  <2>1. CASE UnlockRow(t)
    <3>1. \A i \in Invites : rowLock'[i] = IF rowLock[i] = t THEN None ELSE rowLock[i]
        BY <2>1, UnlockType DEF AccessInv
    <3> QED
        BY <1>1, <3>1, Constants DEF AccessInv, LockExact
  <2>2. CASE UNCHANGED rowLock /\ tab[t].pc \notin {"counting", "inserting"}
      BY <1>1, <2>2 DEF AccessInv, LockExact
  <2> QED
      BY <2>1, <2>2
<1>6. CountStands'
    BY <1>1, CountKept DEF CountStands
<1>7. LateStaysInvalid'
  <2>1. ASSUME NEW k \in Tabs, socket'[k].event.pending PROVE socket'[k] = socket[k]
      BY <1>1, <2>1 DEF Unconnected, NoEvent
  <2> QED
      BY <2>1, LateKept DEF LateStaysInvalid
<1> QED
    BY <1>2, <1>3, <1>4, <1>5, <1>6, <1>7, BoundKept DEF AccessInv

\* A login goes on: only its tab changes, and perhaps the row lock.
LEMMA LoginStepKept ==
  ASSUME AccessInv, TypeOK', RowsOnlyEnd, UNCHANGED <<now, invites, sessions, socket>>,
         NEW t \in Tabs, \A k \in Tabs \ {t} : tab'[k] = tab[k],
         tab[t].gate = "locked", tab'[t].gate = "locked", tab'[t].at <= now,
         tab'[t].pc \in {"locking", "counting", "inserting", "replying"} =>
           tab'[t].invite \in Invites /\ invites[tab'[t].invite].exists,
         LockExact',
         tab'[t].pc = "inserting" => Cardinality(Active(tab'[t].invite, tab'[t].at)) < MaxSessions
  PROVE  AccessInv'
<1>1. GateExact'
    BY DEF AccessInv, GateExact
<1>2. InvitesKnown'
    BY DEF AccessInv, InvitesKnown
<1>3. CountStands'
  <2>1. ASSUME NEW k \in Tabs, k # t, tab'[k].pc = "inserting"
        PROVE  Cardinality(Active(tab[k].invite, tab[k].at)') < MaxSessions
      BY <2>1, CountKept
  <2>2. Active(tab[t].invite, tab[t].at)' = Active(tab'[t].invite, tab'[t].at)
      BY DEF Active
  <2> QED
      BY <2>1, <2>2 DEF CountStands
<1>4. LateStaysInvalid'
    BY LateKept DEF LateStaysInvalid
<1>5. now' >= now
    BY Constants DEF AccessInv, TypeOK, Instants
<1> QED
    BY <1>1, <1>2, <1>3, <1>4, <1>5, BoundKept DEF AccessInv

\* The one insertion: its login holds the row lock, so what it counted stands,
\* and the sessions active now are fewer than when it counted.
LEMMA CommitKept ==
  ASSUME AccessInv, TypeOK', RowsOnlyEnd, NEW t \in Tabs, LoginCommits(t)
  PROVE  AccessInv'
<1> USE DEF tables
<1>a. TypeOK /\ now \in Nat /\ now' = now /\ UNCHANGED <<invites, cookie, socket>>
  <2>1. TypeOK
      BY DEF AccessInv
  <2>2. now \in Nat
      BY <2>1, Constants DEF TypeOK, Instants
  <2> QED
      BY <2>1, <2>2 DEF LoginCommits
<1>b. PICK i \in Invites, a \in Nat, b \in Nat : i = tab[t].invite /\ a = tab[t].at /\ b = now
  <2>1. tab[t].invite \in Invites
      BY DEF AccessInv, InvitesKnown, LoginCommits
  <2>2. tab[t].at \in Nat
      BY <1>a, RowTypes, Constants DEF TabRow, Instants
  <2> QED
      BY <1>a, <2>1, <2>2
<1>c. /\ DOMAIN sessions' = DOMAIN sessions \cup {Len(sessions) + 1}
      /\ sessions'[Len(sessions) + 1].invite = i
      /\ \A s \in DOMAIN sessions : sessions'[s] = sessions[s]
  <2>1. tab[t].invite \in Invites
      BY <1>b
  <2>2. sessions'[Len(sessions) + 1] =
          [invite |-> tab[t].invite, expiresAt |-> tab[t].at + Ttl, revoked |-> FALSE]
      BY <1>a, <2>1, CommitType
  <2>3. sessions'[Len(sessions) + 1].invite = i
      BY <1>b, <2>2
  <2>4. /\ DOMAIN sessions' = DOMAIN sessions \cup {Len(sessions) + 1}
        /\ \A s \in DOMAIN sessions : sessions'[s] = sessions[s]
      BY <1>a, <2>1, CommitType
  <2> QED
      BY <2>3, <2>4
<1>d. /\ tab'[t].pc = "replying" /\ tab'[t].invite = i /\ tab'[t].at = a /\ tab'[t].gate = tab[t].gate
      /\ \A k \in Tabs \ {t} : tab'[k] = tab[k]
  <2>1. tab \in [Tabs -> TabRow(Len(sessions))]
      BY <1>a, RowTypes
  <2>2. tab' = [tab EXCEPT ![t].pc = "replying", ![t].created = Len(sessions) + 1]
      BY DEF LoginCommits
  <2>3. tab[t] \in TabRow(Len(sessions))
      BY <2>1
  <2> QED
      BY <1>b, <2>1, <2>2, <2>3 DEF TabRow
<1>e. tab[t].pc = "inserting" /\ a <= b
    BY <1>b DEF LoginCommits, AccessInv, InvitesKnown
<1>1. GateExact'
    BY <1>a, <1>d, <1>e DEF AccessInv, GateExact
<1>2. InvitesKnown'
  <2>1. invites[i].exists
      BY <1>b, <1>e DEF AccessInv, InvitesKnown
  <2>2. \A s \in DOMAIN sessions' : invites'[sessions'[s].invite].exists
      BY <1>a, <1>c, <2>1 DEF AccessInv, InvitesKnown
  <2>3. \A k \in Tabs : tab'[k].at <= now'
      BY <1>a, <1>b, <1>d DEF AccessInv, InvitesKnown
  <2> QED
      BY <1>a, <1>d, <2>1, <2>2, <2>3 DEF AccessInv, InvitesKnown
<1>3. LockExact'
  <2>1. \A j \in Invites : rowLock'[j] = IF rowLock[j] = t THEN None ELSE rowLock[j]
      BY <1>a, UnlockType DEF LoginCommits
  <2> QED
      BY <1>d, <2>1, Constants DEF AccessInv, LockExact
<1>4. CountStands'
  <2>1. ASSUME NEW k \in Tabs, tab'[k].pc = "inserting"
        PROVE  Cardinality(Active(tab[k].invite, tab[k].at)') < MaxSessions
    <3>1. k # t /\ tab'[k] = tab[k]
        BY <1>d, <2>1
    <3>2. rowLock[i] = t
        BY <1>b, <1>e DEF AccessInv, LockExact
    <3>3. tab[k].invite # i
        BY <2>1, <3>1, <3>2 DEF AccessInv, LockExact
    <3> QED
        BY <1>c, <2>1, <3>1, <3>3, CountKept
  <2> QED
      BY <2>1 DEF CountStands
<1>5. LateStaysInvalid'
    BY <1>a, LateKept DEF LateStaysInvalid
<1>6. SessionsBounded'
  <2>1. ASSUME NEW j \in Invites PROVE Cardinality(Active(j, b)') <= MaxSessions
    <3>1. CASE j = i
      <4>1. Cardinality(Active(i, b)') <= Cardinality(Active(i, a)) + 1
          BY <1>a, <1>b, <1>e, ActiveAfterCommit
      <4>2. Cardinality(Active(i, a)) < MaxSessions /\ Cardinality(Active(i, a)) \in Nat
          BY <1>a, <1>b, <1>e, ActiveFinite DEF AccessInv, CountStands
      <4>3. Cardinality(Active(i, b)') \in Nat
        <5>1. sessions' \in Seq(SessionRow)
            BY DEF TypeOK, SessionRow
        <5>2. IsFiniteSet(1..Len(sessions')) /\ Active(i, b)' \subseteq 1..Len(sessions')
          <6>1. Len(sessions') \in Nat /\ DOMAIN sessions' = 1..Len(sessions')
              BY <5>1, LenProperties
          <6>2. IsFiniteSet(1..Len(sessions'))
              BY <6>1, FS_Interval
          <6> QED
              BY <6>1, <6>2 DEF Active
        <5> QED
            BY <5>2, FS_Subset, FS_CardinalityType
      <4> QED
          BY <3>1, <4>1, <4>2, <4>3, Constants
    <3>2. CASE j # i
      <4>1. /\ Cardinality(Active(j, b)') <= Cardinality(Active(j, b))
            /\ Active(j, b)' \subseteq Active(j, b)
          BY <1>a, <1>c, <3>2, ActiveShrinks
      <4>2. Cardinality(Active(j, b)) <= MaxSessions
          BY <1>b DEF AccessInv, SessionsBounded
      <4>3. Cardinality(Active(j, b)) \in Nat /\ Cardinality(Active(j, b)') \in Nat
          BY <1>a, <4>1, ActiveFinite, FS_Subset, FS_CardinalityType
      <4> QED
          BY <4>1, <4>2, <4>3, Constants
    <3> QED
        BY <3>1, <3>2
  <2>2. ASSUME NEW j \in Invites PROVE Active(j, now)' = Active(j, b)'
      BY <1>a, <1>b DEF Active
  <2> QED
      BY <2>1, <2>2 DEF SessionsBounded
<1> QED
    BY <1>1, <1>2, <1>3, <1>4, <1>5, <1>6 DEF AccessInv

LEMMA GateStepNext ==
  ASSUME AccessInv, TypeOK', RowsOnlyEnd, NEW t \in Tabs, GateStep(t)
  PROVE  AccessInv'
<1> USE DEF tables
<1>a. /\ TypeOK /\ now \in Nat /\ now \in Instants
      /\ tab \in [Tabs -> TabRow(Len(sessions))] /\ tab[t] \in TabRow(Len(sessions))
  <2>1. TypeOK
      BY DEF AccessInv
  <2> QED
      BY SMTT(30), <2>1, RowTypes, Constants DEF TypeOK, Instants
<1>1. CASE Reload(t)
    BY <1>1, GateStepKept DEF Reload
<1>2. CASE SessionAnswered(t)
  <2>1. tab[t].pc \notin {"counting", "inserting"}
      BY <1>2 DEF SessionAnswered, AccessInv, GateExact
  <2> QED
      BY <1>2, <2>1, GateStepKept DEF SessionAnswered
<1>3. CASE LoginExisting(t) /\ Gate(t, "authorized")
    BY <1>3, GateStepKept DEF LoginExisting
<1>4. CASE LoginSucceeds(t) \/ LoginFails(t)
    BY <1>4, GateStepKept DEF LoginSucceeds, LoginFails
<1>5. CASE \/ Submit(t)
           \/ LoginExisting(t) /\ tab' = [tab EXCEPT ![t].pc = "finding", ![t].at = now]
  <2>1. /\ tab[t].gate = "locked" /\ tab'[t].gate = "locked" /\ tab'[t].at <= now
        /\ tab'[t].pc \in {"existing", "finding"} /\ tab[t].pc \in {"idle", "existing"}
        /\ \A k \in Tabs \ {t} : tab'[k] = tab[k]
      BY <1>5, <1>a DEF Submit, LoginExisting, AccessInv, GateExact, InvitesKnown, TabRow
  <2>2. UNCHANGED <<now, invites, rowLock, sessions, socket>>
    <3>1. CASE Submit(t)
        BY <3>1 DEF Submit
    <3>2. CASE LoginExisting(t) /\ tab' = [tab EXCEPT ![t].pc = "finding", ![t].at = now]
      <4>1. ~Gate(t, "authorized")
        <5>1. tab'[t].pc = "finding"
            BY <3>2, <1>a DEF TabRow
        <5> QED
            BY <1>a, <5>1, GateEffect
      <4> QED
          BY <3>2, <4>1 DEF LoginExisting
    <3> QED
        BY <1>5, <3>1, <3>2
  <2>3. LockExact'
      BY <2>1, <2>2 DEF AccessInv, LockExact
  <2> QED
      BY <2>1, <2>2, <2>3, LoginStepKept
<1>6. ASSUME NEW i \in Invites, LoginFinds(t, i) PROVE AccessInv'
  <2>1. /\ tab[t].gate = "locked" /\ tab'[t].gate = "locked" /\ tab'[t].at = tab[t].at
        /\ tab[t].pc = "finding" /\ tab'[t].pc = "locking" /\ tab'[t].invite = i
        /\ \A k \in Tabs \ {t} : tab'[k] = tab[k]
      BY <1>6, <1>a DEF LoginFinds, AccessInv, GateExact, TabRow
  <2>2. UNCHANGED <<now, invites, rowLock, sessions, socket>> /\ invites[i].exists
      BY <1>6 DEF LoginFinds, Usable
  <2>3. LockExact'
      BY <2>1, <2>2 DEF AccessInv, LockExact
  <2>4. tab'[t].at <= now
      BY <2>1 DEF AccessInv, InvitesKnown
  <2> QED
      BY <2>1, <2>2, <2>3, <2>4, LoginStepKept
<1>7. CASE LoginLocks(t)
  <2>1. /\ tab[t].gate = "locked" /\ tab'[t].gate = "locked" /\ tab'[t].at = tab[t].at
        /\ tab[t].pc = "locking" /\ tab'[t].pc = "counting" /\ tab'[t].invite = tab[t].invite
        /\ \A k \in Tabs \ {t} : tab'[k] = tab[k]
      BY <1>7, <1>a DEF LoginLocks, AccessInv, GateExact, TabRow
  <2>2. tab[t].invite \in Invites /\ invites[tab[t].invite].exists /\ tab[t].at <= now
      BY <2>1 DEF AccessInv, InvitesKnown
  <2>3. UNCHANGED <<now, invites, sessions, socket>>
      BY <1>7 DEF LoginLocks
  <2>4. LockExact'
    <3>1. rowLock[tab[t].invite] = None /\ rowLock' = [rowLock EXCEPT ![tab[t].invite] = t]
        BY <1>7 DEF LoginLocks, LockRow
    <3>2. \A i \in Invites : rowLock'[i] = IF i = tab[t].invite THEN t ELSE rowLock[i]
        BY <1>a, <2>2, <3>1 DEF TypeOK
    <3> QED
        BY <2>1, <2>2, <3>1, <3>2, Constants DEF AccessInv, LockExact
  <2> QED
      BY <2>1, <2>2, <2>3, <2>4, LoginStepKept
<1>8. CASE LoginCounts(t)
  <2>1. /\ tab[t].gate = "locked" /\ tab'[t].gate = "locked" /\ tab'[t].at = tab[t].at
        /\ tab[t].pc = "counting" /\ tab'[t].pc = "inserting" /\ tab'[t].invite = tab[t].invite
        /\ \A k \in Tabs \ {t} : tab'[k] = tab[k]
      BY <1>8, <1>a DEF LoginCounts, AccessInv, GateExact, TabRow
  <2>2. tab[t].invite \in Invites /\ invites[tab[t].invite].exists /\ tab[t].at <= now
      BY <2>1 DEF AccessInv, InvitesKnown
  <2>3. UNCHANGED <<now, invites, rowLock, sessions, socket>>
      BY <1>8 DEF LoginCounts
  <2>4. LockExact'
      BY <2>1, <2>3 DEF AccessInv, LockExact
  <2>5. Cardinality(Active(tab[t].invite, tab[t].at)) < MaxSessions
      BY <1>8 DEF LoginCounts
  <2> QED
      BY <2>1, <2>2, <2>3, <2>4, <2>5, LoginStepKept
<1>9. CASE LoginCommits(t)
    BY <1>9, CommitKept
<1> QED
    BY <1>1, <1>2, <1>3, <1>4, <1>5, <1>6, <1>7, <1>8, <1>9 DEF GateStep, LoginExisting

\* A connection goes on: only its socket changes.
LEMMA SocketStepKept ==
  ASSUME AccessInv, TypeOK', RowsOnlyEnd, UNCHANGED <<now, tables, tab>>,
         NEW t \in Tabs, \A k \in Tabs \ {t} : socket'[k] = socket[k],
         socket'[t].state # "none" => tab[t].gate = "authorized",
         socket'[t].event.pending =>
           /\ socket'[t].state = "connected"
           /\ socket'[t].event.late => ~Valid(socket'[t].session, socket'[t].event.at)
  PROVE  AccessInv'
<1> USE DEF tables
<1>1. GateExact' /\ LockExact'
    BY DEF AccessInv, GateExact, LockExact
<1>2. InvitesKnown'
    BY DEF AccessInv, InvitesKnown
<1>3. CountStands'
    BY CountKept DEF CountStands
<1>4. LateStaysInvalid'
  <2>1. ASSUME NEW k \in Tabs, k # t, socket'[k].event.pending
        PROVE  /\ socket'[k].state = "connected"
               /\ socket'[k].event.late => ~Valid(socket[k].session, socket[k].event.at)'
      BY <2>1, LateKept
  <2>2. Valid(socket[t].session, socket[t].event.at)' <=> Valid(socket'[t].session, socket'[t].event.at)
      BY DEF Valid, Active, Usable
  <2> QED
      BY <2>1, <2>2 DEF LateStaysInvalid
<1>5. now' >= now
    BY Constants DEF AccessInv, TypeOK, Instants
<1> QED
    BY <1>1, <1>2, <1>3, <1>4, <1>5, BoundKept DEF AccessInv

LEMMA SocketStepNext ==
  ASSUME AccessInv, TypeOK', RowsOnlyEnd, NEW t \in Tabs, SocketStep(t)
  PROVE  AccessInv'
<1> USE DEF tables
<1>a. /\ socket \in [Tabs -> SocketRow(Len(sessions))] /\ socket[t] \in SocketRow(Len(sessions))
      /\ UNCHANGED <<now, tables, cookie>>
  <2>1. socket \in [Tabs -> SocketRow(Len(sessions))]
      BY RowTypes DEF AccessInv
  <2> QED
      BY <2>1 DEF SocketStep, Handshake, HandshakeValidated, Connected, HandshakeRefused, EventArrives,
         EventAllowed, EventDenied, Revalidate, RevalidateUnavailable, DisconnectDenied, TransportClose
<1>b. socket[t].state # "none" => tab[t].gate = "authorized"
    BY DEF AccessInv, GateExact
<1>c. socket[t].event.pending => socket[t].state = "connected"
    BY DEF AccessInv, LateStaysInvalid
<1>1. CASE Handshake(t) \/ HandshakeValidated(t) \/ Connected(t)
  <2>1. /\ tab[t].gate = "authorized" /\ UNCHANGED tab /\ ~socket'[t].event.pending
        /\ \A k \in Tabs \ {t} : socket'[k] = socket[k]
    <3>1. CASE Handshake(t)
        BY <3>1, <1>a, <1>c DEF Handshake, SocketRow
    <3>2. CASE HandshakeValidated(t)
        BY <3>2, <1>a, <1>b, <1>c DEF HandshakeValidated, SocketRow
    <3>3. CASE Connected(t)
        BY <3>3, <1>a, <1>b, <1>c DEF Connected, SocketRow
    <3> QED
        BY <1>1, <3>1, <3>2, <3>3
  <2> QED
      BY <1>a, <2>1, SocketStepKept
<1>2. CASE HandshakeRefused(t) \/ TransportClose(t)
  <2>1. /\ tab[t].gate = "authorized" /\ UNCHANGED tab /\ ~socket'[t].event.pending
        /\ \A k \in Tabs \ {t} : socket'[k] = socket[k]
      BY <1>2, <1>a, <1>b DEF HandshakeRefused, TransportClose, Unconnected, NoEvent
  <2> QED
      BY <1>a, <2>1, SocketStepKept
<1>3. CASE EventArrives(t)
  <2>1. /\ socket[t].state = "connected" /\ UNCHANGED tab
        /\ socket' = [socket EXCEPT ![t].event =
             [pending |-> TRUE, at |-> now, late |-> ~Valid(socket[t].session, now)]]
      BY <1>3 DEF EventArrives
  <2>2. /\ socket'[t].state = "connected" /\ socket'[t].session = socket[t].session
        /\ socket'[t].event = [pending |-> TRUE, at |-> now, late |-> ~Valid(socket[t].session, now)]
        /\ \A k \in Tabs \ {t} : socket'[k] = socket[k]
      BY <2>1, <1>a DEF SocketRow
  <2>3. socket'[t].event.at = now /\ (socket'[t].event.late => ~Valid(socket[t].session, now))
    <3>1. socket'[t].event.at = now /\ socket'[t].event.late = ~Valid(socket[t].session, now)
        BY <2>2
    <3> QED
        BY <3>1
  <2>4. socket'[t].event.late => ~Valid(socket'[t].session, socket'[t].event.at)
      BY <2>2, <2>3
  <2> QED
      BY <1>a, <1>b, <2>1, <2>2, <2>4, SocketStepKept
<1>4. CASE EventAllowed(t) \/ EventDenied(t) \/ Revalidate(t) \/ RevalidateUnavailable(t)
  <2>1. tab[t].gate = "authorized" /\ UNCHANGED tab
      BY <1>4, <1>b, <1>c DEF EventAllowed, EventDenied, Revalidate, RevalidateUnavailable, RevalidationFails
  <2>2. \/ socket' = [socket EXCEPT ![t].event = NoEvent, ![t].member = TRUE]
        \/ socket' = [socket EXCEPT ![t].state = "closing", ![t].event = NoEvent]
      BY <1>4 DEF EventAllowed, EventDenied, Revalidate, RevalidateUnavailable, Denied
  <2>3. ~socket'[t].event.pending /\ \A k \in Tabs \ {t} : socket'[k] = socket[k]
      BY <2>2, <1>a DEF SocketRow, NoEvent
  <2> QED
      BY <1>a, <2>1, <2>3, SocketStepKept
<1>5. CASE DisconnectDenied(t)
  <2>1. tab[t].pc \notin {"counting", "inserting"}
      BY <1>5 DEF DisconnectDenied, AccessInv, GateExact
  <2>2. CASE Gate(t, "locked")
      BY <1>a, <2>1, <2>2, GateStepKept
  <2>3. CASE socket' = [socket EXCEPT ![t] = Unconnected] /\ UNCHANGED tab
    <3>1. /\ socket'[t].state = "none" /\ ~socket'[t].event.pending
          /\ \A k \in Tabs \ {t} : socket'[k] = socket[k]
        BY <2>3, <1>a DEF Unconnected, NoEvent
    <3> QED
        BY <1>a, <2>3, <3>1, SocketStepKept
  <2> QED
      BY <1>5, <2>2, <2>3 DEF DisconnectDenied
<1> QED
    BY <1>1, <1>2, <1>3, <1>4, <1>5 DEF SocketStep

LEMMA AccessNext == AccessInv /\ [Next]_vars => AccessInv'
<1> SUFFICES ASSUME AccessInv, [Next]_vars PROVE AccessInv'
    OBVIOUS
<1> USE DEF tables
<1>a. TypeOK' /\ RowsOnlyEnd /\ now' >= now
    BY TypeNext, RowsNext DEF AccessInv
<1>1. CASE Tick
    BY <1>1, <1>a, RowsStep DEF Tick
<1>2. ASSUME NEW i \in Invites, RevokeInvite(i) PROVE AccessInv'
    BY <1>2, <1>a, RowsStep DEF RevokeInvite
<1>3. ASSUME NEW i \in Invites, NEW e \in Instants \cup {Never}, CreateInvite(i, e) PROVE AccessInv'
    BY <1>3, <1>a, RowsStep DEF CreateInvite
<1>4. ASSUME NEW b \in Browsers, Logout(b) PROVE AccessInv'
  <2>1. /\ DOMAIN sessions' = DOMAIN sessions
        /\ \A s \in DOMAIN sessions : sessions'[s].invite = sessions[s].invite
      BY <1>4, LogoutType DEF AccessInv
  <2> QED
      BY <1>4, <1>a, <2>1, RowsStep DEF Logout
<1>5. ASSUME NEW t \in Tabs, GateStep(t) \/ SocketStep(t) PROVE AccessInv'
    BY <1>5, <1>a, GateStepNext, SocketStepNext
<1>6. CASE UNCHANGED vars
    BY <1>6, <1>a, RowsStep DEF vars
<1> QED
    BY <1>1, <1>2, <1>3, <1>4, <1>5, <1>6 DEF Next

LEMMA AccessInvariant == Spec => []AccessInv
<1> QED
    BY AccessInit, AccessNext, PTL DEF Spec

\* The variables have the values the code gives them.
THEOREM TypeOKAlways == Spec => []TypeOK
<1>1. AccessInv => TypeOK
    BY DEF AccessInv
<1> QED
    BY <1>1, AccessInvariant, PTL

\* The row lock of an invite is held by exactly the login between its SELECT
\* FOR UPDATE and its COMMIT or ROLLBACK.
THEOREM LockExactAlways == Spec => []LockExact
<1>1. AccessInv => LockExact
    BY DEF AccessInv
<1> QED
    BY <1>1, AccessInvariant, PTL

\* No invite ever has more active sessions than its max_sessions, however
\* many logins with its code overlap.
THEOREM SessionsBoundedAlways == Spec => []SessionsBounded
<1>1. AccessInv => SessionsBounded
    BY DEF AccessInv
<1> QED
    BY <1>1, AccessInvariant, PTL

\* Nobody becomes a member of a room by an event sent after its session or
\* invite ended: its access check reads the rows anew, and rows only end.
THEOREM MembersHadAccessAlways == Spec => MembersHadAccess
<1>1. ASSUME AccessInv, Next, NEW t \in Tabs, socket'[t].member, ~socket[t].member
      PROVE  ~socket[t].event.late
  <2>a. socket \in [Tabs -> SocketRow(Len(sessions))]
      BY <1>1, RowTypes DEF AccessInv
  <2>1. CASE EventAllowed(t)
    <3>1. socket[t].event.pending /\ Valid(socket[t].session, socket[t].event.at)
        BY <2>1 DEF EventAllowed, EventValid
    <3> QED
        BY <1>1, <3>1 DEF AccessInv, LateStaysInvalid
  <2>2. CASE ~EventAllowed(t)
    <3>1. ASSUME NEW k \in Tabs, SocketStep(k) PROVE socket'[t].member => socket[t].member
      <4>1. CASE Handshake(k) \/ HandshakeValidated(k) \/ Connected(k)
        <5>1. CASE Handshake(k)
            BY <5>1, <2>a DEF Handshake, SocketRow
        <5>2. CASE HandshakeValidated(k)
            BY <5>2, <2>a DEF HandshakeValidated, SocketRow
        <5>3. CASE Connected(k)
            BY <5>3, <2>a DEF Connected, SocketRow
        <5> QED
            BY <4>1, <5>1, <5>2, <5>3
      <4>2. CASE HandshakeRefused(k) \/ TransportClose(k)
          BY <4>2, <2>a DEF HandshakeRefused, TransportClose, Unconnected
      <4>3. CASE EventArrives(k)
          BY <4>3, <2>a DEF EventArrives, SocketRow
      <4>4. CASE EventAllowed(k)
          BY <4>4, <2>2, <2>a DEF EventAllowed, SocketRow
      <4>5. CASE EventDenied(k) \/ Revalidate(k) \/ RevalidateUnavailable(k)
        <5>1. socket' = [socket EXCEPT ![k].state = "closing", ![k].event = NoEvent]
            BY <4>5 DEF EventDenied, Revalidate, RevalidateUnavailable, Denied
        <5> QED
            BY <5>1, <2>a DEF SocketRow
      <4>6. CASE DisconnectDenied(k)
          BY <4>6, <2>a DEF DisconnectDenied, Gate, Unconnected
      <4> QED
          BY <3>1, <4>1, <4>2, <4>3, <4>4, <4>5, <4>6 DEF SocketStep
    <3>2. ASSUME NEW k \in Tabs, GateStep(k) PROVE socket'[t].member => socket[t].member
      <4>1. UNCHANGED socket \/ \E g \in {"checking", "authorized", "locked", "unavailable"} : Gate(k, g)
          BY <3>2 DEF GateStep, Reload, SessionAnswered, Submit, LoginExisting, LoginFinds, LoginLocks,
             LoginCounts, LoginCommits, LoginSucceeds, LoginFails
      <4>2. ASSUME NEW g, Gate(k, g) PROVE socket'[t].member => socket[t].member
        <5>1. socket' = [socket EXCEPT ![k] = IF g = "authorized" THEN @ ELSE Unconnected]
            BY <4>2 DEF Gate
        <5> QED
            BY <5>1, <2>a DEF Unconnected
      <4> QED
          BY <4>1, <4>2
    <3>3. ASSUME Tick PROVE UNCHANGED socket
        BY <3>3 DEF Tick
    <3>4. ASSUME NEW i \in Invites,
                 RevokeInvite(i) \/ \E e \in Instants \cup {Never} : CreateInvite(i, e)
          PROVE  UNCHANGED socket
        BY <3>4 DEF RevokeInvite, CreateInvite
    <3>5. ASSUME NEW b \in Browsers, Logout(b) PROVE UNCHANGED socket
        BY <3>5 DEF Logout
    <3>6. socket'[t].member => socket[t].member
      <4>1. \/ Tick
            \/ \E i \in Invites : RevokeInvite(i) \/ \E e \in Instants \cup {Never} : CreateInvite(i, e)
            \/ \E b \in Browsers : Logout(b)
            \/ \E k \in Tabs : GateStep(k) \/ SocketStep(k)
          BY <1>1 DEF Next
      <4>2. ASSUME UNCHANGED socket PROVE socket'[t].member => socket[t].member
          BY <4>2
      <4> QED
          BY <3>1, <3>2, <3>3, <3>4, <3>5, <4>1, <4>2
    <3> QED
        BY <1>1, <3>6
  <2> QED
      BY <2>1, <2>2
<1>2. AccessInv /\ [Next]_vars =>
        [\A t \in Tabs : socket'[t].member /\ ~socket[t].member => ~socket[t].event.late]_vars
    BY <1>1
<1> QED
    BY <1>2, AccessInvariant, PTL DEF Spec, MembersHadAccess
=============================================================================
