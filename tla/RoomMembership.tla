--------------------------- MODULE RoomMembership ---------------------------
(***************************************************************************)
(* One collaboration room and the Socket.io connections that join it:      *)
(* slot assignment, reconnect tokens, grace periods, the rotation of the   *)
(* Yjs token, the idle sweep, and the presence every client is told about. *)
(*                                                                         *)
(* The server is a single-threaded event loop, so the code between two     *)
(* awaits is one atomic step.  A user:join handler awaits twice, for the   *)
(* rate limiter and for the hydration of the active problem, and an        *)
(* in-flight handler is a task: everything else may happen while it waits, *)
(* the closing of its own socket and the destruction of the room included. *)
(*                                                                         *)
(* Abstractions.  A RoomUser is an id; ids are handed out in push order,   *)
(* so "the first match in users" is the smallest id.  user.connected and   *)
(* user.socketId are always assigned together (Room.addUser,               *)
(* Room.reconnectUser, handleDisconnect), so a user is connected iff it    *)
(* has a socket.  A reconnect token is its owner and a serial number.      *)
(* Messages to one socket are delivered in order, so what a client shows   *)
(* is recorded when the server emits.                                      *)
(***************************************************************************)
EXTENDS Naturals, FiniteSets

CONSTANTS
  Sockets,     \* connections, each with its own socket id, never reused
  Tasks,       \* handler invocations that can be in flight at once
  MaxUsers,    \* ROOM_LIMITS.MAX_USERS
  MaxIds,      \* bound: how many users are ever added to the room
  MaxSerial,   \* bound: how many reconnect tokens one user is ever issued
  Interview,   \* room.mode = "interview"
  NoSocket     \* socketId = null

ASSUME ConstantsAssumption ==
  /\ MaxUsers \in Nat \ {0}
  /\ MaxIds \in Nat
  /\ MaxSerial \in Nat \ {0}
  /\ Interview \in BOOLEAN
  /\ NoSocket \notin Sockets

Ids == 1..MaxIds

\* What a user:join payload may carry: no token, or <<owner, serial>>.
NoClaim == <<0, 0>>
Claims == (0..MaxIds) \X (0..MaxSerial)

Roles == {"interviewer", "candidate", "peer"}

VARIABLES
  \* the Room object
  registered,         \* the room is in RoomManager.rooms
  users,              \* room.users, as a set of ids
  socketId,           \* user.socketId; NoSocket iff not connected
  role,               \* user.role
  serial,             \* serial number of user.reconnectToken
  gracePeriodTimers,  \* users with an armed grace timer
  yjsToken,           \* serial number of room.yjsToken
  problemSelected,    \* room.problemId # null
  idle,               \* idleRoomTtlMs have passed since room.lastActivityAt
  nextId,             \* next fresh user id
  \* the connections and what their clients have been told
  link,               \* "new", "open" or "closed"
  joined,             \* open sockets in the Socket.io room
  view,               \* users the client of a socket shows as connected
  yjsKnown,           \* newest Yjs token a user's client has received, 0 if none
  \* handlers in flight
  task

roomVars == <<registered, users, socketId, role, serial, gracePeriodTimers,
              yjsToken, problemSelected, idle, nextId>>
clientVars == <<link, joined, view, yjsKnown>>
vars == <<registered, users, socketId, role, serial, gracePeriodTimers,
          yjsToken, problemSelected, idle, nextId,
          link, joined, view, yjsKnown, task>>

-----------------------------------------------------------------------------
(* Queries of the Room object.                                             *)

Connected == {u \in users : socketId[u] # NoSocket}

OwnedBy(s) == {u \in users : socketId[u] = s}

First(S) == CHOOSE u \in S : \A v \in S : u <= v

\* Only a disconnected user can be claimed with its token.
FindByReconnectToken(claim) ==
  {u \in users : socketId[u] = NoSocket /\ claim = <<u, serial[u]>>}

\* A client presents no token or one that has been issued, possibly long ago.
Presentable(claim) ==
  claim = NoClaim \/ (claim[1] \in Ids /\ claim[2] \in 1..serial[claim[1]])

\* Mutant: > for >=.
IsFullOffByOne == Cardinality(users) > MaxUsers

IsFull == Cardinality(users) >= MaxUsers

DetermineRole ==
  IF ~Interview THEN "peer"
  ELSE IF users = {} THEN "interviewer" ELSE "candidate"

\* Mutant: the timer is not armed.
StartGracePeriodForgotten(u) == u \in Ids /\ UNCHANGED gracePeriodTimers

StartGracePeriod(u) == gracePeriodTimers' = gracePeriodTimers \cup {u}

\* Mutant: the timer of a returning user keeps running.
CancelGracePeriodForgotten(u) == u \in Ids /\ UNCHANGED gracePeriodTimers

CancelGracePeriod(u) == gracePeriodTimers' = gracePeriodTimers \ {u}

IdleTask == [pc |-> "idle", sock |-> NoSocket, claim |-> NoClaim, user |-> 0]

Finish(t) == task' = [task EXCEPT ![t] = IdleTask]

\* After the joined payload the handler waits for the problem, if there is
\* one, before it tells the others; without a problem it tells them at once.
AwaitHydration(t, u, pc) ==
  IF problemSelected
  THEN task' = [task EXCEPT ![t].pc = pc, ![t].user = u]
  ELSE Finish(t)

\* USER_JOINED and ROOM_SYNC to socket s for user u, whose room now has the
\* connected users C; announce says whether the others are told in this step.
EmitJoinedPayload(s, u, C, announce) ==
  /\ joined' = IF link[s] = "open" THEN joined \cup {s} ELSE joined
  /\ yjsKnown' = IF link[s] = "open"
                 THEN [yjsKnown EXCEPT ![u] = yjsToken] ELSE yjsKnown
  /\ view' = [c \in Sockets |->
                IF c = s /\ link[s] = "open" THEN C
                ELSE IF announce /\ c \in joined \ {s} THEN view[c] \cup {u}
                ELSE view[c]]

\* Mutant: the others are never told.
EmitPresenceBroadcastForgotten(s, u) == view

\* USER_JOINED of user u, joined on socket s, to the others in the room.
EmitPresenceBroadcast(s, u) ==
  [c \in Sockets |-> IF c \in joined \ {s} THEN view[c] \cup {u} ELSE view[c]]

\* Mutant: the token is rotated but not sent.
RotateYjsTokenSilently(members) ==
  /\ yjsToken' = yjsToken + 1
  /\ UNCHANGED yjsKnown

\* A new token, sent to the sockets of the members that stay.
RotateYjsToken(members) ==
  /\ yjsToken' = yjsToken + 1
  /\ yjsKnown' = [v \in Ids |-> IF v \in members /\ socketId[v] \in joined
                                THEN yjsToken + 1 ELSE yjsKnown[v]]

DestroyRoom ==
  /\ registered' = FALSE
  /\ gracePeriodTimers' = {}

\* The close of socket s, and what the room's disconnect handler does.
HandleDisconnect(s) ==
  /\ link' = [link EXCEPT ![s] = "closed"]
  /\ joined' = joined \ {s}
  /\ IF registered /\ OwnedBy(s) # {}
     THEN LET u == First(OwnedBy(s)) IN
          /\ socketId' = [socketId EXCEPT ![u] = NoSocket]
          /\ StartGracePeriod(u)
          /\ view' = [c \in Sockets |->
                        IF c = s THEN {}
                        ELSE IF c \in joined THEN view[c] \ {u}
                        ELSE view[c]]
     ELSE /\ view' = [view EXCEPT ![s] = {}]
          /\ UNCHANGED <<socketId, gracePeriodTimers>>

-----------------------------------------------------------------------------
(* Initially the room has been created over HTTP and nobody has joined.    *)

Init ==
  /\ registered = TRUE
  /\ users = {}
  /\ socketId = [u \in Ids |-> NoSocket]
  /\ role = [u \in Ids |-> "peer"]
  /\ serial = [u \in Ids |-> 0]
  /\ gracePeriodTimers = {}
  /\ yjsToken = 1
  /\ problemSelected = FALSE
  /\ idle = FALSE
  /\ nextId = 1
  /\ link = [s \in Sockets |-> "new"]
  /\ joined = {}
  /\ view = [s \in Sockets |-> {}]
  /\ yjsKnown = [u \in Ids |-> 0]
  /\ task = [t \in Tasks |-> IdleTask]

-----------------------------------------------------------------------------
(* The connections.                                                        *)

Connect(s) ==
  /\ link[s] = "new"
  /\ link' = [link EXCEPT ![s] = "open"]
  /\ UNCHANGED <<roomVars, joined, view, yjsKnown, task>>

Disconnect(s) ==
  /\ link[s] = "open"
  /\ HandleDisconnect(s)
  /\ UNCHANGED <<registered, users, role, serial, yjsToken, problemSelected,
                 idle, nextId, yjsKnown, task>>

-----------------------------------------------------------------------------
(* handleUserJoin, one action per stretch between two awaits.              *)

\* The room is there and the socket owns no user: on to the rate limiter.
UserJoin(t, s, claim) ==
  /\ task[t].pc = "idle"
  /\ link[s] = "open"
  /\ registered
  /\ OwnedBy(s) = {}
  /\ Presentable(claim)
  /\ task' = [task EXCEPT ![t] = [pc |-> "limiter", sock |-> s,
                                  claim |-> claim, user |-> 0]]
  /\ UNCHANGED <<roomVars, clientVars>>

\* A repeated join of a socket that owns a user only answers it again.
UserJoinAgain(t, s) ==
  /\ task[t].pc = "idle"
  /\ link[s] = "open"
  /\ registered
  /\ OwnedBy(s) # {}
  /\ EmitJoinedPayload(s, First(OwnedBy(s)), Connected, FALSE)
  /\ IF problemSelected
     THEN task' = [task EXCEPT ![t] = [pc |-> "rehydrate", sock |-> s,
                       claim |-> NoClaim, user |-> First(OwnedBy(s))]]
     ELSE UNCHANGED task
  /\ UNCHANGED <<roomVars, link>>

JoinRateLimited(t) ==
  /\ task[t].pc = "limiter"
  /\ Finish(t)
  /\ UNCHANGED <<roomVars, clientVars>>

\* tryReconnectUser succeeds: same user, new socket, new token.
JoinReconnects(t) ==
  /\ task[t].pc = "limiter"
  /\ \E u \in FindByReconnectToken(task[t].claim) :
       LET s == task[t].sock IN
       /\ serial[u] < MaxSerial
       /\ socketId' = [socketId EXCEPT ![u] = s]
       /\ serial' = [serial EXCEPT ![u] = @ + 1]
       /\ CancelGracePeriod(u)
       /\ idle' = FALSE
       /\ EmitJoinedPayload(s, u, Connected \cup {u}, ~problemSelected)
       /\ AwaitHydration(t, u, "hydrate")
  /\ UNCHANGED <<registered, users, role, yjsToken, problemSelected, nextId, link>>

\* ROOM_FULL, and the server closes the socket unless it is closed already.
JoinRoomFull(t) ==
  /\ task[t].pc = "limiter"
  /\ FindByReconnectToken(task[t].claim) = {}
  /\ IsFull
  /\ Finish(t)
  /\ IF link[task[t].sock] = "open"
     THEN HandleDisconnect(task[t].sock)
     ELSE UNCHANGED <<socketId, gracePeriodTimers, link, joined, view>>
  /\ UNCHANGED <<registered, users, role, serial, yjsToken, problemSelected,
                 idle, nextId, yjsKnown>>

JoinAdds(t) ==
  /\ task[t].pc = "limiter"
  /\ FindByReconnectToken(task[t].claim) = {}
  /\ ~IsFull
  /\ nextId <= MaxIds
  /\ LET s == task[t].sock
         u == nextId
     IN /\ users' = users \cup {u}
        /\ socketId' = [socketId EXCEPT ![u] = s]
        /\ role' = [role EXCEPT ![u] = DetermineRole]
        /\ serial' = [serial EXCEPT ![u] = 1]
        /\ EmitJoinedPayload(s, u, Connected \cup {u}, ~problemSelected)
        /\ AwaitHydration(t, u, "hydrate")
  /\ nextId' = nextId + 1
  /\ idle' = FALSE
  /\ UNCHANGED <<registered, gracePeriodTimers, yjsToken, problemSelected, link>>

\* Hydration settles; a first join is now announced, a repeated one is not.
HydrationDone(t) ==
  /\ task[t].pc \in {"hydrate", "rehydrate"}
  /\ view' = IF task[t].pc = "hydrate"
             THEN EmitPresenceBroadcast(task[t].sock, task[t].user)
             ELSE view
  /\ Finish(t)
  /\ UNCHANGED <<roomVars, link, joined, yjsKnown>>

-----------------------------------------------------------------------------
(* Timers.                                                                 *)

\* The grace timer of u fires: removeDisconnectedUser.
GraceExpires(u) ==
  /\ u \in gracePeriodTimers
  /\ IF u \in users /\ socketId[u] = NoSocket
     THEN /\ users' = users \ {u}
          /\ IF users \ {u} # {}
             THEN /\ RotateYjsToken(users \ {u})
                  /\ gracePeriodTimers' = gracePeriodTimers \ {u}
                  /\ UNCHANGED registered
             ELSE /\ DestroyRoom
                  /\ UNCHANGED <<yjsToken, yjsKnown>>
     ELSE /\ gracePeriodTimers' = gracePeriodTimers \ {u}
          /\ UNCHANGED <<registered, users, yjsToken, yjsKnown>>
  /\ UNCHANGED <<socketId, role, serial, problemSelected, idle, nextId,
                 link, joined, view, task>>

\* The TTL runs out since the last activity.
BecomeIdle ==
  /\ ~idle
  /\ idle' = TRUE
  /\ UNCHANGED <<registered, users, socketId, role, serial, gracePeriodTimers,
                 yjsToken, problemSelected, nextId, clientVars, task>>

\* Mutant: a room nobody joined is not swept.
DestroyIdleRoomsWithUsers ==
  /\ registered
  /\ users # {}
  /\ Connected = {}
  /\ idle
  /\ DestroyRoom
  /\ UNCHANGED <<users, socketId, role, serial, yjsToken, problemSelected,
                 idle, nextId, clientVars, task>>

DestroyIdleRooms ==
  /\ registered
  /\ Connected = {}
  /\ idle
  /\ DestroyRoom
  /\ UNCHANGED <<users, socketId, role, serial, yjsToken, problemSelected,
                 idle, nextId, clientVars, task>>

-----------------------------------------------------------------------------
(* What the other handlers do to the state kept here.                      *)

\* A problem is loaded, or code is run, or a test case is added.
RoomActivity ==
  /\ nextId > 1
  /\ problemSelected' = TRUE
  /\ idle' = FALSE
  /\ UNCHANGED <<registered, users, socketId, role, serial, gracePeriodTimers,
                 yjsToken, nextId, clientVars, task>>

\* The hint handler sends ROOM_SYNC to everybody in the room.
BroadcastRoomSync ==
  /\ problemSelected
  /\ ~Interview
  /\ view' = [c \in Sockets |-> IF c \in joined THEN Connected ELSE view[c]]
  /\ UNCHANGED <<roomVars, link, joined, yjsKnown, task>>

-----------------------------------------------------------------------------
Next ==
  \/ \E s \in Sockets : Connect(s)
  \/ \E s \in Sockets : Disconnect(s)
  \/ \E t \in Tasks, s \in Sockets, claim \in Claims : UserJoin(t, s, claim)
  \/ \E t \in Tasks, s \in Sockets : UserJoinAgain(t, s)
  \/ \E t \in Tasks : JoinRateLimited(t)
  \/ \E t \in Tasks : JoinReconnects(t)
  \/ \E t \in Tasks : JoinRoomFull(t)
  \/ \E t \in Tasks : JoinAdds(t)
  \/ \E t \in Tasks : HydrationDone(t)
  \/ \E u \in Ids : GraceExpires(u)
  \/ BecomeIdle
  \/ DestroyIdleRooms
  \/ RoomActivity
  \/ BroadcastRoomSync

Spec == Init /\ [][Next]_vars

\* Timers fire and the sweep runs periodically.
Fairness ==
  /\ \A u \in Ids : WF_vars(GraceExpires(u))
  /\ WF_vars(BecomeIdle)
  /\ WF_vars(DestroyIdleRooms)

FairSpec == Spec /\ Fairness

\* Store and database calls settle, too.
SettlingSpec ==
  /\ FairSpec
  /\ \A t \in Tasks :
       /\ WF_vars(JoinRateLimited(t) \/ JoinReconnects(t) \/ JoinRoomFull(t)
                    \/ JoinAdds(t))
       /\ WF_vars(HydrationDone(t))

-----------------------------------------------------------------------------
(* Properties.                                                             *)

TaskRecord ==
  [pc : {"idle", "limiter", "hydrate", "rehydrate"}, sock : Sockets \cup {NoSocket},
   claim : Claims, user : 0..MaxIds]

RoomTypeOK ==
  /\ registered \in BOOLEAN
  /\ users \in SUBSET Ids
  /\ socketId \in [Ids -> Sockets \cup {NoSocket}]
  /\ role \in [Ids -> Roles]
  /\ serial \in [Ids -> 0..MaxSerial]
  /\ gracePeriodTimers \in SUBSET Ids
  /\ yjsToken \in Nat
  /\ problemSelected \in BOOLEAN
  /\ idle \in BOOLEAN
  /\ nextId \in 1..(MaxIds + 1)

ClientTypeOK ==
  /\ link \in [Sockets -> {"new", "open", "closed"}]
  /\ joined \in SUBSET Sockets
  /\ view \in [Sockets -> SUBSET Ids]
  /\ yjsKnown \in [Ids -> Nat]

\* The type invariant; a handler that waits has a socket, and one that waits for
\* hydration has a user.
TypeOK ==
  /\ RoomTypeOK
  /\ ClientTypeOK
  /\ task \in [Tasks -> TaskRecord]
  /\ \A t \in Tasks : task[t].pc # "idle" => task[t].sock \in Sockets
  /\ \A t \in Tasks : task[t].pc \in {"hydrate", "rehydrate"} => task[t].user \in Ids

\* Room.isFull is tested in the same step as Room.addUser, after the awaited
\* rate limiter: joins racing for the last slot never overfill the room.
SlotsBounded == Cardinality(users) <= MaxUsers

\* determineRole looks at room.users only when the user is pushed, so two first
\* joins that race through the rate limiter do not both become interviewer.
OneInterviewer ==
  \A u, v \in users : role[u] = "interviewer" /\ role[v] = "interviewer" => u = v

\* While the room exists, a grace timer is armed for exactly the users without a
\* socket: a slot is never held for ever and a connected user is never timed out.
GraceTimersExact ==
  registered => gracePeriodTimers = {u \in users : socketId[u] = NoSocket}

\* rotateYjsToken on removal: the current Yjs token is known to every member
\* whose socket is in the Socket.io room, and to nobody who lost its slot.
YjsTokenWithMembers ==
  registered => \A u \in 1..(nextId - 1) :
    /\ u \in users /\ socketId[u] \in joined => yjsKnown[u] = yjsToken
    /\ u \notin users => yjsKnown[u] # yjsToken

\* Every client in the room shows every connected user, unless the handler that
\* connected this user still waits for its hydration before it announces it.
PresenceComplete ==
  \A s \in joined, u \in Connected :
    u \in view[s] \/ \E t \in Tasks : task[t].pc = "hydrate" /\ task[t].user = u

\* A user without a socket gets a new one or loses its slot (or the room goes).
GraceResolves ==
  \A u \in Ids :
    (registered /\ u \in users /\ socketId[u] = NoSocket)
      ~> (~registered \/ u \notin users \/ socketId[u] # NoSocket)

\* A room without connected users is entered again or destroyed.
AbandonedRoomGoes ==
  (registered /\ Connected = {}) ~> (~registered \/ Connected # {})

-----------------------------------------------------------------------------
(* What the repository says of the room and the code does not keep.        *)

\* "treats repeated user:join from the same socket as idempotent"
\* (apps/server/src/__tests__/integration/roomHandler.test.ts:161)
JoinIdempotent == \A u, v \in Connected : socketId[u] = socketId[v] => u = v

\* "user removed from room after 5-minute grace period", once its socket is
\* closed (apps/server/src/__tests__/integration/roomHandler.test.ts:602)
ClosedSocketsReleased ==
  \A u \in Ids :
    (registered /\ u \in Connected /\ link[socketId[u]] = "closed")
      ~> (~registered \/ u \notin Connected \/ link[socketId[u]] = "open")
=============================================================================
