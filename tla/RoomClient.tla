----------------------------- MODULE RoomClient -----------------------------
(***************************************************************************)
(* The copy of the room that one browser keeps, and the messages that keep *)
(* it up to date: providers/roomSocketBindings.ts and reducers/            *)
(* roomReducer.ts in the client, and what the handlers of the server emit  *)
(* to its socket.  "me" is the user of the browser, "peer" the other one.  *)
(* Messages of one connection arrive in order; what is on the way when the *)
(* connection breaks is lost.  A break is noticed by both ends at once.    *)
(* A room is filled by a hydration: ROOM_SYNC when the user joins, then,   *)
(* after a query, PROBLEM_LOADED, then the announcement to the others.     *)
(***************************************************************************)
EXTENDS Integers, Sequences

CONSTANTS
    Problems,    \* the problems a room may select
    HintLimit,   \* hints of a problem
    MaxCustoms,  \* bound: custom cases of a room (ROOM_LIMITS.MAX_CUSTOM_TEST_CASES)
    MaxWire      \* bound: messages on the way to the browser

None == "none"
Users == {"me", "peer"}
ASSUME NoneIsNoProblem == None \notin Problems

VARIABLES
    room,        \* the room on the server: problem, hints, customs, pending, executing
    delivery,    \* whose socket gets the next hint's errors ("no", a user, "gone")
    peerOn,      \* the peer has a socket in the room
    announce,    \* the peer's join is still hydrating
    link,        \* the browser's connection: "down", "up" (not joined), "joined"
    hydrating,   \* the problem the browser's join is loading, or None
    wire,        \* messages on the way to the browser
    marker,      \* JOIN_MARKER equals the id of the socket
    joins,       \* USER_JOINs sent on this connection and not yet handled
    client       \* the state of the reducer
vars == <<room, delivery, peerOn, announce, link, hydrating, wire, marker, joins, client>>

linkVars == <<link, hydrating, marker, joins>>
peerVars == <<peerOn, announce>>

-----------------------------------------------------------------------------
(* The reducer *)

initialRoomState ==
    [problem |-> None, hints |-> 0, customs |-> 0, pending |-> FALSE,
     executing |-> FALSE, streaming |-> FALSE, peer |-> FALSE]

\* Mutant: PROBLEM_LOADED keeps what belongs to the problem before it.
ProblemLoadedOver(c, problem) == [c EXCEPT !.problem = problem, !.streaming = FALSE]
ProblemLoaded(c, problem) ==
    [c EXCEPT !.problem = problem, !.hints = 0, !.customs = 0,
              !.pending = FALSE, !.streaming = FALSE]

\* Mutant: an execution error shows its text and leaves the buttons as they are.
ExecutionErrorTextOnly(c) == c
ExecutionError(c) == [c EXCEPT !.executing = FALSE]

RoomSync(c, m) ==
    [c EXCEPT !.hints = m.hints, !.customs = m.customs, !.pending = m.pending,
              !.executing = m.executing, !.peer = m.peer]

\* Mutant: a user who is announced is not marked as connected.
UserJoinedOnce(c) == c
UserJoined(c) == [c EXCEPT !.peer = TRUE]

roomReducer(c, m) ==
    CASE m.type = "ROOM_SYNC"         -> RoomSync(c, m)
      [] m.type = "USER_JOINED"       -> UserJoined(c)
      [] m.type = "USER_LEFT"         -> [c EXCEPT !.peer = FALSE]
      [] m.type = "PROBLEM_LOADED"    -> ProblemLoaded(c, m.problem)
      [] m.type = "EXECUTION_STARTED" -> [c EXCEPT !.executing = TRUE]
      [] m.type = "EXECUTION_RESULT"  -> [c EXCEPT !.executing = FALSE]
      [] m.type = "EXECUTION_ERROR"   -> ExecutionError(c)
      [] m.type = "HINT_PENDING"      -> [c EXCEPT !.pending = TRUE]
      [] m.type = "HINT_CHUNK"        -> [c EXCEPT !.streaming = TRUE]
      [] m.type = "HINT_DONE"         -> [c EXCEPT !.hints = c.hints + 1, !.streaming = FALSE,
                                                   !.pending = FALSE]
      [] m.type \in {"HINT_DENIED", "HINT_ERROR"}
                                      -> [c EXCEPT !.streaming = FALSE, !.pending = FALSE]
      [] m.type = "TESTCASE_ADDED"    -> [c EXCEPT !.customs = c.customs + 1]

-----------------------------------------------------------------------------
(* What the server emits to the browser *)

Message(type) == [type |-> type]
Sync(r) == [type |-> "ROOM_SYNC", hints |-> r.hints, customs |-> r.customs,
            pending |-> r.pending # "no", executing |-> r.executing, peer |-> peerOn']

\* To the socket of the browser, which may not be in the room.
ToSocket(ms) == /\ Len(wire) + Len(ms) <= MaxWire
                /\ wire' = wire \o ms
\* To everybody in the room.
ToRoom(ms) == IF link = "joined" THEN ToSocket(ms) ELSE wire' = wire
\* To one user's socket.
ToUser(user, ms) == IF user = "me" THEN ToRoom(ms) ELSE wire' = wire

Here(user) == IF user = "me" THEN link = "joined" ELSE peerOn

Init ==
    /\ room = [problem |-> None, hints |-> 0, customs |-> 0, pending |-> "no", executing |-> FALSE]
    /\ delivery = "no"
    /\ peerOn = FALSE /\ announce = FALSE
    /\ link = "down" /\ hydrating = None /\ wire = <<>>
    /\ marker = FALSE /\ joins = 0
    /\ client = initialRoomState

-----------------------------------------------------------------------------
(* The connection of the browser *)

\* emitJoin: once for every socket id.
emitJoin ==
    IF marker THEN UNCHANGED <<marker, joins>>
    ELSE marker' = TRUE /\ joins' = joins + 1

\* The socket connects: onConnect joins.
Connect ==
    /\ link = "down"
    /\ link' = "up"
    /\ emitJoin
    /\ UNCHANGED <<room, delivery, peerVars, hydrating, wire, client>>

\* The effect of RoomProvider runs again (StrictMode): the handlers are bound anew, and
\* emitJoin is called when the socket is connected.
Rebind ==
    /\ link # "down"
    /\ emitJoin
    /\ UNCHANGED <<room, delivery, peerVars, link, hydrating, wire, client>>

\* The connection breaks: onDisconnect clears the marker, and handleDisconnect and the hint
\* handler mark the user and drop its request.  The reducer keeps its state.
Break ==
    /\ link # "down"
    /\ link' = "down" /\ hydrating' = None /\ wire' = <<>> /\ joins' = 0
    /\ marker' = FALSE
    /\ IF room.pending = "me" THEN room' = [room EXCEPT !.pending = "no"] ELSE room' = room
    /\ delivery' = IF delivery = "me" THEN "gone" ELSE delivery
    /\ UNCHANGED <<peerVars, client>>

\* handleUserJoin: the socket enters the room, ROOM_SYNC is sent, the problem is queried.
HandleJoin ==
    /\ joins > 0
    /\ joins' = joins - 1
    /\ link' = "joined"
    /\ hydrating' = room.problem
    /\ UNCHANGED <<room, delivery, peerVars, marker, client>>
    /\ ToSocket(<<Sync(room)>>)

\* isJoinRateLimited: the join is rejected (EVENT_REJECTED shows a text only).
RejectJoin ==
    /\ joins > 0 /\ link = "up"
    /\ joins' = joins - 1
    /\ UNCHANGED <<room, delivery, peerVars, link, hydrating, wire, marker, client>>

\* The query of emitRoomHydration returns the problem, or it fails and nothing is sent.
Hydrate ==
    /\ hydrating # None
    /\ hydrating' = None
    /\ \/ ToSocket(<<[type |-> "PROBLEM_LOADED", problem |-> hydrating]>>)
       \/ wire' = wire
    /\ UNCHANGED <<room, delivery, peerVars, link, marker, joins, client>>

\* The browser handles the next message.
Receive ==
    /\ wire # <<>>
    /\ client' = roomReducer(client, Head(wire))
    /\ wire' = Tail(wire)
    /\ UNCHANGED <<room, delivery, peerVars, linkVars>>

-----------------------------------------------------------------------------
(* The peer *)

\* The peer joins; without a problem to load, its presence is announced at once.
PeerJoins ==
    /\ ~peerOn /\ ~announce
    /\ peerOn' = TRUE
    /\ IF room.problem = None
       THEN announce' = FALSE /\ ToRoom(<<Message("USER_JOINED")>>)
       ELSE announce' = TRUE /\ wire' = wire
    /\ UNCHANGED <<room, delivery, linkVars, client>>

\* emitPresenceBroadcast after the hydration, also when the socket has left meanwhile.
PeerAnnounced ==
    /\ announce
    /\ announce' = FALSE
    /\ ToRoom(<<Message("USER_JOINED")>>)
    /\ UNCHANGED <<room, delivery, peerOn, linkVars, client>>

PeerLeaves ==
    /\ peerOn
    /\ peerOn' = FALSE
    /\ delivery' = IF delivery = "peer" THEN "gone" ELSE delivery
    /\ UNCHANGED <<announce, linkVars, client>>
    /\ IF room.pending = "peer"
       THEN /\ room' = [room EXCEPT !.pending = "no"]
            /\ ToRoom(<<Message("USER_LEFT"), Sync(room')>>)
       ELSE room' = room /\ ToRoom(<<Message("USER_LEFT")>>)

-----------------------------------------------------------------------------
(* Problem, custom cases, execution *)

\* loadAndBroadcastProblem: Room.switchProblem and PROBLEM_LOADED to the room.
SwitchProblem(p) ==
    /\ room' = [room EXCEPT !.problem = p, !.hints = 0, !.customs = 0, !.pending = "no"]
    /\ ToRoom(<<[type |-> "PROBLEM_LOADED", problem |-> p]>>)
    /\ UNCHANGED <<delivery, peerVars, linkVars, client>>

AddTestCase ==
    /\ room.problem # None /\ room.customs < MaxCustoms
    /\ room' = [room EXCEPT !.customs = room.customs + 1]
    /\ ToRoom(<<Message("TESTCASE_ADDED")>>)
    /\ UNCHANGED <<delivery, peerVars, linkVars, client>>

ExecutionStarts ==
    /\ room.problem # None /\ ~room.executing
    /\ room' = [room EXCEPT !.executing = TRUE]
    /\ ToRoom(<<Message("EXECUTION_STARTED")>>)
    /\ UNCHANGED <<delivery, peerVars, linkVars, client>>

ExecutionEnds ==
    /\ room.executing
    /\ room' = [room EXCEPT !.executing = FALSE]
    /\ \E t \in {"EXECUTION_RESULT", "EXECUTION_ERROR"} : ToRoom(<<Message(t)>>)
    /\ UNCHANGED <<delivery, peerVars, linkVars, client>>

\* checkIpExecutionLimit, checkRoomExecutionLimit: the error goes to the socket that asked.
ExecutionRejected ==
    /\ link = "joined" /\ room.problem # None
    /\ ToSocket(<<Message("EXECUTION_ERROR")>>)
    /\ UNCHANGED <<room, delivery, peerVars, linkVars, client>>

-----------------------------------------------------------------------------
(* Hints; one delivery at a time *)

\* handleHintRequest: with both users here, the other one is asked; else the hint is delivered.
RequestHint(user) ==
    /\ Here(user) /\ delivery = "no"
    /\ room.problem # None /\ room.hints < HintLimit
    /\ ~room.executing /\ room.pending = "no"
    /\ UNCHANGED <<peerVars, linkVars, client>>
    /\ IF \A u \in Users : Here(u)
       THEN /\ room' = [room EXCEPT !.pending = user]
            /\ delivery' = delivery
            /\ ToRoom(<<Sync(room')>> \o
                       IF user = "peer" THEN <<Message("HINT_PENDING")>> ELSE <<>>)
       ELSE room' = room /\ delivery' = user /\ wire' = wire

\* rejectHintRequest: HINT_ERROR to the socket that asked.  It comes in every state, since
\* within the cooldown of an attempt the next one is rejected whatever the room is like.
HintRequestRejected ==
    /\ link = "joined"
    /\ ToSocket(<<Message("HINT_ERROR")>>)
    /\ UNCHANGED <<room, delivery, peerVars, linkVars, client>>

\* handleHintApprove, by the partner of the user who asked (the middleware).
ApproveHint(user) ==
    /\ Here(user) /\ room.pending \notin {"no", user} /\ delivery = "no"
    /\ room' = [room EXCEPT !.pending = "no"]
    /\ delivery' = user
    /\ UNCHANGED <<peerVars, linkVars, client>>
    /\ ToRoom(<<Sync(room')>>)

\* handleHintDeny, and the consent timer.
DenyHint ==
    /\ room.pending # "no"
    /\ room' = [room EXCEPT !.pending = "no"]
    /\ UNCHANGED <<delivery, peerVars, linkVars, client>>
    /\ ToRoom(<<Sync(room')>> \o
               IF room.pending = "me" THEN <<Message("HINT_DENIED")>> ELSE <<>>)

\* streamLLMHint sends a chunk to the room.
HintChunk ==
    /\ delivery # "no"
    /\ ToRoom(<<Message("HINT_CHUNK")>>)
    /\ UNCHANGED <<room, delivery, peerVars, linkVars, client>>

\* emitHintDelivered, for a stored hint or at the end of a stream.
HintDone ==
    /\ delivery # "no"
    /\ room' = [room EXCEPT !.hints = room.hints + 1]
    /\ delivery' = "no"
    /\ ToRoom(<<Message("HINT_DONE")>>)
    /\ UNCHANGED <<peerVars, linkVars, client>>

\* Any failure of deliverHint: HINT_ERROR to the socket whose event delivers the hint.
HintFails ==
    /\ delivery # "no"
    /\ delivery' = "no"
    /\ ToUser(delivery, <<Message("HINT_ERROR")>>)
    /\ UNCHANGED <<room, peerVars, linkVars, client>>

-----------------------------------------------------------------------------
Next ==
    \/ Connect \/ Rebind \/ Break \/ HandleJoin \/ RejectJoin \/ Hydrate \/ Receive
    \/ PeerJoins \/ PeerAnnounced \/ PeerLeaves
    \/ \E p \in Problems : SwitchProblem(p)
    \/ AddTestCase \/ ExecutionStarts \/ ExecutionEnds \/ ExecutionRejected
    \/ \E u \in Users : RequestHint(u) \/ ApproveHint(u)
    \/ HintRequestRejected \/ DenyHint \/ HintChunk \/ HintDone \/ HintFails

Spec == Init /\ [][Next]_vars

-----------------------------------------------------------------------------
\* The room on the server, the browser's copy of it and its connection have the values
\* that the code gives them.
TypeOK ==
    /\ room \in [problem : Problems \cup {None}, hints : Nat, customs : 0..MaxCustoms,
                 pending : Users \cup {"no"}, executing : BOOLEAN]
    /\ delivery \in Users \cup {"no", "gone"}
    /\ peerOn \in BOOLEAN /\ announce \in BOOLEAN /\ marker \in BOOLEAN /\ joins \in 0..1
    /\ link \in {"down", "up", "joined"} /\ hydrating \in Problems \cup {None}
    /\ Len(wire) <= MaxWire
    /\ client \in [problem : Problems \cup {None}, hints : Nat, customs : Nat,
                   pending : BOOLEAN, executing : BOOLEAN, streaming : BOOLEAN, peer : BOOLEAN]

\* The browser has joined, and has handled all that was sent to it.
Settled == link = "joined" /\ hydrating = None /\ wire = <<>>

(***************************************************************************)
(* The browser does not show an execution when the room has none, so its   *)
(* buttons are usable: whatever EXECUTION_RESULT was lost with a           *)
(* connection, the next ROOM_SYNC tells.                                   *)
(***************************************************************************)
NotStuckExecuting == Settled /\ client.executing => room.executing

(***************************************************************************)
(* Nothing is shown that the room does not have: no hint counted twice,    *)
(* no custom case of an earlier problem, no answered hint request.  (The   *)
(* converse is false: the PROBLEM_LOADED of a hydration comes after        *)
(* ROOM_SYNC and resets what ROOM_SYNC had told.)                          *)
(***************************************************************************)
NothingInvented ==
    Settled =>
        /\ client.hints <= room.hints
        /\ client.customs <= room.customs
        /\ client.pending => room.pending # "no"

(***************************************************************************)
(* A peer who is in the room is shown as connected, by ROOM_SYNC or by the *)
(* announcement that follows its hydration.                                *)
(***************************************************************************)
PeerShown == Settled /\ peerOn /\ ~announce => client.peer

(***************************************************************************)
(* A hint is shown as streaming only while one is delivered: events.ts     *)
(* declares HINT_ERROR, which ends it, as sent to all ("S -> A").          *)
(***************************************************************************)
StreamingEnds == Settled /\ client.streaming => delivery # "no"
=============================================================================
