----------------------------- MODULE YjsServer -----------------------------
(***************************************************************************)
(* The document server: one shared Yjs document per room, the websockets   *)
(* that edit it, and the graceful shutdown that takes both down.           *)
(*                                                                         *)
(* A websocket is accepted first and validated afterwards: its handler     *)
(* awaits the access check, and attaches the listeners of the connection   *)
(* only when the check and the tests of origin, room and token have        *)
(* passed.  Each message of a served connection awaits an access check of  *)
(* its own, so messages may be applied out of order and after the          *)
(* connection is gone.  A document lives from the first connection that is *)
(* admitted to the destruction of its room.                                *)
(*                                                                         *)
(* Abstractions.  One room, whose code is not drawn again.  A document is  *)
(* the set of edits it has merged (Yjs merges are idempotent and commute); *)
(* its size in bytes is left out, so any document with edits may be found  *)
(* too large.  An access check may always deny, since its service may be   *)
(* unavailable; its answer and the code that awaits it are one step.       *)
(* Without the access service that step follows at once and allows, which  *)
(* is one of these behaviours.  A websocket and the client behind it have  *)
(* one name.  Presence is left out but for its broadcasts, which close     *)
(* dead connections.                                                       *)
(***************************************************************************)
EXTENDS Naturals, FiniteSets

CONSTANTS
  Conns,       \* websockets, each used once
  Edits,       \* changes of the document, by typing or by loading a problem
  Writers      \* bound: the clients that type

ASSUME YjsAssumption == Writers \subseteq Conns

VARIABLES
  room,        \* whether the room is registered: "none", "live", "gone"
  docLive,     \* docs has the document of the room
  text,        \* edits the live document holds
  conns,       \* doc.conns of the live document
  conn,        \* the websockets
  toServer,    \* messages on their way to the server, or awaiting validateMessage there
  toClient,    \* edits on their way to the client
  local,       \* edits each client holds
  stage        \* progress of executeShutdown

docVars == <<docLive, text, conns>>
netVars == <<toServer, toClient, local>>
vars == <<room, docVars, conn, netVars, stage>>

Stages == {"running", "httpClose", "ioClose", "wssClose", "poolClose", "storeClose", "exited"}

\* Sync step 1 asks the other side for its edits; step 2 and updates carry edits.
Message == [asks : BOOLEAN, edits : SUBSET Edits]
Sync1 == [asks |-> TRUE, edits |-> {}]
Update(es) == [asks |-> FALSE, edits |-> es]

\* A websocket: its handler's place, its state, whether the token it presented
\* is the current one, the document it was given, whether a pong came since the
\* last ping, and whether its sync step 1 was answered.
NewConn == [pc |-> "idle", ws |-> "none", fresh |-> FALSE, doc |-> "none", pong |-> TRUE,
            answered |-> FALSE]

Running == stage # "exited"

\* readyState OPEN.  The session of a "revoked" websocket is no longer valid, the
\* network of a "lost" one has failed silently.
Open(c) == conn[c].ws \in {"open", "revoked", "lost"}
Linked(c) == conn[c].ws \in {"open", "revoked"}
Closing(c) == IF Open(c) THEN "closing" ELSE conn[c].ws

\* What is left of a websocket after its close event: nothing but the messages
\* in "ms", which await their access check, and the document they will change.
Closed(c, ms) ==
  [NewConn EXCEPT !.ws = "closed",
     !.pc = IF conn[c].pc = "validating" \/ ms # {} THEN conn[c].pc ELSE "done",
     !.fresh = conn[c].fresh,
     !.doc = IF ms # {} THEN conn[c].doc ELSE "none"]

\* conn.close() of a connection without listeners.
Rejected(c) == [NewConn EXCEPT !.pc = "rejected", !.ws = Closing(c)]

-----------------------------------------------------------------------------
(* The document registry.                                                  *)

\* closeConn but for conn.close().
CloseConn(c) ==
  /\ conns' = conns \ {c}
  /\ UNCHANGED <<docLive, text>>

\* Mutant: the entry goes, the connections stay open.
DestroySharedDocOnly ==
  /\ conn' = [c \in Conns |->
       [conn[c] EXCEPT !.fresh = FALSE, !.doc = IF @ = "live" THEN "destroyed" ELSE @]]
  /\ docLive' = FALSE /\ text' = {} /\ conns' = {}

\* destroySharedDoc: closeConn for every connection, then the entry goes.  The
\* room goes with it, so no token is current.
DestroySharedDoc ==
  /\ conn' = [c \in Conns |->
       [conn[c] EXCEPT !.fresh = FALSE,
                       !.doc = IF @ = "live" THEN "destroyed" ELSE @,
                       !.ws = IF c \in conns THEN Closing(c) ELSE @]]
  /\ docLive' = FALSE /\ text' = {} /\ conns' = {}

-----------------------------------------------------------------------------
Init ==
  /\ room = "none"
  /\ docLive = FALSE /\ text = {} /\ conns = {}
  /\ conn = [c \in Conns |-> NewConn]
  /\ toServer = [c \in Conns |-> {}]
  /\ toClient = [c \in Conns |-> {}]
  /\ local = [c \in Conns |-> {}]
  /\ stage = "running"

(* The room registry, as far as the documents see it.                      *)

\* POST /api/rooms.
CreateRoom ==
  /\ stage \in {"running", "httpClose"}
  /\ room = "none" /\ room' = "live"
  /\ UNCHANGED <<docVars, conn, netVars, stage>>

\* A user is removed and others are left: the token changes, connections stay.
RotateYjsToken ==
  /\ Running /\ room = "live"
  /\ conn' = [c \in Conns |-> [conn[c] EXCEPT !.fresh = FALSE]]
  /\ UNCHANGED <<room, docVars, netVars, stage>>

\* roomManager.destroyRoom: the cleanup hook destroys the document, then the room goes.
DestroyRoom ==
  /\ Running /\ room = "live" /\ room' = "gone"
  /\ DestroySharedDoc
  /\ UNCHANGED <<netVars, stage>>

-----------------------------------------------------------------------------
(* Connections.                                                            *)

\* A client opens a websocket, with the current token of the room or another,
\* and sends its sync step 1 as soon as the websocket is open.
Connect(c, fresh) ==
  /\ stage = "running" /\ conn[c].pc = "idle"
  /\ fresh => room = "live"
  /\ conn' = [conn EXCEPT ![c] = [@ EXCEPT !.pc = "validating", !.ws = "open", !.fresh = fresh]]
  /\ toServer' = [toServer EXCEPT ![c] = {Sync1}]
  /\ UNCHANGED <<room, docVars, toClient, local, stage>>

\* The access check denies, or the origin is not allowed.
Refuse(c) ==
  /\ Running /\ conn[c].pc = "validating"
  /\ conn' = [conn EXCEPT ![c] = Rejected(c)]
  /\ toServer' = [toServer EXCEPT ![c] = {}]
  /\ UNCHANGED <<room, docVars, toClient, local, stage>>

\* The token is that of the room that is registered now.
TokenCurrent(c) == room = "live" /\ conn[c].fresh

\* The access check allows, and no await follows: room and token are tested,
\* the document is found or created, listeners and timers are attached, and
\* the server sends its sync step 1, which a client that is there answers with
\* the edits it has.
Admit(c) ==
  /\ Running /\ conn[c].pc = "validating"
  /\ IF TokenCurrent(c)
     THEN /\ conn' = [conn EXCEPT ![c] = [@ EXCEPT !.pc = "serving", !.doc = "live", !.fresh = FALSE]]
          /\ docLive' = TRUE
          /\ conns' = conns \cup {c}
          /\ toServer' = [toServer EXCEPT ![c] =
               IF Linked(c) /\ local[c] # {} THEN @ \cup {Update(local[c])} ELSE @]
     ELSE /\ conn' = [conn EXCEPT ![c] = Rejected(c)]
          /\ toServer' = [toServer EXCEPT ![c] = {}]
          /\ UNCHANGED <<docLive, conns>>
  /\ UNCHANGED <<room, text, toClient, local, stage>>

\* Mutant: a tick without pong only pings again.
PingTickNeverCloses(c) ==
  /\ Running /\ c \in conns /\ ~Linked(c)
  /\ conn' = [conn EXCEPT ![c].pong = FALSE]
  /\ UNCHANGED <<room, docVars, netVars, stage>>

\* The ping interval: no pong since the last tick closes the connection.  A
\* ping and the pong of a client that is there are one step, unless the pong
\* is late.  The interval of a connection that left doc.conns only ends.
PingTick(c) ==
  /\ Running /\ c \in conns
  /\ \/ /\ conn[c].pong /\ ~Linked(c)
        /\ conn' = [conn EXCEPT ![c].pong = FALSE]
        /\ UNCHANGED docVars
     \/ /\ ~conn[c].pong
        /\ CloseConn(c)
        /\ conn' = [conn EXCEPT ![c].ws = Closing(c)]
  /\ UNCHANGED <<room, netVars, stage>>

PongLate(c) ==
  /\ Running /\ c \in conns /\ Linked(c)
  /\ CloseConn(c)
  /\ conn' = [conn EXCEPT ![c].ws = "closing"]
  /\ UNCHANGED <<room, netVars, stage>>

\* The session behind the cookie of the websocket expires or is revoked.
Revoke(c) ==
  /\ Running /\ conn[c].pc = "serving" /\ conn[c].ws = "open"
  /\ conn' = [conn EXCEPT ![c].ws = "revoked"]
  /\ UNCHANGED <<room, docVars, netVars, stage>>

\* Mutant: the interval closes only what a message has closed already.
AccessTickLate(c) == conn[c].ws = "closing" /\ UNCHANGED vars

\* The access interval is denied; the close event does the rest.
AccessTick(c) ==
  /\ Running /\ conn[c].pc = "serving" /\ conn[c].ws = "revoked"
  /\ conn' = [conn EXCEPT ![c].ws = "closing"]
  /\ UNCHANGED <<room, docVars, netVars, stage>>

\* Messages that had arrived when a connection broke; the others are lost.
Arrived(c) == IF conn[c].pc = "serving" THEN SUBSET toServer[c] ELSE {{}}

\* The close event of a websocket: the client left, or the closing handshake
\* or its timeout ended.  Its listeners are there only if the connection was
\* admitted before.
CloseEvent(c) ==
  /\ Running /\ conn[c].ws \notin {"none", "closed"}
  /\ \E ms \in Arrived(c) :
       /\ conn' = [conn EXCEPT ![c] = Closed(c, ms)]
       /\ toServer' = [toServer EXCEPT ![c] = ms]
  /\ IF conn[c].pc = "serving" THEN CloseConn(c) ELSE UNCHANGED docVars
  /\ toClient' = [toClient EXCEPT ![c] = {}]
  /\ local' = [local EXCEPT ![c] = {}]
  /\ UNCHANGED <<room, stage>>

\* The network of a client fails silently.
Vanish(c) ==
  /\ Running /\ Linked(c)
  /\ conn' = [conn EXCEPT ![c].ws = "lost"]
  /\ \E ms \in Arrived(c) : toServer' = [toServer EXCEPT ![c] = ms]
  /\ toClient' = [toClient EXCEPT ![c] = {}]
  /\ local' = [local EXCEPT ![c] = {}]
  /\ UNCHANGED <<room, docVars, stage>>

-----------------------------------------------------------------------------
(* Messages.                                                               *)

\* Connections that a broadcast finds dead and closes.
Dead == {k \in conns : ~Open(k)}

\* A message arrives while nobody listens.
Unheard(c, m) ==
  /\ Running /\ m \in toServer[c] /\ conn[c].pc = "validating"
  /\ toServer' = [toServer EXCEPT ![c] = @ \ {m}]
  /\ UNCHANGED <<room, docVars, conn, toClient, local, stage>>

\* A message of a served connection, its access check answered.
Handle(c, m) ==
  /\ Running /\ m \in toServer[c] /\ conn[c].pc = "serving"
  /\ toServer' = [toServer EXCEPT ![c] = @ \ {m}]

\* The access check of a message denies: the message is dropped.
DenyMessage(c, m) ==
  /\ Handle(c, m)
  /\ conn' = [conn EXCEPT ![c].ws = Closing(c)]
  /\ UNCHANGED <<room, docVars, toClient, local, stage>>

\* Mutant: a new update goes back to its sender only.
RecipientsSender(c, m, fresh) == IF m.asks \/ fresh # {} THEN {c} ELSE {}

\* A sync step 1 is answered to its sender; an update with something new goes
\* to every connection of the document.
Recipients(c, m, fresh) == IF m.asks THEN {c} ELSE IF fresh # {} THEN conns ELSE {}

\* messageListener on the live document: merge or answer, then the size check,
\* which closes the sender.
ApplyLive(c, m) ==
  \E oversized \in BOOLEAN :
    LET fresh == m.edits \ text
        sent == IF m.asks THEN text ELSE fresh
        leaving == (IF fresh # {} THEN Dead ELSE {}) \cup (IF oversized THEN {c} ELSE {})
    IN /\ oversized => text \cup fresh # {}
       /\ text' = text \cup fresh
       /\ toClient' = [k \in Conns |-> IF k \in Recipients(c, m, fresh) /\ Linked(k)
                                       THEN toClient[k] \cup sent ELSE toClient[k]]
       /\ conns' = conns \ leaving
       /\ conn' = [conn EXCEPT ![c].answered = @ \/ m.asks,
                                ![c].ws = IF oversized THEN Closing(c) ELSE @]
       /\ UNCHANGED docLive

\* The access check of a message allows.  The document of the connection may
\* have been destroyed by then: the message changes an object nobody reads.
Apply(c, m) ==
  /\ conn[c].ws # "revoked"
  /\ Handle(c, m)
  /\ IF conn[c].doc = "live" THEN ApplyLive(c, m) ELSE UNCHANGED <<docVars, conn, toClient>>
  /\ UNCHANGED <<room, local, stage>>

\* A message cannot be decoded, or is larger than maxMessageBytes.
RejectMessage(c, m) ==
  /\ Handle(c, m)
  /\ conn' = [conn EXCEPT ![c].ws = Closing(c)]
  /\ CloseConn(c)
  /\ UNCHANGED <<room, toClient, local, stage>>

\* The presence of a client changes: the broadcast closes the dead connections.
PresenceChange ==
  /\ Running /\ Dead # {} /\ Dead # conns
  /\ conns' = conns \ Dead
  /\ UNCHANGED <<room, docLive, text, conn, netVars, stage>>

\* A change that nobody has.
New(e) ==
  e \notin text \cup UNION {local[c] : c \in Conns} \cup UNION {m.edits : m \in UNION {toServer[c] : c \in Conns}}

\* loadProblemIntoRoom of the problem handler replaces the text of the document,
\* if there is one.
LoadProblem(e) ==
  /\ Running /\ room = "live" /\ docLive /\ New(e)
  /\ text' = text \cup {e}
  /\ toClient' = [k \in Conns |-> IF k \in conns /\ Linked(k) THEN toClient[k] \cup {e} ELSE toClient[k]]
  /\ conns' = conns \ Dead
  /\ UNCHANGED <<room, docLive, conn, toServer, local, stage>>

-----------------------------------------------------------------------------
(* Clients.                                                                *)

ClientEdit(c, e) ==
  /\ Running /\ Linked(c) /\ c \in Writers /\ New(e)
  /\ local' = [local EXCEPT ![c] = @ \cup {e}]
  /\ toServer' = [toServer EXCEPT ![c] = @ \cup {Update({e})}]
  /\ UNCHANGED <<room, docVars, conn, toClient, stage>>

ClientReceive(c) ==
  /\ Running /\ toClient[c] # {}
  /\ local' = [local EXCEPT ![c] = @ \cup toClient[c]]
  /\ toClient' = [toClient EXCEPT ![c] = {}]
  /\ UNCHANGED <<room, docVars, conn, toServer, stage>>

-----------------------------------------------------------------------------
(* The shutdown.                                                           *)

\* The first signal or fatal error; later ones await the same promise.
\* stopBackgroundTasks does not wait.
Shutdown ==
  /\ stage = "running" /\ stage' = "httpClose"
  /\ UNCHANGED <<room, docVars, conn, netVars>>

\* httpServer.close() calls back once every connection has ended, Socket.io's too.
HttpClosed ==
  /\ stage = "httpClose" /\ stage' = "ioClose"
  /\ \A c \in Conns : conn[c].ws \in {"none", "closed"}
  /\ UNCHANGED <<room, docVars, conn, netVars>>

IoClosed ==
  /\ stage = "ioClose" /\ stage' = "wssClose"
  /\ UNCHANGED <<room, docVars, conn, netVars>>

\* wss.close() with its "close" listener, destroyAllDocs and resetRooms.
WssClosed ==
  /\ stage = "wssClose" /\ stage' = "poolClose"
  /\ DestroySharedDoc
  /\ room' = "gone"
  /\ UNCHANGED netVars

PoolClosed ==
  /\ stage = "poolClose" /\ stage' = "storeClose"
  /\ UNCHANGED <<room, docVars, conn, netVars>>

\* process.exit: the memory of the process is gone, and its sockets.
Exit ==
  /\ stage' = "exited"
  /\ room' = "gone" /\ docLive' = FALSE /\ text' = {} /\ conns' = {}
  /\ conn' = [c \in Conns |-> NewConn]
  /\ toServer' = [c \in Conns |-> {}]
  /\ toClient' = [c \in Conns |-> {}]
  /\ local' = [c \in Conns |-> {}]

\* The last step, and the process.exit that awaits it.
StoreClosed == stage = "storeClose" /\ Exit

\* The force timer.
ForceExit == stage \notin {"running", "exited"} /\ Exit

-----------------------------------------------------------------------------
ServerStep(c) ==
  \/ Refuse(c) \/ Admit(c) \/ PingTick(c) \/ PongLate(c) \/ Revoke(c) \/ AccessTick(c)
  \/ CloseEvent(c) \/ Vanish(c)

MessageStep(c) ==
  \/ \E m \in toServer[c] :
       Unheard(c, m) \/ DenyMessage(c, m) \/ Apply(c, m) \/ RejectMessage(c, m)
  \/ ClientReceive(c)
  \/ \E e \in Edits : ClientEdit(c, e)

Next ==
  \/ CreateRoom \/ RotateYjsToken \/ DestroyRoom
  \/ \E c \in Conns, fresh \in BOOLEAN : Connect(c, fresh)
  \/ \E c \in Conns : ServerStep(c) \/ MessageStep(c)
  \/ PresenceChange
  \/ \E e \in Edits : LoadProblem(e)
  \/ Shutdown \/ HttpClosed \/ IoClosed \/ WssClosed \/ PoolClosed \/ StoreClosed \/ ForceExit

HandleSome(c) == \E m \in toServer[c] : DenyMessage(c, m) \/ Apply(c, m) \/ RejectMessage(c, m)
FinishClosing(c) == conn[c].ws = "closing" /\ CloseEvent(c)

\* Timers fire, access checks are answered, a closing websocket is closed by its
\* handshake or its timeout, and messages between live ends arrive.  Nothing is
\* assumed of clients, of rooms, or of the steps of a shutdown but its timer.
Fairness ==
  /\ WF_vars(ForceExit)
  /\ \A c \in Conns :
       /\ WF_vars(Refuse(c) \/ Admit(c)) /\ WF_vars(PingTick(c)) /\ WF_vars(AccessTick(c))
       /\ WF_vars(FinishClosing(c)) /\ WF_vars(HandleSome(c)) /\ WF_vars(ClientReceive(c))

Spec == Init /\ [][Next]_vars
FairSpec == Spec /\ Fairness

-----------------------------------------------------------------------------
(* Properties.                                                             *)

\* The variables have the values the code gives them.
TypeOK ==
  /\ room \in {"none", "live", "gone"}
  /\ docLive \in BOOLEAN /\ text \subseteq Edits /\ conns \subseteq Conns
  /\ conn \in [Conns -> [pc : {"idle", "validating", "serving", "rejected", "done"},
                         ws : {"none", "open", "revoked", "lost", "closing", "closed"},
                         fresh : BOOLEAN, doc : {"none", "live", "destroyed"},
                         pong : BOOLEAN, answered : BOOLEAN]]
  /\ toServer \in [Conns -> SUBSET Message] /\ toClient \in [Conns -> SUBSET Edits]
  /\ local \in [Conns -> SUBSET Edits]
  /\ stage \in Stages

\* A document lives only as long as its room, whatever is awaited meanwhile:
\* no document without a registered room, none once the shutdown has reset the
\* rooms, and no client left with an open connection to a destroyed document.
DocLifetime ==
  /\ docLive => room = "live"
  /\ stage \in {"poolClose", "storeClose"} => ~docLive
  /\ \A c \in Conns : conn[c].doc = "destroyed" => ~Open(c)

\* A connection whose websocket is dead leaves the document, also when it died
\* before its listeners were attached and no close event ever comes.
DeadConnsReaped ==
  \A c \in Conns : (c \in conns /\ conn[c].ws \in {"lost", "closed"}) ~> c \notin conns

\* A client whose session is revoked does not keep its connection, typing or not.
RevokedDisconnected == \A c \in Conns : conn[c].ws = "revoked" ~> ~Open(c)

\* A client whose sync step 1 was answered gets every edit of the document,
\* those merged before it connected and those that others make afterwards.
AnsweredClientsShare ==
  \A c \in Conns, e \in Edits :
    (conn[c].answered /\ c \in conns /\ e \in text) ~> (e \in local[c] \/ ~Linked(c))

\* Clients that stay connected share the document.
ClientsShare ==
  \A c \in Conns, e \in Edits :
    (c \in conns /\ e \in text) ~> (e \in local[c] \/ ~Linked(c))
====
