-------------------------- MODULE YjsServerProofs --------------------------
(***************************************************************************)
(* Proofs about YjsServer, for any set of websockets and of edits.         *)
(*                                                                         *)
(* That a document ends with its room depends on what every open           *)
(* connection of it has in common: it is still in doc.conns, which is what *)
(* destroySharedDoc closes.  YjsInv says that, and that nothing refers to  *)
(* a document that is not in the registry.                                 *)
(***************************************************************************)
EXTENDS YjsServer, TLAPS

\* From the reset of the rooms on, no room is registered.
NoRoomAfterReset == stage \in {"poolClose", "storeClose", "exited"} => room = "gone"

\* A websocket whose handler has not begun is not open and has no document.
IdleIsNew == \A c \in Conns : conn[c].pc = "idle" => conn[c].ws = "none" /\ conn[c].doc = "none"

\* Connections and edits belong to a document only while it is registered.
OnlyLiveDoc ==
  /\ conns # {} \/ text # {} => docLive
  /\ \A c \in Conns : conn[c].doc = "live" => docLive

\* A connection of the live document is in doc.conns as long as it is open.
OpenConnsKnown == \A c \in Conns : conn[c].doc = "live" /\ Open(c) => c \in conns

YjsInv ==
  /\ TypeOK
  /\ DocLifetime
  /\ NoRoomAfterReset
  /\ IdleIsNew
  /\ OnlyLiveDoc
  /\ OpenConnsKnown

-----------------------------------------------------------------------------
(* Types.                                                                  *)

Websocket ==
  [pc : {"idle", "validating", "serving", "rejected", "done"},
   ws : {"none", "open", "revoked", "lost", "closing", "closed"},
   fresh : BOOLEAN, doc : {"none", "live", "destroyed"},
   pong : BOOLEAN, answered : BOOLEAN]

LEMMA NewConnType == NewConn \in Websocket
BY DEF NewConn, Websocket

\* What closing, rejecting or ending a websocket makes of it is a websocket.
LEMMA WebsocketType ==
  ASSUME TypeOK, NEW c \in Conns
  PROVE  /\ conn[c] \in Websocket
         /\ NewConn \in Websocket
         /\ Closing(c) \in {"none", "closing", "closed"}
         /\ Rejected(c) \in Websocket
         /\ \A ms : Closed(c, ms) \in Websocket
<1>1. conn[c] \in Websocket
    BY DEF TypeOK, Websocket
<1>2. NewConn \in Websocket
    BY NewConnType
<1>3. Closing(c) \in {"none", "closing", "closed"}
    BY <1>1 DEF Closing, Open, Websocket
<1>4. Rejected(c) \in Websocket
    BY <1>2, <1>3 DEF Rejected, Websocket, NewConn
<1>5. ASSUME NEW ms PROVE Closed(c, ms) \in Websocket
    BY ZenonT(30), <1>1, <1>2 DEF Closed, Websocket, NewConn
<1> QED
    BY <1>1, <1>2, <1>3, <1>4, <1>5

\* A message carries edits, and a step keeps the type of what it leaves alone.
LEMMA MessageType ==
  /\ Sync1 \in Message
  /\ \A es \in SUBSET Edits : Update(es) \in Message
BY DEF Sync1, Update, Message

LEMMA TypeInit == Init => TypeOK
<1> SUFFICES ASSUME Init PROVE TypeOK
    OBVIOUS
<1>1. conn \in [Conns -> Websocket]
    BY NewConnType DEF Init
<1> QED
    BY <1>1 DEF Init, TypeOK, Websocket, Stages

\* destroySharedDoc leaves websockets behind, and nothing of the document.
LEMMA DestroyType ==
  ASSUME TypeOK, DestroySharedDoc
  PROVE  conn' \in [Conns -> Websocket] /\ docLive' = FALSE /\ text' = {} /\ conns' = {}
<1>1. ASSUME NEW c \in Conns
      PROVE  [conn[c] EXCEPT !.fresh = FALSE,
                       !.doc = IF @ = "live" THEN "destroyed" ELSE @,
                       !.ws = IF c \in conns THEN Closing(c) ELSE @] \in Websocket
  <2>1. conn[c] \in Websocket /\ Closing(c) \in {"none", "closing", "closed"}
      BY WebsocketType
  <2> QED
      BY <2>1 DEF Websocket
<1> QED
    BY <1>1 DEF DestroySharedDoc

LEMMA TypeNext == TypeOK /\ [Next]_vars => TypeOK'
<1> SUFFICES ASSUME TypeOK, [Next]_vars PROVE TypeOK'
    OBVIOUS
<1> USE DEF docVars, netVars
<1>a. conn \in [Conns -> Websocket]
    BY DEF TypeOK, Websocket
<1>1. ASSUME CreateRoom \/ RotateYjsToken \/ DestroyRoom PROVE TypeOK'
  <2>1. CASE CreateRoom
      BY <2>1 DEF CreateRoom, TypeOK
  <2>2. CASE RotateYjsToken
      BY ZenonT(30), <2>2 DEF RotateYjsToken, TypeOK
  <2>3. CASE DestroyRoom
      BY <2>3, DestroyType DEF DestroyRoom, TypeOK, Websocket
  <2> QED
      BY <1>1, <2>1, <2>2, <2>3
<1>2. ASSUME NEW c \in Conns, NEW fresh \in BOOLEAN, Connect(c, fresh) PROVE TypeOK'
    BY ZenonT(30), <1>2, MessageType DEF Connect, TypeOK
<1>3. ASSUME NEW c \in Conns, ServerStep(c) PROVE TypeOK'
  <2>1. CASE Refuse(c)
    <3>1. conn' \in [Conns -> Websocket]
        BY <2>1, <1>a, WebsocketType DEF Refuse
    <3> QED
        BY <2>1, <3>1 DEF Refuse, TypeOK, Websocket
  <2>2. CASE Admit(c)
    <3>1. CASE TokenCurrent(c)
      <4>1. conn' \in [Conns -> Websocket]
        <5>1. conn' = [conn EXCEPT ![c] = [@ EXCEPT !.pc = "serving", !.doc = "live", !.fresh = FALSE]]
            BY <2>2, <3>1 DEF Admit
        <5> QED
            BY ZenonT(30), <5>1, <1>a DEF Websocket
      <4>2. toServer' \in [Conns -> SUBSET Message]
          BY <2>2, <3>1, MessageType DEF Admit, TypeOK
      <4> QED
          BY <2>2, <3>1, <4>1, <4>2 DEF Admit, TypeOK, Websocket
    <3>2. CASE ~TokenCurrent(c)
      <4>1. conn' \in [Conns -> Websocket]
          BY <2>2, <3>2, <1>a, WebsocketType DEF Admit
      <4> QED
          BY <2>2, <3>2, <4>1 DEF Admit, TypeOK, Websocket
    <3> QED
        BY <3>1, <3>2
  <2>3. CASE PingTick(c)
    <3>1. conn' \in [Conns -> Websocket]
      <4>1. conn[c] \in Websocket /\ Closing(c) \in {"none", "closing", "closed"}
          BY WebsocketType
      <4>2. [conn[c] EXCEPT !.pong = FALSE] \in Websocket
          BY <4>1 DEF Websocket
      <4>3. [conn[c] EXCEPT !.ws = Closing(c)] \in Websocket
          BY <4>1 DEF Websocket
      <4>4. \/ conn' = [conn EXCEPT ![c] = [conn[c] EXCEPT !.pong = FALSE]]
            \/ conn' = [conn EXCEPT ![c] = [conn[c] EXCEPT !.ws = Closing(c)]]
          BY <2>3, <1>a DEF PingTick
      <4> QED
          BY <1>a, <4>2, <4>3, <4>4
    <3> QED
        BY <2>3, <3>1 DEF PingTick, CloseConn, TypeOK, Websocket
  <2>4. CASE PongLate(c)
      BY <2>4 DEF PongLate, CloseConn, TypeOK
  <2>5. CASE Revoke(c) \/ AccessTick(c)
      BY <2>5 DEF Revoke, AccessTick, TypeOK
  <2>6. CASE CloseEvent(c)
    <3>1. PICK ms \in Arrived(c) : /\ conn' = [conn EXCEPT ![c] = Closed(c, ms)]
                                   /\ toServer' = [toServer EXCEPT ![c] = ms]
        BY <2>6 DEF CloseEvent
    <3>2. ms \in SUBSET Message
        BY DEF Arrived, TypeOK
    <3> QED
        BY <2>6, <3>1, <3>2, WebsocketType DEF CloseEvent, CloseConn, TypeOK, Websocket
  <2>7. CASE Vanish(c)
    <3>1. PICK ms \in Arrived(c) : toServer' = [toServer EXCEPT ![c] = ms]
        BY <2>7 DEF Vanish
    <3>2. ms \in SUBSET Message
        BY DEF Arrived, TypeOK
    <3> QED
        BY <2>7, <3>1, <3>2 DEF Vanish, TypeOK
  <2> QED
      BY <1>3, <2>1, <2>2, <2>3, <2>4, <2>5, <2>6, <2>7 DEF ServerStep
<1>4. ASSUME NEW c \in Conns, MessageStep(c) PROVE TypeOK'
  <2>1. ASSUME NEW m \in toServer[c], Unheard(c, m) PROVE TypeOK'
      BY <2>1 DEF Unheard, TypeOK
  <2>2. ASSUME NEW m \in toServer[c], DenyMessage(c, m) PROVE TypeOK'
      BY <2>2, WebsocketType DEF DenyMessage, Handle, TypeOK
  <2>3. ASSUME NEW m \in toServer[c], Apply(c, m) PROVE TypeOK'
    <3>1. /\ toServer' \in [Conns -> SUBSET Message]
          /\ UNCHANGED <<room, local, stage>>
        BY <2>3 DEF Apply, Handle, TypeOK
    <3>2. CASE conn[c].doc # "live"
        BY <2>3, <3>1, <3>2 DEF Apply, TypeOK
    <3>3. CASE conn[c].doc = "live"
      <4>1. m \in Message
          BY DEF TypeOK
      <4>2. m.edits \subseteq Edits /\ m.asks \in BOOLEAN
          BY <4>1 DEF Message
      <4>3. PICK oversized \in BOOLEAN :
              LET fresh == m.edits \ text
                  sent == IF m.asks THEN text ELSE fresh
                  leaving == (IF fresh # {} THEN Dead ELSE {}) \cup (IF oversized THEN {c} ELSE {})
              IN /\ text' = text \cup fresh
                 /\ toClient' = [k \in Conns |-> IF k \in Recipients(c, m, fresh) /\ Linked(k)
                                                  THEN toClient[k] \cup sent ELSE toClient[k]]
                 /\ conns' = conns \ leaving
                 /\ conn' = [conn EXCEPT ![c].answered = @ \/ m.asks,
                                          ![c].ws = IF oversized THEN Closing(c) ELSE @]
                 /\ UNCHANGED docLive
          BY <2>3, <3>3 DEF Apply, ApplyLive
      <4>4. text' \subseteq Edits /\ conns' \subseteq Conns /\ docLive' \in BOOLEAN
          BY <4>2, <4>3 DEF TypeOK
      <4>5. toClient' \in [Conns -> SUBSET Edits]
          BY <4>2, <4>3 DEF TypeOK
      <4>6. conn' \in [Conns -> Websocket]
        <5>1. conn[c] \in Websocket /\ Closing(c) \in {"none", "closing", "closed"}
            BY WebsocketType
        <5>2. conn' = [conn EXCEPT ![c].answered = @ \/ m.asks,
                                   ![c].ws = IF oversized THEN Closing(c) ELSE @]
            BY <4>3
        <5> QED
            BY <4>2, <5>1, <5>2, <1>a DEF Websocket
      <4> QED
          BY <3>1, <4>4, <4>5, <4>6 DEF TypeOK, Websocket
    <3> QED
        BY <3>2, <3>3
  <2>4. ASSUME NEW m \in toServer[c], RejectMessage(c, m) PROVE TypeOK'
      BY <2>4, WebsocketType DEF RejectMessage, Handle, CloseConn, TypeOK
  <2>5. CASE ClientReceive(c)
      BY <2>5 DEF ClientReceive, TypeOK
  <2>6. ASSUME NEW e \in Edits, ClientEdit(c, e) PROVE TypeOK'
      BY <2>6, MessageType DEF ClientEdit, TypeOK
  <2> QED
      BY <1>4, <2>1, <2>2, <2>3, <2>4, <2>5, <2>6 DEF MessageStep
<1>5. ASSUME PresenceChange PROVE TypeOK'
    BY <1>5 DEF PresenceChange, TypeOK
<1>6. ASSUME NEW e \in Edits, LoadProblem(e) PROVE TypeOK'
    BY <1>6 DEF LoadProblem, TypeOK
<1>7. ASSUME Shutdown \/ HttpClosed \/ IoClosed \/ PoolClosed PROVE TypeOK'
    BY <1>7 DEF Shutdown, HttpClosed, IoClosed, PoolClosed, TypeOK, Stages
<1>8. ASSUME WssClosed PROVE TypeOK'
    BY <1>8, DestroyType DEF WssClosed, TypeOK, Stages, Websocket
<1>9. ASSUME StoreClosed \/ ForceExit PROVE TypeOK'
  <2>1. conn' \in [Conns -> Websocket]
      BY <1>9, NewConnType DEF StoreClosed, ForceExit, Exit
  <2> QED
      BY <1>9, <2>1 DEF StoreClosed, ForceExit, Exit, TypeOK, Stages, Websocket
<1>10. ASSUME UNCHANGED vars PROVE TypeOK'
    BY <1>10 DEF vars, TypeOK
<1> QED
    BY <1>1, <1>2, <1>3, <1>4, <1>5, <1>6, <1>7, <1>8, <1>9, <1>10 DEF Next

-----------------------------------------------------------------------------
(* The lifetime of a document.                                             *)

\* Most steps neither make nor end a document: they open no websocket, give
\* none a document, and take from doc.conns only what is not open any more.
LEMMA CalmStep ==
  ASSUME YjsInv, TypeOK',
         UNCHANGED <<room, docLive, stage>>,
         conns' # {} \/ text' # {} => docLive,
         \A k \in Conns :
           /\ Open(k)' => Open(k)
           /\ conn'[k].doc \in {conn[k].doc, "none"}
           /\ conn'[k].pc = "idle" => conn[k].pc = "idle" /\ conn'[k].ws = conn[k].ws
           /\ Open(k)' /\ conn'[k].doc = "live" /\ k \in conns => k \in conns'
  PROVE  YjsInv'
<1>1. DocLifetime'
    BY DEF YjsInv, DocLifetime
<1>2. NoRoomAfterReset' /\ IdleIsNew'
    BY DEF YjsInv, NoRoomAfterReset, IdleIsNew
<1>3. OnlyLiveDoc' /\ OpenConnsKnown'
    BY DEF YjsInv, OnlyLiveDoc, OpenConnsKnown
<1> QED
    BY <1>1, <1>2, <1>3 DEF YjsInv

\* A step that leaves the websockets alone is calm if it closes no open one.
LEMMA SameConns ==
  ASSUME YjsInv, TypeOK',
         UNCHANGED <<room, docLive, conn, stage>>,
         conns' # {} \/ text' # {} => docLive,
         \A k \in conns : Open(k) => k \in conns'
  PROVE  YjsInv'
<1>1. \A k \in Conns : Open(k)' <=> Open(k)
    BY DEF Open
<1> QED
    BY <1>1, CalmStep

LEMMA YjsInit == Init => YjsInv
<1> SUFFICES ASSUME Init PROVE YjsInv
    OBVIOUS
<1>1. \A c \in Conns : conn[c] = NewConn
    BY DEF Init
<1>2. DocLifetime /\ NoRoomAfterReset /\ IdleIsNew /\ OnlyLiveDoc /\ OpenConnsKnown
    BY <1>1 DEF Init, NewConn, DocLifetime, NoRoomAfterReset, IdleIsNew, OnlyLiveDoc, OpenConnsKnown
<1> QED
    BY <1>2, TypeInit DEF YjsInv

\* destroySharedDoc closes every open connection of the document.
LEMMA DestroyStep ==
  ASSUME YjsInv, TypeOK', DestroySharedDoc, room' = "gone"
  PROVE  YjsInv'
<1>1. ASSUME NEW k \in Conns
      PROVE  /\ conn'[k].pc = conn[k].pc
             /\ conn'[k].doc = IF conn[k].doc = "live" THEN "destroyed" ELSE conn[k].doc
             /\ conn'[k].ws = IF k \in conns THEN Closing(k) ELSE conn[k].ws
             /\ conn[k] \in Websocket
  <2>1. conn[k] \in Websocket
      BY WebsocketType DEF YjsInv
  <2> QED
      BY <2>1 DEF DestroySharedDoc, Websocket
<1>2. ASSUME NEW k \in Conns PROVE Open(k)' => Open(k) /\ k \notin conns
    BY <1>1 DEF Open, Closing
<1>3. docLive' = FALSE /\ text' = {} /\ conns' = {}
    BY DEF DestroySharedDoc
<1>4. DocLifetime'
    BY <1>1, <1>2, <1>3 DEF YjsInv, DocLifetime, OpenConnsKnown
<1>5. NoRoomAfterReset'
    BY DEF NoRoomAfterReset
<1>6. ASSUME NEW k \in Conns, conn'[k].pc = "idle" PROVE conn'[k].ws = "none" /\ conn'[k].doc = "none"
    BY <1>1, <1>6 DEF YjsInv, IdleIsNew, Closing, Open
<1>7. \A k \in Conns : conn'[k].doc # "live"
    BY <1>1
<1> QED
    BY <1>3, <1>4, <1>5, <1>6, <1>7 DEF YjsInv, IdleIsNew, OnlyLiveDoc, OpenConnsKnown

\* What happens to one websocket: the others keep theirs, and the one that
\* steps opens nothing and is given no document.
LEMMA OneConn ==
  ASSUME YjsInv, TypeOK', NEW c \in Conns,
         UNCHANGED <<room, docLive, text, stage>>,
         \A k \in Conns \ {c} : conn'[k] = conn[k],
         conns' = conns \/ (conns' = conns \ {c} /\ ~Open(c)'),
         Open(c)' => Open(c),
         conn'[c].doc \in {conn[c].doc, "none"},
         conn'[c].pc = "idle" => conn[c].pc = "idle" /\ conn'[c].ws = conn[c].ws
  PROVE  YjsInv'
<1>1. ASSUME NEW k \in Conns
      PROVE  /\ Open(k)' => Open(k)
             /\ conn'[k].doc \in {conn[k].doc, "none"}
             /\ conn'[k].pc = "idle" => conn[k].pc = "idle" /\ conn'[k].ws = conn[k].ws
             /\ Open(k)' /\ conn'[k].doc = "live" /\ k \in conns => k \in conns'
  <2>1. CASE k = c
      BY <2>1
  <2>2. CASE k # c
      BY <2>2 DEF Open
  <2> QED
      BY <2>1, <2>2
<1>2. conns' # {} \/ text' # {} => docLive
    BY DEF YjsInv, OnlyLiveDoc
<1> QED
    BY <1>1, <1>2, CalmStep

\* A websocket is closed.
LEMMA CloseStep ==
  ASSUME YjsInv, TypeOK', NEW c \in Conns,
         UNCHANGED <<room, docLive, text, stage>>,
         conn' = [conn EXCEPT ![c].ws = Closing(c)],
         conns' = conns \/ conns' = conns \ {c}
  PROVE  YjsInv'
<1>1. conn \in [Conns -> Websocket] /\ conn[c] \in Websocket
    BY DEF YjsInv, TypeOK, Websocket
<1>2. /\ conn'[c].ws = Closing(c) /\ conn'[c].doc = conn[c].doc /\ conn'[c].pc = conn[c].pc
      /\ \A k \in Conns \ {c} : conn'[k] = conn[k]
    BY <1>1 DEF Websocket
<1>3. ~Open(c)'
    BY <1>2 DEF Open, Closing
<1>4. conn[c].pc = "idle" => conn[c].ws = Closing(c)
    BY DEF YjsInv, IdleIsNew, Closing, Open
<1> QED
    BY <1>2, <1>3, <1>4, OneConn

LEMMA ServerNext ==
  ASSUME YjsInv, TypeOK', NEW c \in Conns, ServerStep(c)
  PROVE  YjsInv'
<1> USE DEF docVars, netVars
<1>a. conn \in [Conns -> Websocket] /\ conn[c] \in Websocket
    BY DEF YjsInv, TypeOK, Websocket
<1>1. CASE Refuse(c) \/ (Admit(c) /\ ~TokenCurrent(c))
  <2>1. conn' = [conn EXCEPT ![c] = Rejected(c)] /\ UNCHANGED <<room, docLive, text, conns, stage>>
      BY <1>1 DEF Refuse, Admit
  <2>2. conn'[c] = Rejected(c) /\ \A k \in Conns \ {c} : conn'[k] = conn[k]
      BY <2>1, <1>a
  <2>3. conn'[c].pc = "rejected" /\ conn'[c].doc = "none" /\ ~Open(c)'
      BY <2>2 DEF Rejected, NewConn, Open, Closing
  <2> QED
      BY <2>1, <2>2, <2>3, OneConn
<1>2. CASE Admit(c) /\ TokenCurrent(c)
  <2>1. /\ room = "live" /\ docLive' = TRUE /\ conns' = conns \cup {c}
        /\ conn' = [conn EXCEPT ![c] = [@ EXCEPT !.pc = "serving", !.doc = "live", !.fresh = FALSE]]
        /\ UNCHANGED <<room, text, stage>>
      BY <1>2 DEF Admit, TokenCurrent
  <2>2. /\ conn'[c].pc = "serving" /\ conn'[c].doc = "live" /\ conn'[c].ws = conn[c].ws
        /\ \A k \in Conns \ {c} : conn'[k] = conn[k]
      BY <2>1, <1>a DEF Websocket
  <2>3. DocLifetime'
      BY <2>1, <2>2 DEF YjsInv, DocLifetime, NoRoomAfterReset, Open
  <2>4. NoRoomAfterReset' /\ IdleIsNew'
      BY <2>1, <2>2 DEF YjsInv, NoRoomAfterReset, IdleIsNew
  <2>5. OnlyLiveDoc' /\ OpenConnsKnown'
      BY <2>1, <2>2 DEF YjsInv, OnlyLiveDoc, OpenConnsKnown, Open
  <2> QED
      BY <2>3, <2>4, <2>5 DEF YjsInv
<1>3. CASE PingTick(c)
  <2>1. CASE conn[c].pong
    <3>1. conn' = [conn EXCEPT ![c].pong = FALSE] /\ UNCHANGED <<room, docLive, text, conns, stage>>
        BY <1>3, <2>1 DEF PingTick
    <3>2. /\ conn'[c].ws = conn[c].ws /\ conn'[c].doc = conn[c].doc /\ conn'[c].pc = conn[c].pc
          /\ \A k \in Conns \ {c} : conn'[k] = conn[k]
        BY <3>1, <1>a DEF Websocket
    <3>3. Open(c)' => Open(c)
        BY <3>2 DEF Open
    <3> QED
        BY <3>1, <3>2, <3>3, OneConn
  <2>2. CASE ~conn[c].pong
      BY <1>3, <2>2, CloseStep DEF PingTick, CloseConn
  <2> QED
      BY <2>1, <2>2
<1>4. CASE PongLate(c)
  <2>1. Closing(c) = "closing"
      BY <1>4 DEF PongLate, Linked, Closing, Open
  <2> QED
      BY <1>4, <2>1, CloseStep DEF PongLate, CloseConn
<1>5. CASE Revoke(c) \/ AccessTick(c) \/ Vanish(c)
  <2>1. PICK s \in {"revoked", "closing", "lost"} :
          conn' = [conn EXCEPT ![c].ws = s] /\ UNCHANGED <<room, docLive, text, conns, stage>>
      BY <1>5 DEF Revoke, AccessTick, Vanish
  <2>2. /\ conn'[c].ws = s /\ conn'[c].doc = conn[c].doc /\ conn'[c].pc = conn[c].pc
        /\ \A k \in Conns \ {c} : conn'[k] = conn[k]
      BY <2>1, <1>a DEF Websocket
  <2>3. Open(c)
      BY <1>5 DEF Open, Revoke, AccessTick, Vanish, Linked
  <2>4. conn[c].pc # "idle"
      BY <2>3 DEF Open, YjsInv, IdleIsNew
  <2> QED
      BY <2>1, <2>2, <2>3, <2>4, OneConn
<1>6. CASE CloseEvent(c)
  <2>1. PICK ms \in Arrived(c) : conn' = [conn EXCEPT ![c] = Closed(c, ms)]
      BY <1>6 DEF CloseEvent
  <2>2. conn'[c] = Closed(c, ms) /\ \A k \in Conns \ {c} : conn'[k] = conn[k]
      BY <2>1, <1>a
  <2>3. /\ conns' = conns \/ conns' = conns \ {c}
        /\ UNCHANGED <<room, docLive, text, stage>>
      BY <1>6 DEF CloseEvent, CloseConn
  <2>4. ~Open(c)' /\ conn'[c].doc \in {conn[c].doc, "none"}
      BY <2>2 DEF Closed, NewConn, Open
  <2>5. conn[c].pc # "idle"
      BY <1>6 DEF CloseEvent, YjsInv, IdleIsNew
  <2>6. conn'[c].pc # "idle"
      BY <2>2, <2>5 DEF Closed, NewConn
  <2> QED
      BY <2>2, <2>3, <2>4, <2>6, OneConn
<1> QED
    BY <1>1, <1>2, <1>3, <1>4, <1>5, <1>6 DEF ServerStep

\* What a message is worth is merged only into a document that is registered.
LEMMA ApplyLiveStep ==
  ASSUME YjsInv, TypeOK', NEW c \in Conns, NEW m, conn[c].doc = "live", ApplyLive(c, m),
         UNCHANGED <<room, stage>>
  PROVE  YjsInv'
<1>1. conn \in [Conns -> Websocket] /\ conn[c] \in Websocket /\ docLive
    BY DEF YjsInv, OnlyLiveDoc, TypeOK, Websocket
<1>2. PICK oversized \in BOOLEAN :
        /\ conns \ (Dead \cup (IF oversized THEN {c} ELSE {})) \subseteq conns'
        /\ conn' = [conn EXCEPT ![c].answered = @ \/ m.asks,
                                ![c].ws = IF oversized THEN Closing(c) ELSE @]
        /\ UNCHANGED docLive
    BY DEF ApplyLive
<1>3. /\ conn'[c].ws = IF oversized THEN Closing(c) ELSE conn[c].ws
      /\ conn'[c].pc = conn[c].pc /\ conn'[c].doc = conn[c].doc
      /\ \A k \in Conns \ {c} : conn'[k] = conn[k]
    BY <1>1, <1>2 DEF Websocket
<1>4. ASSUME NEW k \in Conns
      PROVE  /\ Open(k)' => Open(k)
             /\ conn'[k].doc \in {conn[k].doc, "none"}
             /\ conn'[k].pc = "idle" => conn[k].pc = "idle" /\ conn'[k].ws = conn[k].ws
             /\ Open(k)' /\ conn'[k].doc = "live" /\ k \in conns => k \in conns'
  <2>1. Open(k)' => Open(k)
      BY <1>3 DEF Open, Closing
  <2>2. Open(k)' => ~(oversized /\ k = c)
      BY <1>3 DEF Open, Closing
  <2>3. conn'[k].pc = conn[k].pc /\ conn'[k].doc = conn[k].doc
      BY <1>3
  <2>4. conn'[k].pc = "idle" => conn'[k].ws = conn[k].ws
      BY <1>1, <1>3 DEF YjsInv, IdleIsNew
  <2> QED
      BY <1>2, <2>1, <2>2, <2>3, <2>4 DEF Dead
<1> QED
    BY <1>1, <1>2, <1>4, CalmStep

LEMMA MessageNext ==
  ASSUME YjsInv, TypeOK', NEW c \in Conns, MessageStep(c)
  PROVE  YjsInv'
<1> USE DEF docVars, netVars
<1>a. conns # {} \/ text # {} => docLive
    BY DEF YjsInv, OnlyLiveDoc
<1>1. ASSUME NEW m \in toServer[c], Unheard(c, m) PROVE YjsInv'
    BY <1>1, <1>a, SameConns DEF Unheard
<1>2. ASSUME NEW m \in toServer[c], DenyMessage(c, m) \/ RejectMessage(c, m) PROVE YjsInv'
    BY <1>2, CloseStep DEF DenyMessage, RejectMessage, CloseConn
<1>3. ASSUME NEW m \in toServer[c], Apply(c, m) PROVE YjsInv'
  <2>1. CASE conn[c].doc = "live"
      BY <1>3, <2>1, ApplyLiveStep DEF Apply
  <2>2. CASE conn[c].doc # "live"
      BY <1>3, <1>a, <2>2, SameConns DEF Apply
  <2> QED
      BY <2>1, <2>2
<1>4. CASE ClientReceive(c)
    BY <1>4, <1>a, SameConns DEF ClientReceive
<1>5. ASSUME NEW e \in Edits, ClientEdit(c, e) PROVE YjsInv'
    BY <1>5, <1>a, SameConns DEF ClientEdit
<1> QED
    BY <1>1, <1>2, <1>3, <1>4, <1>5 DEF MessageStep

LEMMA YjsNext == YjsInv /\ [Next]_vars => YjsInv'
<1> SUFFICES ASSUME YjsInv, [Next]_vars PROVE YjsInv'
    OBVIOUS
<1> USE DEF docVars, netVars
<1>a. TypeOK'
    BY TypeNext DEF YjsInv
<1>b. conns # {} \/ text # {} => docLive
    BY DEF YjsInv, OnlyLiveDoc
<1>c. conn \in [Conns -> Websocket]
    BY DEF YjsInv, TypeOK, Websocket
<1>1. CASE CreateRoom
  <2>1. \A c \in Conns : Open(c)' <=> Open(c)
      BY <1>1 DEF CreateRoom, Open
  <2> QED
      BY <1>1, <1>a, <2>1 DEF CreateRoom, YjsInv, DocLifetime, NoRoomAfterReset, IdleIsNew,
         OnlyLiveDoc, OpenConnsKnown
<1>2. CASE RotateYjsToken
  <2>1. UNCHANGED <<room, docLive, text, conns, stage>>
      BY <1>2 DEF RotateYjsToken
  <2>2. \A k \in Conns : /\ conn'[k].ws = conn[k].ws /\ conn'[k].doc = conn[k].doc
                         /\ conn'[k].pc = conn[k].pc
      BY <1>2, <1>c DEF RotateYjsToken, Websocket
  <2>3. \A k \in Conns : Open(k)' <=> Open(k)
      BY <2>2 DEF Open
  <2> QED
      BY <1>a, <1>b, <2>1, <2>2, <2>3, CalmStep
<1>3. CASE DestroyRoom
    BY <1>3, <1>a, DestroyStep DEF DestroyRoom
<1>4. ASSUME NEW c \in Conns, NEW fresh \in BOOLEAN, Connect(c, fresh) PROVE YjsInv'
  <2>1. conn[c].doc = "none"
      BY <1>4 DEF Connect, YjsInv, IdleIsNew
  <2>2. /\ conn'[c].doc = "none" /\ conn'[c].pc = "validating"
        /\ \A k \in Conns \ {c} : conn'[k] = conn[k]
      BY <1>4, <1>c, <2>1 DEF Connect, Websocket
  <2>3. UNCHANGED <<room, docLive, text, conns, stage>>
      BY <1>4 DEF Connect
  <2>4. \A k \in Conns \ {c} : Open(k)' <=> Open(k)
      BY <2>2 DEF Open
  <2> QED
      BY <1>a, <2>2, <2>3, <2>4 DEF YjsInv, DocLifetime, NoRoomAfterReset, IdleIsNew,
         OnlyLiveDoc, OpenConnsKnown
<1>5. ASSUME NEW c \in Conns, ServerStep(c) \/ MessageStep(c) PROVE YjsInv'
    BY <1>5, <1>a, ServerNext, MessageNext
<1>6. CASE PresenceChange
    BY <1>6, <1>a, <1>b, SameConns DEF PresenceChange, Dead
<1>7. ASSUME NEW e \in Edits, LoadProblem(e) PROVE YjsInv'
    BY <1>7, <1>a, SameConns DEF LoadProblem, Dead
<1>8. CASE Shutdown \/ HttpClosed \/ IoClosed
  <2>1. \A c \in Conns : Open(c)' <=> Open(c)
      BY <1>8 DEF Shutdown, HttpClosed, IoClosed, Open
  <2> QED
      BY <1>8, <1>a, <2>1 DEF Shutdown, HttpClosed, IoClosed, YjsInv, DocLifetime,
         NoRoomAfterReset, IdleIsNew, OnlyLiveDoc, OpenConnsKnown
<1>9. CASE WssClosed
    BY <1>9, <1>a, DestroyStep DEF WssClosed
<1>10. CASE PoolClosed
  <2>1. \A c \in Conns : Open(c)' <=> Open(c)
      BY <1>10 DEF PoolClosed, Open
  <2> QED
      BY <1>10, <1>a, <2>1 DEF PoolClosed, YjsInv, DocLifetime, NoRoomAfterReset, IdleIsNew,
         OnlyLiveDoc, OpenConnsKnown
<1>11. CASE StoreClosed \/ ForceExit
  <2>1. /\ room' = "gone" /\ docLive' = FALSE /\ text' = {} /\ conns' = {}
        /\ conn' = [c \in Conns |-> NewConn]
      BY <1>11 DEF StoreClosed, ForceExit, Exit
  <2>2. \A c \in Conns : conn'[c].ws = "none" /\ conn'[c].doc = "none"
      BY <2>1 DEF NewConn
  <2> QED
      BY <1>a, <2>1, <2>2 DEF YjsInv, DocLifetime, NoRoomAfterReset, IdleIsNew, OnlyLiveDoc,
         OpenConnsKnown
<1>12. CASE UNCHANGED vars
    BY <1>12, <1>a, <1>b, SameConns DEF vars
<1> QED
    BY <1>1, <1>2, <1>3, <1>4, <1>5, <1>6, <1>7, <1>8, <1>9, <1>10, <1>11, <1>12 DEF Next

LEMMA YjsInvariant == Spec => []YjsInv
<1> QED
    BY YjsInit, YjsNext, PTL DEF Spec

\* The variables have the values the code gives them.
THEOREM TypeOKAlways == Spec => []TypeOK
<1>1. YjsInv => TypeOK
    BY DEF YjsInv
<1> QED
    BY <1>1, YjsInvariant, PTL

\* A document lives only as long as its room: getOrCreateDoc makes none without
\* a registered room, resetRooms leaves none, and no client keeps an open
\* connection to a document that destroySharedDoc took away.
THEOREM DocLifetimeAlways == Spec => []DocLifetime
<1>1. YjsInv => DocLifetime
    BY DEF YjsInv
<1> QED
    BY <1>1, YjsInvariant, PTL

\* Every open connection of the live document is known to doc.conns, so that
\* an update reaches it and destroySharedDoc closes it, however its access
\* checks, pings and messages overlap.
THEOREM OpenConnsKnownAlways == Spec => []OpenConnsKnown
<1>1. YjsInv => OpenConnsKnown
    BY DEF YjsInv
<1> QED
    BY <1>1, YjsInvariant, PTL
=============================================================================
