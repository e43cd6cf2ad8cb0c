--------------------------- MODULE RoomClientProofs ---------------------------
(***************************************************************************)
(* Proofs about RoomClient, for any number of problems, hints, custom test *)
(* cases and messages on the way.                                          *)
(*                                                                         *)
(* The argument.  The properties are about a browser that has handled all  *)
(* that was sent to it.  The invariant says at any time what the browser   *)
(* WILL show then: the state that the reducer reaches from the current one *)
(* by the messages on the way.  A handler that changes the room sends a    *)
(* message that moves the end of this path along, and the browser that     *)
(* handles a message only moves its beginning.                             *)
(***************************************************************************)
EXTENDS RoomClient, SequenceTheorems, TLAPS

-----------------------------------------------------------------------------
(* Messages, and the states of the reducer that they lead to.              *)

PlainTypes ==
  {"USER_JOINED", "USER_LEFT", "EXECUTION_STARTED", "EXECUTION_RESULT", "EXECUTION_ERROR",
   "HINT_PENDING", "HINT_CHUNK", "HINT_DONE", "HINT_DENIED", "HINT_ERROR", "TESTCASE_ADDED"}
PlainMessages == [type : PlainTypes]
SyncMessages == [type : {"ROOM_SYNC"}, hints : Nat, customs : Nat, pending : BOOLEAN,
                 executing : BOOLEAN, peer : BOOLEAN]
LoadMessages == [type : {"PROBLEM_LOADED"}, problem : Problems]
Messages == PlainMessages \cup SyncMessages \cup LoadMessages

ClientRecord ==
  [problem : Problems \cup {None}, hints : Nat, customs : Nat, pending : BOOLEAN,
   executing : BOOLEAN, streaming : BOOLEAN, peer : BOOLEAN]
RoomRecord ==
  [problem : Problems \cup {None}, hints : Nat, customs : Nat, pending : Users \cup {"no"},
   executing : BOOLEAN]

\* The messages of w lead the reducer from state a to state b.
Leads(a, w, b) ==
  \E c \in [0..Len(w) -> ClientRecord] :
    /\ c[0] = a /\ c[Len(w)] = b
    /\ \A i \in 1..Len(w) : c[i] = roomReducer(c[i - 1], w[i])

-----------------------------------------------------------------------------
(* The inductive invariant.                                                *)

Types ==
  /\ room \in RoomRecord
  /\ peerOn \in BOOLEAN /\ announce \in BOOLEAN
  /\ link \in {"down", "up", "joined"}
  /\ hydrating \in Problems \cup {None}
  /\ wire \in Seq(Messages)
  /\ client \in ClientRecord

\* Only a socket in the room gets messages, and has a problem to wait for.
QuietUntilJoined == link # "joined" => wire = <<>> /\ hydrating = None

\* A browser in state b shows nothing that the room does not have, and a peer who is there.
Shows(b) ==
  /\ b.executing => room.executing
  /\ b.hints <= room.hints
  /\ b.customs <= room.customs
  /\ b.pending => room.pending # "no"
  /\ peerOn /\ ~announce => b.peer

WillShow == \E b \in ClientRecord : Leads(client, wire, b) /\ (link = "joined" => Shows(b))

ClientInv == Types /\ QuietUntilJoined /\ WillShow

-----------------------------------------------------------------------------
(* The reducer.                                                            *)

LEMMA SyncFacts ==
  ASSUME NEW c \in ClientRecord, NEW m \in SyncMessages
  PROVE  /\ roomReducer(c, m) \in ClientRecord
         /\ roomReducer(c, m).hints = m.hints /\ roomReducer(c, m).customs = m.customs
         /\ roomReducer(c, m).pending = m.pending /\ roomReducer(c, m).executing = m.executing
         /\ roomReducer(c, m).peer = m.peer
<1>1. m.type = "ROOM_SYNC"
    BY DEF SyncMessages
<1>2. roomReducer(c, m) = RoomSync(c, m)
    BY <1>1 DEF roomReducer
<1> QED
    BY <1>2 DEF RoomSync, ClientRecord, SyncMessages

LEMMA LoadFacts ==
  ASSUME NEW c \in ClientRecord, NEW m \in LoadMessages
  PROVE  /\ roomReducer(c, m) \in ClientRecord
         /\ roomReducer(c, m).hints = 0 /\ roomReducer(c, m).customs = 0
         /\ roomReducer(c, m).pending = FALSE
         /\ roomReducer(c, m).executing = c.executing /\ roomReducer(c, m).peer = c.peer
<1>1. m.type = "PROBLEM_LOADED" /\ m.problem \in Problems
    BY DEF LoadMessages
<1>2. roomReducer(c, m) = ProblemLoaded(c, m.problem)
    BY <1>1 DEF roomReducer
<1>3. PICK s : s = [c EXCEPT !.problem = m.problem, !.hints = 0, !.customs = 0,
                               !.pending = FALSE, !.streaming = FALSE]
    OBVIOUS
<1>4. s \in ClientRecord
    BY <1>1, <1>3 DEF ClientRecord
<1>5. s.hints = 0 /\ s.customs = 0
    BY <1>3 DEF ClientRecord
<1>6. s.pending = FALSE
    BY <1>3 DEF ClientRecord
<1>7. s.executing = c.executing
    BY <1>3 DEF ClientRecord
<1>8. s.peer = c.peer
    BY <1>3 DEF ClientRecord
<1> QED
    BY <1>2, <1>3, <1>4, <1>5, <1>6, <1>7, <1>8 DEF ProblemLoaded

LEMMA PlainFacts ==
  ASSUME NEW c \in ClientRecord, NEW m \in PlainMessages
  PROVE  /\ roomReducer(c, m) \in ClientRecord
         /\ roomReducer(c, m).hints = c.hints + (IF m.type = "HINT_DONE" THEN 1 ELSE 0)
         /\ roomReducer(c, m).customs = c.customs + (IF m.type = "TESTCASE_ADDED" THEN 1 ELSE 0)
         /\ roomReducer(c, m).pending =
              IF m.type = "HINT_PENDING" THEN TRUE
              ELSE IF m.type \in {"HINT_DONE", "HINT_DENIED", "HINT_ERROR"} THEN FALSE
              ELSE c.pending
         /\ roomReducer(c, m).executing =
              IF m.type = "EXECUTION_STARTED" THEN TRUE
              ELSE IF m.type \in {"EXECUTION_RESULT", "EXECUTION_ERROR"} THEN FALSE
              ELSE c.executing
         /\ roomReducer(c, m).peer =
              IF m.type = "USER_JOINED" THEN TRUE
              ELSE IF m.type = "USER_LEFT" THEN FALSE
              ELSE c.peer
<1>1. /\ c.hints \in Nat /\ c.customs \in Nat /\ c.pending \in BOOLEAN /\ c.executing \in BOOLEAN
      /\ c.peer \in BOOLEAN /\ c.hints + 0 = c.hints /\ c.customs + 0 = c.customs
    BY DEF ClientRecord
<1>2. CASE m.type \in {"USER_JOINED", "USER_LEFT"}
    BY <1>1, <1>2 DEF roomReducer, UserJoined, ClientRecord
<1>3. CASE m.type \in {"EXECUTION_STARTED", "EXECUTION_RESULT", "EXECUTION_ERROR"}
    BY <1>1, <1>3 DEF roomReducer, ExecutionError, ClientRecord
<1>4. CASE m.type \in {"HINT_PENDING", "HINT_CHUNK"}
    BY <1>1, <1>4 DEF roomReducer, ClientRecord
<1>5. CASE m.type = "HINT_DONE"
  <2>1. PICK n \in Nat : n = c.hints + 1
      BY <1>1
  <2>2. PICK s : s = [c EXCEPT !.hints = n, !.streaming = FALSE, !.pending = FALSE]
      OBVIOUS
  <2>3. roomReducer(c, m) = s
      BY <1>5, <2>1, <2>2 DEF roomReducer
  <2>4. s \in ClientRecord
      BY <2>2 DEF ClientRecord
  <2>5. s.hints = n /\ s.customs = c.customs
      BY <2>2 DEF ClientRecord
  <2>6. s.pending = FALSE
      BY <2>2 DEF ClientRecord
  <2>7. s.executing = c.executing
      BY <2>2 DEF ClientRecord
  <2>8. s.peer = c.peer
      BY <2>2 DEF ClientRecord
  <2> QED
      BY <1>1, <1>5, <2>1, <2>3, <2>4, <2>5, <2>6, <2>7, <2>8
<1>6. CASE m.type \in {"HINT_DENIED", "HINT_ERROR"}
    BY <1>1, <1>6 DEF roomReducer, ClientRecord
<1>7. CASE m.type = "TESTCASE_ADDED"
    BY <1>1, <1>7 DEF roomReducer, ClientRecord
<1>8. m.type \in PlainTypes
    BY DEF PlainMessages
<1> QED
    BY <1>2, <1>3, <1>4, <1>5, <1>6, <1>7, <1>8 DEF PlainTypes

LEMMA ReducerTyped ==
  ASSUME NEW c \in ClientRecord, NEW m \in Messages
  PROVE  roomReducer(c, m) \in ClientRecord
BY SyncFacts, LoadFacts, PlainFacts DEF Messages

-----------------------------------------------------------------------------
(* What messages lead to.                                                  *)

LEMMA LeadsNowhere ==
  ASSUME NEW a \in ClientRecord, NEW b
  PROVE  Leads(a, <<>>, b) <=> a = b
<1>1. ASSUME a = b PROVE Leads(a, <<>>, b)
  <2>1. PICK c : c = [i \in 0..0 |-> a]
      OBVIOUS
  <2>2. c \in [0..Len(<<>>) -> ClientRecord] /\ c[0] = a /\ Len(<<>>) = 0
      BY <2>1
  <2> QED
      BY <1>1, <2>2 DEF Leads
<1>2. ASSUME Leads(a, <<>>, b) PROVE a = b
    BY <1>2 DEF Leads
<1> QED
    BY <1>1, <1>2

LEMMA LeadsOn ==
  ASSUME NEW a \in ClientRecord, NEW w \in Seq(Messages), NEW b \in ClientRecord,
         Leads(a, w, b), NEW m \in Messages
  PROVE  w \o <<m>> \in Seq(Messages) /\ Leads(a, w \o <<m>>, roomReducer(b, m))
<1>1. PICK c \in [0..Len(w) -> ClientRecord] :
        /\ c[0] = a /\ c[Len(w)] = b
        /\ \A i \in 1..Len(w) : c[i] = roomReducer(c[i - 1], w[i])
    BY DEF Leads
<1>2. PICK n \in Nat : n = Len(w)
    OBVIOUS
<1>3. PICK v \in Seq(Messages) :
        /\ v = w \o <<m>> /\ Len(v) = n + 1 /\ v[n + 1] = m
        /\ \A i \in 1..n : v[i] = w[i]
  <2>1. /\ w \o <<m>> \in Seq(Messages) /\ Len(w \o <<m>>) = n + 1
        /\ (w \o <<m>>)[n + 1] = m
      BY <1>2
  <2>2. \A i \in 1..n : (w \o <<m>>)[i] = w[i]
      BY <1>2
  <2> QED
      BY <2>1, <2>2
<1>4. PICK s \in ClientRecord : s = roomReducer(b, m)
    BY ReducerTyped
<1>5. PICK d : d = [i \in 0..n + 1 |-> IF i = n + 1 THEN s ELSE c[i]]
    OBVIOUS
<1>6. \A i \in 0..n + 1 : i # n + 1 => i \in 0..n
    BY <1>2
<1>7. d \in [0..n + 1 -> ClientRecord]
    BY <1>1, <1>2, <1>5, <1>6
<1>8. d[n + 1] = s /\ \A i \in 0..n : d[i] = c[i]
    BY <1>2, <1>5
<1>9. ASSUME NEW i \in 1..n + 1 PROVE d[i] = roomReducer(d[i - 1], v[i])
  <2>1. CASE i = n + 1
    <3>1. i - 1 = n /\ n \in 0..n
        BY <2>1
    <3>2. d[i - 1] = b
        BY <1>1, <1>2, <1>8, <3>1
    <3> QED
        BY <1>3, <1>4, <1>8, <2>1, <3>2
  <2>2. CASE i # n + 1
    <3>1. i \in 1..n /\ i \in 0..n /\ i - 1 \in 0..n
        BY <2>2
    <3>2. c[i] = roomReducer(c[i - 1], w[i]) /\ v[i] = w[i]
        BY <1>1, <1>2, <1>3, <3>1
    <3> QED
        BY <1>8, <3>1, <3>2
  <2> QED
      BY <2>1, <2>2
<1>10. d[0] = a
    BY <1>1, <1>2, <1>8
<1>11. Leads(a, v, s)
    BY <1>3, <1>7, <1>8, <1>9, <1>10 DEF Leads
<1> QED
    BY <1>3, <1>4, <1>11

LEMMA LeadsFromNext ==
  ASSUME NEW a \in ClientRecord, NEW w \in Seq(Messages), NEW b, Leads(a, w, b), w # <<>>
  PROVE  /\ Head(w) \in Messages /\ Tail(w) \in Seq(Messages)
         /\ Leads(roomReducer(a, Head(w)), Tail(w), b)
<1>1. PICK c \in [0..Len(w) -> ClientRecord] :
        /\ c[0] = a /\ c[Len(w)] = b
        /\ \A i \in 1..Len(w) : c[i] = roomReducer(c[i - 1], w[i])
    BY DEF Leads
<1>2. PICK n \in Nat : Len(w) = n + 1
    <2>1. Len(w) \in Nat /\ Len(w) # 0
        OBVIOUS
    <2> QED
        BY <2>1
<1>3. PICK v \in Seq(Messages) : /\ v = Tail(w) /\ Len(v) = n
                                 /\ \A i \in 1..n : v[i] = w[i + 1]
  <2>1. Tail(w) \in Seq(Messages) /\ Len(Tail(w)) = n
      BY <1>2, HeadTailProperties
  <2>2. \A i \in 1..n : Tail(w)[i] = w[i + 1]
      BY <1>2, <2>1, HeadTailProperties
  <2> QED
      BY <2>1, <2>2
<1>4. Head(w) = w[1] /\ w[1] \in Messages
    BY <1>2
<1>5. PICK d : d = [i \in 0..n |-> c[i + 1]]
    OBVIOUS
<1>6. \A i \in 0..n : i + 1 \in 0..n + 1 /\ i + 1 \in 1..n + 1 /\ i + 1 - 1 = i
    BY <1>2
<1>7. d \in [0..n -> ClientRecord] /\ \A i \in 0..n : d[i] = c[i + 1]
    BY <1>1, <1>2, <1>5, <1>6
<1>8. ASSUME NEW i \in 1..n PROVE d[i] = roomReducer(d[i - 1], v[i])
  <2>1. i \in 0..n /\ i - 1 \in 0..n /\ i - 1 + 1 = i
      OBVIOUS
  <2>2. c[i + 1] = roomReducer(c[i], w[i + 1])
      BY <1>1, <1>2, <1>6, <2>1
  <2>3. d[i] = c[i + 1] /\ d[i - 1] = c[i]
      BY <1>7, <2>1
  <2> QED
      BY <1>3, <2>2, <2>3
<1>9. d[0] = roomReducer(a, w[1])
  <2>1. c[1] = roomReducer(c[0], w[1])
      BY <1>1, <1>2
  <2> QED
      BY <1>1, <1>7, <2>1
<1>10. d[n] = b
    BY <1>1, <1>2, <1>7
<1> QED
    BY <1>3, <1>4, <1>7, <1>8, <1>9, <1>10 DEF Leads
-----------------------------------------------------------------------------
(* Steps of the server, by what they send to the room.                     *)

\* What such a step leaves alone, and the types of what it does not.
ServerStep ==
  /\ UNCHANGED <<link, hydrating, client>>
  /\ room' \in RoomRecord /\ peerOn' \in BOOLEAN /\ announce' \in BOOLEAN

LEMMA Arrives ==
  ASSUME ClientInv, ServerStep, wire' \in Seq(Messages), link # "joined" => wire' = wire,
         NEW d \in ClientRecord, Leads(client', wire', d), link = "joined" => Shows(d)'
  PROVE  ClientInv'
<1>1. Types'
    BY DEF ClientInv, Types, ServerStep
<1>2. QuietUntilJoined'
    BY DEF ClientInv, QuietUntilJoined, ServerStep
<1>3. WillShow'
    BY DEF WillShow, ServerStep
<1> QED
    BY <1>1, <1>2, <1>3 DEF ClientInv

LEMMA SendsNothing ==
  ASSUME ClientInv, ServerStep, wire' = wire, \A b \in ClientRecord : Shows(b) => Shows(b)'
  PROVE  ClientInv'
<1>1. PICK b \in ClientRecord : Leads(client, wire, b) /\ (link = "joined" => Shows(b))
    BY DEF ClientInv, WillShow
<1>2. wire' \in Seq(Messages) /\ Leads(client', wire', b)
    BY <1>1 DEF ClientInv, Types, ServerStep
<1> QED
    BY <1>1, <1>2, Arrives

LEMMA SendsOne ==
  ASSUME ClientInv, ServerStep, NEW m \in Messages, ToRoom(<<m>>),
         \A b \in ClientRecord : Shows(b) => Shows(roomReducer(b, m))'
  PROVE  ClientInv'
<1>1. PICK b \in ClientRecord : Leads(client, wire, b) /\ (link = "joined" => Shows(b))
    BY DEF ClientInv, WillShow
<1>2. client \in ClientRecord /\ wire \in Seq(Messages) /\ client' = client
    BY DEF ClientInv, Types, ServerStep
<1>3. CASE link # "joined"
    BY <1>1, <1>2, <1>3, Arrives DEF ToRoom
<1>4. CASE link = "joined"
  <2>1. PICK d \in ClientRecord : d = roomReducer(b, m)
      BY ReducerTyped
  <2>2. wire' = wire \o <<m>>
      BY <1>4 DEF ToRoom, ToSocket
  <2>3. wire' \in Seq(Messages) /\ Leads(client', wire', d)
      BY <1>1, <1>2, <2>1, <2>2, LeadsOn
  <2>4. Shows(d)'
      BY <1>1, <1>4, <2>1
  <2> QED
      BY <1>4, <2>3, <2>4, Arrives
<1> QED
    BY <1>3, <1>4

LEMMA OneAndOne ==
  ASSUME NEW m \in Messages, NEW n \in Messages
  PROVE  <<m>> \o <<n>> = <<m, n>>
<1>1. PICK x : x = <<m>> \o <<n>>
    OBVIOUS
<1>2. PICK y : y = <<m, n>>
    OBVIOUS
<1>3. <<m>> \in Seq(Messages) /\ Len(<<m>>) = 1 /\ <<m>>[1] = m
    OBVIOUS
<1>4. <<n>> \in Seq(Messages) /\ Len(<<n>>) = 1 /\ <<n>>[1] = n
    OBVIOUS
<1>5. x \in Seq(Messages) /\ Len(x) = 2
    BY <1>1, <1>3, <1>4, ConcatProperties
<1>6. x[1] = m
    BY <1>1, <1>3, <1>4
<1>7. x[2] = n
    BY <1>1, <1>3, <1>4
<1>8. y \in Seq(Messages) /\ Len(y) = 2 /\ y[1] = m /\ y[2] = n
    BY <1>2
<1>9. x = y
    BY <1>5, <1>6, <1>7, <1>8, SeqEqual
<1> QED
    BY <1>1, <1>2, <1>9

LEMMA TwoMessages ==
  ASSUME NEW w \in Seq(Messages), NEW m \in Messages, NEW n \in Messages
  PROVE  w \o <<m, n>> = (w \o <<m>>) \o <<n>>
<1>1. <<m>> \in Seq(Messages) /\ <<n>> \in Seq(Messages)
    OBVIOUS
<1>2. (w \o <<m>>) \o <<n>> = w \o (<<m>> \o <<n>>)
    BY <1>1, ConcatAssociative
<1>3. <<m>> \o <<n>> = <<m, n>>
    BY OneAndOne
<1> QED
    BY <1>2, <1>3

LEMMA SendsTwo ==
  ASSUME ClientInv, ServerStep, NEW m \in Messages, NEW n \in Messages, ToRoom(<<m, n>>),
         \A b \in ClientRecord : Shows(b) => Shows(roomReducer(roomReducer(b, m), n))'
  PROVE  ClientInv'
<1>1. PICK b \in ClientRecord : Leads(client, wire, b) /\ (link = "joined" => Shows(b))
    BY DEF ClientInv, WillShow
<1>2. client \in ClientRecord /\ wire \in Seq(Messages) /\ client' = client
    BY DEF ClientInv, Types, ServerStep
<1>3. CASE link # "joined"
    BY <1>1, <1>2, <1>3, Arrives DEF ToRoom
<1>4. CASE link = "joined"
  <2>1. PICK d \in ClientRecord : d = roomReducer(b, m)
      BY ReducerTyped
  <2>2. PICK e \in ClientRecord : e = roomReducer(d, n)
      BY ReducerTyped
  <2>3. PICK v \in Seq(Messages) : v = wire \o <<m>> /\ Leads(client, v, d)
      BY <1>1, <1>2, <2>1, LeadsOn
  <2>4. v \o <<n>> \in Seq(Messages) /\ Leads(client, v \o <<n>>, e)
      BY <1>2, <2>2, <2>3, LeadsOn
  <2>5. wire' = v \o <<n>>
    <3>1. wire' = wire \o <<m, n>>
        BY <1>4 DEF ToRoom, ToSocket
    <3>2. wire \o <<m, n>> = (wire \o <<m>>) \o <<n>>
        BY <1>2, TwoMessages
    <3> QED
        BY <2>3, <3>1, <3>2
  <2>6. Shows(e)'
      BY <1>1, <1>4, <2>1, <2>2
  <2> QED
      BY <1>2, <1>4, <2>4, <2>5, <2>6, Arrives
<1> QED
    BY <1>3, <1>4

\* After ROOM_SYNC the browser shows what the room has.
LEMMA SyncShows ==
  ASSUME NEW r \in RoomRecord, r = room', peerOn' \in BOOLEAN
  PROVE  \E m \in SyncMessages : m = Sync(r) /\ \A b \in ClientRecord : Shows(roomReducer(b, m))'
<1>1. PICK m : m = Sync(r)
    OBVIOUS
<1>2. /\ m \in SyncMessages /\ m.hints = r.hints /\ m.customs = r.customs
      /\ m.pending = (r.pending # "no") /\ m.executing = r.executing /\ m.peer = peerOn'
    BY <1>1 DEF Sync, SyncMessages, RoomRecord
<1>3. r.hints \in Nat /\ r.customs \in Nat
    BY DEF RoomRecord
<1>4. ASSUME NEW b \in ClientRecord PROVE Shows(roomReducer(b, m))'
  <2>1. PICK s : s = roomReducer(b, m)
      OBVIOUS
  <2>2. /\ s.hints = r.hints /\ s.customs = r.customs /\ s.pending = (r.pending # "no")
        /\ s.executing = r.executing /\ s.peer = peerOn'
      BY <1>2, <2>1, SyncFacts
  <2>3. s.hints <= room'.hints /\ s.customs <= room'.customs
      BY <1>3, <2>2
  <2>4. (s.executing => room'.executing) /\ (s.pending => room'.pending # "no")
      BY <2>2
  <2>5. Shows(s)'
      BY <2>2, <2>3, <2>4 DEF Shows
  <2> QED
      BY <2>1, <2>5
<1> QED
    BY <1>1, <1>2, <1>4

LEMMA PlainMessageFacts ==
  ASSUME NEW type \in PlainTypes
  PROVE  \E m \in PlainMessages : m = Message(type) /\ m.type = type
<1>1. PICK m : m = [type |-> type]
    OBVIOUS
<1> QED
    BY <1>1 DEF PlainMessages, Message

LEMMA MessagesFacts ==
  PlainMessages \subseteq Messages /\ SyncMessages \subseteq Messages /\ LoadMessages \subseteq Messages
BY DEF Messages
-----------------------------------------------------------------------------
(* The connection of the browser.                                          *)

LEMMA ConnectionKeeps ==
  ASSUME ClientInv, Connect \/ Rebind \/ RejectJoin
  PROVE  ClientInv'
<1>1. /\ UNCHANGED <<room, peerOn, announce, hydrating, wire, client>>
      /\ link' \in {"down", "up", "joined"} /\ (link' = "joined" => link = "joined")
    BY DEF ClientInv, Types, Connect, Rebind, RejectJoin, peerVars
<1>2. link' # "joined" => wire = <<>> /\ hydrating = None
    BY <1>1 DEF ClientInv, QuietUntilJoined, Connect, Rebind, RejectJoin
<1>3. PICK b \in ClientRecord : Leads(client, wire, b) /\ (link = "joined" => Shows(b))
    BY DEF ClientInv, WillShow
<1>4. Leads(client', wire', b) /\ (link' = "joined" => Shows(b)')
    BY <1>1, <1>3 DEF Shows
<1>5. Types' /\ QuietUntilJoined'
    BY <1>1, <1>2 DEF ClientInv, Types, QuietUntilJoined
<1> QED
    BY <1>4, <1>5 DEF ClientInv, WillShow

LEMMA BreakKeeps == ClientInv /\ Break => ClientInv'
<1> SUFFICES ASSUME ClientInv, Break PROVE ClientInv'
    OBVIOUS
<1>1. /\ link' = "down" /\ hydrating' = None /\ wire' = <<>> /\ client' = client
      /\ UNCHANGED <<peerOn, announce>> /\ client \in ClientRecord /\ room \in RoomRecord
    BY DEF ClientInv, Types, Break, peerVars
<1>2. room' \in RoomRecord
    BY <1>1 DEF Break, RoomRecord
<1>3. Leads(client', wire', client)
    BY <1>1, LeadsNowhere
<1>4. Types' /\ QuietUntilJoined'
    BY <1>1, <1>2 DEF ClientInv, Types, QuietUntilJoined
<1> QED
    BY <1>1, <1>3, <1>4 DEF ClientInv, WillShow

LEMMA HandleJoinKeeps == ClientInv /\ HandleJoin => ClientInv'
<1> SUFFICES ASSUME ClientInv, HandleJoin PROVE ClientInv'
    OBVIOUS
<1>1. /\ link' = "joined" /\ hydrating' = room.problem /\ UNCHANGED <<room, peerOn, announce, client>>
      /\ client \in ClientRecord /\ room \in RoomRecord /\ wire \in Seq(Messages)
      /\ wire' = wire \o <<Sync(room)>> /\ peerOn' \in BOOLEAN
    BY DEF ClientInv, Types, HandleJoin, peerVars, ToSocket
<1>2. PICK m \in SyncMessages : m = Sync(room) /\ \A b \in ClientRecord : Shows(roomReducer(b, m))'
  <2>1. PICK r \in RoomRecord : r = room
      BY <1>1
  <2> QED
      BY <1>1, <2>1, SyncShows
<1>3. PICK b \in ClientRecord : Leads(client, wire, b)
    BY DEF ClientInv, WillShow
<1>4. m \in Messages
    BY MessagesFacts
<1>5. PICK d \in ClientRecord : d = roomReducer(b, m)
    BY <1>4, ReducerTyped
<1>6. wire' \in Seq(Messages) /\ Leads(client', wire', d)
    BY <1>1, <1>2, <1>3, <1>4, <1>5, LeadsOn
<1>7. Shows(d)'
    BY <1>2, <1>5
<1>8. Types' /\ QuietUntilJoined'
    BY <1>1, <1>6 DEF ClientInv, Types, QuietUntilJoined, RoomRecord
<1> QED
    BY <1>6, <1>7, <1>8 DEF ClientInv, WillShow

LEMMA HydrateKeeps == ClientInv /\ Hydrate => ClientInv'
<1> SUFFICES ASSUME ClientInv, Hydrate PROVE ClientInv'
    OBVIOUS
<1>1. /\ hydrating # None /\ hydrating' = None /\ UNCHANGED <<room, peerOn, announce, link, client>>
      /\ link = "joined" /\ hydrating \in Problems
      /\ client \in ClientRecord /\ room \in RoomRecord /\ wire \in Seq(Messages)
    BY DEF ClientInv, Types, QuietUntilJoined, Hydrate, peerVars
<1>2. PICK b \in ClientRecord : Leads(client, wire, b) /\ Shows(b)
    BY <1>1 DEF ClientInv, WillShow
<1>3. \A x : Shows(x) => Shows(x)'
    BY <1>1 DEF Shows
<1>4. ASSUME wire' = wire \/ wire' = wire \o <<[type |-> "PROBLEM_LOADED", problem |-> hydrating]>>
      PROVE  \E d \in ClientRecord : /\ wire' \in Seq(Messages) /\ Leads(client', wire', d)
                                     /\ Shows(d)'
  <2>1. CASE wire' = wire
      BY <1>1, <1>2, <1>3, <2>1
  <2>2. CASE wire' = wire \o <<[type |-> "PROBLEM_LOADED", problem |-> hydrating]>>
    <3>1. PICK m \in LoadMessages : m = [type |-> "PROBLEM_LOADED", problem |-> hydrating]
        BY <1>1 DEF LoadMessages
    <3>2. m \in Messages
        BY MessagesFacts
    <3>3. PICK d \in ClientRecord : d = roomReducer(b, m)
        BY <3>2, ReducerTyped
    <3>4. wire' \in Seq(Messages) /\ Leads(client', wire', d)
        BY <1>1, <1>2, <2>2, <3>1, <3>2, <3>3, LeadsOn
    <3>5. /\ d.hints = 0 /\ d.customs = 0 /\ d.pending = FALSE
          /\ d.executing = b.executing /\ d.peer = b.peer
        BY <3>3, LoadFacts
    <3>6. Shows(d)
        BY <1>1, <1>2, <3>5 DEF Shows, RoomRecord
    <3> QED
        BY <1>3, <3>4, <3>6
  <2> QED
      BY <1>4, <2>1, <2>2
<1>5. wire' = wire \/ wire' = wire \o <<[type |-> "PROBLEM_LOADED", problem |-> hydrating]>>
    BY DEF Hydrate, ToSocket
<1>6. PICK d \in ClientRecord : wire' \in Seq(Messages) /\ Leads(client', wire', d) /\ Shows(d)'
    BY <1>4, <1>5
<1>7. Types' /\ QuietUntilJoined'
    BY <1>1, <1>6 DEF ClientInv, Types, QuietUntilJoined
<1> QED
    BY <1>6, <1>7 DEF ClientInv, WillShow

LEMMA ReceiveKeeps == ClientInv /\ Receive => ClientInv'
<1> SUFFICES ASSUME ClientInv, Receive PROVE ClientInv'
    OBVIOUS
<1>1. /\ wire # <<>> /\ client' = roomReducer(client, Head(wire)) /\ wire' = Tail(wire)
      /\ UNCHANGED <<room, peerOn, announce, link, hydrating>> /\ link = "joined"
      /\ client \in ClientRecord /\ wire \in Seq(Messages)
    BY DEF ClientInv, Types, QuietUntilJoined, Receive, peerVars, linkVars
<1>2. PICK b \in ClientRecord : Leads(client, wire, b) /\ Shows(b)
    BY <1>1 DEF ClientInv, WillShow
<1>3. /\ Head(wire) \in Messages /\ Tail(wire) \in Seq(Messages)
      /\ Leads(roomReducer(client, Head(wire)), Tail(wire), b)
    BY <1>1, <1>2, LeadsFromNext
<1>4. roomReducer(client, Head(wire)) \in ClientRecord
    BY <1>1, <1>3, ReducerTyped
<1>5. Types' /\ QuietUntilJoined'
    BY <1>1, <1>3, <1>4 DEF ClientInv, Types, QuietUntilJoined
<1>6. Shows(b)'
    BY <1>1, <1>2 DEF Shows
<1>7. Leads(client', wire', b)
    BY <1>1, <1>3
<1> QED
    BY <1>5, <1>6, <1>7 DEF ClientInv, WillShow
-----------------------------------------------------------------------------
(* The handlers of the server.                                             *)

LEMMA SendsPlain ==
  ASSUME ClientInv, ServerStep, NEW type \in PlainTypes, ToRoom(<<Message(type)>>),
         \A b \in ClientRecord, m \in PlainMessages :
           m.type = type /\ Shows(b) => Shows(roomReducer(b, m))'
  PROVE  ClientInv'
<1>1. PICK m \in PlainMessages : m = Message(type) /\ m.type = type
    BY PlainMessageFacts
<1>2. m \in Messages /\ ToRoom(<<m>>)
    BY <1>1, MessagesFacts
<1>3. \A b \in ClientRecord : Shows(b) => Shows(roomReducer(b, m))'
    BY <1>1
<1> QED
    BY <1>2, <1>3, SendsOne

LEMMA SyncMessage ==
  ASSUME ServerStep
  PROVE  \E m \in Messages :
           /\ m = Sync(room') /\ \A b \in ClientRecord : Shows(roomReducer(b, m))'
<1>1. PICK r \in RoomRecord : r = room'
    BY DEF ServerStep
<1>2. PICK m \in SyncMessages : m = Sync(r) /\ \A b \in ClientRecord : Shows(roomReducer(b, m))'
    BY <1>1, SyncShows DEF ServerStep
<1>3. m \in Messages /\ m = Sync(room')
    BY <1>1, <1>2, MessagesFacts
<1> QED
    BY <1>2, <1>3

LEMMA SendsSync ==
  ASSUME ClientInv, ServerStep, ToRoom(<<Sync(room')>>)
  PROVE  ClientInv'
<1>1. PICK m \in Messages :
        m = Sync(room') /\ \A b \in ClientRecord : Shows(roomReducer(b, m))'
    BY SyncMessage
<1>2. ToRoom(<<m>>)
    BY <1>1
<1> QED
    BY <1>1, <1>2, SendsOne

LEMMA SendsSyncAndPlain ==
  ASSUME ClientInv, ServerStep, NEW type \in PlainTypes,
         ToRoom(<<Sync(room')>> \o <<Message(type)>>),
         \A b \in ClientRecord, m \in PlainMessages :
           m.type = type /\ Shows(b)' => Shows(roomReducer(b, m))'
  PROVE  ClientInv'
<1>1. PICK m \in Messages :
        m = Sync(room') /\ \A b \in ClientRecord : Shows(roomReducer(b, m))'
    BY SyncMessage
<1>2. PICK n \in PlainMessages : n = Message(type) /\ n.type = type
    BY PlainMessageFacts
<1>3. n \in Messages
    BY MessagesFacts
<1>4. ToRoom(<<m, n>>)
    BY <1>1, <1>2, <1>3, OneAndOne
<1>5. ASSUME NEW b \in ClientRecord PROVE Shows(roomReducer(roomReducer(b, m), n))'
  <2>1. PICK d \in ClientRecord : d = roomReducer(b, m)
      BY ReducerTyped
  <2>2. Shows(d)'
      BY <1>1, <2>1
  <2>3. Shows(roomReducer(d, n))'
      BY <1>2, <2>2
  <2> QED
      BY <2>1, <2>3
<1> QED
    BY <1>3, <1>4, <1>5, SendsTwo

LEMMA SendsPlainAndSync ==
  ASSUME ClientInv, ServerStep, NEW type \in PlainTypes,
         ToRoom(<<Message(type), Sync(room')>>)
  PROVE  ClientInv'
<1>1. PICK m \in Messages :
        m = Sync(room') /\ \A b \in ClientRecord : Shows(roomReducer(b, m))'
    BY SyncMessage
<1>2. PICK n \in PlainMessages : n = Message(type) /\ n.type = type
    BY PlainMessageFacts
<1>3. n \in Messages /\ ToRoom(<<n, m>>)
    BY <1>1, <1>2, MessagesFacts
<1>4. \A b \in ClientRecord : Shows(roomReducer(roomReducer(b, n), m))'
    BY <1>1, <1>3, ReducerTyped
<1> QED
    BY <1>3, <1>4, SendsTwo

\* Messages that only a browser's other state hangs on, and those that take back.
LEMMA HarmlessMessages ==
  ASSUME NEW b \in ClientRecord, NEW m \in PlainMessages,
         m.type \in {"USER_JOINED", "EXECUTION_RESULT", "EXECUTION_ERROR", "HINT_CHUNK",
                     "HINT_DENIED", "HINT_ERROR"}
  PROVE  /\ Shows(b) => Shows(roomReducer(b, m))
         /\ Shows(b)' => Shows(roomReducer(b, m))'
<1>1. PICK d : d = roomReducer(b, m)
    OBVIOUS
<1>2. /\ d.hints = b.hints /\ d.customs = b.customs
      /\ d.pending => b.pending
      /\ d.executing => b.executing
      /\ b.peer => d.peer
  <2>1. b.hints + 0 = b.hints /\ b.customs + 0 = b.customs
      BY DEF ClientRecord
  <2> QED
      BY <1>1, <2>1, PlainFacts
<1>3. (Shows(b) => Shows(d)) /\ (Shows(b)' => Shows(d)')
    BY <1>2 DEF Shows
<1> QED
    BY <1>1, <1>3

LEMMA PeerJoinsKeeps == ClientInv /\ PeerJoins => ClientInv'
<1> SUFFICES ASSUME ClientInv, PeerJoins PROVE ClientInv'
    OBVIOUS
<1>1. ServerStep /\ peerOn' = TRUE /\ UNCHANGED room
    BY DEF ClientInv, Types, PeerJoins, ServerStep, linkVars
<1>2. CASE room.problem = None
  <2>1. ToRoom(<<Message("USER_JOINED")>>)
      BY <1>2 DEF PeerJoins
  <2>2. ASSUME NEW b \in ClientRecord, NEW m \in PlainMessages, m.type = "USER_JOINED", Shows(b)
        PROVE  Shows(roomReducer(b, m))'
    <3>1. Shows(roomReducer(b, m))
        BY <2>2, HarmlessMessages
    <3>2. roomReducer(b, m).peer
        BY <2>2, PlainFacts
    <3> QED
        BY <1>1, <3>1, <3>2 DEF Shows
  <2> QED
      BY <1>1, <2>1, <2>2, SendsPlain DEF PlainTypes
<1>3. CASE room.problem # None
  <2>1. announce' = TRUE /\ wire' = wire
      BY <1>3 DEF PeerJoins
  <2> QED
      BY <1>1, <2>1, SendsNothing DEF Shows
<1> QED
    BY <1>2, <1>3

LEMMA PeerAnnouncedKeeps == ClientInv /\ PeerAnnounced => ClientInv'
<1> SUFFICES ASSUME ClientInv, PeerAnnounced PROVE ClientInv'
    OBVIOUS
<1>1. ServerStep /\ UNCHANGED room /\ ToRoom(<<Message("USER_JOINED")>>)
    BY DEF ClientInv, Types, PeerAnnounced, ServerStep, linkVars
<1>2. ASSUME NEW b \in ClientRecord, NEW m \in PlainMessages, m.type = "USER_JOINED", Shows(b)
      PROVE  Shows(roomReducer(b, m))'
  <2>1. Shows(roomReducer(b, m))
      BY <1>2, HarmlessMessages
  <2>2. roomReducer(b, m).peer
      BY <1>2, PlainFacts
  <2> QED
      BY <1>1, <2>1, <2>2 DEF Shows
<1> QED
    BY <1>1, <1>2, SendsPlain DEF PlainTypes

LEMMA PeerLeavesKeeps == ClientInv /\ PeerLeaves => ClientInv'
<1> SUFFICES ASSUME ClientInv, PeerLeaves PROVE ClientInv'
    OBVIOUS
<1>1. room' \in RoomRecord
    BY DEF ClientInv, Types, PeerLeaves, RoomRecord
<1>2. ServerStep /\ peerOn' = FALSE
    BY <1>1 DEF ClientInv, Types, PeerLeaves, ServerStep, linkVars
<1>3. CASE room.pending = "peer"
    BY <1>2, <1>3, SendsPlainAndSync DEF PeerLeaves, PlainTypes
<1>4. CASE room.pending # "peer"
  <2>1. room' = room /\ ToRoom(<<Message("USER_LEFT")>>)
      BY <1>4 DEF PeerLeaves
  <2>2. ASSUME NEW b \in ClientRecord, NEW m \in PlainMessages, m.type = "USER_LEFT", Shows(b)
        PROVE  Shows(roomReducer(b, m))'
    <3>1. PICK d : d = roomReducer(b, m)
        OBVIOUS
    <3>2. b.hints + 0 = b.hints /\ b.customs + 0 = b.customs
        BY DEF ClientRecord
    <3>3. /\ d.hints = b.hints /\ d.customs = b.customs
          /\ d.pending = b.pending /\ d.executing = b.executing
        BY <2>2, <3>1, <3>2, PlainFacts
    <3>4. Shows(d)'
        BY <1>2, <2>1, <2>2, <3>3 DEF Shows
    <3> QED
        BY <3>1, <3>4
  <2> QED
      BY <1>2, <2>1, <2>2, SendsPlain DEF PlainTypes
<1> QED
    BY <1>3, <1>4
LEMMA SwitchProblemKeeps ==
  ASSUME ClientInv, NEW p \in Problems, SwitchProblem(p)
  PROVE  ClientInv'
<1>1. PICK r \in RoomRecord : r = room
    BY DEF ClientInv, Types
<1>2. PICK q : q = [r EXCEPT !.problem = p, !.hints = 0, !.customs = 0, !.pending = "no"]
    OBVIOUS
<1>3. q \in RoomRecord
    BY <1>2 DEF RoomRecord
<1>4. q.hints = 0 /\ q.customs = 0
    BY <1>2 DEF RoomRecord
<1>5. q.executing = r.executing
    BY <1>2 DEF RoomRecord
<1>6. /\ room' = q /\ UNCHANGED <<peerOn, announce>>
      /\ ToRoom(<<[type |-> "PROBLEM_LOADED", problem |-> p]>>)
    BY <1>1, <1>2 DEF SwitchProblem, peerVars
<1>7. ServerStep
    BY <1>3, <1>6 DEF ClientInv, Types, SwitchProblem, ServerStep, linkVars, peerVars
<1>8. PICK m \in LoadMessages : m = [type |-> "PROBLEM_LOADED", problem |-> p]
    BY DEF LoadMessages
<1>9. m \in Messages /\ ToRoom(<<m>>)
    BY <1>6, <1>8, MessagesFacts
<1>10. ASSUME NEW b \in ClientRecord, Shows(b) PROVE Shows(roomReducer(b, m))'
  <2>1. PICK d : d = roomReducer(b, m)
      OBVIOUS
  <2>2. /\ d.hints = 0 /\ d.customs = 0 /\ d.pending = FALSE
        /\ d.executing = b.executing /\ d.peer = b.peer
      BY <2>1, LoadFacts
  <2>3. Shows(d)'
      BY <1>1, <1>4, <1>5, <1>6, <1>10, <2>2 DEF Shows
  <2> QED
      BY <2>1, <2>3
<1> QED
    BY <1>7, <1>9, <1>10, SendsOne

LEMMA AddTestCaseKeeps == ClientInv /\ AddTestCase => ClientInv'
<1> SUFFICES ASSUME ClientInv, AddTestCase PROVE ClientInv'
    OBVIOUS
<1>1. /\ room \in RoomRecord /\ room' = [room EXCEPT !.customs = room.customs + 1]
      /\ ToRoom(<<Message("TESTCASE_ADDED")>>)
    BY DEF ClientInv, Types, AddTestCase
<1>2. /\ room' \in RoomRecord /\ room'.customs = room.customs + 1 /\ room'.hints = room.hints
      /\ room'.executing = room.executing /\ room'.pending = room.pending
    BY <1>1 DEF RoomRecord
<1>3. ServerStep /\ UNCHANGED <<peerOn, announce>>
    BY <1>2 DEF ClientInv, Types, AddTestCase, ServerStep, linkVars, peerVars
<1>4. ASSUME NEW b \in ClientRecord, NEW m \in PlainMessages, m.type = "TESTCASE_ADDED", Shows(b)
      PROVE  Shows(roomReducer(b, m))'
  <2>1. PICK d : d = roomReducer(b, m)
      OBVIOUS
  <2>2. b.hints + 0 = b.hints /\ b.customs \in Nat /\ room.customs \in Nat
      BY <1>1 DEF ClientRecord, RoomRecord
  <2>3. /\ d.hints = b.hints /\ d.customs = b.customs + 1 /\ d.pending = b.pending
        /\ d.executing = b.executing /\ d.peer = b.peer
      BY <1>4, <2>1, <2>2, PlainFacts
  <2>4. d.customs <= room'.customs
      BY <1>2, <1>4, <2>2, <2>3 DEF Shows
  <2>5. Shows(d)'
      BY <1>2, <1>3, <1>4, <2>3, <2>4 DEF Shows
  <2> QED
      BY <2>1, <2>5
<1> QED
    BY <1>1, <1>3, <1>4, SendsPlain DEF PlainTypes

LEMMA ExecutionStartsKeeps == ClientInv /\ ExecutionStarts => ClientInv'
<1> SUFFICES ASSUME ClientInv, ExecutionStarts PROVE ClientInv'
    OBVIOUS
<1>1. /\ room \in RoomRecord /\ room' = [room EXCEPT !.executing = TRUE]
      /\ ToRoom(<<Message("EXECUTION_STARTED")>>)
    BY DEF ClientInv, Types, ExecutionStarts
<1>2. /\ room' \in RoomRecord /\ room'.executing /\ room'.hints = room.hints
      /\ room'.customs = room.customs /\ room'.pending = room.pending
    BY <1>1 DEF RoomRecord
<1>3. ServerStep /\ UNCHANGED <<peerOn, announce>>
    BY <1>2 DEF ClientInv, Types, ExecutionStarts, ServerStep, linkVars, peerVars
<1>4. ASSUME NEW b \in ClientRecord, NEW m \in PlainMessages, m.type = "EXECUTION_STARTED", Shows(b)
      PROVE  Shows(roomReducer(b, m))'
  <2>1. PICK d : d = roomReducer(b, m)
      OBVIOUS
  <2>2. b.hints + 0 = b.hints /\ b.customs + 0 = b.customs
      BY DEF ClientRecord
  <2>3. /\ d.hints = b.hints /\ d.customs = b.customs /\ d.pending = b.pending
        /\ d.peer = b.peer
      BY <1>4, <2>1, <2>2, PlainFacts
  <2>4. Shows(d)'
      BY <1>2, <1>3, <1>4, <2>3 DEF Shows
  <2> QED
      BY <2>1, <2>4
<1> QED
    BY <1>1, <1>3, <1>4, SendsPlain DEF PlainTypes

LEMMA ExecutionEndsKeeps == ClientInv /\ ExecutionEnds => ClientInv'
<1> SUFFICES ASSUME ClientInv, ExecutionEnds PROVE ClientInv'
    OBVIOUS
<1>1. PICK t \in {"EXECUTION_RESULT", "EXECUTION_ERROR"} : ToRoom(<<Message(t)>>)
    BY DEF ExecutionEnds
<1>2. /\ room' \in RoomRecord /\ room'.hints = room.hints /\ room'.customs = room.customs
      /\ room'.pending = room.pending
    BY DEF ClientInv, Types, ExecutionEnds, RoomRecord
<1>3. ServerStep /\ UNCHANGED <<peerOn, announce>>
    BY <1>2 DEF ClientInv, Types, ExecutionEnds, ServerStep, linkVars, peerVars
<1>4. ASSUME NEW b \in ClientRecord, NEW m \in PlainMessages, m.type = t, Shows(b)
      PROVE  Shows(roomReducer(b, m))'
  <2>1. Shows(roomReducer(b, m))
      BY <1>4, HarmlessMessages
  <2>2. roomReducer(b, m).executing = FALSE
      BY <1>4, PlainFacts
  <2> QED
      BY <1>2, <1>3, <2>1, <2>2 DEF Shows
<1> QED
    BY <1>1, <1>3, <1>4, SendsPlain DEF PlainTypes

\* A step that changes nothing in the room, and sends at most a harmless message.
LEMMA HarmlessKeeps ==
  ASSUME ClientInv, UNCHANGED <<room, peerOn, announce, link, hydrating, client>>,
         NEW type \in {"EXECUTION_ERROR", "HINT_CHUNK", "HINT_ERROR"},
         wire' = wire \/ ToRoom(<<Message(type)>>)
  PROVE  ClientInv'
<1>1. ServerStep
    BY DEF ClientInv, Types, ServerStep
<1>2. \A b : Shows(b) => Shows(b)'
    BY DEF Shows
<1>3. \A b \in ClientRecord, m \in PlainMessages :
        m.type = type /\ Shows(b) => Shows(roomReducer(b, m))'
    BY <1>2, HarmlessMessages
<1> QED
    BY <1>1, <1>2, <1>3, SendsNothing, SendsPlain DEF PlainTypes

LEMMA HarmlessStepsKeep ==
  ClientInv /\ (ExecutionRejected \/ HintRequestRejected \/ HintChunk \/ HintFails) => ClientInv'
<1> SUFFICES ASSUME ClientInv, ExecutionRejected \/ HintRequestRejected \/ HintChunk \/ HintFails
             PROVE  ClientInv'
    OBVIOUS
<1>1. UNCHANGED <<room, peerOn, announce, link, hydrating, client>>
    BY DEF ExecutionRejected, HintRequestRejected, HintChunk, HintFails, linkVars, peerVars
<1>2. CASE ExecutionRejected
  <2>1. ToRoom(<<Message("EXECUTION_ERROR")>>)
      BY <1>2 DEF ExecutionRejected, ToRoom
  <2> QED
      BY <1>1, <2>1, HarmlessKeeps
<1>3. CASE HintChunk
    BY <1>1, <1>3, HarmlessKeeps DEF HintChunk
<1>4. CASE HintFails
  <2>1. wire' = wire \/ ToRoom(<<Message("HINT_ERROR")>>)
      BY <1>4 DEF HintFails, ToUser
  <2> QED
      BY <1>1, <2>1, HarmlessKeeps
<1>5. CASE HintRequestRejected
  <2>1. ToRoom(<<Message("HINT_ERROR")>>)
      BY <1>5 DEF HintRequestRejected, ToRoom
  <2> QED
      BY <1>1, <2>1, HarmlessKeeps
<1> QED
    BY <1>2, <1>3, <1>4, <1>5

LEMMA RequestHintKeeps ==
  ASSUME ClientInv, NEW user \in Users, RequestHint(user)
  PROVE  ClientInv'
<1>1. UNCHANGED <<peerOn, announce, link, hydrating, client>> /\ room \in RoomRecord
    BY DEF ClientInv, Types, RequestHint, linkVars, peerVars
<1>2. CASE ~(\A u \in Users : Here(u))
  <2>1. room' = room /\ wire' = wire
      BY <1>2 DEF RequestHint
  <2>2. ServerStep
      BY <1>1, <2>1 DEF ClientInv, Types, ServerStep
  <2> QED
      BY <1>1, <2>1, <2>2, SendsNothing DEF Shows
<1>3. CASE \A u \in Users : Here(u)
  <2>1. /\ room' = [room EXCEPT !.pending = user]
        /\ ToRoom(<<Sync(room')>> \o IF user = "peer" THEN <<Message("HINT_PENDING")>> ELSE <<>>)
      BY <1>3 DEF RequestHint
  <2>2. room' \in RoomRecord /\ room'.pending = user /\ user # "no"
      BY <1>1, <2>1 DEF RoomRecord, Users
  <2>3. ServerStep
      BY <1>1, <2>2 DEF ClientInv, Types, ServerStep
  <2>4. CASE user = "peer"
    <3>1. ToRoom(<<Sync(room')>> \o <<Message("HINT_PENDING")>>)
        BY <2>1, <2>4
    <3>2. ASSUME NEW b \in ClientRecord, NEW m \in PlainMessages, m.type = "HINT_PENDING", Shows(b)'
          PROVE  Shows(roomReducer(b, m))'
      <4>1. PICK d : d = roomReducer(b, m)
          OBVIOUS
      <4>2. b.hints + 0 = b.hints /\ b.customs + 0 = b.customs
          BY DEF ClientRecord
      <4>3. /\ d.hints = b.hints /\ d.customs = b.customs /\ d.executing = b.executing
            /\ d.peer = b.peer
          BY <3>2, <4>1, <4>2, PlainFacts
      <4>4. Shows(d)'
          BY <2>2, <3>2, <4>3 DEF Shows
      <4> QED
          BY <4>1, <4>4
    <3> QED
        BY <2>3, <3>1, <3>2, SendsSyncAndPlain DEF PlainTypes
  <2>5. CASE user # "peer"
    <3>1. ToRoom(<<Sync(room')>>)
        BY <2>1, <2>5
    <3> QED
        BY <2>3, <3>1, SendsSync
  <2> QED
      BY <2>4, <2>5
<1> QED
    BY <1>2, <1>3

LEMMA ApproveHintKeeps ==
  ASSUME ClientInv, NEW user \in Users, ApproveHint(user)
  PROVE  ClientInv'
<1>1. room' \in RoomRecord /\ ToRoom(<<Sync(room')>>)
    BY DEF ClientInv, Types, ApproveHint, RoomRecord
<1>2. ServerStep
    BY <1>1 DEF ClientInv, Types, ApproveHint, ServerStep, linkVars, peerVars
<1> QED
    BY <1>1, <1>2, SendsSync

LEMMA DenyHintKeeps == ClientInv /\ DenyHint => ClientInv'
<1> SUFFICES ASSUME ClientInv, DenyHint PROVE ClientInv'
    OBVIOUS
<1>1. room' \in RoomRecord
    BY DEF ClientInv, Types, DenyHint, RoomRecord
<1>2. ServerStep
    BY <1>1 DEF ClientInv, Types, DenyHint, ServerStep, linkVars, peerVars
<1>3. CASE room.pending = "me"
  <2>1. ToRoom(<<Sync(room')>> \o <<Message("HINT_DENIED")>>)
      BY <1>3 DEF DenyHint
  <2>2. \A b \in ClientRecord, m \in PlainMessages :
          m.type = "HINT_DENIED" /\ Shows(b)' => Shows(roomReducer(b, m))'
      BY HarmlessMessages
  <2> QED
      BY <1>2, <2>1, <2>2, SendsSyncAndPlain DEF PlainTypes
<1>4. CASE room.pending # "me"
  <2>1. ToRoom(<<Sync(room')>>)
      BY <1>4 DEF DenyHint
  <2> QED
      BY <1>2, <2>1, SendsSync
<1> QED
    BY <1>3, <1>4

LEMMA HintDoneKeeps == ClientInv /\ HintDone => ClientInv'
<1> SUFFICES ASSUME ClientInv, HintDone PROVE ClientInv'
    OBVIOUS
<1>1. /\ room \in RoomRecord /\ room' = [room EXCEPT !.hints = room.hints + 1]
      /\ ToRoom(<<Message("HINT_DONE")>>)
    BY DEF ClientInv, Types, HintDone
<1>2. /\ room' \in RoomRecord /\ room'.hints = room.hints + 1 /\ room'.customs = room.customs
      /\ room'.executing = room.executing /\ room'.pending = room.pending
    BY <1>1 DEF RoomRecord
<1>3. ServerStep /\ UNCHANGED <<peerOn, announce>>
    BY <1>2 DEF ClientInv, Types, HintDone, ServerStep, linkVars, peerVars
<1>4. ASSUME NEW b \in ClientRecord, NEW m \in PlainMessages, m.type = "HINT_DONE", Shows(b)
      PROVE  Shows(roomReducer(b, m))'
  <2>1. PICK d : d = roomReducer(b, m)
      OBVIOUS
  <2>2. b.customs + 0 = b.customs /\ b.hints \in Nat /\ room.hints \in Nat
      BY <1>1 DEF ClientRecord, RoomRecord
  <2>3. /\ d.hints = b.hints + 1 /\ d.customs = b.customs /\ d.pending = FALSE
        /\ d.executing = b.executing /\ d.peer = b.peer
      BY ZenonT(30), <1>4, <2>1, <2>2, PlainFacts
  <2>4. d.hints <= room'.hints
      BY <1>2, <1>4, <2>2, <2>3 DEF Shows
  <2>5. Shows(d)'
      BY <1>2, <1>3, <1>4, <2>3, <2>4 DEF Shows
  <2> QED
      BY <2>1, <2>5
<1> QED
    BY <1>1, <1>3, <1>4, SendsPlain DEF PlainTypes

-----------------------------------------------------------------------------
(* The invariant.                                                          *)

LEMMA ClientInit == Init => ClientInv
<1> SUFFICES ASSUME Init PROVE ClientInv
    OBVIOUS
<1>1. client \in ClientRecord
    BY DEF Init, initialRoomState, ClientRecord
<1>2. Types
  <2>1. room \in RoomRecord
      BY DEF Init, RoomRecord
  <2>2. wire \in Seq(Messages)
      BY DEF Init
  <2> QED
      BY <1>1, <2>1, <2>2 DEF Init, Types
<1>3. Leads(client, wire, client)
    BY <1>1, LeadsNowhere DEF Init
<1>4. link = "down" /\ QuietUntilJoined
    BY DEF Init, QuietUntilJoined
<1> QED
    BY <1>1, <1>2, <1>3, <1>4 DEF ClientInv, WillShow

LEMMA ClientStutters == ClientInv /\ UNCHANGED vars => ClientInv'
<1> SUFFICES ASSUME ClientInv, UNCHANGED vars PROVE ClientInv'
    OBVIOUS
<1>1. UNCHANGED <<room, peerOn, announce, link, hydrating, wire, client>>
    BY DEF vars
<1>2. ServerStep
    BY <1>1 DEF ClientInv, Types, ServerStep
<1> QED
    BY <1>1, <1>2, SendsNothing DEF Shows

LEMMA ClientNext == ClientInv /\ [Next]_vars => ClientInv'
<1> SUFFICES ASSUME ClientInv, [Next]_vars PROVE ClientInv'
    OBVIOUS
<1>1. CASE Connect \/ Rebind \/ RejectJoin \/ Break \/ HandleJoin \/ Hydrate \/ Receive
    BY <1>1, ConnectionKeeps, BreakKeeps, HandleJoinKeeps, HydrateKeeps, ReceiveKeeps
<1>2. CASE PeerJoins \/ PeerAnnounced \/ PeerLeaves
    BY <1>2, PeerJoinsKeeps, PeerAnnouncedKeeps, PeerLeavesKeeps
<1>3. CASE \E p \in Problems : SwitchProblem(p)
    BY <1>3, SwitchProblemKeeps
<1>4. CASE AddTestCase \/ ExecutionStarts \/ ExecutionEnds
    BY <1>4, AddTestCaseKeeps, ExecutionStartsKeeps, ExecutionEndsKeeps
<1>5. CASE ExecutionRejected \/ HintRequestRejected \/ HintChunk \/ HintFails
    BY <1>5, HarmlessStepsKeep
<1>6. CASE \E u \in Users : RequestHint(u) \/ ApproveHint(u)
    BY <1>6, RequestHintKeeps, ApproveHintKeeps
<1>7. CASE DenyHint \/ HintDone
    BY <1>7, DenyHintKeeps, HintDoneKeeps
<1> QED
    BY <1>1, <1>2, <1>3, <1>4, <1>5, <1>6, <1>7, ClientStutters DEF Next

\* Every reachable state of a browser and its room satisfies the invariant.
THEOREM ClientInvariant == Spec => []ClientInv
<1>1. Init => ClientInv
    BY ClientInit
<1>2. ClientInv /\ [Next]_vars => ClientInv'
    BY ClientNext
<1> QED
    BY <1>1, <1>2, PTL DEF Spec

\* What a browser that has handled everything shows.
LEMMA SettledShows == ClientInv /\ Settled => Shows(client)
<1> SUFFICES ASSUME ClientInv, Settled PROVE Shows(client)
    OBVIOUS
<1>1. link = "joined" /\ wire = <<>> /\ client \in ClientRecord
    BY DEF Settled, ClientInv, Types
<1>2. PICK b \in ClientRecord : Leads(client, <<>>, b) /\ Shows(b)
    BY <1>1 DEF ClientInv, WillShow
<1>3. b = client
    BY <1>1, <1>2, LeadsNowhere
<1> QED
    BY <1>2, <1>3

\* However connections break and whatever EXECUTION_RESULT is lost with them, a
\* browser that has handled all messages has its buttons back when the room is idle.
THEOREM NotStuckExecutingAlways == Spec => []NotStuckExecuting
<1>1. ClientInv => NotStuckExecuting
    BY SettledShows DEF NotStuckExecuting, Shows
<1> QED
    BY <1>1, ClientInvariant, PTL

\* No duplicate delivery, reconnection or switch of the problem makes roomReducer
\* show a hint, a custom test case or a hint request that the room does not have.
THEOREM NothingInventedAlways == Spec => []NothingInvented
<1>1. ClientInv => NothingInvented
    BY SettledShows DEF NothingInvented, Shows
<1> QED
    BY <1>1, ClientInvariant, PTL

\* ROOM_SYNC and USER_JOINED together leave out no peer whose join is complete,
\* whichever of the two joined first and however often either reconnects.
THEOREM PeerShownAlways == Spec => []PeerShown
<1>1. ClientInv => PeerShown
    BY SettledShows DEF PeerShown, Shows
<1> QED
    BY <1>1, ClientInvariant, PTL
=============================================================================
