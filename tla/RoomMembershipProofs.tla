------------------------ MODULE RoomMembershipProofs ------------------------
(***************************************************************************)
(* Proofs about RoomMembership, for any number of sockets, handlers in     *)
(* flight, slots and users.                                                *)
(***************************************************************************)
EXTENDS RoomMembership, FiniteSetTheorems, WellFoundedInduction, TLAPS

-----------------------------------------------------------------------------
(* Facts about the operators of the model.                                 *)

LEMMA IdleTaskType == IdleTask \in TaskRecord /\ IdleTask.pc = "idle"
BY ConstantsAssumption DEF ConstantsAssumption, IdleTask, TaskRecord, NoClaim, Claims

\* The first match in users exists whenever there is a match.
LEMMA FirstInSet ==
  ASSUME NEW S \in SUBSET Ids, S # {}
  PROVE  First(S) \in S
<1>1. S \subseteq Nat
    BY ConstantsAssumption DEF ConstantsAssumption, Ids
<1>2. \E u \in S : \A v \in S : <<v, u>> \notin OpToRel(<, Nat)
    BY <1>1, NatLessThanWellFounded, WFMin, Zenon
<1>3. PICK u \in S : \A v \in S : <<v, u>> \notin OpToRel(<, Nat)
    BY <1>2
<1>4. \A v \in S : u <= v
  <2> SUFFICES ASSUME NEW v \in S PROVE u <= v
      OBVIOUS
  <2>1. u \in Nat /\ v \in Nat
      BY <1>1
  <2>2. ~(v < u)
      BY <2>1, <1>3 DEF OpToRel
  <2> QED
      BY <2>1, <2>2
<1> QED
    BY <1>4 DEF First

LEMMA FirstOwned ==
  ASSUME RoomTypeOK, NEW s \in Sockets, OwnedBy(s) # {}
  PROVE  /\ First(OwnedBy(s)) \in Ids
         /\ First(OwnedBy(s)) \in users
         /\ socketId[First(OwnedBy(s))] = s
<1>1. OwnedBy(s) \in SUBSET Ids
    BY DEF RoomTypeOK, OwnedBy
<1>2. First(OwnedBy(s)) \in OwnedBy(s)
    BY <1>1, FirstInSet
<1> QED
    BY <1>1, <1>2 DEF OwnedBy

LEMMA ClaimedType ==
  ASSUME RoomTypeOK, NEW claim, NEW u \in FindByReconnectToken(claim)
  PROVE  u \in Ids /\ u \in users /\ socketId[u] = NoSocket
BY DEF RoomTypeOK, FindByReconnectToken

LEMMA DetermineRoleType == DetermineRole \in Roles
BY DEF DetermineRole, Roles

LEMMA ConnectedType == RoomTypeOK => Connected \in SUBSET Ids
BY DEF RoomTypeOK, Connected

LEMMA EmitType ==
  ASSUME RoomTypeOK, ClientTypeOK, NEW s \in Sockets, NEW u \in Ids,
         NEW C \in SUBSET Ids, NEW announce, EmitJoinedPayload(s, u, C, announce)
  PROVE  /\ joined' \in SUBSET Sockets
         /\ view' \in [Sockets -> SUBSET Ids]
         /\ yjsKnown' \in [Ids -> Nat]
<1>1. joined' \in SUBSET Sockets
    BY DEF ClientTypeOK, EmitJoinedPayload
<1>2. yjsKnown' \in [Ids -> Nat]
    BY DEF ClientTypeOK, RoomTypeOK, EmitJoinedPayload
<1>3. view' \in [Sockets -> SUBSET Ids]
    BY DEF ClientTypeOK, EmitJoinedPayload
<1> QED
    BY <1>1, <1>2, <1>3

LEMMA HandleDisconnectType ==
  ASSUME RoomTypeOK, ClientTypeOK, NEW s \in Sockets, HandleDisconnect(s)
  PROVE  /\ socketId' \in [Ids -> Sockets \cup {NoSocket}]
         /\ gracePeriodTimers' \in SUBSET Ids
         /\ link' \in [Sockets -> {"new", "open", "closed"}]
         /\ joined' \in SUBSET Sockets
         /\ view' \in [Sockets -> SUBSET Ids]
<1>1. link' \in [Sockets -> {"new", "open", "closed"}] /\ joined' \in SUBSET Sockets
    BY DEF ClientTypeOK, HandleDisconnect
<1>2. CASE registered /\ OwnedBy(s) # {}
  <2> DEFINE u == First(OwnedBy(s))
  <2>1. u \in Ids
      BY <1>2, FirstOwned
  <2>2. /\ socketId' = [socketId EXCEPT ![u] = NoSocket]
        /\ gracePeriodTimers' = gracePeriodTimers \cup {u}
        /\ view' = [c \in Sockets |-> IF c = s THEN {}
                                      ELSE IF c \in joined THEN view[c] \ {u}
                                      ELSE view[c]]
      BY <1>2 DEF HandleDisconnect, StartGracePeriod
  <2> HIDE DEF u
  <2> QED
      BY <1>1, <2>1, <2>2 DEF RoomTypeOK, ClientTypeOK
<1>3. CASE ~(registered /\ OwnedBy(s) # {})
    BY <1>1, <1>3 DEF HandleDisconnect, RoomTypeOK, ClientTypeOK
<1> QED
    BY <1>2, <1>3

LEMMA FinishType ==
  ASSUME TypeOK, NEW t \in Tasks, Finish(t)
  PROVE  /\ task' \in [Tasks -> TaskRecord]
         /\ \A r \in Tasks : task'[r] = IF r = t THEN IdleTask ELSE task[r]
BY IdleTaskType DEF TypeOK, Finish

-----------------------------------------------------------------------------
(* The type invariant.                                                     *)

LEMMA TypeInit == Init => TypeOK
<1> SUFFICES ASSUME Init PROVE TypeOK
    OBVIOUS
<1>1. RoomTypeOK
  <2>1. registered \in BOOLEAN /\ problemSelected \in BOOLEAN /\ idle \in BOOLEAN
      BY DEF Init
  <2>2. users \in SUBSET Ids /\ gracePeriodTimers \in SUBSET Ids
      BY DEF Init
  <2>3. socketId \in [Ids -> Sockets \cup {NoSocket}] /\ role \in [Ids -> Roles]
      BY DEF Init, Roles
  <2>4. serial \in [Ids -> 0..MaxSerial]
      BY ConstantsAssumption DEF ConstantsAssumption, Init
  <2>5. yjsToken \in Nat /\ nextId \in 1..(MaxIds + 1)
      BY ConstantsAssumption DEF ConstantsAssumption, Init
  <2> QED
      BY <2>1, <2>2, <2>3, <2>4, <2>5 DEF RoomTypeOK
<1>2. ClientTypeOK
    BY DEF Init, ClientTypeOK
<1>3. /\ task \in [Tasks -> TaskRecord]
      /\ \A t \in Tasks : task[t].pc = "idle"
    BY IdleTaskType DEF Init
<1> QED
    BY <1>1, <1>2, <1>3 DEF TypeOK

\* A handler that awaits its hydration, or is finished, is well typed.
LEMMA AwaitHydrationType ==
  ASSUME TypeOK, NEW t \in Tasks, NEW u \in Ids, task[t].pc = "limiter",
         AwaitHydration(t, u, "hydrate")
  PROVE  /\ task' \in [Tasks -> TaskRecord]
         /\ \A r \in Tasks : task'[r].pc # "idle" => task'[r].sock \in Sockets
         /\ \A r \in Tasks : task'[r].pc \in {"hydrate", "rehydrate"}
                               => task'[r].user \in Ids
<1>1. CASE problemSelected
  <2>1. task' = [task EXCEPT ![t] = [@ EXCEPT !.pc = "hydrate", !.user = u]]
      BY <1>1 DEF AwaitHydration, TypeOK, TaskRecord
  <2>2. u \in 0..MaxIds
      BY ConstantsAssumption DEF ConstantsAssumption, Ids
  <2> QED
      BY <2>1, <2>2 DEF TypeOK, TaskRecord
<1>2. CASE ~problemSelected
  <2>1. Finish(t)
      BY <1>2 DEF AwaitHydration
  <2> QED
      BY <2>1, FinishType, IdleTaskType DEF TypeOK
<1> QED
    BY <1>1, <1>2

LEMMA TypeNext == TypeOK /\ [Next]_vars => TypeOK'
<1> SUFFICES ASSUME TypeOK, [Next]_vars PROVE TypeOK'
    OBVIOUS
<1> DEFINE TaskTypeOK ==
      /\ task \in [Tasks -> TaskRecord]
      /\ \A t \in Tasks : task[t].pc # "idle" => task[t].sock \in Sockets
      /\ \A t \in Tasks : task[t].pc \in {"hydrate", "rehydrate"} => task[t].user \in Ids
<1>a. RoomTypeOK /\ ClientTypeOK /\ TaskTypeOK
    BY DEF TypeOK
<1>b. SUFFICES RoomTypeOK' /\ ClientTypeOK' /\ TaskTypeOK'
    BY DEF TypeOK
<1>c. ASSUME NEW t \in Tasks, Finish(t) PROVE TaskTypeOK'
    BY <1>a, <1>c, FinishType, IdleTaskType
<1>1. ASSUME NEW s \in Sockets, Connect(s)
      PROVE  RoomTypeOK' /\ ClientTypeOK' /\ TaskTypeOK'
    BY <1>1, <1>a DEF Connect, RoomTypeOK, ClientTypeOK, roomVars
<1>2. ASSUME NEW s \in Sockets, Disconnect(s)
      PROVE  RoomTypeOK' /\ ClientTypeOK' /\ TaskTypeOK'
    BY <1>2, <1>a, HandleDisconnectType DEF Disconnect, RoomTypeOK, ClientTypeOK
<1>3. ASSUME NEW t \in Tasks, NEW s \in Sockets, NEW claim \in Claims,
             UserJoin(t, s, claim)
      PROVE  RoomTypeOK' /\ ClientTypeOK' /\ TaskTypeOK'
  <2>1. [pc |-> "limiter", sock |-> s, claim |-> claim, user |-> 0] \in TaskRecord
      BY ConstantsAssumption DEF ConstantsAssumption, TaskRecord
  <2>2. TaskTypeOK'
      BY <1>3, <1>a, <2>1 DEF UserJoin
  <2> QED
      BY <1>3, <1>a, <2>2 DEF UserJoin, RoomTypeOK, ClientTypeOK, roomVars, clientVars
<1>4. ASSUME NEW t \in Tasks, NEW s \in Sockets, UserJoinAgain(t, s)
      PROVE  RoomTypeOK' /\ ClientTypeOK' /\ TaskTypeOK'
  <2> DEFINE u == First(OwnedBy(s))
  <2>1. u \in Ids
      BY <1>4, <1>a, FirstOwned DEF UserJoinAgain
  <2>2. ClientTypeOK'
      BY <1>4, <1>a, <2>1, ConnectedType, EmitType DEF UserJoinAgain, ClientTypeOK
  <2>3. [pc |-> "rehydrate", sock |-> s, claim |-> NoClaim, user |-> u] \in TaskRecord
      BY <2>1, ConstantsAssumption DEF ConstantsAssumption, TaskRecord, NoClaim,
                                       Claims, Ids
  <2>4. \/ task' = [task EXCEPT ![t] = [pc |-> "rehydrate", sock |-> s,
                                        claim |-> NoClaim, user |-> u]]
        \/ task' = task
      BY <1>4 DEF UserJoinAgain
  <2> HIDE DEF u
  <2>5. TaskTypeOK'
      BY <1>a, <2>1, <2>3, <2>4
  <2> QED
      BY <1>4, <1>a, <2>2, <2>5 DEF UserJoinAgain, RoomTypeOK, roomVars
<1>5. ASSUME NEW t \in Tasks, JoinRateLimited(t)
      PROVE  RoomTypeOK' /\ ClientTypeOK' /\ TaskTypeOK'
    BY <1>5, <1>a, <1>c DEF JoinRateLimited, RoomTypeOK, ClientTypeOK, roomVars, clientVars
<1>6. ASSUME NEW t \in Tasks, JoinReconnects(t)
      PROVE  RoomTypeOK' /\ ClientTypeOK' /\ TaskTypeOK'
  <2> DEFINE s == task[t].sock
  <2>1. s \in Sockets
      BY <1>6, <1>a DEF JoinReconnects
  <2>2. PICK u \in FindByReconnectToken(task[t].claim) :
          /\ serial[u] < MaxSerial
          /\ socketId' = [socketId EXCEPT ![u] = s]
          /\ serial' = [serial EXCEPT ![u] = @ + 1]
          /\ gracePeriodTimers' = gracePeriodTimers \ {u}
          /\ idle' = FALSE
          /\ EmitJoinedPayload(s, u, Connected \cup {u}, ~problemSelected)
          /\ AwaitHydration(t, u, "hydrate")
      BY <1>6 DEF JoinReconnects, CancelGracePeriod
  <2>3. u \in Ids
      BY <1>a, ClaimedType
  <2>4. TaskTypeOK'
      BY <1>6, <2>2, <2>3, AwaitHydrationType DEF JoinReconnects
  <2>5. ClientTypeOK'
      BY <1>6, <1>a, <2>1, <2>2, <2>3, ConnectedType, EmitType
      DEF JoinReconnects, ClientTypeOK
  <2>6. serial' \in [Ids -> 0..MaxSerial]
      BY <1>a, <2>2, <2>3, ConstantsAssumption DEF ConstantsAssumption, RoomTypeOK
  <2>7. RoomTypeOK'
      BY <1>6, <1>a, <2>1, <2>2, <2>3, <2>6 DEF JoinReconnects, RoomTypeOK
  <2> QED
      BY <2>4, <2>5, <2>7
<1>7. ASSUME NEW t \in Tasks, JoinRoomFull(t)
      PROVE  RoomTypeOK' /\ ClientTypeOK' /\ TaskTypeOK'
  <2> DEFINE s == task[t].sock
  <2>1. s \in Sockets
      BY <1>7, <1>a DEF JoinRoomFull
  <2>2. TaskTypeOK'
      BY <1>7, <1>c DEF JoinRoomFull
  <2>3. CASE HandleDisconnect(s)
      BY <1>7, <1>a, <2>1, <2>2, <2>3, HandleDisconnectType
      DEF JoinRoomFull, RoomTypeOK, ClientTypeOK
  <2>4. CASE UNCHANGED <<socketId, gracePeriodTimers, link, joined, view>>
      BY <1>7, <1>a, <2>2, <2>4 DEF JoinRoomFull, RoomTypeOK, ClientTypeOK
  <2> QED
      BY <1>7, <2>3, <2>4 DEF JoinRoomFull
<1>8. ASSUME NEW t \in Tasks, JoinAdds(t)
      PROVE  RoomTypeOK' /\ ClientTypeOK' /\ TaskTypeOK'
  <2> DEFINE s == task[t].sock
  <2>1. s \in Sockets
      BY <1>8, <1>a DEF JoinAdds
  <2>2. nextId \in Ids
      BY <1>8, <1>a, ConstantsAssumption DEF ConstantsAssumption, JoinAdds, RoomTypeOK, Ids
  <2>3. TaskTypeOK'
      BY <1>8, <2>2, AwaitHydrationType DEF JoinAdds
  <2>4. ClientTypeOK'
      BY <1>8, <1>a, <2>1, <2>2, ConnectedType, EmitType DEF JoinAdds, ClientTypeOK
  <2>5. nextId' \in 1..(MaxIds + 1) /\ serial' \in [Ids -> 0..MaxSerial]
      BY <1>8, <1>a, <2>2, ConstantsAssumption
      DEF ConstantsAssumption, JoinAdds, RoomTypeOK, Ids
  <2>6. RoomTypeOK'
      BY <1>8, <1>a, <2>1, <2>2, <2>5, DetermineRoleType DEF JoinAdds, RoomTypeOK
  <2> QED
      BY <2>3, <2>4, <2>6
<1>9. ASSUME NEW t \in Tasks, HydrationDone(t)
      PROVE  RoomTypeOK' /\ ClientTypeOK' /\ TaskTypeOK'
  <2>1. task[t].user \in Ids
      BY <1>9, <1>a DEF HydrationDone
  <2>2. view' \in [Sockets -> SUBSET Ids]
      BY <1>9, <1>a, <2>1 DEF HydrationDone, EmitPresenceBroadcast, ClientTypeOK
  <2> QED
      BY <1>9, <1>a, <1>c, <2>2 DEF HydrationDone, RoomTypeOK, ClientTypeOK, roomVars
<1>10. ASSUME NEW u \in Ids, GraceExpires(u)
       PROVE  RoomTypeOK' /\ ClientTypeOK' /\ TaskTypeOK'
  <2>1. yjsToken' \in Nat /\ yjsKnown' \in [Ids -> Nat]
      BY <1>10, <1>a DEF GraceExpires, RotateYjsToken, RoomTypeOK, ClientTypeOK
  <2>2. registered' \in BOOLEAN
      BY <1>10, <1>a DEF GraceExpires, RoomTypeOK, DestroyRoom
  <2>3. users' \in SUBSET Ids /\ gracePeriodTimers' \in SUBSET Ids
      BY <1>10, <1>a DEF GraceExpires, RoomTypeOK, DestroyRoom
  <2> QED
      BY <1>10, <1>a, <2>1, <2>2, <2>3 DEF GraceExpires, RoomTypeOK, ClientTypeOK
<1>11. ASSUME BecomeIdle \/ DestroyIdleRooms \/ RoomActivity
       PROVE  RoomTypeOK' /\ ClientTypeOK' /\ TaskTypeOK'
  <2>1. registered' \in BOOLEAN /\ problemSelected' \in BOOLEAN /\ idle' \in BOOLEAN
      BY <1>11, <1>a DEF BecomeIdle, DestroyIdleRooms, RoomActivity, DestroyRoom, RoomTypeOK
  <2>2. /\ gracePeriodTimers' \in SUBSET Ids
        /\ UNCHANGED <<users, socketId, role, serial, yjsToken, nextId, clientVars, task>>
      BY <1>11, <1>a DEF BecomeIdle, DestroyIdleRooms, RoomActivity, DestroyRoom, RoomTypeOK
  <2> QED
      BY <1>a, <2>1, <2>2 DEF RoomTypeOK, ClientTypeOK, clientVars
<1>12. ASSUME BroadcastRoomSync
       PROVE  RoomTypeOK' /\ ClientTypeOK' /\ TaskTypeOK'
  <2>1. view' \in [Sockets -> SUBSET Ids]
      BY <1>12, <1>a, ConnectedType DEF BroadcastRoomSync, ClientTypeOK
  <2> QED
      BY <1>12, <1>a, <2>1 DEF BroadcastRoomSync, RoomTypeOK, ClientTypeOK, roomVars
<1>13. ASSUME UNCHANGED vars
       PROVE  RoomTypeOK' /\ ClientTypeOK' /\ TaskTypeOK'
    BY <1>13, <1>a DEF vars, RoomTypeOK, ClientTypeOK
<1> QED
    BY <1>1, <1>2, <1>3, <1>4, <1>5, <1>6, <1>7, <1>8, <1>9, <1>10, <1>11,
       <1>12, <1>13 DEF Next

\* Every reachable state is well typed, and a handler that waits knows the
\* socket (and after the join the user) it serves.
THEOREM TypeCorrect == Spec => []TypeOK
<1> QED
    BY TypeInit, TypeNext, PTL DEF Spec

-----------------------------------------------------------------------------
(* The inductive invariants behind the safety properties.                  *)

\* Ids in use have been handed out: the next one is fresh.
IdsAllocated ==
  /\ users \subseteq 1..(nextId - 1)
  /\ \A t \in Tasks : task[t].pc = "hydrate" => task[t].user \in 1..(nextId - 1)

\* Only open sockets are in the Socket.io room; a user whose socket is open
\* has been put there with it (a handler's too, once it joined somebody), and
\* nobody ever serves an unopened socket.
SocketsConsistent ==
  /\ \A s \in joined : link[s] = "open"
  /\ \A t \in Tasks : task[t].pc # "idle" => link[task[t].sock] # "new"
  /\ \A t \in Tasks : task[t].pc = "hydrate" /\ link[task[t].sock] = "open"
                        => task[t].sock \in joined
  /\ \A u \in users : socketId[u] # NoSocket =>
       /\ link[socketId[u]] # "new"
       /\ link[socketId[u]] = "open" => socketId[u] \in joined

\* No client is ahead of the room's token.
TokensKnown == \A u \in Ids : yjsKnown[u] <= yjsToken

\* While the socket of an unannounced join is in the room, it still serves the
\* user it was opened for, and its own client shows this user.
HydratingOwnUser ==
  \A t \in Tasks :
    task[t].pc = "hydrate" /\ task[t].sock \in joined /\ task[t].user \in users
      => socketId[task[t].user] = task[t].sock /\ task[t].user \in view[task[t].sock]

MembershipInv ==
  /\ TypeOK
  /\ IdsAllocated
  /\ SlotsBounded
  /\ OneInterviewer
  /\ GraceTimersExact

PresenceInv ==
  /\ MembershipInv
  /\ SocketsConsistent
  /\ TokensKnown
  /\ YjsTokenWithMembers
  /\ HydratingOwnUser
  /\ PresenceComplete

-----------------------------------------------------------------------------
(* Slots, roles and grace timers.                                          *)

LEMMA UsersFinite ==
  ASSUME RoomTypeOK
  PROVE  IsFiniteSet(users) /\ Cardinality(users) \in Nat
<1>1. IsFiniteSet(Ids)
    BY ConstantsAssumption, FS_Interval DEF ConstantsAssumption, Ids
<1>2. IsFiniteSet(users)
    BY <1>1, FS_Subset DEF RoomTypeOK
<1> QED
    BY <1>2, FS_CardinalityType

LEMMA MembershipInit == Init => MembershipInv
<1> SUFFICES ASSUME Init PROVE MembershipInv
    OBVIOUS
<1>1. TypeOK
    BY TypeInit
<1>2. IdsAllocated
    BY DEF Init, IdsAllocated, IdleTask
<1>3. SlotsBounded
    BY FS_EmptySet, ConstantsAssumption DEF ConstantsAssumption, Init, SlotsBounded
<1>4. OneInterviewer
    BY DEF Init, OneInterviewer
<1>5. GraceTimersExact
    BY DEF Init, GraceTimersExact
<1> QED
    BY <1>1, <1>2, <1>3, <1>4, <1>5 DEF MembershipInv

\* The close of a socket turns exactly one connected user into a timed one.
LEMMA HandleDisconnectGrace ==
  ASSUME TypeOK, GraceTimersExact, NEW s \in Sockets, HandleDisconnect(s),
         UNCHANGED <<registered, users>>
  PROVE  GraceTimersExact'
<1>1. CASE registered /\ OwnedBy(s) # {}
  <2> DEFINE u == First(OwnedBy(s))
  <2>1. u \in Ids /\ u \in users
      BY <1>1, FirstOwned DEF TypeOK
  <2>2. /\ socketId' = [socketId EXCEPT ![u] = NoSocket]
        /\ gracePeriodTimers' = gracePeriodTimers \cup {u}
      BY <1>1 DEF HandleDisconnect, StartGracePeriod
  <2> HIDE DEF u
  <2> QED
      BY <2>1, <2>2 DEF GraceTimersExact, TypeOK, RoomTypeOK
<1>2. CASE ~(registered /\ OwnedBy(s) # {})
    BY <1>2 DEF HandleDisconnect, GraceTimersExact
<1> QED
    BY <1>1, <1>2

\* A finished or hydrating handler serves a user whose id was handed out.
LEMMA AwaitHydrationIds ==
  ASSUME TypeOK, IdsAllocated, NEW t \in Tasks, NEW u \in Ids,
         AwaitHydration(t, u, "hydrate"), nextId' \in Nat, nextId <= nextId',
         u \in 1..(nextId' - 1)
  PROVE  \A r \in Tasks : task'[r].pc = "hydrate" => task'[r].user \in 1..(nextId' - 1)
<1>0. nextId \in Nat
    BY ConstantsAssumption DEF ConstantsAssumption, TypeOK, RoomTypeOK
<1>1. \A r \in Tasks : r # t => task'[r] = task[r]
    BY DEF AwaitHydration, Finish, TypeOK
<1>2. task'[t].pc = "hydrate" => task'[t].user = u
  <2>1. CASE problemSelected
      BY <2>1 DEF AwaitHydration, TypeOK, TaskRecord
  <2>2. CASE ~problemSelected
      BY <2>2, IdleTaskType, FinishType DEF AwaitHydration
  <2> QED
      BY <2>1, <2>2
<1> QED
    BY <1>0, <1>1, <1>2 DEF IdsAllocated

LEMMA MembershipNext == MembershipInv /\ [Next]_vars => MembershipInv'
<1> SUFFICES ASSUME MembershipInv, [Next]_vars PROVE MembershipInv'
    OBVIOUS
<1>a. TypeOK /\ TypeOK' /\ RoomTypeOK /\ IdsAllocated /\ SlotsBounded /\ OneInterviewer
        /\ GraceTimersExact
    BY TypeNext DEF MembershipInv, TypeOK
<1>b. SUFFICES IdsAllocated' /\ SlotsBounded' /\ OneInterviewer' /\ GraceTimersExact'
    BY <1>a DEF MembershipInv
<1>c. IsFiniteSet(users) /\ Cardinality(users) \in Nat /\ nextId \in Nat
    BY <1>a, UsersFinite, ConstantsAssumption DEF ConstantsAssumption, RoomTypeOK
\* What a step that leaves users, roles and ids alone preserves.
<1>d. ASSUME UNCHANGED <<users, role>>
      PROVE  SlotsBounded' /\ OneInterviewer'
    BY <1>a, <1>d DEF SlotsBounded, OneInterviewer
<1>e. ASSUME UNCHANGED <<users, nextId, task>>
      PROVE  IdsAllocated'
    BY <1>a, <1>e DEF IdsAllocated
<1>f. ASSUME NEW t \in Tasks, Finish(t), UNCHANGED <<users, nextId>>
      PROVE  IdsAllocated'
    BY <1>a, <1>f, FinishType, IdleTaskType DEF IdsAllocated
<1>1. ASSUME NEW s \in Sockets, Connect(s)
      PROVE  IdsAllocated' /\ SlotsBounded' /\ OneInterviewer' /\ GraceTimersExact'
    BY <1>1, <1>a, <1>d, <1>e DEF Connect, roomVars, GraceTimersExact
<1>2. ASSUME NEW s \in Sockets, Disconnect(s)
      PROVE  IdsAllocated' /\ SlotsBounded' /\ OneInterviewer' /\ GraceTimersExact'
    BY <1>2, <1>a, <1>d, <1>e, HandleDisconnectGrace DEF Disconnect
<1>3. ASSUME NEW t \in Tasks, NEW s \in Sockets, NEW claim \in Claims,
             UserJoin(t, s, claim)
      PROVE  IdsAllocated' /\ SlotsBounded' /\ OneInterviewer' /\ GraceTimersExact'
  <2>1. IdsAllocated'
      BY <1>3, <1>a DEF UserJoin, roomVars, IdsAllocated, TypeOK
  <2> QED
      BY <1>3, <1>a, <1>d, <2>1 DEF UserJoin, roomVars, GraceTimersExact
<1>4. ASSUME NEW t \in Tasks, NEW s \in Sockets, UserJoinAgain(t, s)
      PROVE  IdsAllocated' /\ SlotsBounded' /\ OneInterviewer' /\ GraceTimersExact'
  <2>1. \A r \in Tasks : task'[r].pc = "hydrate" => task'[r] = task[r]
      BY <1>4, <1>a DEF UserJoinAgain, TypeOK
  <2>2. IdsAllocated'
      BY <1>4, <1>a, <2>1 DEF UserJoinAgain, roomVars, IdsAllocated
  <2> QED
      BY <1>4, <1>a, <1>d, <2>2 DEF UserJoinAgain, roomVars, GraceTimersExact
<1>5. ASSUME NEW t \in Tasks, JoinRateLimited(t)
      PROVE  IdsAllocated' /\ SlotsBounded' /\ OneInterviewer' /\ GraceTimersExact'
    BY <1>5, <1>a, <1>d, <1>f DEF JoinRateLimited, roomVars, GraceTimersExact
<1>6. ASSUME NEW t \in Tasks, JoinReconnects(t)
      PROVE  IdsAllocated' /\ SlotsBounded' /\ OneInterviewer' /\ GraceTimersExact'
  <2>1. PICK u \in FindByReconnectToken(task[t].claim) :
          /\ socketId' = [socketId EXCEPT ![u] = task[t].sock]
          /\ gracePeriodTimers' = gracePeriodTimers \ {u}
          /\ AwaitHydration(t, u, "hydrate")
      BY <1>6 DEF JoinReconnects, CancelGracePeriod
  <2>2. u \in Ids /\ u \in users
      BY <1>a, ClaimedType
  <2>3. task[t].sock \in Sockets
      BY <1>6, <1>a DEF JoinReconnects, TypeOK
  <2>4. GraceTimersExact'
      BY <1>6, <1>a, <2>1, <2>2, <2>3, ConstantsAssumption
      DEF ConstantsAssumption, JoinReconnects, GraceTimersExact, RoomTypeOK
  <2>5. u \in 1..(nextId' - 1) /\ nextId' = nextId
      BY <1>6, <1>a, <2>2 DEF IdsAllocated, JoinReconnects
  <2>6. IdsAllocated'
      BY <1>6, <1>a, <1>c, <2>1, <2>2, <2>5, AwaitHydrationIds DEF IdsAllocated, JoinReconnects
  <2> QED
      BY <1>6, <1>d, <2>4, <2>6 DEF JoinReconnects
<1>7. ASSUME NEW t \in Tasks, JoinRoomFull(t)
      PROVE  IdsAllocated' /\ SlotsBounded' /\ OneInterviewer' /\ GraceTimersExact'
  <2>1. task[t].sock \in Sockets
      BY <1>7, <1>a DEF JoinRoomFull, TypeOK
  <2>2. GraceTimersExact'
    <3>1. CASE HandleDisconnect(task[t].sock)
        BY <1>7, <1>a, <2>1, <3>1, HandleDisconnectGrace DEF JoinRoomFull
    <3>2. CASE UNCHANGED <<socketId, gracePeriodTimers, link, joined, view>>
        BY <1>7, <1>a, <3>2 DEF JoinRoomFull, GraceTimersExact
    <3> QED
        BY <1>7, <3>1, <3>2 DEF JoinRoomFull
  <2> QED
      BY <1>7, <1>d, <1>f, <2>2 DEF JoinRoomFull
<1>8. ASSUME NEW t \in Tasks, JoinAdds(t)
      PROVE  IdsAllocated' /\ SlotsBounded' /\ OneInterviewer' /\ GraceTimersExact'
  <2> DEFINE u == nextId
  <2>1. u \in Ids /\ u \notin users
      BY <1>8, <1>a, <1>c, ConstantsAssumption
      DEF ConstantsAssumption, JoinAdds, RoomTypeOK, Ids, IdsAllocated
  <2>2. task[t].sock \in Sockets
      BY <1>8, <1>a DEF JoinAdds, TypeOK
  <2>3. /\ users' = users \cup {u}
        /\ socketId' = [socketId EXCEPT ![u] = task[t].sock]
        /\ role' = [role EXCEPT ![u] = DetermineRole]
        /\ UNCHANGED <<registered, gracePeriodTimers>>
        /\ nextId' = u + 1
        /\ AwaitHydration(t, u, "hydrate")
      BY <1>8 DEF JoinAdds
  <2>4. SlotsBounded'
    <3>1. Cardinality(users) < MaxUsers
        BY <1>8, <1>c, ConstantsAssumption DEF ConstantsAssumption, JoinAdds, IsFull
    <3>2. Cardinality(users') = Cardinality(users) + 1
        BY <1>c, <2>1, <2>3, FS_AddElement
    <3> QED
        BY <1>c, <3>1, <3>2, ConstantsAssumption DEF ConstantsAssumption, SlotsBounded
  <2>5. OneInterviewer'
    <3>1. CASE users = {}
        BY <2>3, <3>1 DEF OneInterviewer
    <3>2. CASE users # {}
      <4>1. DetermineRole # "interviewer"
          BY <3>2 DEF DetermineRole
      <4> QED
          BY <1>a, <2>1, <2>3, <4>1 DEF OneInterviewer, RoomTypeOK
    <3> QED
        BY <3>1, <3>2
  <2>6. GraceTimersExact'
      BY <1>a, <2>1, <2>2, <2>3, ConstantsAssumption
      DEF ConstantsAssumption, GraceTimersExact, RoomTypeOK
  <2>7. \A r \in Tasks : task'[r].pc = "hydrate" => task'[r].user \in 1..(nextId' - 1)
      BY <1>a, <1>c, <2>1, <2>3, AwaitHydrationIds DEF Ids
  <2>8. users' \subseteq 1..(nextId' - 1)
      BY <1>a, <1>c, <2>1, <2>3 DEF IdsAllocated, Ids
  <2> QED
      BY <2>4, <2>5, <2>6, <2>7, <2>8 DEF IdsAllocated
<1>9. ASSUME NEW t \in Tasks, HydrationDone(t)
      PROVE  IdsAllocated' /\ SlotsBounded' /\ OneInterviewer' /\ GraceTimersExact'
    BY <1>9, <1>a, <1>d, <1>f DEF HydrationDone, roomVars, GraceTimersExact
<1>10. ASSUME NEW u \in Ids, GraceExpires(u)
       PROVE  IdsAllocated' /\ SlotsBounded' /\ OneInterviewer' /\ GraceTimersExact'
  <2>1. /\ UNCHANGED <<socketId, role, nextId, task>>
        /\ users' \subseteq users
      BY <1>10 DEF GraceExpires
  <2>2. IdsAllocated' /\ OneInterviewer'
      BY <1>a, <2>1 DEF IdsAllocated, OneInterviewer
  <2>3. SlotsBounded'
    <3>1. Cardinality(users') \in Nat /\ Cardinality(users') <= Cardinality(users)
        BY <1>c, <2>1, FS_Subset, FS_CardinalityType
    <3> QED
        BY <1>a, <1>c, <3>1, ConstantsAssumption DEF ConstantsAssumption, SlotsBounded
  <2>4. GraceTimersExact'
      BY <1>10, <1>a DEF GraceExpires, GraceTimersExact, DestroyRoom
  <2> QED
      BY <2>2, <2>3, <2>4
<1>11. ASSUME BecomeIdle \/ DestroyIdleRooms \/ RoomActivity \/ BroadcastRoomSync
       PROVE  IdsAllocated' /\ SlotsBounded' /\ OneInterviewer' /\ GraceTimersExact'
  <2>1. UNCHANGED <<users, socketId, role, nextId, task>>
      BY <1>11 DEF BecomeIdle, DestroyIdleRooms, RoomActivity, BroadcastRoomSync, roomVars
  <2>2. registered' => registered /\ gracePeriodTimers' = gracePeriodTimers
      BY <1>11, <1>a DEF BecomeIdle, DestroyIdleRooms, RoomActivity, BroadcastRoomSync,
                         roomVars, DestroyRoom
  <2>3. GraceTimersExact'
      BY <1>a, <2>1, <2>2 DEF GraceTimersExact
  <2> QED
      BY <1>d, <1>e, <2>1, <2>3
<1>12. ASSUME UNCHANGED vars
       PROVE  IdsAllocated' /\ SlotsBounded' /\ OneInterviewer' /\ GraceTimersExact'
    BY <1>12, <1>a, <1>d, <1>e DEF vars, GraceTimersExact
<1> QED
    BY <1>1, <1>2, <1>3, <1>4, <1>5, <1>6, <1>7, <1>8, <1>9, <1>10, <1>11,
       <1>12 DEF Next

LEMMA MembershipInvariant == Spec => []MembershipInv
<1> QED
    BY MembershipInit, MembershipNext, PTL DEF Spec

\* Joins that race for the last slot never overfill the room.
THEOREM SlotsBoundedAlways == Spec => []SlotsBounded
<1>1. MembershipInv => SlotsBounded
    BY DEF MembershipInv
<1> QED
    BY <1>1, MembershipInvariant, PTL

\* Two first joins never both become interviewer.
THEOREM OneInterviewerAlways == Spec => []OneInterviewer
<1>1. MembershipInv => OneInterviewer
    BY DEF MembershipInv
<1> QED
    BY <1>1, MembershipInvariant, PTL

\* In a registered room the armed grace timers are those of the users without a
\* socket, whatever disconnects, reconnects and sweeps interleave.
THEOREM GraceTimersExactAlways == Spec => []GraceTimersExact
<1>1. MembershipInv => GraceTimersExact
    BY DEF MembershipInv
<1> QED
    BY <1>1, MembershipInvariant, PTL

-----------------------------------------------------------------------------
(* Sockets, the Yjs token and presence.                                    *)

LEMMA PresenceInit == Init => PresenceInv
<1> SUFFICES ASSUME Init PROVE PresenceInv
    OBVIOUS
<1>1. MembershipInv
    BY MembershipInit
<1>2. SocketsConsistent
    BY IdleTaskType DEF Init, SocketsConsistent
<1>3. TokensKnown
    BY DEF Init, TokensKnown
<1>4. YjsTokenWithMembers
    BY DEF Init, YjsTokenWithMembers
<1>5. HydratingOwnUser
    BY IdleTaskType DEF Init, HydratingOwnUser
<1>6. PresenceComplete
    BY DEF Init, PresenceComplete
<1> QED
    BY <1>1, <1>2, <1>3, <1>4, <1>5, <1>6 DEF PresenceInv

\* What the close of a socket does, whether or not a user owned it.
LEMMA HandleDisconnectEffect ==
  ASSUME TypeOK, NEW s \in Sockets, HandleDisconnect(s)
  PROVE  /\ link' = [link EXCEPT ![s] = "closed"]
         /\ joined' = joined \ {s}
         /\ \A u \in Ids : \/ socketId'[u] = socketId[u]
                           \/ socketId[u] = s /\ socketId'[u] = NoSocket
         /\ \A c \in joined', u \in Ids :
              u \in view[c] /\ socketId'[u] # NoSocket => u \in view'[c]
<1>1. link' = [link EXCEPT ![s] = "closed"] /\ joined' = joined \ {s}
    BY DEF HandleDisconnect
<1>2. CASE registered /\ OwnedBy(s) # {}
  <2> DEFINE w == First(OwnedBy(s))
  <2>1. w \in Ids /\ w \in users /\ socketId[w] = s
      BY <1>2, FirstOwned DEF TypeOK
  <2>2. /\ socketId' = [socketId EXCEPT ![w] = NoSocket]
        /\ view' = [c \in Sockets |-> IF c = s THEN {}
                                      ELSE IF c \in joined THEN view[c] \ {w}
                                      ELSE view[c]]
      BY <1>2 DEF HandleDisconnect
  <2> HIDE DEF w
  <2> QED
      BY <1>1, <2>1, <2>2 DEF TypeOK, RoomTypeOK, ClientTypeOK
<1>3. CASE ~(registered /\ OwnedBy(s) # {})
  <2>1. view' = [view EXCEPT ![s] = {}] /\ socketId' = socketId
      BY <1>3 DEF HandleDisconnect
  <2> QED
      BY <1>1, <2>1 DEF TypeOK, ClientTypeOK
<1> QED
    BY <1>2, <1>3

\* The close of a socket preserves the presence invariant, whoever closes it,
\* as long as no handler starts to wait.
LEMMA HandleDisconnectPresence ==
  ASSUME PresenceInv, TypeOK', NEW s \in Sockets, HandleDisconnect(s),
         UNCHANGED <<registered, users, nextId, yjsToken, yjsKnown>>,
         \A t \in Tasks : task'[t] = task[t] \/ task'[t].pc = "idle",
         \A t \in Tasks : task[t].pc = "hydrate" => task'[t] = task[t]
  PROVE  /\ SocketsConsistent' /\ TokensKnown' /\ YjsTokenWithMembers'
         /\ HydratingOwnUser' /\ PresenceComplete'
<1>a. TypeOK /\ RoomTypeOK /\ ClientTypeOK /\ users \subseteq Ids
    BY DEF PresenceInv, MembershipInv, TypeOK, RoomTypeOK
<1>b. /\ link' = [link EXCEPT ![s] = "closed"]
      /\ joined' = joined \ {s}
      /\ \A u \in Ids : \/ socketId'[u] = socketId[u]
                        \/ socketId[u] = s /\ socketId'[u] = NoSocket
      /\ \A c \in joined', u \in Ids :
           u \in view[c] /\ socketId'[u] # NoSocket => u \in view'[c]
    BY <1>a, HandleDisconnectEffect
<1>c. NoSocket \notin Sockets
    BY ConstantsAssumption DEF ConstantsAssumption
<1>1. SocketsConsistent'
  <2>1. \A c \in joined' : link'[c] = "open"
      BY <1>a, <1>b DEF PresenceInv, SocketsConsistent, ClientTypeOK
  <2>2. \A t \in Tasks : task'[t].pc # "idle" => link'[task'[t].sock] # "new"
      BY <1>a, <1>b DEF PresenceInv, SocketsConsistent, ClientTypeOK, TypeOK
  <2>4. \A t \in Tasks : task'[t].pc = "hydrate" /\ link'[task'[t].sock] = "open"
                           => task'[t].sock \in joined'
      BY <1>a, <1>b DEF PresenceInv, SocketsConsistent, ClientTypeOK, TypeOK
  <2>3. \A u \in users' : socketId'[u] # NoSocket =>
           /\ link'[socketId'[u]] # "new"
           /\ link'[socketId'[u]] = "open" => socketId'[u] \in joined'
    <3> SUFFICES ASSUME NEW u \in users, socketId'[u] # NoSocket
                 PROVE  /\ link'[socketId[u]] # "new"
                        /\ link'[socketId[u]] = "open" => socketId[u] \in joined'
        BY <1>a, <1>b
    <3>1. socketId[u] \in Sockets /\ socketId[u] # NoSocket
        BY <1>a, <1>b, <1>c DEF RoomTypeOK
    <3> QED
        BY <1>a, <1>b, <3>1 DEF PresenceInv, SocketsConsistent, ClientTypeOK
  <2> QED
      BY <2>1, <2>2, <2>3, <2>4 DEF SocketsConsistent
<1>2. TokensKnown'
    BY DEF PresenceInv, TokensKnown
<1>3. YjsTokenWithMembers'
  <2> SUFFICES ASSUME registered, NEW u \in 1..(nextId - 1)
               PROVE  /\ u \in users /\ socketId'[u] \in joined' => yjsKnown[u] = yjsToken
                      /\ u \notin users => yjsKnown[u] # yjsToken
      BY DEF YjsTokenWithMembers
  <2>1. u \in users /\ socketId'[u] \in joined' => socketId[u] \in joined
      BY <1>a, <1>b, <1>c DEF ClientTypeOK
  <2> QED
      BY <2>1 DEF PresenceInv, YjsTokenWithMembers
<1>4. HydratingOwnUser'
  <2> SUFFICES ASSUME NEW t \in Tasks, task'[t].pc = "hydrate", task'[t].sock \in joined',
                      task'[t].user \in users
               PROVE  /\ socketId'[task'[t].user] = task'[t].sock
                      /\ task'[t].user \in view'[task'[t].sock]
      BY DEF HydratingOwnUser
  <2>1. task'[t] = task[t]
      OBVIOUS
  <2>2. /\ socketId[task[t].user] = task[t].sock
        /\ task[t].user \in view[task[t].sock]
        /\ task[t].sock # s /\ task[t].sock \in Sockets /\ task[t].user \in Ids
      BY <1>a, <1>b, <2>1 DEF PresenceInv, HydratingOwnUser, ClientTypeOK
  <2> QED
      BY <1>b, <1>c, <2>1, <2>2
<1>5. PresenceComplete'
  <2> SUFFICES ASSUME NEW c \in joined', NEW u \in users, socketId'[u] # NoSocket
               PROVE  u \in view'[c] \/ \E t \in Tasks : task'[t].pc = "hydrate"
                                                          /\ task'[t].user = u
      BY DEF PresenceComplete, Connected
  <2>1. c \in joined /\ u \in Ids /\ socketId[u] # NoSocket
      BY <1>a, <1>b, <1>c
  <2>2. u \in view[c] \/ \E t \in Tasks : task[t].pc = "hydrate" /\ task[t].user = u
      BY <2>1 DEF PresenceInv, PresenceComplete, Connected
  <2> QED
      BY <1>b, <2>1, <2>2
<1> QED
    BY <1>1, <1>2, <1>3, <1>4, <1>5

\* A join that succeeds, as a new user or as a returning one.
LEMMA JoinPresence ==
  ASSUME PresenceInv, NEW t \in Tasks, task[t].pc = "limiter", NEW u \in Ids,
         \/ u \in users /\ socketId[u] = NoSocket /\ nextId' = nextId
         \/ u \notin users /\ u = nextId /\ nextId' = nextId + 1,
         users' = users \cup {u},
         socketId' = [socketId EXCEPT ![u] = task[t].sock],
         EmitJoinedPayload(task[t].sock, u, Connected \cup {u}, ~problemSelected),
         AwaitHydration(t, u, "hydrate"),
         UNCHANGED <<registered, yjsToken, link>>
  PROVE  /\ SocketsConsistent' /\ TokensKnown' /\ YjsTokenWithMembers'
         /\ HydratingOwnUser' /\ PresenceComplete'
<1> DEFINE s == task[t].sock
<1>a. /\ TypeOK /\ RoomTypeOK /\ ClientTypeOK /\ IdsAllocated /\ SocketsConsistent
      /\ TokensKnown /\ YjsTokenWithMembers /\ HydratingOwnUser /\ PresenceComplete
    BY DEF PresenceInv, MembershipInv, TypeOK
<1>b. s \in Sockets /\ NoSocket \notin Sockets
    BY <1>a, ConstantsAssumption DEF ConstantsAssumption, TypeOK
<1>c. /\ users \subseteq Ids /\ nextId \in Nat /\ yjsToken \in Nat
      /\ socketId \in [Ids -> Sockets \cup {NoSocket}]
    BY <1>a, ConstantsAssumption DEF ConstantsAssumption, RoomTypeOK
<1>d. \A r \in Tasks : r # t => task'[r] = task[r]
    BY <1>a DEF AwaitHydration, Finish, TypeOK
<1>e. \/ problemSelected /\ task'[t].pc = "hydrate" /\ task'[t].user = u /\ task'[t].sock = s
      \/ ~problemSelected /\ task'[t].pc = "idle"
  <2>1. CASE problemSelected
      BY <1>a, <2>1 DEF AwaitHydration, TypeOK, TaskRecord
  <2>2. CASE ~problemSelected
      BY <1>a, <2>2, IdleTaskType DEF AwaitHydration, Finish, TypeOK
  <2> QED
      BY <2>1, <2>2
<1>f. /\ joined' = IF link[s] = "open" THEN joined \cup {s} ELSE joined
      /\ \A v \in Ids : yjsKnown'[v] = IF v = u /\ link[s] = "open"
                                       THEN yjsToken ELSE yjsKnown[v]
      /\ \A c \in Sockets : view'[c] =
           IF c = s /\ link[s] = "open" THEN Connected \cup {u}
           ELSE IF ~problemSelected /\ c \in joined \ {s} THEN view[c] \cup {u}
           ELSE view[c]
    BY <1>a DEF EmitJoinedPayload, ClientTypeOK
<1>g. /\ joined \subseteq Sockets
      /\ \A c \in joined' : link[c] = "open"
      /\ s \in joined' => link[s] = "open"
    BY <1>a, <1>f DEF SocketsConsistent, ClientTypeOK
<1>h. \A v \in Ids : v # u => socketId'[v] = socketId[v]
    BY <1>c
<1>i. socketId'[u] = s
    BY <1>c
<1> HIDE DEF s
<1>1. SocketsConsistent'
  <2>1. \A r \in Tasks : task'[r].pc # "idle" => link'[task'[r].sock] # "new"
      BY <1>a, <1>d, <1>e DEF SocketsConsistent, s
  <2>2. \A r \in Tasks : task'[r].pc = "hydrate" /\ link'[task'[r].sock] = "open"
                           => task'[r].sock \in joined'
      BY <1>a, <1>d, <1>e, <1>f DEF SocketsConsistent
  <2>3. \A v \in users' : socketId'[v] # NoSocket =>
           /\ link'[socketId'[v]] # "new"
           /\ link'[socketId'[v]] = "open" => socketId'[v] \in joined'
    <3>1. link[s] # "new"
        BY <1>a DEF SocketsConsistent, s
    <3> QED
        BY <1>a, <1>c, <1>f, <1>h, <1>i, <3>1 DEF SocketsConsistent
  <2> QED
      BY <1>g, <2>1, <2>2, <2>3 DEF SocketsConsistent
<1>2. TokensKnown'
    BY <1>a, <1>c, <1>f DEF TokensKnown
<1>3. YjsTokenWithMembers'
  <2> SUFFICES ASSUME registered, NEW v \in 1..(nextId' - 1)
               PROVE  /\ v \in users' /\ socketId'[v] \in joined' => yjsKnown'[v] = yjsToken
                      /\ v \notin users' => yjsKnown'[v] # yjsToken
      BY DEF YjsTokenWithMembers
  <2>1. CASE v = u
      BY <1>f, <1>g, <1>i, <2>1
  <2>2. CASE v # u
    <3>1. v \in 1..(nextId - 1)
        BY <1>c, <2>2
    <3>2. nextId \in 1..(MaxIds + 1)
        BY <1>a DEF RoomTypeOK
    <3>3. v \in Ids
        BY <3>1, <3>2, ConstantsAssumption DEF ConstantsAssumption, Ids
    <3>4. v \in users /\ socketId[v] \in joined' => socketId[v] \in joined
        BY <1>a, <1>b, <1>f, <3>3 DEF SocketsConsistent
    <3> QED
        BY <1>a, <1>f, <1>h, <2>2, <3>1, <3>3, <3>4 DEF YjsTokenWithMembers
  <2> QED
      BY <2>1, <2>2
<1>4. HydratingOwnUser'
  <2> SUFFICES ASSUME NEW r \in Tasks, task'[r].pc = "hydrate", task'[r].sock \in joined',
                      task'[r].user \in users'
               PROVE  /\ socketId'[task'[r].user] = task'[r].sock
                      /\ task'[r].user \in view'[task'[r].sock]
      BY DEF HydratingOwnUser
  <2>1. CASE r = t
      BY <1>b, <1>e, <1>f, <1>g, <1>i, <2>1
  <2>2. CASE r # t
    <3> DEFINE v == task[r].user
               c == task[r].sock
    <3>1. task'[r] = task[r] /\ c \in joined' /\ link[c] = "open"
        BY <1>d, <1>g, <2>2
    <3>2. c \in joined
        BY <1>a, <3>1 DEF SocketsConsistent
    <3>3. v \in users
        BY <1>a, <1>c, <3>1 DEF IdsAllocated
    <3>4. socketId[v] = c /\ v \in view[c]
        BY <1>a, <3>1, <3>2, <3>3 DEF HydratingOwnUser
    <3>5. v # u /\ v \in Ids /\ c \in Sockets /\ v \in Connected
        BY <1>b, <1>c, <1>g, <3>2, <3>3, <3>4 DEF Connected
    <3> QED
        BY <1>f, <1>h, <3>1, <3>4, <3>5
  <2> QED
      BY <2>1, <2>2
<1>5. PresenceComplete'
  <2> SUFFICES ASSUME NEW c \in joined', NEW v \in users', socketId'[v] # NoSocket
               PROVE  v \in view'[c] \/ \E r \in Tasks : task'[r].pc = "hydrate"
                                                          /\ task'[r].user = v
      BY DEF PresenceComplete, Connected
  <2>0. c \in Sockets
      BY <1>b, <1>f, <1>g
  <2>1. CASE v = u
      BY <1>e, <1>f, <1>g, <2>0, <2>1
  <2>2. CASE v # u
    <3>1. v \in Connected
        BY <1>c, <1>h, <2>2 DEF Connected
    <3>2. CASE c = s
        BY <1>f, <1>g, <2>0, <3>1, <3>2
    <3>3. CASE c # s
      <4>1. v \in view[c] \/ \E r \in Tasks : task[r].pc = "hydrate" /\ task[r].user = v
          BY <1>a, <1>f, <3>1, <3>3 DEF PresenceComplete
      <4>2. \A r \in Tasks : task[r].pc = "hydrate" => task'[r] = task[r]
          BY <1>d
      <4> QED
          BY <1>f, <2>0, <3>3, <4>1, <4>2
    <3> QED
        BY <3>2, <3>3
  <2> QED
      BY <2>1, <2>2
<1> QED
    BY <1>1, <1>2, <1>3, <1>4, <1>5

LEMMA PresenceNext == PresenceInv /\ [Next]_vars => PresenceInv'
<1> SUFFICES ASSUME PresenceInv, [Next]_vars PROVE PresenceInv'
    OBVIOUS
<1> DEFINE Goal == /\ SocketsConsistent' /\ TokensKnown' /\ YjsTokenWithMembers'
                   /\ HydratingOwnUser' /\ PresenceComplete'
<1>a. /\ TypeOK /\ RoomTypeOK /\ ClientTypeOK /\ IdsAllocated /\ SocketsConsistent
      /\ TokensKnown /\ YjsTokenWithMembers /\ HydratingOwnUser /\ PresenceComplete
    BY DEF PresenceInv, MembershipInv, TypeOK
<1>b. MembershipInv' /\ TypeOK'
    BY MembershipNext DEF PresenceInv, MembershipInv
<1>c. SUFFICES Goal
    BY <1>b DEF PresenceInv
<1>d. /\ users \subseteq Ids /\ nextId \in Nat /\ yjsToken \in Nat
      /\ socketId \in [Ids -> Sockets \cup {NoSocket}]
      /\ joined \subseteq Sockets
    BY <1>a, ConstantsAssumption DEF ConstantsAssumption, RoomTypeOK, ClientTypeOK
\* Steps in which only handlers move, none of them to or from hydration.
<1>e. ASSUME UNCHANGED <<registered, users, socketId, yjsToken, nextId, clientVars>>,
             \A t \in Tasks : \/ task'[t] = task[t]
                              \/ task'[t].pc = "idle" /\ task[t].pc # "hydrate"
                              \/ /\ task'[t].pc \in {"limiter", "rehydrate"}
                                 /\ task[t].pc # "hydrate"
                                 /\ link[task'[t].sock] = "open"
      PROVE  Goal
  <2>1. SocketsConsistent'
      BY <1>a, <1>e DEF SocketsConsistent, clientVars
  <2>2. TokensKnown' /\ YjsTokenWithMembers'
      BY <1>a, <1>e DEF TokensKnown, YjsTokenWithMembers, clientVars
  <2>3. HydratingOwnUser'
      BY <1>a, <1>e DEF HydratingOwnUser, clientVars
  <2>4. PresenceComplete'
      BY <1>a, <1>e DEF PresenceComplete, Connected, clientVars
  <2> QED
      BY <2>1, <2>2, <2>3, <2>4
<1>1. ASSUME NEW s \in Sockets, Connect(s) PROVE Goal
  <2>1. SocketsConsistent'
    <3>1. \A c \in Sockets : link[c] # "new" => link'[c] = link[c]
        BY <1>1, <1>a DEF Connect, ClientTypeOK
    <3>2. \A t \in Tasks : task[t].pc # "idle" => task[t].sock \in Sockets
        BY <1>a DEF TypeOK
    <3> QED
        BY <1>1, <1>a, <1>d, <3>1, <3>2, ConstantsAssumption
        DEF ConstantsAssumption, Connect, SocketsConsistent, roomVars
  <2>2. TokensKnown' /\ YjsTokenWithMembers'
      BY <1>1, <1>a DEF Connect, TokensKnown, YjsTokenWithMembers, roomVars
  <2>3. HydratingOwnUser' /\ PresenceComplete'
      BY <1>1, <1>a DEF Connect, HydratingOwnUser, PresenceComplete, Connected, roomVars
  <2> QED
      BY <2>1, <2>2, <2>3
<1>2. ASSUME NEW s \in Sockets, Disconnect(s) PROVE Goal
    BY <1>2, <1>b, HandleDisconnectPresence DEF Disconnect
<1>3. ASSUME NEW t \in Tasks, NEW s \in Sockets, NEW claim \in Claims, UserJoin(t, s, claim)
      PROVE  Goal
    BY <1>3, <1>a, <1>e DEF UserJoin, roomVars, TypeOK
<1>4. ASSUME NEW t \in Tasks, NEW s \in Sockets, UserJoinAgain(t, s) PROVE Goal
  <2> DEFINE u == First(OwnedBy(s))
  <2>1. u \in Ids /\ u \in users /\ socketId[u] = s /\ link[s] = "open" /\ s \in joined
      BY <1>4, <1>a, FirstOwned, ConstantsAssumption
      DEF ConstantsAssumption, UserJoinAgain, SocketsConsistent
  <2>2. EmitJoinedPayload(s, u, Connected, FALSE)
      BY <1>4 DEF UserJoinAgain
  <2> HIDE DEF u
  <2>3. /\ joined' = joined
        /\ \A v \in Ids : yjsKnown'[v] = IF v = u THEN yjsToken ELSE yjsKnown[v]
        /\ \A c \in Sockets : view'[c] = IF c = s THEN Connected ELSE view[c]
      BY <1>a, <2>1, <2>2 DEF EmitJoinedPayload, ClientTypeOK
  <2>4. \A r \in Tasks : \/ task'[r] = task[r]
                         \/ task[r].pc = "idle" /\ task'[r].pc = "rehydrate"
                              /\ task'[r].sock = s
      BY <1>4, <1>a DEF UserJoinAgain, TypeOK
  <2>5. UNCHANGED <<registered, users, socketId, yjsToken, nextId, link>>
      BY <1>4 DEF UserJoinAgain, roomVars
  <2>6. SocketsConsistent'
      BY <1>a, <2>1, <2>3, <2>4, <2>5 DEF SocketsConsistent
  <2>7. TokensKnown'
      BY <1>a, <1>d, <2>3, <2>5 DEF TokensKnown
  <2>8. YjsTokenWithMembers'
    <3>1. \A v \in 1..(nextId - 1) : v \in Ids
        BY <1>a, <1>d, ConstantsAssumption DEF ConstantsAssumption, RoomTypeOK, Ids
    <3> QED
        BY <1>a, <2>1, <2>3, <2>5, <3>1 DEF YjsTokenWithMembers
  <2>9. HydratingOwnUser'
    <3> SUFFICES ASSUME NEW r \in Tasks, task'[r].pc = "hydrate", task'[r].sock \in joined,
                        task'[r].user \in users
                 PROVE  /\ socketId[task'[r].user] = task'[r].sock
                        /\ task'[r].user \in view'[task'[r].sock]
        BY <2>3, <2>5 DEF HydratingOwnUser
    <3>1. /\ task'[r] = task[r] /\ socketId[task[r].user] = task[r].sock
          /\ task[r].user \in view[task[r].sock]
        BY <1>a, <2>4 DEF HydratingOwnUser
    <3>2. task[r].sock \in Sockets /\ task[r].user \in Connected
        BY <1>d, <3>1, ConstantsAssumption DEF ConstantsAssumption, Connected
    <3> QED
        BY <2>3, <3>1, <3>2
  <2>10. PresenceComplete'
    <3>1. Connected' = Connected
        BY <2>5 DEF Connected
    <3>2. \A r \in Tasks : task[r].pc = "hydrate" => task'[r] = task[r]
        BY <2>4
    <3> QED
        BY <1>a, <1>d, <2>3, <3>1, <3>2 DEF PresenceComplete
  <2> QED
      BY <2>6, <2>7, <2>8, <2>9, <2>10
<1>5. ASSUME NEW t \in Tasks, JoinRateLimited(t) PROVE Goal
    BY <1>5, <1>a, <1>e, FinishType, IdleTaskType DEF JoinRateLimited, roomVars
<1>6. ASSUME NEW t \in Tasks, JoinReconnects(t) PROVE Goal
  <2>1. PICK u \in FindByReconnectToken(task[t].claim) :
          /\ socketId' = [socketId EXCEPT ![u] = task[t].sock]
          /\ EmitJoinedPayload(task[t].sock, u, Connected \cup {u}, ~problemSelected)
          /\ AwaitHydration(t, u, "hydrate")
      BY <1>6 DEF JoinReconnects
  <2>2. u \in Ids /\ u \in users /\ socketId[u] = NoSocket
      BY <1>a, ClaimedType
  <2>3. users' = users \cup {u} /\ nextId' = nextId /\ task[t].pc = "limiter"
        /\ UNCHANGED <<registered, yjsToken, link>>
      BY <1>6, <2>2 DEF JoinReconnects
  <2> QED
      BY <2>1, <2>2, <2>3, JoinPresence
<1>7. ASSUME NEW t \in Tasks, JoinRoomFull(t) PROVE Goal
  <2>1. task[t].sock \in Sockets /\ task[t].pc = "limiter" /\ Finish(t)
      BY <1>7, <1>a DEF JoinRoomFull, TypeOK
  <2>2. \A r \in Tasks : task'[r] = IF r = t THEN IdleTask ELSE task[r]
      BY <1>a, <2>1, FinishType
  <2>3. UNCHANGED <<registered, users, nextId, yjsToken, yjsKnown>>
      BY <1>7 DEF JoinRoomFull
  <2>4. CASE HandleDisconnect(task[t].sock)
      BY <1>b, <2>1, <2>2, <2>3, <2>4, IdleTaskType, HandleDisconnectPresence
  <2>5. CASE UNCHANGED <<socketId, gracePeriodTimers, link, joined, view>>
      BY <1>e, <2>1, <2>2, <2>3, <2>5, IdleTaskType DEF clientVars
  <2> QED
      BY <1>7, <2>4, <2>5 DEF JoinRoomFull
<1>8. ASSUME NEW t \in Tasks, JoinAdds(t) PROVE Goal
  <2>1. nextId \in Ids /\ nextId \notin users
      BY <1>8, <1>a, <1>d, ConstantsAssumption
      DEF ConstantsAssumption, JoinAdds, RoomTypeOK, Ids, IdsAllocated
  <2>2. /\ socketId' = [socketId EXCEPT ![nextId] = task[t].sock]
        /\ EmitJoinedPayload(task[t].sock, nextId, Connected \cup {nextId}, ~problemSelected)
        /\ AwaitHydration(t, nextId, "hydrate")
        /\ users' = users \cup {nextId} /\ nextId' = nextId + 1 /\ task[t].pc = "limiter"
        /\ UNCHANGED <<registered, yjsToken, link>>
      BY <1>8 DEF JoinAdds
  <2> QED
      BY <2>1, <2>2, JoinPresence
<1>9. ASSUME NEW t \in Tasks, HydrationDone(t) PROVE Goal
  <2>1. \A r \in Tasks : task'[r] = IF r = t THEN IdleTask ELSE task[r]
      BY <1>9, <1>a, FinishType DEF HydrationDone
  <2>2. UNCHANGED <<registered, users, socketId, yjsToken, nextId, link, joined, yjsKnown>>
      BY <1>9 DEF HydrationDone, roomVars
  <2>3. /\ \A c \in Sockets : view[c] \subseteq view'[c]
        /\ task[t].pc = "hydrate" => \A c \in joined : c # task[t].sock
                                                         => task[t].user \in view'[c]
      BY <1>9, <1>a, <1>d DEF HydrationDone, EmitPresenceBroadcast, ClientTypeOK
  <2>4. SocketsConsistent'
      BY <1>a, <2>1, <2>2, IdleTaskType DEF SocketsConsistent
  <2>5. TokensKnown' /\ YjsTokenWithMembers'
      BY <1>a, <2>2 DEF TokensKnown, YjsTokenWithMembers
  <2>6. HydratingOwnUser'
      BY <1>a, <1>d, <2>1, <2>2, <2>3, IdleTaskType DEF HydratingOwnUser
  <2>7. PresenceComplete'
    <3> SUFFICES ASSUME NEW c \in joined, NEW v \in Connected
                 PROVE  v \in view'[c] \/ \E r \in Tasks : task'[r].pc = "hydrate"
                                                            /\ task'[r].user = v
        BY <2>2 DEF PresenceComplete, Connected
    <3>1. CASE v \in view[c]
        BY <1>d, <2>3, <3>1
    <3>2. CASE v \notin view[c]
      <4>1. PICK r \in Tasks : task[r].pc = "hydrate" /\ task[r].user = v
          BY <1>a, <3>2 DEF PresenceComplete
      <4>2. CASE r # t
          BY <2>1, <4>1, <4>2
      <4>3. CASE r = t
        <5>1. c # task[t].sock
            BY <1>a, <3>2, <4>1, <4>3 DEF HydratingOwnUser, Connected
        <5> QED
            BY <2>3, <4>1, <4>3, <5>1
      <4> QED
          BY <4>2, <4>3
    <3> QED
        BY <3>1, <3>2
  <2> QED
      BY <2>4, <2>5, <2>6, <2>7
<1>10. ASSUME NEW u \in Ids, GraceExpires(u) PROVE Goal
  <2>1. /\ UNCHANGED <<socketId, nextId, link, joined, view, task>>
        /\ users' \subseteq users
        /\ registered' => registered
      BY <1>10, <1>a DEF GraceExpires, DestroyRoom, RoomTypeOK
  <2>2. SocketsConsistent' /\ HydratingOwnUser'
      BY <1>a, <2>1 DEF SocketsConsistent, HydratingOwnUser
  <2>3. PresenceComplete'
      BY <1>a, <2>1 DEF PresenceComplete, Connected
  <2>4. \/ UNCHANGED <<users, yjsToken, yjsKnown>>
        \/ ~registered' /\ UNCHANGED <<yjsToken, yjsKnown>>
        \/ users' = users \ {u} /\ RotateYjsToken(users \ {u})
      BY <1>10 DEF GraceExpires, DestroyRoom
  <2>5. ASSUME UNCHANGED <<users, yjsToken, yjsKnown>>
        PROVE  TokensKnown' /\ YjsTokenWithMembers'
      BY <1>a, <2>1, <2>5 DEF TokensKnown, YjsTokenWithMembers
  <2>6. ASSUME ~registered' /\ UNCHANGED <<yjsToken, yjsKnown>>
        PROVE  TokensKnown' /\ YjsTokenWithMembers'
      BY <1>a, <2>6 DEF TokensKnown, YjsTokenWithMembers
  <2>7. ASSUME users' = users \ {u} /\ RotateYjsToken(users \ {u})
        PROVE  TokensKnown' /\ YjsTokenWithMembers'
    <3>1. /\ yjsToken' = yjsToken + 1
          /\ \A v \in Ids : yjsKnown'[v] = IF v \in users' /\ socketId[v] \in joined
                                           THEN yjsToken + 1 ELSE yjsKnown[v]
        BY <2>7 DEF RotateYjsToken
    <3>2. \A v \in Ids : yjsKnown[v] \in Nat /\ yjsKnown[v] <= yjsToken
        BY <1>a DEF TokensKnown, ClientTypeOK
    <3>3. TokensKnown'
        BY <1>d, <3>1, <3>2 DEF TokensKnown
    <3>4. \A v \in 1..(nextId - 1) : v \in Ids
        BY <1>a, <1>d, ConstantsAssumption DEF ConstantsAssumption, RoomTypeOK, Ids
    <3>5. YjsTokenWithMembers'
        BY <1>d, <2>1, <3>1, <3>2, <3>4 DEF YjsTokenWithMembers
    <3> QED
        BY <3>3, <3>5
  <2>8. TokensKnown' /\ YjsTokenWithMembers'
      BY <2>4, <2>5, <2>6, <2>7
  <2> QED
      BY <2>2, <2>3, <2>8
<1>11. ASSUME BecomeIdle \/ DestroyIdleRooms \/ RoomActivity PROVE Goal
  <2>1. UNCHANGED <<users, socketId, yjsToken, nextId, clientVars, task>>
      BY <1>11 DEF BecomeIdle, DestroyIdleRooms, RoomActivity
  <2>2. registered' => registered
      BY <1>11, <1>a DEF BecomeIdle, DestroyIdleRooms, RoomActivity, DestroyRoom, RoomTypeOK
  <2>3. SocketsConsistent' /\ HydratingOwnUser' /\ TokensKnown'
      BY <1>a, <2>1 DEF SocketsConsistent, HydratingOwnUser, TokensKnown, clientVars
  <2>4. PresenceComplete'
      BY <1>a, <2>1 DEF PresenceComplete, Connected, clientVars
  <2>5. YjsTokenWithMembers'
      BY <1>a, <2>1, <2>2 DEF YjsTokenWithMembers, clientVars
  <2> QED
      BY <2>3, <2>4, <2>5
<1>12. ASSUME BroadcastRoomSync PROVE Goal
  <2>1. /\ UNCHANGED <<registered, users, socketId, yjsToken, nextId, link, joined,
                       yjsKnown, task>>
        /\ \A c \in joined : view'[c] = Connected
      BY <1>12, <1>d DEF BroadcastRoomSync, roomVars
  <2>2. SocketsConsistent' /\ TokensKnown' /\ YjsTokenWithMembers'
      BY <1>a, <2>1 DEF SocketsConsistent, TokensKnown, YjsTokenWithMembers
  <2>3. HydratingOwnUser'
      BY <1>a, <1>d, <2>1, ConstantsAssumption
      DEF ConstantsAssumption, HydratingOwnUser, Connected
  <2>4. PresenceComplete'
      BY <2>1 DEF PresenceComplete, Connected
  <2> QED
      BY <2>2, <2>3, <2>4
<1>13. ASSUME UNCHANGED vars PROVE Goal
    BY <1>13, <1>e DEF vars, clientVars
<1> QED
    BY <1>1, <1>2, <1>3, <1>4, <1>5, <1>6, <1>7, <1>8, <1>9, <1>10, <1>11,
       <1>12, <1>13 DEF Next

LEMMA PresenceInvariant == Spec => []PresenceInv
<1> QED
    BY PresenceInit, PresenceNext, PTL DEF Spec

\* Every member in the Socket.io room knows the current Yjs token, and nobody
\* who lost its slot does.
THEOREM YjsTokenWithMembersAlways == Spec => []YjsTokenWithMembers
<1>1. PresenceInv => YjsTokenWithMembers
    BY DEF PresenceInv
<1> QED
    BY <1>1, PresenceInvariant, PTL

\* Every client in the room shows every connected user that has been announced.
THEOREM PresenceCompleteAlways == Spec => []PresenceComplete
<1>1. PresenceInv => PresenceComplete
    BY DEF PresenceInv
<1> QED
    BY <1>1, PresenceInvariant, PTL
=============================================================================
