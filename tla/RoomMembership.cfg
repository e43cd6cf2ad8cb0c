SPECIFICATION FairSpec
CONSTANTS
  Sockets = {s1, s2, s3}
  Tasks = {t1, t2}
  MaxUsers = 2
  MaxIds = 3
  MaxSerial = 2
  Interview = FALSE
  NoSocket = NoSocket
INVARIANTS SlotsBounded GraceTimersExact YjsTokenWithMembers PresenceComplete
PROPERTIES GraceResolves AbandonedRoomGoes
CHECK_DEADLOCK FALSE
