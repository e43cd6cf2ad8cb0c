SPECIFICATION SettlingSpec
CONSTANTS
  Sockets = {s1, s2}
  Tasks = {t1}
  MaxUsers = 2
  MaxIds = 2
  MaxSerial = 1
  Interview = FALSE
  NoSocket = NoSocket
PROPERTY ClosedSocketsReleased
CHECK_DEADLOCK FALSE
