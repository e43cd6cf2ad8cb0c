SPECIFICATION FairSpec
CONSTANTS
  Conns = {c1, c2}
  Edits = {e1}
  Writers = {c1, c2}
INVARIANTS DocLifetime
PROPERTIES DeadConnsReaped RevokedDisconnected AnsweredClientsShare
CHECK_DEADLOCK FALSE
