SPECIFICATION FairSpec
CONSTANTS
  Conns = {c1, c2}
  Edits = {e1}
  Writers = {c1}
PROPERTY ClientsShare
CHECK_DEADLOCK FALSE
