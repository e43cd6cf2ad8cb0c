SPECIFICATION FairSpec
CONSTANTS
  Tabs = {t1, t2}
  Browsers = {b1}
  BrowserOf <- MCBrowserOf
  Invites = {i1}
  MaxSessions = 1
  Ttl = 1
  MaxTime = 2
  MaxRows = 2
INVARIANTS SessionsBounded
PROPERTIES MembersHadAccess EndedSessionsDisconnected
CHECK_DEADLOCK FALSE
