-------------------------- MODULE MCAccessSessions --------------------------
EXTENDS AccessSessions
MCBrowserOf == [t \in Tabs |-> CHOOSE b \in Browsers : TRUE]
====
