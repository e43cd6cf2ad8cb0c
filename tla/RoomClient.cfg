\* One problem that may be selected again, one hint, one custom case, three messages on
\* the way.
SPECIFICATION Spec
CONSTANTS
    Problems = {p1}
    HintLimit = 1
    MaxCustoms = 1
    MaxWire = 3
INVARIANT NotStuckExecuting NothingInvented PeerShown
