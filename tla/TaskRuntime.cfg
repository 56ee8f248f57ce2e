\* Two tasks, two server processes, a lease that expires after one tick.
CONSTANTS
    TaskIds = {t1, t2}
    Workers = {w1, w2}
    Keys = {k1}
    NoWorker = NoWorker
    NoKey = NoKey
    TTL = 1
    MaxDelay = 1
    MaxClock = 2
    MaxVersion = 7
    MaxLog = 8
    MaxSessions = 1
SPECIFICATION Spec
ACTION_CONSTRAINT Slices
SYMMETRY Symmetry
CHECK_DEADLOCK FALSE
INVARIANTS
    LeaseIffLive
    OneWriterPerLease
    CompletionFollowsPass
    HistoryMatchesState
PROPERTIES
    TerminalFrozen
    ImplementsLease
