\* Two calls on two files, an outsider's edit, a failing system call, a crash.
CONSTANTS
    Files = {f1, f2}
    Contents = {u, v}
    Torn = Torn
    Absent = Absent
    Calls = {c1, c2}
    NoCall = NoCall
    MaxRecent = 2
    MaxFiles = 2
    MaxEdits = 1
    MaxFaults = 1
    MaxCrashes = 1
SPECIFICATION FairSpec
ACTION_CONSTRAINT Slices
CHECK_DEADLOCK FALSE
INVARIANTS
    Isolation
PROPERTIES
    AllOrNothing
    RollbackOnlyApplied
    ImplementsTransaction
    CallsReturn
