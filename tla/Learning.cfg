CONSTANTS
    Workers = {w1, w2}
    Workspaces = {s1, s2}
    MinSupport = 1
    MaxSupport = 2
    MaxContra = 2
    MaxRecords = 3
    MaxNow = 1
    MaxMissed = 1
SPECIFICATION Spec
INVARIANTS
    OneActiveInference LinkedKnowledge
PROPERTIES
    UserWordStands VerdictKept
SYMMETRY Symmetry
ACTION_CONSTRAINT Slices
