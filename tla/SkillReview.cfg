\* Slices: handlers in turn on two candidates; handlers at once on one.
CONSTANTS
    Workers = {w1, w2}
    Actions = {a1, a2}
    Workspaces = {s1, s2}
    Processes = {p1, p2}
    Contents = {x1, x2, x3}
    Valid = {x1, x2}
    MaxRequests = 2
    MaxPublished = 2
SPECIFICATION Spec
INVARIANTS
    ValidOnly
    ConsumedMeansDone
PROPERTIES
    SingleUse
SYMMETRY Symmetry
ACTION_CONSTRAINT Slices
