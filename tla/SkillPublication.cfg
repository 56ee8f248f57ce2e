\* Two calls, of one lock or of two processes, one of them cut off.
CONSTANTS
    c1 = c1
    c2 = c2
    c3 = c3
    c4 = c4
    ta = ta
    tb = tb
    tc = tc
    l1 = l1
    l2 = l2
    w1 = w1
    w2 = w2
    Global = Global
    None = None
    Empty = Empty
    Torn = Torn
    Calls = {c1, c2, c3, c4}
    Lineages = {l1, l2}
    Contents = {ta, tb, tc}
    Process <- MCProcess
    Workspace <- MCWorkspace
    Owner <- MCOwner
    Arrivals = {{c1, c2}, {c1, c3}, {c2, c3}}
    Histories <- MCHistories
    Weak <- MCWeak
    MaxEdits = 1
    MaxFailures = 1
SPECIFICATION Spec
ACTION_CONSTRAINT Slices
SYMMETRY CallSymmetry
CHECK_DEADLOCK FALSE
INVARIANTS
    LineageConsistent
    AnchorRespected
    LiveMatchesRegistry
