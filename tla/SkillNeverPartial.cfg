\* Two workspaces of one server process publish a global skill.
CONSTANTS
    c1 = c1
    c2 = c2
    c3 = c3
    c4 = c4
    ta = ta
    tb = tb
    tc = tc
    l1 = l1
    l2 = l2
    w1 = w1
    w2 = w2
    Global = Global
    None = None
    Empty = Empty
    Torn = Torn
    Calls = {c1, c2, c3, c4}
    Lineages = {l1, l2}
    Contents = {ta, tb}
    Process <- MCProcess
    Workspace <- MCWorkspace
    Owner <- MCOwner
    Arrivals = {{c1, c4}}
    Histories <- NoHistory
    Weak <- NoWeak
    MaxEdits = 0
    MaxFailures = 0
SPECIFICATION Spec
CHECK_DEADLOCK FALSE
INVARIANTS
    NeverPartial
