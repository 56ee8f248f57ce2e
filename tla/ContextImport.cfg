SPECIFICATION Spec
CONSTANTS
    c1 = c1
    c2 = c2
    Calls = {c1, c2}
    Here = Here
    There = There
    NoKey = NoKey
    NoSession = NoSession
    MaxClock = 2
    MaxFailures = 1
    Beside = {c1}
    BundleEvents <- MCBundleEvents
    BundleStatuses = {"active", "completed"}
    BundleRecords <- MCBundleRecords
    LocalCopies <- MCLocalCopies
INVARIANTS
    CountsMatch
    HappenedOnce
    OneSuccessor
    CitationsFaithful
PROPERTIES
    ForkNeedsOverlap
    ImportConverges
CHECK_DEADLOCK FALSE
