SPECIFICATION Spec
CONSTANTS
    w = w
    x = x
    y = y
    h = h
    s1 = s1
    s2 = s2
    o1 = o1
    Paths <- MCPaths
    Within <- MCWithin
    Sessions <- MCSessions
    Ops <- MCOps
    SessionOf <- MCSessionOf
    Hosts <- MCHosts
INVARIANTS
    CountsTruthful
    CoverageKept
    PendingCovered
    NothingStranded
CHECK_DEADLOCK FALSE
