SPECIFICATION Spec
CONSTANTS
    r = r
    a = a
    b = b
    c = c
    Paths <- MCPaths
    Within <- MCWithin
    Rank <- MCRank
    Globals <- MCGlobals
    Launchers = {l1}
    Default = l1
    Home = a
    MaxRoots = 2
    MaxRequest = 1
INVARIANTS StoredWithinCeilings EffectiveIsMeet
PROPERTIES IssuedAsAsked PruneNeverBroadens
CHECK_DEADLOCK FALSE
