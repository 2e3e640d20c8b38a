SPECIFICATION Spec
CONSTANTS
    r = r
    a = a
    b = b
    c = c
    Paths <- MCPaths
    Within <- MCWithin
    Rank <- SiblingRank
    Globals <- MCGlobals
    Launchers = {l1}
    Default = l1
    Home = a
    MaxRoots = 3
    MaxRequest = 1
INVARIANT EffectiveIsMeet
CHECK_DEADLOCK FALSE
