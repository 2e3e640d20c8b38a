SPECIFICATION FairSpec
CONSTANTS
    r1 = r1
    r2 = r2
    s1 = s1
    l1 = l1
    Requests = {r1, r2}
    Sessions = {s1}
    Launchers = {l1}
    SessionOf <- MCSessionOf
    LauncherOf <- MCLauncherOf
    KindOf <- MCKindOf
    Cancellers = {c1}
    Shutdown = sd
    Pollers = {p1}
    MaxPerSession = 1
    MaxGlobal = 2
    MaxGlobalBuilds = 1
    MaxCompleted = 1
INVARIANTS CapacityExact DockerWithinCeilings ShutdownSignalsAll
    SingleForceOwner
PROPERTIES CancelAnswersTruthfully CancelIsAnswered ShutdownReturns
CHECK_DEADLOCK FALSE
