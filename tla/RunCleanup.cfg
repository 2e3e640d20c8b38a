SPECIFICATION FairSpec
CONSTANTS
    Ops = {o1, o2}
    Mounts = {m1, m2}
    MaxCrashes = 2
INVARIANTS ContainerConfined LeaseReleasedLast ReconciledIsClean
PROPERTIES CleanupEnds
CHECK_DEADLOCK FALSE
