SPECIFICATION Spec
CONSTANTS
    Ops = {o1}
    Mounts = {m1}
    MaxCrashes = 1
INVARIANT RecordBeforeKernelState
CHECK_DEADLOCK FALSE
