SPECIFICATION Spec
CONSTANTS
    h1 = h1
    h2 = h2
    Devices <- OneDevice
    MaxAlarms = 1
    MaxJobs = 2
INVARIANT
    NoDanglingUse
CHECK_DEADLOCK FALSE
