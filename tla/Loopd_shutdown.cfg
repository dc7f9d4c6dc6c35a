SPECIFICATION FairSpec
CONSTANTS
    h1 = h1
    h2 = h2
    Devices <- OneDevice
    MaxAlarms = 1
    MaxJobs = 2
PROPERTY
    ShutdownCompletes
CHECK_DEADLOCK FALSE
