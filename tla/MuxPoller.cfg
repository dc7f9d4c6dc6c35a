SPECIFICATION FairSpec
CONSTANTS
    a = a
    b = b
    c = c
    Hosts <- ThreeHosts
    MaxHosts = 2
    Retries = 1
INVARIANTS
    TypeOK
    WindowBound
    OneCallbackEach
PROPERTIES
    PollEnds
    RoundImplemented
CHECK_DEADLOCK FALSE
