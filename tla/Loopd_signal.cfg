SPECIFICATION FairSpec
CONSTANTS
    h1 = h1
    h2 = h2
    Devices <- TwoDevices
    MaxAlarms = 0
    MaxJobs = 2
PROPERTY
    SignalReachesSleeper
CHECK_DEADLOCK FALSE
