SPECIFICATION Spec
CONSTANTS
    h1 = h1
    h2 = h2
    Devices <- TwoDevices
    MaxAlarms = 1
    MaxJobs = 2
SYMMETRY DeviceSymmetry
INVARIANTS
    TypeOK
    AlarmJobsDrained
    NoDeviceLost
    LivePointersResolve
CHECK_DEADLOCK FALSE
