SPECIFICATION FairSpec
CONSTANTS
    MavSize = 2
    BcMax = 2
    MavMax = 1
    MavLow = 0
    RecoverPct = 50
    Modulus = 7
    MaxDelta = 3
    Traffic = {0, 1, 3}
    Gaps = {1, 2}
    Restarts = FALSE
    Scale = 4
INVARIANTS
    TypeOK
    MavIsMean
    OneNoticePerAlarm
    HighRateIsAlarmed
    RateIsTraffic
PROPERTY
    AlarmClears
