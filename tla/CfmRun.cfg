SPECIFICATION CfmSpec
CONSTANTS
    CfmHosts = {h1, h2}
    Vlans = {v1, v2}
    Trap = trap
    TrapHosts = {h2}
    MaxRuns = 3
CHECK_DEADLOCK FALSE
INVARIANTS
    CfmTypeOK
    MacroNamesLive
    NothingLeftOver
    ReportIsTrue
