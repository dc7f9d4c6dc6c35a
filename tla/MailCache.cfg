SPECIFICATION MailSpec
CONSTANTS
    Procs = {p1, p2, p3}
    None = None
    MaxTries = 0
    MaxKills = 1
SYMMETRY ProcSymmetry
INVARIANTS
    MailTypeOK
    HolderSendsWhole
    TornNeedsDisplacement
    CrashNeedsCleanup
