SPECIFICATION Spec
CONSTANTS
    Intfs = {i, j}
    MaxPolls = 3
INVARIANTS
    TypeOK
    FilesUnlessOverlap
    RateNeverTooHigh
