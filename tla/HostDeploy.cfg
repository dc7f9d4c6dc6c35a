SPECIFICATION DeploySpec
CONSTANTS
    Types = {A, B}
    A = A
    B = B
    Settings <- RowsOfTypes
    Communities = {c1, c2}
    Uplinks = {u1, u2}
    None = None
SYMMETRY DeploySymmetry
INVARIANTS
    DeployTypeOK
    Converges
    HostIsValid
    ParamHolds
