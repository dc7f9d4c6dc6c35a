SPECIFICATION ScreenSpec
CONSTANTS
    Interfaces <- MCInterfaces
    Bulk = 2
    Movable = {2}
INVARIANTS
    WalkIsSound
PROPERTIES
    ScreenFits
    ScreenCatchesUp
