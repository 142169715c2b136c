SPECIFICATION Spec
CONSTANTS
    cols = 17
    rows = 9
    tileRadius = 1
INVARIANTS OneLandMass
CHECK_DEADLOCK FALSE
