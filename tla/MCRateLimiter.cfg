CONSTANTS
    Calls = {c1, c2}
    Capacity = 3
    Rate = 2
    Skews <- MCSkews
    MaxTime = 7
    MaxLost = 3
SYMMETRY Symmetric
SPECIFICATION Spec
INVARIANTS
    TypeOK
    WithinRate
PROPERTIES
    ForgettingIsHarmless
