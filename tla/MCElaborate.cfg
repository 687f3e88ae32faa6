SPECIFICATION Spec
CONSTANTS
    WordWidth = 4
    IndexBits = 3
    Designs <- MCDesigns
    Constant <- MCConstant
INVARIANTS
    NumbersHold
    ShapesKept
    AcceptedSuitsKernel
    AcceptsExactlyLegal
    FlatIsHierarchy
PROPERTIES
    NothingRenumbered
    ElaborationEnds
CHECK_DEADLOCK FALSE
