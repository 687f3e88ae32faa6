SPECIFICATION Spec
CONSTANTS
    WordWidth = 4
    IndexBits = 3
    Designs <- MCEvents
    Constant <- MCConstant
INVARIANT EventsHeard
CHECK_DEADLOCK FALSE
