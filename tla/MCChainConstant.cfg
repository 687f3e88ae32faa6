SPECIFICATION Spec
CONSTANTS
    MaxOperators = 3
    Chains <- MCChains
INVARIANTS
    ConstantsGroupAlike
CHECK_DEADLOCK FALSE
