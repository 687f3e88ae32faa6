SPECIFICATION Spec
CONSTANTS
    MaxOperators = 5
    Chains <- MCChains
INVARIANTS
    TypeOK
    StacksInv
    RanksInv
    OnceInv
    GroupingsAreVerilogs
    WholeChainLowered
PROPERTIES
    ChainEnds
CHECK_DEADLOCK FALSE
