SPECIFICATION Spec
CONSTANTS
    WordWidth = 1
    SignalId <- MCSignals
    Width <- MCWidth
    Depth <- MCDepth
    Expr <- MCExprs
    Stmt <- MCStmts
    Within <- StmtsOf
    Modules <- MCModules
    Inputs <- MCInputs
    DriveWord <- MCDrive
    MAX_PASSES = 5
    Eval <- EvalExpr
INVARIANTS
    Settled
    SettleInv
    PanicNamesALoop
    SettlesInItsDepth
    ShallowLogicSettles
PROPERTIES
    OrderDoesNotMatter
    SetAllIsRepeatedSet
    ClosedLatchesHold
    ImplementsAnswerSim
    CallsEnd
CHECK_DEADLOCK FALSE
