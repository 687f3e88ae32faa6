SPECIFICATION Spec
CONSTANTS
    WordWidth = 2
    SignalId <- MCSignals
    Width <- MCWidth
    Depth <- MCDepth
    Expr <- MCExprs
    Stmt <- MCStmts
    Within <- StmtsOf
    Modules <- MCModules
    Inputs <- MCInputs
    DriveWord <- MCDrive
    MAX_PASSES = 3
    Eval <- EvalExpr
INVARIANTS
    TypeOK
    DriverInv
    EdgeReadsShown
PROPERTIES
    ImplementsCycleSim
    ImplementsReference
    LastWriteWins
    ChangedByDriver
