SPECIFICATION Spec
CONSTANTS
    WordWidth = 4
    IndexBits = 3
    MAX_LOOP_ITERATIONS = 2
    MaxForms = 2
    Width <- MCWidth
    Depth <- MCDepth
    Packed <- MCPacked
    Unpacked <- MCUnpacked
    IntegerVars = {"i", "j"}
    EmptyTasks = {"empty_statement"}
    Assignments <- MCAssignments
    Others <- MCOthers
    Conditions <- MCConditions
    CaseHeads <- MCCases
    LoopHeads <- MCLoops
INVARIANTS
    
    LoopsUnrolledExactly
CHECK_DEADLOCK FALSE
