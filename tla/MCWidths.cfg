SPECIFICATION Spec
CONSTANTS
    WordWidth = 3
    IndexBits = 2
    MaxForms = 2
    Width <- MCWidth
    Depth <- MCDepth
    Packed <- MCPacked
    Unpacked <- MCUnpacked
    IntegerVars = {}
    FirstTexts <- MCTexts
    Indexed = {2, 3}
    Counts = {2}
    OtherTexts <- MCOthers
INVARIANTS
    TypesAgree
    SelfDeterminedExact
    AssignmentsExact
    CasesExact
CHECK_DEADLOCK FALSE
