SPECIFICATION Spec
CONSTANTS
    WordWidth = 3
    IndexBits = 2
    MaxForms = 1
    Width <- MCWidth
    Depth <- MCDepth
    Packed <- MCPacked
    Unpacked <- MCUnpacked
    IntegerVars = {}
    FirstTexts <- OddTexts
    Indexed = {2, 3}
    Counts = {}
    OtherTexts <- OddOthers
INVARIANTS
    NegatedReductionsExact
CHECK_DEADLOCK FALSE
