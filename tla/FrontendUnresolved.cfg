SPECIFICATION Spec
CONSTANTS
    Parts <- AllParts
    BlockNames <- Main
    VariableNames = {}
    LabelNames <- X
    Systems = {"UNIX"}
    Levels = {}
    ArraySizes = {}
    Lengths = {}
    Addresses = {}
    Plain = {}
    MaxRepeat = 2
    MaxIf = 2
    MaxDepth = 0
    MaxGroups = 3
INVARIANT SymbolErrorsReported
