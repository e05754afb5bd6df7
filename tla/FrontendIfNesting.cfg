SPECIFICATION Spec
CONSTANTS
    Parts <- AllParts
    BlockNames <- Main
    VariableNames = {}
    LabelNames = {}
    Systems = {"UNIX"}
    Levels = {}
    ArraySizes = {}
    Lengths = {}
    Addresses = {}
    Plain = {}
    MaxRepeat = 2
    MaxIf = 2
    MaxDepth = 3
    MaxGroups = 8
INVARIANT IfStackInBounds
