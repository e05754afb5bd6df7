SPECIFICATION Spec
CONSTANTS
    Parts <- AllParts
    BlockNames <- Main
    VariableNames = {}
    LabelNames = {}
    Systems = {"UNIX"}
    Levels <- AnyLevel
    ArraySizes = {}
    Lengths = {}
    Addresses = {}
    Plain = {}
    MaxRepeat = 2
    MaxIf = 2
    MaxDepth = 3
    MaxGroups = 6
INVARIANT TypeOK
INVARIANT StacksMatchFrames
INVARIANT BlocksWellNested
PROPERTY JumpsLeaveTheirLoop
PROPERTY LoopStackMisuseKnown
