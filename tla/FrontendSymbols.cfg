SPECIFICATION Spec
CONSTANTS
    Parts <- AllParts
    BlockNames <- MainAndF
    VariableNames <- X
    LabelNames <- FAndX
    Systems = {"UNIX", "SHELL"}
    Levels = {0, 1}
    ArraySizes = {0}
    Lengths = {3}
    Addresses = {7}
    Plain = {"machine", "exit"}
    MaxRepeat = 2
    MaxIf = 2
    MaxDepth = 1
    MaxGroups = 3
INVARIANT IdsDistinct
INVARIANT DefinedOnce
INVARIANT UnresolvedCounted
INVARIANT ReferencesHavePlaces
