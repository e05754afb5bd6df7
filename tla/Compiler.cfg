SPECIFICATION Spec
CONSTANTS
    main = main
    f = f
    Parts <- AllParts
    BlockNames <- MainAndF
    VariableNames <- X
    LabelNames <- L
    Systems = {"UNIX"}
    Levels = {1, 2}
    ArraySizes = {}
    Lengths = {}
    Plain = {"machine", "exit"}
    MaxRepeat = 2
    MaxIf = 2
    MaxDepth = 2
    MaxGroups = 5
    Ids <- SomeIds
INVARIANT CompiledAsWritten
INVARIANT IdsFit
SYMMETRY EitherName
