SPECIFICATION Spec
CONSTANTS
    Reductions <- FormsAndMisread
    Variables <- VariableAndMisread
    Ids <- SomeIds
    MaxStatements = 5
    MaxVariables = 1
INVARIANT MisencodingsKnown
INVARIANT GrowthBounded
