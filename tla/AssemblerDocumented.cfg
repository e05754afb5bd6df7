SPECIFICATION Spec
CONSTANTS
    Reductions <- Documented
    Variables <- Variable
    Ids <- SomeIds
    MaxStatements = 4
    MaxVariables = 1
INVARIANT TranslatedAsWritten
