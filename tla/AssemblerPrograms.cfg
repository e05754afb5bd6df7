SPECIFICATION Spec
CONSTANTS
    Reductions <- RightReductions
    Variables <- Variable
    Ids <- SomeIds
    MaxStatements = 4
    MaxVariables = 1
INVARIANT TypeOK
INVARIANT Framed
PROPERTY OnlyFieldsPatched
PROPERTY ExecutesAsWritten
