SPECIFICATION FairSpec
CONSTANTS
    ARENA_CHUNK = 132
    Requests <- BlockSizes
    TokenPlaces = 12
    TextPlaces = 10
    HolePlaces = 6
    MaxTokens = 13
    Statements <- Forms
    WideMoves <- WideForms
    Addresses <- AddressForms
    Declarable <- Variables
    MaxVariables = 2
    ELF_HEADER_SIZE = 3
    PAGE = 4
    BASE = 100
INVARIANT TypeOK
INVARIANT RejectedLeavesOutput
INVARIANT SuccessIsWhole
 
INVARIANT ImageLoads
INVARIANT WarningsKnown
INVARIANT ReadsAsWritten
INVARIANT BlocksApart
PROPERTY EndsOnFiles
