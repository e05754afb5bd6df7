SPECIFICATION FairSpec
CONSTANTS
    Alphabet = {"space", "newline", "repeat", "end", "n", "slash", "star", "colon", "quote", "backslash", "apostrophe", "hash", "digits", "unknown"}
    MaxLength = 3
    CoreAlphabet = {"newline", "n", "slash", "star", "quote", "backslash"}
    MaxCoreLength = 5
    Inputs <- Files
INVARIANT TypeOK
INVARIANT ReadsConstructs
INVARIANT BuffersStartEmpty
PROPERTY ScanEnds
