SPECIFICATION FairSpec
CONSTANTS
    Texts <- MCTexts
    Patterns <- MCPatterns
    Versions = {3, 4, 5}
    MaxTexts = 2
    Responses = {8, 12, 15}
INVARIANT TypeOK
INVARIANT RequestIsFramed
INVARIANT ParsedWhole
PROPERTY EveryResponseIsParsed
