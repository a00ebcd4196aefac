\* Every file of up to two keys, with values of the right and of wrong types.
SPECIFICATION Spec
CONSTANTS
    FileKey <- MCKeys
    Number <- MCNumbers
    Text = {"", "cavage12", "d/"}
    SlashEnded = {"d/"}
    UriText = {"d/"}
    UintRange = 131072
    LongHalf = 131072
    MaxKeys = 2
CHECK_DEADLOCK FALSE
INVARIANTS
    RunsOnTheWholeFile
    PlainHttpAsConfigured
    ExitCodeTells
PROPERTY
    MainGoesOn
