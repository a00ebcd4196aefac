\* A file that uses the documented name of a key.
SPECIFICATION Spec
CONSTANTS
    FileKey <- MCKeys
    Number = {8080}
    Text = {"cavage12"}
    SlashEnded = {}
    UriText = {}
    UintRange = 131072
    LongHalf = 131072
    MaxKeys = 1
CHECK_DEADLOCK FALSE
INVARIANTS
    TlsAsDocumented
