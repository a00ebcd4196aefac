\* Dates up to 2101, amounts with up to three decimals, lists of two entries,
\* texts of four characters, data of four bytes; signatures in a build without
\* assertions.
SPECIFICATION MCSpec
CONSTANTS
    LastYear = 2101
    TimeOfDay <- MCTimes
    Zone = 7200
    MaxAmount = 1000
    Amounts <- MCAmounts
    Decimals = {0, 1, 2, 3}
    Fraction <- MCFraction
    Plain = {"a", "A", "b", "="}
    Space = {" "}
    Lower <- MCLower
    Assign = "="
    Keys <- MCKeys
    Values <- MCValues
    MaxParams = 2
    Delim = ","
    Quote <- MCQuote
    Escape <- MCEscape
    DoubleQuote <- MCQuote
    Lists <- MCLists
    Char = {"a", "b"}
    Subject <- MCSubjects
    Search <- MCSearch
    Replace <- MCSearch
    MaxSubject = 6
    Open = "{"
    Close = "}"
    Dollar = "$"
    And = "&"
    Id = "id"
    Names <- MCNames
    Numbers <- MCNumbers
    Bases <- MCBases
    ParamTexts <- MCParamTexts
    Bytes = {0, 97, 255}
    MaxBinary = 4
    Byte = {"a", "n"}
    Newline = "n"
    Infotype = {"text", "data_in", "ssl_data_in"}
    Printed = {"text", "data_in"}
    MaxPiece = 2
    MaxPieces = 2
    SizeModulus = 8
    rsa = rsa
    ec = ec
    Chunk = {a, b}
    Key = {rsa, ec}
    MaxLength <- MCMaxLength
    MinLength <- MCMinLength
    Asserts = FALSE
    MaxChunks = 2
    MaxFailures = 2
    None = None
CHECK_DEADLOCK FALSE
INVARIANTS
    SignatureOfAllGiven
    MemoryAccountedFor
    KeyAccountedFor
    WrittenTimeReadBack
    DateCoversItsDay
    LocalReadOffByZone
    TodayIsAnyDay
    AmountReadBack
    PeerAmountExact
    EntriesFound
    ListReadBack
    ParametersReadBack
    UnquotedKeepsTheQuotes
    QuotedPairSplit
    JoinedListSplits
    LookupsAgree
    EachReplacedOnce
    PlacesTakeTheirTexts
    DecodeUndoesEncode
    WholeGroupsComeBack
    LinesAreThePieces
PROPERTY
    LessToSearch
