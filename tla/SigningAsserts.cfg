\* The build of the README, which keeps assert.
SPECIFICATION Spec
CONSTANTS
    rsa = rsa
    ec = ec
    Chunk = {a, b}
    Key = {rsa, ec}
    MaxLength <- MCMaxLength
    MinLength <- MCMinLength
    Asserts = TRUE
    MaxChunks = 2
    MaxFailures = 2
    None = None
INVARIANTS
    AssertionHolds
