\* A logger is set once, two requests are made.
SPECIFICATION Spec
CONSTANTS
    Header = {h1}
    TextOption = {"certPath", "unixSocketPath"}
    Text = {"t"}
    Timeout = {0, 5}
    RedirectLimit <- MCNoRedirectLimit
    Logger = {l1}
    Url = {"u1"}
    Body <- MCLongBodies
    Byte = {1, 2, 3}
    None = None
    Setter = {"SetLogger"}
    Call = {"GET"}
    HttpCode = {404}
    CurlError = {7}
    MaxHeader = 1
    MaxRead = 3
    MaxHeads = 0
    MaxChunks = 0
INVARIANTS
    LoggerCatchesRequests
