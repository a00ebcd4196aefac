\* Settings, a time limit among them, and the logger changed in the middle of a
\* transfer; the server may fall silent anywhere in it.
SPECIFICATION FairSpec
CONSTANTS
    Header = {h1}
    TextOption = {}
    Text = {"t"}
    Timeout = {0, 5}
    RedirectLimit <- MCNoRedirectLimit
    Logger = {l1, l2}
    Url = {"u1"}
    Body <- MCLongBodies
    Byte = {1, 2, 3}
    None = None
    Setter = {"SetFileProgressCallback", "SetLogger", "SetUserAgent", "AppendHeader", "SetFileProgressCallbackData", "SetTimeout"}
    Call = {"GET", "PUT"}
    HttpCode = {404}
    CurlError = {7}
    MaxHeader = 1
    MaxRead = 2
    MaxHeads = 1
    MaxChunks = 0
INVARIANTS
    WireIsAsked
    DebugDataLive
PROPERTIES
    TimeoutEndsRequest
