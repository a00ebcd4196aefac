\* Many settings, short transfers: what reaches the wire.
SPECIFICATION Spec
CONSTANTS
    Header = {h1}
    TextOption = {"certPath", "unixSocketPath"}
    Text = {"t"}
    Timeout = {0, 5}
    RedirectLimit <- MCNoRedirectLimit
    Logger = {l1}
    Url = {"u1"}
    Body <- MCLongBodies
    Byte = {1, 2, 3}
    None = None
    Setter = {"AppendHeader", "SetHeaders", "certPath", "unixSocketPath", "SetUserAgent", "SetBasicAuth", "SetProxy", "SetTimeout", "FollowRedirects", "SetNoSignal", "SetVerifyPeer", "SetVerifyHost"}
    Call = {"GET", "POST", "PATCH", "DELETE", "OPTIONS"}
    HttpCode = {404}
    CurlError = {7}
    MaxHeader = 1
    MaxRead = 3
    MaxHeads = 0
    MaxChunks = 0
INVARIANTS
    IdleHandleClean
    WireIsAsked
