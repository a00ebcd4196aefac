\* One request is redirected once.
SPECIFICATION Spec
CONSTANTS
    Header = {h1}
    TextOption = {"certPath", "unixSocketPath"}
    Text = {"t"}
    Timeout = {0, 5}
    RedirectLimit <- MCNoRedirectLimit
    Logger = {l1}
    Url = {"u1"}
    Body <- MCLongBodies
    Byte = {1, 2, 3}
    None = None
    Setter = {"FollowRedirects"}
    Call = {"GET"}
    HttpCode = {302, 404}
    CurlError = {7}
    MaxHeader = 1
    MaxRead = 3
    MaxHeads = 1
    MaxChunks = 0
INVARIANTS
    HeadersOfOneResponse
