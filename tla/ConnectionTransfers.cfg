\* Few settings, full transfers: what comes back.
SPECIFICATION Spec
CONSTANTS
    Header = {h1}
    TextOption = {"certPath"}
    Text = {"t"}
    Timeout = {0, 5}
    RedirectLimit <- MCRedirectLimits
    Logger = {l1}
    Url = {"u1", "u2"}
    Body <- MCLongBodies
    Byte = {1, 2, 3}
    None = None
    Setter = {"SetTimeout", "FollowRedirects", "SetWriteFunction"}
    Call = {"GET", "POST", "PUT", "HEAD"}
    HttpCode = {200, 302, 303, 307, 404}
    CurlError = {99, 100}
    MaxHeader = 1
    MaxRead = 2
    MaxHeads = 2
    MaxChunks = 2
INVARIANTS
    TypeOK
    ResponseOfThisRequest
    AnswerClassified
    ErrorTextIsOwn
    AcceptedBodyIsWhole
PROPERTIES
    ImplementsExchange
