----------------------------- MODULE Connection -----------------------------
(***************************************************************************)
(* RestClient::Connection (deps/restclient-cpp/source/connection.cc): one  *)
(* object, used by one thread, wrapping one libcurl easy handle.           *)
(*                                                                         *)
(* The class keeps its configuration in fields and copies it to the handle *)
(* for each request: the verb sets its own options, performCurlRequest the *)
(* rest, some of them only when a field is non-empty or true, and resets   *)
(* the handle afterwards.  While curl_easy_perform runs, libcurl calls     *)
(* back: headers, body, upload data, progress.  The progress callback is   *)
(* given the connection itself by default, so configuration calls may      *)
(* happen in the middle of a transfer.                                     *)
(*                                                                         *)
(* What libcurl and the server do between those callbacks is the           *)
(* environment: the actions of the transfer below, external to the code.   *)
(***************************************************************************)
EXTENDS RequestTypes

CONSTANTS
    Setter,      \* the configuration calls the caller makes
    Call,        \* the request calls the caller makes
    HttpCode,    \* statuses of the server's heads, interim ones aside
    CurlError,   \* error codes curl_easy_perform may give
    MaxHeader,   \* bound on how often one header line is appended
    MaxRead,     \* largest buffer libcurl offers to the read callback
    MaxHeads,    \* bound on the response heads before the final one
    MaxChunks    \* bound on the pieces of a response body

TIMEDOUT == 28          \* CURLE_OPERATION_TIMEDOUT
TOO_MANY_REDIRECTS == 47
SEND_FAIL_REWIND == 65

ASSUME ConnectionAssumption ==
    /\ HttpCode \subseteq 200..599
    /\ CurlError \subseteq Nat \ {0}
    /\ {MaxHeader, MaxHeads, MaxChunks} \subseteq Nat
    /\ MaxRead \in Nat \ {0}

VARIABLES
    config,   \* the configuration fields
    logger,   \* the logger member (shared_ptr), None or a logger
    handle,   \* curlHandle is not NULL
    opt,      \* the options held by the easy handle
    phase,    \* "idle", or how far the running curl_easy_perform is
    up,       \* up_obj on the stack of put and patch: data, bytes read off
    resp,     \* the Response the request fills
    errbuf,   \* curlErrorBuf: garbage, empty, or about the request for a url
    last,     \* lastRequest
    xfer,     \* the transfer as libcurl and the server see it
    asked     \* history: what the running request was asked to be

vars == <<config, logger, handle, opt, phase, up, resp, errbuf, last, xfer, asked>>

(***************************************************************************)
(* The easy handle.                                                        *)
(***************************************************************************)
(* Every option as curl_easy_reset leaves it. *)
DefaultOptions ==
    [url |-> None, writer |-> "stdout", writeData |-> FALSE, headerData |-> FALSE,
     headers |-> [h \in Header |-> 0], username |-> "", errorBuffer |-> FALSE,
     agent |-> <<>>, timeout |-> 0, noSignal |-> FALSE, redirects |-> <<>>,
     progress |-> "", text |-> [o \in TextOption |-> ""],
     verifyPeer |-> TRUE, verifyHost |-> TRUE, proxy |-> NoProxy, tunnel |-> FALSE,
     post |-> FALSE, postFields |-> <<>>, customRequest |-> "", upload |-> FALSE,
     readData |-> FALSE, noBody |-> FALSE, debugData |-> None]

Options ==
    [url : Url \cup {None}, writer : Writer \cup {"stdout"},
     writeData : BOOLEAN, headerData : BOOLEAN,
     headers : [Header -> Nat], username : OptionalText, errorBuffer : BOOLEAN,
     agent : Announced \cup {<<>>},
     timeout : Timeout \cup {0}, noSignal : BOOLEAN,
     redirects : Follow,
     progress : OptionalText \cup {"this"}, text : [TextOption -> OptionalText],
     verifyPeer : BOOLEAN, verifyHost : BOOLEAN, proxy : Proxy, tunnel : BOOLEAN,
     post : BOOLEAN, postFields : AnyBody,
     customRequest : {"", "PATCH", "DELETE", "HEAD", "OPTIONS"}, upload : BOOLEAN,
     readData : BOOLEAN, noBody : BOOLEAN, debugData : Logger \cup {None}]

(* The options a verb sets on the handle before performCurlRequest. *)
PostOptions(o, body)    == [o EXCEPT !.post = TRUE, !.postFields = body]
UploadOptions(o)        == [o EXCEPT !.upload = TRUE, !.readData = TRUE]
CustomOptions(o, name)  == [o EXCEPT !.customRequest = name]
NoBodyOptions(o, name)  == [o EXCEPT !.customRequest = name, !.noBody = TRUE]

(* Mutant: CURLOPT_ERRORBUFFER is forgotten. *)
NoErrorBuffer(o, c, url) ==
    [o EXCEPT !.url = url, !.writer = c.writer, !.writeData = TRUE,
              !.headerData = TRUE, !.headers = c.headers, !.agent = UserAgent(c),
              !.username = IF c.username # "" THEN c.username ELSE @]

(* The options performCurlRequest sets, in its order; those under a
   condition in the code keep the value the handle has when it fails. *)
ExchangeOptions(o, c, url) ==
    [o EXCEPT !.url         = url,
              !.writer      = c.writer,
              !.writeData   = TRUE,
              !.headerData  = TRUE,
              !.headers     = c.headers,
              !.username    = IF c.username # "" THEN c.username ELSE @,
              !.errorBuffer = TRUE,
              !.agent       = UserAgent(c)]

LimitOptions(o, c) ==
    [o EXCEPT !.timeout   = IF c.timeout # 0 THEN c.timeout ELSE @,
              !.noSignal  = @ \/ c.timeout # 0 \/ c.noSignal,
              !.redirects = IF c.follow THEN <<c.maxRedirects>> ELSE @,
              !.progress  = IF ~c.progressFn THEN @
                            ELSE IF c.progressData # "" THEN c.progressData ELSE "this"]

PeerOptions(o, c) ==
    [o EXCEPT !.text       = [t \in TextOption |->
                                IF c.text[t] # "" THEN c.text[t] ELSE o.text[t]],
              !.verifyPeer = c.verifyPeer,
              !.verifyHost = c.verifyHost,
              !.proxy      = IF c.proxy.addr # "" THEN c.proxy ELSE @,
              !.tunnel     = @ \/ c.proxy.addr # ""]

RequestOptions(o, c, url) ==
    PeerOptions(LimitOptions(ExchangeOptions(o, c, url), c), c)

(* The request libcurl makes of the options of a handle, the upload object
   being what the read callback serves. *)
OnWire(o, u) ==
    [verb     |-> IF o.customRequest # "" THEN o.customRequest
                  ELSE IF o.upload THEN "PUT"
                  ELSE IF o.post THEN "POST" ELSE "GET",
     url      |-> o.url,
     body     |-> IF o.readData THEN u.data
                  ELSE IF o.post THEN o.postFields ELSE <<>>,
     wantBody |-> ~o.noBody,
     settings |-> [headers    |-> o.headers,
                   text       |-> o.text,
                   agent      |-> o.agent,
                   username   |-> o.username,
                   proxy      |-> o.proxy,
                   tunnel     |-> o.tunnel,
                   timeout    |-> o.timeout,
                   redirects  |-> o.redirects,
                   noSignal   |-> o.noSignal,
                   progress   |-> o.progress,
                   writer     |-> o.writer,
                   verifyPeer |-> o.verifyPeer,
                   verifyHost |-> o.verifyHost]]

InTransfer == phase \in {"sending", "receiving"}
Busy == phase # "idle"

EmptyResponse == [code |-> 0, headers |-> {}, body |-> <<>>]
NoUpload == [data |-> <<>>, read |-> 0]
NoTransfer ==
    [url |-> None, sent |-> <<>>, heads |-> 0, hops |-> 0, via |-> {}, chunks |-> 0,
     status |-> 0, res |-> 0]

Init ==
    /\ config = [headers |-> [h \in Header |-> 0], text |-> [o \in TextOption |-> ""],
                 customAgent |-> "", username |-> "", proxy |-> NoProxy, timeout |-> 0,
                 follow |-> FALSE, maxRedirects |-> -1, noSignal |-> FALSE,
                 progressFn |-> FALSE, progressData |-> "", writer |-> "default",
                 verifyPeer |-> TRUE, verifyHost |-> TRUE]
    /\ logger = None
    /\ handle = TRUE
    /\ opt = DefaultOptions
    /\ phase = "idle"
    /\ up = NoUpload
    /\ resp = EmptyResponse
    /\ errbuf = "garbage"            \* never initialised by the constructor
    /\ last = [curlCode |-> 0, curlError |-> ""]
    /\ xfer = NoTransfer
    /\ asked = None

(***************************************************************************)
(* Configuration calls: between requests, or from the progress callback of *)
(* a running one.                                                          *)
(***************************************************************************)
MayConfigure == phase = "idle" \/ (InTransfer /\ opt.progress # "")

Configure(name, c) ==
    /\ name \in Setter
    /\ MayConfigure
    /\ config' = c
    /\ UNCHANGED <<logger, handle, opt, phase, up, resp, errbuf, last, xfer, asked>>

AppendHeader == \E h \in Header :
    /\ config.headers[h] < MaxHeader
    /\ Configure("AppendHeader", [config EXCEPT !.headers[h] = @ + 1])

SetHeaders == \E hs \in [Header -> 0..MaxHeader] :
    Configure("SetHeaders", [config EXCEPT !.headers = hs])

(* The six setters that copy a string. *)
SetText == \E o \in TextOption, t \in OptionalText :
    Configure(o, [config EXCEPT !.text[o] = t])

(* Mutant: the setter also changes the handle. *)
SetUserAgentNow == \E t \in OptionalText :
    /\ "SetUserAgent" \in Setter
    /\ MayConfigure
    /\ config' = [config EXCEPT !.customAgent = t]
    /\ opt' = [opt EXCEPT !.agent = UserAgent(config')]
    /\ UNCHANGED <<logger, handle, phase, up, resp, errbuf, last, xfer, asked>>

SetUserAgent == \E t \in OptionalText :
    Configure("SetUserAgent", [config EXCEPT !.customAgent = t])

SetBasicAuth == \E t \in OptionalText :
    Configure("SetBasicAuth", [config EXCEPT !.username = t])

SetProxy == \E p \in Proxy :
    Configure("SetProxy",
        [config EXCEPT !.proxy = IF p.addr # "" THEN [p EXCEPT !.http = TRUE] ELSE p])

(* Mutant: the setter also changes the handle. *)
SetTimeoutNow == \E t \in Timeout :
    /\ "SetTimeout" \in Setter
    /\ MayConfigure
    /\ config' = [config EXCEPT !.timeout = t]
    /\ opt' = IF handle THEN [opt EXCEPT !.timeout = t] ELSE opt
    /\ UNCHANGED <<logger, handle, phase, up, resp, errbuf, last, xfer, asked>>

SetTimeout == \E t \in Timeout :
    Configure("SetTimeout", [config EXCEPT !.timeout = t])

FollowRedirects == \E f \in BOOLEAN, n \in RedirectLimit :
    Configure("FollowRedirects", [config EXCEPT !.follow = f, !.maxRedirects = n])

SetNoSignal == \E b \in BOOLEAN :
    Configure("SetNoSignal", [config EXCEPT !.noSignal = b])

SetFileProgressCallback == \E b \in BOOLEAN :
    Configure("SetFileProgressCallback", [config EXCEPT !.progressFn = b])

SetFileProgressCallbackData == \E t \in OptionalText :
    Configure("SetFileProgressCallbackData", [config EXCEPT !.progressData = t])

SetWriteFunction == \E w \in Writer :
    Configure("SetWriteFunction", [config EXCEPT !.writer = w])

SetVerifyPeer == \E b \in BOOLEAN :
    Configure("SetVerifyPeer", [config EXCEPT !.verifyPeer = b])

SetVerifyHost == \E b \in BOOLEAN :
    Configure("SetVerifyHost", [config EXCEPT !.verifyHost = b])

(* Mutant: a logger that is taken away stays with the handle. *)
SetLoggerOnly == \E l \in Logger \cup {None} :
    /\ "SetLogger" \in Setter
    /\ MayConfigure
    /\ logger' = l
    /\ opt' = IF handle /\ l # None THEN [opt EXCEPT !.debugData = l] ELSE opt
    /\ UNCHANGED <<config, handle, phase, up, resp, errbuf, last, xfer, asked>>

(* The logger member keeps the logger alive; the debug options go straight
   to the handle, which libcurl ignores when it is NULL. *)
SetLogger == \E l \in Logger \cup {None} :
    /\ "SetLogger" \in Setter
    /\ MayConfigure
    /\ logger' = l
    /\ opt' = IF handle THEN [opt EXCEPT !.debugData = l] ELSE opt
    /\ UNCHANGED <<config, handle, phase, up, resp, errbuf, last, xfer, asked>>

Terminate ==
    /\ phase = "idle"
    /\ handle' = FALSE
    /\ opt' = DefaultOptions          \* freed with the handle
    /\ UNCHANGED <<config, logger, phase, up, resp, errbuf, last, xfer, asked>>

(***************************************************************************)
(* Requests.  A verb sets its options, performCurlRequest clears the       *)
(* response, sets the other options and enters curl_easy_perform, which    *)
(* empties the error buffer it was given.  On a NULL handle the first      *)
(* getCurlHandle() throws: in a verb that sets options of its own before   *)
(* anything has changed, in get(url) when only a Response nobody has seen  *)
(* was cleared, so neither is an action; but get(url, &response) has       *)
(* cleared the caller's structure by then (GetIntoThrows).                 *)
(***************************************************************************)
(* Mutant: the headers of a reused Response are kept. *)
BodyCleared(r) == [r EXCEPT !.body = <<>>, !.code = 0]

Cleared(r) == [r EXCEPT !.body = <<>>, !.code = 0, !.headers = {}]

Perform(verb, url, body, r, verbOptions) ==
    /\ verb \in Call
    /\ phase = "idle"
    /\ handle
    /\ opt' = RequestOptions(verbOptions, config, url)
    /\ up' = [data |-> IF verbOptions.readData THEN body ELSE <<>>, read |-> 0]
    /\ resp' = Cleared(r)
    /\ errbuf' = IF opt'.errorBuffer THEN "" ELSE errbuf
    /\ phase' = "sending"
    /\ xfer' = [NoTransfer EXCEPT !.url = url]
    /\ asked' = Asked(config, verb, url, body)
    /\ UNCHANGED <<config, logger, handle, last>>

Get == \E url \in Url : Perform("GET", url, <<>>, EmptyResponse, opt)

(* get(url, &response): the caller's structure, last request's content and all. *)
GetInto == \E url \in Url : Perform("GET", url, <<>>, resp, opt)

GetIntoThrows ==
    /\ "GET" \in Call
    /\ phase = "idle"
    /\ ~handle
    /\ resp' = Cleared(resp)
    /\ UNCHANGED <<config, logger, handle, opt, phase, up, errbuf, last, xfer, asked>>

Post == \E url \in Url, body \in Body :
    Perform("POST", url, body, EmptyResponse, PostOptions(opt, body))

Put == \E url \in Url, body \in Body :
    Perform("PUT", url, body, EmptyResponse, UploadOptions(opt))

Patch == \E url \in Url, body \in Body :
    Perform("PATCH", url, body, EmptyResponse,
            UploadOptions(CustomOptions(opt, "PATCH")))

Del == \E url \in Url :
    Perform("DELETE", url, <<>>, EmptyResponse, CustomOptions(opt, "DELETE"))

HeadCall == \E url \in Url :
    Perform("HEAD", url, <<>>, EmptyResponse, NoBodyOptions(opt, "HEAD"))

OptionsCall == \E url \in Url :
    Perform("OPTIONS", url, <<>>, EmptyResponse, NoBodyOptions(opt, "OPTIONS"))

(***************************************************************************)
(* The transfer: libcurl and the server, and the callbacks they cause.     *)
(***************************************************************************)
Returned(res) == [xfer EXCEPT !.res = res]

(* Mutants: the offset is not moved, or moved the wrong way. *)
ReadAgain(u, n) ==
    LET size == IF Len(u.data) - u.read < n THEN Len(u.data) - u.read ELSE n
    IN [bytes |-> SubSeq(u.data, u.read + 1, u.read + size), read |-> u.read]

ReadBackwards(u, n) ==
    LET size == IF Len(u.data) - u.read < n THEN Len(u.data) - u.read ELSE n
    IN [bytes |-> SubSeq(u.data, u.read + 1, u.read + size), read |-> u.read - size]

(* read_callback: as much of what is left as fits in libcurl's buffer. *)
ReadCallback(u, n) ==
    LET left == Len(u.data) - u.read
        size == IF left < n THEN left ELSE n
    IN [bytes |-> SubSeq(u.data, u.read + 1, u.read + size), read |-> u.read + size]

(* The statuses that are a redirect, and those of them at which libcurl goes
   on with a GET, the body dropped: of a POST 301, 302 and 303, since
   CURLOPT_POSTREDIR is never set, of an upload 303.  307 and 308 repeat the
   request as it was. *)
RedirectStatus == {301, 302, 303, 307, 308}

DroppingStatus(o) ==
    IF o.post THEN {301, 302, 303} ELSE IF o.readData THEN {303} ELSE {}

BodyDropped == xfer.via \cap DroppingStatus(opt) # {}

(* The body the server is to get with the request as it now stands. *)
BodyToSend == IF BodyDropped THEN <<>> ELSE OnWire(opt, up).body

SendUpload == \E n \in 1..MaxRead :
    LET r == ReadCallback(up, n)
    IN /\ phase = "sending"
       /\ opt.readData
       /\ ~BodyDropped
       /\ Len(xfer.sent) < Len(up.data)          \* CURLOPT_INFILESIZE
       /\ xfer' = [xfer EXCEPT !.sent = @ \o r.bytes]
       /\ up' = [up EXCEPT !.read = r.read]
       /\ UNCHANGED <<config, logger, handle, opt, phase, resp, errbuf, last, asked>>

SendFields ==
    /\ phase = "sending"
    /\ opt.post
    /\ ~BodyDropped
    /\ xfer.sent # opt.postFields
    /\ xfer' = [xfer EXCEPT !.sent = opt.postFields]
    /\ UNCHANGED <<config, logger, handle, opt, phase, up, resp, errbuf, last, asked>>

(* header_callback on the lines of one more response head. *)
HeaderCallback(r) ==
    [r EXCEPT !.headers = @ \cup {[url |-> opt.url, head |-> xfer.heads + 1]}]

(* An interim head, such as 100 Continue. *)
InterimHead ==
    /\ phase = "sending"
    /\ xfer.heads < MaxHeads
    /\ resp' = HeaderCallback(resp)
    /\ xfer' = [xfer EXCEPT !.heads = @ + 1]
    /\ UNCHANGED <<config, logger, handle, opt, phase, up, errbuf, last, asked>>

MayFollow == opt.redirects[1] = -1 \/ xfer.hops < opt.redirects[1]

(* libcurl can send post fields again; what the read callback gave is gone,
   there is no seek callback, so an upload under way cannot be repeated. *)
MayRepeat(code) ==
    opt.readData /\ xfer.sent # <<>> => code \in DroppingStatus(opt)

(* The request is repeated at the location of the redirect, with its body or
   as a GET without it. *)
Redirected == \E code \in HttpCode \cap RedirectStatus :
    /\ phase = "sending"
    /\ opt.redirects # <<>>
    /\ MayFollow
    /\ xfer.heads < MaxHeads
    /\ MayRepeat(code)
    /\ resp' = HeaderCallback(resp)
    /\ xfer' = [xfer EXCEPT !.heads = @ + 1, !.hops = @ + 1, !.sent = <<>>,
                            !.via = @ \cup {code}]
    /\ UNCHANGED <<config, logger, handle, opt, phase, up, errbuf, last, asked>>

(* A redirect that cannot be followed ends the transfer. *)
RedirectFails == \E code \in HttpCode \cap RedirectStatus :
    /\ phase = "sending"
    /\ opt.redirects # <<>>
    /\ xfer.heads < MaxHeads
    /\ ~MayFollow \/ ~MayRepeat(code)
    /\ phase' = "returned"
    /\ resp' = HeaderCallback(resp)
    /\ xfer' = [Returned(IF MayFollow THEN SEND_FAIL_REWIND ELSE TOO_MANY_REDIRECTS)
                  EXCEPT !.heads = @ + 1]
    /\ errbuf' \in {"", opt.url}
    /\ UNCHANGED <<config, logger, handle, opt, up, last, asked>>

(* The server accepts a request only when it has all the bytes the request
   announced; it may refuse earlier. *)
FinalHead == \E code \in HttpCode :
    /\ phase = "sending"
    /\ code < 300 => Len(xfer.sent) = Len(BodyToSend)
    /\ code \in RedirectStatus => opt.redirects = <<>>
    /\ phase' = "receiving"
    /\ resp' = HeaderCallback(resp)
    /\ xfer' = [xfer EXCEPT !.heads = @ + 1, !.status = code]
    /\ UNCHANGED <<config, logger, handle, opt, up, errbuf, last, asked>>

(* write_callback; a custom one keeps the data for itself. *)
WriteCallback ==
    /\ phase = "receiving"
    /\ ~opt.noBody
    /\ xfer.chunks < MaxChunks
    /\ resp' = IF opt.writer = "default"
               THEN [resp EXCEPT !.body = Append(@, <<opt.url, xfer.chunks + 1>>)]
               ELSE resp
    /\ xfer' = [xfer EXCEPT !.chunks = @ + 1]
    /\ UNCHANGED <<config, logger, handle, opt, phase, up, errbuf, last, asked>>

TransferDone ==
    /\ phase = "receiving"
    /\ phase' = "returned"
    /\ xfer' = Returned(0)
    /\ UNCHANGED <<config, logger, handle, opt, up, resp, errbuf, last, asked>>

TransferFails == \E code \in CurlError :
    /\ InTransfer
    /\ phase' = "returned"
    /\ xfer' = Returned(code)
    /\ errbuf' \in {"", opt.url}
    /\ UNCHANGED <<config, logger, handle, opt, up, resp, last, asked>>

TimesOut ==
    /\ InTransfer
    /\ opt.timeout # 0
    /\ phase' = "returned"
    /\ xfer' = Returned(TIMEDOUT)
    /\ errbuf' \in {"", opt.url}
    /\ UNCHANGED <<config, logger, handle, opt, up, resp, last, asked>>

(***************************************************************************)
(* The rest of performCurlRequest: code and error text, lastRequest, and   *)
(* the reset of the handle.  The upload object and the header list die.    *)
(***************************************************************************)
StrError(code) == <<"strerror", code>>

(* Mutant: off by one at the first error code that looks like a status. *)
CodeAboveHundred(res, status) ==
    IF res = 0 THEN status ELSE IF res > 100 THEN -1 ELSE res

ResponseCode(res, status) ==
    IF res = 0 THEN status ELSE IF res > 99 THEN -1 ELSE res

(* Mutant: the status seen before the transfer broke is reported. *)
StatusKept(r) ==
    [r EXCEPT !.code = xfer.status,
              !.body = IF xfer.res # 0 THEN <<StrError(xfer.res)>> ELSE @]

CompletedResponse(r) ==
    [r EXCEPT !.code = ResponseCode(xfer.res, xfer.status),
              !.body = IF xfer.res # 0 THEN <<StrError(xfer.res)>> ELSE @]

FinishWith(options) ==
    /\ phase = "returned"
    /\ phase' = "idle"
    /\ resp' = CompletedResponse(resp)
    /\ last' = [curlCode |-> xfer.res, curlError |-> errbuf]
    /\ opt' = options
    /\ up' = NoUpload
    /\ xfer' = [NoTransfer EXCEPT !.url = xfer.url]
    /\ asked' = None
    /\ UNCHANGED <<config, logger, handle, errbuf>>

(* Mutant: the handle is not reset. *)
FinishUnreset == FinishWith(opt)

Finish == FinishWith(DefaultOptions)

CallerStep ==
    \/ AppendHeader \/ SetHeaders \/ SetText \/ SetUserAgent \/ SetBasicAuth
    \/ SetProxy \/ SetTimeout \/ FollowRedirects \/ SetNoSignal
    \/ SetFileProgressCallback \/ SetFileProgressCallbackData \/ SetWriteFunction
    \/ SetVerifyPeer \/ SetVerifyHost \/ SetLogger \/ Terminate
    \/ Get \/ GetInto \/ GetIntoThrows \/ Post \/ Put \/ Patch \/ Del \/ HeadCall \/ OptionsCall

TransferStep ==
    \/ SendUpload \/ SendFields \/ InterimHead \/ Redirected \/ RedirectFails
    \/ FinalHead \/ WriteCallback \/ TransferDone \/ TransferFails \/ TimesOut

Next == CallerStep \/ TransferStep \/ Finish

Spec == Init /\ [][Next]_vars

(* The calling thread goes on when curl_easy_perform returns, and libcurl
   enforces the time limit it was given; nothing is assumed of the server. *)
FairSpec == Spec /\ WF_vars(Finish) /\ WF_vars(TimesOut)

(***************************************************************************)
(* Properties.                                                             *)
(***************************************************************************)
HeaderEntry == [url : Url, head : Nat \ {0}]
Piece == (Url \cup {"strerror"}) \X Nat

TransferType ==
    [url : Url \cup {None}, sent : Seq(Byte), heads : Nat, hops : Nat,
     via : SUBSET HttpCode, chunks : Nat, status : Nat, res : Nat]

ResponseType == [code : Int, headers : SUBSET HeaderEntry, body : Seq(Piece)]

(* The members of a Connection, the options of its handle and the transfer
   only ever hold values of their types. *)
TypeOK ==
    /\ config \in Configuration
    /\ logger \in Logger \cup {None}
    /\ handle \in BOOLEAN
    /\ opt \in Options
    /\ phase \in {"idle", "sending", "receiving", "returned"}
    /\ up \in [data : AnyBody, read : Nat]
    /\ resp \in ResponseType
    /\ errbuf \in {"garbage", ""} \cup Url
    /\ last \in [curlCode : Nat, curlError : {"garbage", ""} \cup Url]
    /\ xfer \in TransferType
    /\ asked \in Request \cup {None}

(* Between requests the handle holds nothing of an earlier one: no option
   of its verb or its settings, no pointer to the Response, the upload
   object or the header list it used, all of which are gone or not ours any
   more.  Only what SetLogger put there may stay (curl_easy_reset at the end
   of performCurlRequest). *)
IdleHandleClean ==
    phase = "idle" => opt = [DefaultOptions EXCEPT !.debugData = opt.debugData]

(* The first request a call puts on the wire, before any redirect, is the one
   the call asked for at the time of the call: verb, url, body and every
   setting of the connection, whatever requests and settings came before
   (conditional setopts of performCurlRequest) and whatever the progress
   callback changes since. *)
WireIsAsked ==
    Busy => OnWire(opt, up) = asked

(* libcurl's debug pointer is NULL or the logger the connection keeps alive,
   so debug_callback never reaches a logger that was replaced (SetLogger,
   also when called during a transfer or after Terminate). *)
DebugDataLive ==
    opt.debugData \in {None, logger}

(* A Response holds headers and body of the request made last only, the body
   pieces in order with none missing, even when the caller reuses one
   structure for several requests; after a transport error the body is the
   error text alone (performCurlRequest, header_callback, write_callback). *)
ResponseOfThisRequest ==
    /\ \A h \in resp.headers : h.url = xfer.url
    /\ \/ \A i \in DOMAIN resp.body : resp.body[i] = <<xfer.url, i>>
       \/ phase = "idle" /\ resp.body = <<StrError(last.curlCode)>>

(* The code returned tells an HTTP status from a transport error, which is
   what log_response relies on: it is a status exactly when libcurl
   succeeded, the error number when that cannot be taken for a status, and
   -1 otherwise, with the number left in lastRequest.  A Response with code 0
   answers nothing and is empty altogether: its get threw on a terminated
   connection after clearing it, and lastRequest still tells of the request
   before. *)
AnswerClassified ==
    phase = "idle" /\ xfer.url # None =>
        IF resp.code = 0 THEN ~handle /\ resp = EmptyResponse
        ELSE /\ IsHttpStatus(resp.code) <=> last.curlCode = 0
             /\ last.curlCode \in 1..99 => resp.code = last.curlCode
             /\ last.curlCode > 99 => resp.code = -1

(* lastRequest never reports the uninitialised error buffer, nor the error
   of an earlier request (CURLOPT_ERRORBUFFER, curlErrorBuf). *)
ErrorTextIsOwn ==
    phase = "idle" => last.curlError \in {"", xfer.url}

(* A request the server accepted delivered exactly the caller's bytes, in
   order and once, however libcurl sliced its reads and though a redirect
   made it start again, or not one of them: nothing, and never a part, when a
   redirect turned the request into a GET, which a 307 or 308 does to no
   request and a 301 or 302 only to a POST.  The status returned does not
   tell which (read_callback, UploadObject, FOLLOWLOCATION without
   POSTREDIR). *)
AcceptedBodyIsWhole ==
    phase \in {"receiving", "returned"} /\ xfer.status \in 200..299 =>
        \/ xfer.sent = asked.body
        \/ /\ xfer.sent = <<>>
           /\ asked.settings.redirects # <<>>
           /\ \/ asked.verb = "POST" /\ xfer.via \cap {301, 302, 303} # {}
              \/ asked.verb \in UploadVerb /\ 303 \in xfer.via

(* With a timeout configured when the request is made, the call returns,
   whatever the server does and whatever the progress callback reconfigures
   meanwhile, the timeout included: SetTimeout(0) does not take the limit
   from the running request. *)
TimeoutEndsRequest ==
    (Busy /\ asked.settings.timeout # 0) ~> ~Busy

(***************************************************************************)
(* The connection implements the atomic exchange.                          *)
(***************************************************************************)
Exchange == INSTANCE HttpExchange WITH
    open    <- handle,
    request <- IF Busy THEN OnWire(opt, up) ELSE None,
    answer  <- IF Busy \/ xfer.url = None \/ resp.code = 0 THEN None
               ELSE [url |-> xfer.url, code |-> resp.code, curlCode |-> last.curlCode]

(* Every behaviour of the class is one of HttpExchange: the handle, its
   options and their reset are invisible to the caller. *)
ImplementsExchange == Exchange!Spec

(***************************************************************************)
(* What the comments and tests say, and the code does not do.              *)
(***************************************************************************)
(* SetLogger: the requests of a connection with a logger are logged. *)
LoggerCatchesRequests ==
    InTransfer /\ logger # None => opt.debugData = logger

(* restclient.h: headers holds the headers of the HTTP response, that is of
   the response whose code and body are returned. *)
HeadersOfOneResponse ==
    phase = "idle" /\ IsHttpStatus(resp.code) =>
        \A g, h \in resp.headers : g.head = h.head
=============================================================================
