---------------------------- MODULE AnswerProofs ----------------------------
(***************************************************************************)
(* Proofs about what a Connection gives back, and that it implements       *)
(* HttpExchange, on top of the invariant WireInv of ConnectionProofs.      *)
(***************************************************************************)
EXTENDS ConnectionProofs, SequenceTheorems

(***************************************************************************)
(* The logger.  Terminate frees the options with the handle, so that a     *)
(* later SetLogger, which finds no handle, leaves no pointer behind.       *)
(***************************************************************************)
LoggerInv ==
  /\ DebugDataLive
  /\ ~handle => opt.debugData = None

LEMMA DefaultsUnlogged == DefaultOptions.debugData = None
  BY DEF DefaultOptions

LEMMA SetLoggerLoggerInv ==
  ASSUME WireInv, LoggerInv, SetLogger
  PROVE  LoggerInv'
<1>1. PICK l \in Logger \cup {None} :
         /\ logger' = l
         /\ opt' = IF handle THEN [opt EXCEPT !.debugData = l] ELSE opt
         /\ handle' = handle
  BY DEF SetLogger
<1>2. opt \in Options /\ handle \in BOOLEAN
  BY DEF WireInv, TypeOK
<1>3. [opt EXCEPT !.debugData = l].debugData = l
  BY <1>2, LoggerOffWire
<1> QED
  BY <1>1, <1>2, <1>3 DEF LoggerInv, DebugDataLive

LEMMA PerformLoggerInv ==
  ASSUME WireInv, LoggerInv, NEW verb \in Verb, NEW url \in Url, NEW body \in AnyBody,
         NEW r \in ResponseType, NEW p, VerbPrepares(p, opt, verb, body),
         Perform(verb, url, body, r, p)
  PROVE  LoggerInv'
<1>1. opt = CleanOptions(opt.debugData) /\ opt.debugData \in Logger \cup {None}
  BY DEF WireInv, Perform, IdleHandleClean, CleanOptions, TypeOK, Options
<1>2. opt \in Options /\ SettingsClean(opt) /\ NoVerb(opt)
  BY <1>1, CleanOptionsClean
<1>3. p \in Options /\ p.debugData = opt.debugData
  BY <1>2, VerbPrepared
<1>4. opt'.debugData = p.debugData
  BY <1>3, VerbOptionsKept DEF Perform, WireInv, TypeOK
<1> QED
  BY <1>3, <1>4 DEF Perform, LoggerInv, DebugDataLive

LEMMA NextLoggerInv == WireInv /\ LoggerInv /\ [Next]_vars => LoggerInv'
<1> SUFFICES ASSUME WireInv, LoggerInv, [Next]_vars PROVE LoggerInv'
  OBVIOUS
<1>1. CASE SetterStep
  BY <1>1, SetterStepType DEF WireInv, TypeOK, LoggerInv, DebugDataLive, NotConfigured
<1>2. CASE SetLogger
  BY <1>2, SetLoggerLoggerInv
<1>3. CASE Terminate
  BY <1>3, DefaultsUnlogged DEF Terminate, LoggerInv, DebugDataLive
<1>4. CASE RequestStep
  BY <1>4, RequestStepPerforms, PerformLoggerInv DEF WireInv
<1>8. CASE GetIntoThrows
  BY <1>8 DEF GetIntoThrows, LoggerInv, DebugDataLive
<1>5. CASE TransferStep
  BY <1>5, TransferStepMoves DEF ResponseMoves, LoggerInv, DebugDataLive
<1>6. CASE Finish
  BY <1>6, DefaultsUnlogged DEF Finish, FinishWith, LoggerInv, DebugDataLive
<1>7. CASE UNCHANGED vars
  BY <1>7 DEF vars, LoggerInv, DebugDataLive
<1> QED
  BY <1>1, <1>2, <1>3, <1>4, <1>5, <1>6, <1>7, <1>8 DEF Next, CallerStep, SetterStep, RequestStep

(* debug_callback is never given a logger that the connection has let go
   of, whenever SetLogger is called: between requests, from a callback, or
   after Terminate. *)
THEOREM DebugLoggerAlive == Spec => []DebugDataLive
<1>1. Init => LoggerInv
  BY DefaultsUnlogged DEF Init, LoggerInv, DebugDataLive
<1>2. LoggerInv => DebugDataLive
  BY DEF LoggerInv
<1> QED
  BY <1>1, <1>2, NextLoggerInv, WireInvariant, PTL DEF Spec

(***************************************************************************)
(* The answer.  While a request runs, it is one of the abstract requests,  *)
(* and the error buffer is empty or about it; once a final head is in, its *)
(* status is one of the server's, so that the code of a completed transfer *)
(* cannot be mistaken for an error.                                        *)
(***************************************************************************)
AnswerInv ==
  /\ AnswerClassified
  /\ ErrorTextIsOwn
  /\ Busy => errbuf \in {"", xfer.url}
  /\ Busy => asked \in Request
  /\ phase = "receiving" => xfer.status \in HttpCode
  /\ phase = "returned" /\ xfer.res = 0 => xfer.status \in HttpCode

(* What performCurlRequest makes of the return of curl_easy_perform. *)
LEMMA ResponseCodeClassifies ==
  ASSUME NEW res \in Nat, NEW status \in Nat, res = 0 => status \in HttpCode
  PROVE  /\ ResponseCode(res, status) \in Int
         /\ IsHttpStatus(ResponseCode(res, status)) <=> res = 0
         /\ res \in 1..99 => ResponseCode(res, status) = res
         /\ res > 99 => ResponseCode(res, status) = -1
         /\ ResponseCode(res, status) # 0
<1>1. res = 0 => status >= 100
  BY ConnectionAssumption
<1> QED
  BY <1>1 DEF ResponseCode, IsHttpStatus

LEMMA ResponseMade ==
  ASSUME NEW r \in ResponseType
  PROVE  CompletedResponse(r).code = ResponseCode(xfer.res, xfer.status)
  BY DEF CompletedResponse, ResponseType

LEMMA PerformAnswerInv ==
  ASSUME WireInv, AnswerInv, NEW verb \in Verb, NEW url \in Url, NEW body \in AnyBody,
         NEW r \in ResponseType, NEW p, VerbPrepares(p, opt, verb, body),
         Perform(verb, url, body, r, p)
  PROVE  AnswerInv'
<1>1. opt = CleanOptions(opt.debugData) /\ opt.debugData \in Logger \cup {None}
  BY DEF WireInv, Perform, IdleHandleClean, CleanOptions, TypeOK, Options
<1>2. opt \in Options /\ SettingsClean(opt) /\ NoVerb(opt)
  BY <1>1, CleanOptionsClean
<1>3. p \in Options
  BY <1>2, VerbPrepared
<1>4. opt'.errorBuffer = TRUE
  BY <1>3, VerbOptionsKept DEF Perform, WireInv, TypeOK
<1>5. errbuf' = "" /\ phase' = "sending"
  BY <1>4 DEF Perform
<1>6. asked' \in Request
  BY AskedType DEF Perform, WireInv, TypeOK
<1> QED
  BY <1>5, <1>6 DEF AnswerInv, AnswerClassified, ErrorTextIsOwn

(* The steps of a transfer that end it, or bring the final status. *)
LEMMA TransferAnswerInv ==
  ASSUME WireInv, AnswerInv, TransferStep
  PROVE  AnswerInv'
<1>1. /\ ResponseMoves
      /\ xfer \in TransferType
      /\ opt.url = xfer.url
  BY TransferStepMoves DEF WireInv, TypeOK, UrlKnown, Busy, ResponseMoves
<1>2. phase' # "idle" /\ xfer'.url = xfer.url /\ errbuf \in {"", xfer.url}
  BY <1>1 DEF ResponseMoves, AnswerInv, Busy
<1>3. errbuf' \in {"", xfer'.url}
  <2>1. CASE errbuf' = errbuf
    BY <1>2, <2>1
  <2>2. CASE errbuf' \in {"", opt.url}
    BY <1>1, <1>2, <2>2
  <2>3. \/ errbuf' = errbuf
        \/ errbuf' \in {"", opt.url}
    <3>1. CASE RedirectFails
      BY <3>1 DEF RedirectFails
    <3>4. CASE TransferFails
      BY <3>4 DEF TransferFails
    <3>5. CASE TimesOut
      BY <3>5 DEF TimesOut
    <3>2. CASE SendUpload \/ SendFields \/ InterimHead \/ Redirected
      BY <3>2 DEF SendUpload, SendFields, InterimHead, Redirected
    <3>3. CASE FinalHead \/ WriteCallback \/ TransferDone
      BY <3>3 DEF FinalHead, WriteCallback, TransferDone
    <3> QED
      BY <3>1, <3>2, <3>3, <3>4, <3>5 DEF TransferStep
  <2> QED
    BY <2>1, <2>2, <2>3
<1>4. /\ phase' = "receiving" => xfer'.status \in HttpCode
      /\ phase' = "returned" /\ xfer'.res = 0 => xfer'.status \in HttpCode
  <2>1. CASE phase' = "sending"
    BY <2>1
  <2>2. CASE FinalHead
    BY <1>1, <2>2 DEF FinalHead, TransferType
  <2>3. CASE WriteCallback
    BY <1>1, <2>3 DEF WriteCallback, AnswerInv, TransferType
  <2>4. CASE TransferDone
    BY <1>1, <2>4 DEF TransferDone, Returned, AnswerInv, TransferType
  <2>5. CASE TransferFails
    <3>1. PICK code \in CurlError : phase' = "returned" /\ xfer' = Returned(code)
      BY <2>5 DEF TransferFails
    <3>2. code # 0
      BY ConnectionAssumption
    <3> QED
      BY <1>1, <3>1, <3>2 DEF Returned, TransferType
  <2>6. CASE TimesOut
    <3>1. phase' = "returned" /\ xfer' = Returned(TIMEDOUT)
      BY <2>6 DEF TimesOut
    <3> QED
      BY <1>1, <3>1 DEF Returned, TIMEDOUT, TransferType
  <2>7. CASE RedirectFails
    <3>1. PICK code \in {SEND_FAIL_REWIND, TOO_MANY_REDIRECTS} :
            /\ phase' = "returned"
            /\ xfer' = [Returned(code) EXCEPT !.heads = @ + 1]
      BY <2>7 DEF RedirectFails
    <3>2. code # 0
      BY DEF SEND_FAIL_REWIND, TOO_MANY_REDIRECTS
    <3> QED
      BY <1>1, <3>1, <3>2 DEF Returned, TransferType
  <2>8. CASE SendUpload \/ SendFields \/ InterimHead \/ Redirected
    <3>1. phase = "sending" /\ phase' = phase
      BY <2>8 DEF SendUpload, SendFields, InterimHead, Redirected
    <3> QED
      BY <3>1
  <2> QED
    BY <2>1, <2>2, <2>3, <2>4, <2>5, <2>6, <2>7, <2>8 DEF TransferStep
<1>5. asked' \in Request
  BY <1>1 DEF ResponseMoves, AnswerInv, Busy
<1> QED
  BY <1>2, <1>3, <1>4, <1>5 DEF AnswerInv, AnswerClassified, ErrorTextIsOwn, Busy

LEMMA FinishAnswerInv ==
  ASSUME WireInv, AnswerInv, Finish
  PROVE  AnswerInv'
<1>1. /\ phase = "returned" /\ phase' = "idle"
      /\ resp' = CompletedResponse(resp)
      /\ last' = [curlCode |-> xfer.res, curlError |-> errbuf]
      /\ xfer' = [NoTransfer EXCEPT !.url = xfer.url]
  BY DEF Finish, FinishWith
<1>2. /\ xfer.res \in Nat /\ xfer.status \in Nat /\ resp \in ResponseType
      /\ xfer.res = 0 => xfer.status \in HttpCode
      /\ errbuf \in {"", xfer.url}
  BY <1>1 DEF WireInv, TypeOK, TransferType, AnswerInv, Busy
<1>3. resp'.code = ResponseCode(xfer.res, xfer.status) /\ last'.curlCode = xfer.res
  BY <1>1, <1>2, ResponseMade
<1>4. AnswerClassified'
  BY <1>2, <1>3, ResponseCodeClassifies DEF AnswerClassified
<1>5. xfer'.url = xfer.url /\ last'.curlError = errbuf
  BY <1>1 DEF NoTransfer
<1> QED
  BY <1>1, <1>2, <1>4, <1>5 DEF AnswerInv, ErrorTextIsOwn, Busy

(* The call that throws on a terminated connection empties the Response it
   was given, and nothing else. *)
LEMMA GetIntoThrowsAnswerInv ==
  ASSUME WireInv, AnswerInv, GetIntoThrows
  PROVE  AnswerInv'
<1>1. /\ phase = "idle" /\ ~handle
      /\ resp' = Cleared(resp) /\ resp \in ResponseType
      /\ UNCHANGED <<handle, phase, errbuf, last, xfer, asked>>
  BY DEF GetIntoThrows, WireInv, TypeOK
<1>2. resp' = EmptyResponse
  BY <1>1 DEF Cleared, EmptyResponse, ResponseType
<1>3. resp'.code = 0
  BY <1>2 DEF EmptyResponse
<1>4. AnswerClassified'
  BY <1>1, <1>2, <1>3 DEF AnswerClassified, EmptyResponse
<1> QED
  BY <1>1, <1>4 DEF AnswerInv, ErrorTextIsOwn, Busy

LEMMA NextAnswerInv == WireInv /\ AnswerInv /\ [Next]_vars => AnswerInv'
<1> SUFFICES ASSUME WireInv, AnswerInv, [Next]_vars PROVE AnswerInv'
  OBVIOUS
<1> DEFINE Untouched == UNCHANGED <<phase, resp, errbuf, last, xfer, asked>>
<1>0. Untouched /\ (handle' => handle) => AnswerInv'
  BY DEF AnswerInv, AnswerClassified, EmptyResponse, ErrorTextIsOwn, Busy
<1>1. CASE SetterStep
  BY <1>0, <1>1, SetterStepType DEF WireInv, TypeOK, NotConfigured
<1>2. CASE SetLogger \/ Terminate \/ UNCHANGED vars
  BY <1>0, <1>2 DEF SetLogger, Terminate, vars
<1>3. CASE RequestStep
  BY <1>3, RequestStepPerforms, PerformAnswerInv DEF WireInv
<1>4. CASE TransferStep
  BY <1>4, TransferAnswerInv
<1>5. CASE Finish
  BY <1>5, FinishAnswerInv
<1>6. CASE GetIntoThrows
  BY <1>6, GetIntoThrowsAnswerInv
<1> QED
  BY <1>1, <1>2, <1>3, <1>4, <1>5, <1>6 DEF Next, CallerStep, SetterStep, RequestStep

LEMMA AnswerInvariant == Spec => []AnswerInv
<1>1. ASSUME Init PROVE AnswerInv
  <2>1. phase = "idle" /\ xfer = NoTransfer /\ last = [curlCode |-> 0, curlError |-> ""]
    BY <1>1 DEF Init
  <2>2. xfer.url = None /\ last.curlError = ""
    BY <2>1 DEF NoTransfer
  <2> QED
    BY <2>1, <2>2 DEF AnswerInv, AnswerClassified, ErrorTextIsOwn, Busy
<1> QED
  BY <1>1, NextAnswerInv, WireInvariant, PTL DEF Spec

(* Whatever statuses the server sends and errors libcurl reports, the code
   of a Response alone tells one from the other, and from a call that threw
   and left nothing in it. *)
THEOREM AnswersClassified == Spec => []AnswerClassified
<1>1. AnswerInv => AnswerClassified
  BY DEF AnswerInv
<1> QED
  BY <1>1, AnswerInvariant, PTL

(* The error text of lastRequest is empty or about the last request, though
   the constructor leaves the buffer uninitialised. *)
THEOREM ErrorTextOfLastRequest == Spec => []ErrorTextIsOwn
<1>1. AnswerInv => ErrorTextIsOwn
  BY DEF AnswerInv
<1> QED
  BY <1>1, AnswerInvariant, PTL

(***************************************************************************)
(* The Response.  Its headers are all of the running request, and with the *)
(* library's writer it holds as many body pieces as libcurl has delivered: *)
(* that count is what numbers the next piece.                              *)
(***************************************************************************)
ReceivedInv ==
  /\ ResponseOfThisRequest
  /\ Busy /\ opt.writer = "default" => Len(resp.body) = xfer.chunks

PiecesInOrder(body, url) == \A i \in DOMAIN body : body[i] = <<url, i>>

LEMMA HeaderCallbackFields ==
  ASSUME NEW r \in ResponseType, opt.url = xfer.url,
         \A h \in r.headers : h.url = xfer.url
  PROVE  /\ \A h \in HeaderCallback(r).headers : h.url = xfer.url
         /\ HeaderCallback(r).body = r.body
<1> DEFINE e == [url |-> opt.url, head |-> xfer.heads + 1]
<1>1. HeaderCallback(r).headers = r.headers \cup {e}
  BY DEF HeaderCallback, ResponseType
<1>2. e.url = xfer.url
  OBVIOUS
<1>3. HeaderCallback(r).body = r.body
  BY DEF HeaderCallback, ResponseType
<1> HIDE DEF e
<1> QED
  BY <1>1, <1>2, <1>3

LEMMA NextPiece ==
  ASSUME NEW S, NEW body \in Seq(S), NEW url, NEW n \in Nat, Len(body) = n,
         <<url, n + 1>> \in S, PiecesInOrder(body, url)
  PROVE  /\ Len(Append(body, <<url, n + 1>>)) = n + 1
         /\ PiecesInOrder(Append(body, <<url, n + 1>>), url)
<1> DEFINE p == <<url, n + 1>>
           b == Append(body, p)
<1>1. /\ Len(b) = n + 1
      /\ DOMAIN b = 1 .. (n + 1)
      /\ \A i \in 1 .. n : b[i] = body[i]
      /\ b[n + 1] = p
  BY AppendProperties
<1>2. DOMAIN body = 1 .. n
  OBVIOUS
<1> HIDE DEF b
<1>3. \A i \in 1 .. (n + 1) : b[i] = <<url, i>>
  BY <1>1, <1>2 DEF PiecesInOrder
<1> QED
  BY <1>1, <1>3 DEF PiecesInOrder, b

(* A request starts on a cleared Response: one the caller passes in again
   has lost the headers, the code and the body of the request before. *)
LEMMA PerformReceivedInv ==
  ASSUME NEW verb, NEW url, NEW body, NEW r \in ResponseType, NEW p,
         Perform(verb, url, body, r, p)
  PROVE  ReceivedInv'
<1>1. resp' = Cleared(r) /\ xfer' = [NoTransfer EXCEPT !.url = url]
  BY DEF Perform
<1>2. resp'.headers = {} /\ resp'.body = <<>>
  BY <1>1 DEF Cleared, ResponseType
<1>3. xfer'.chunks = 0
  BY <1>1 DEF NoTransfer
<1> QED
  BY <1>2, <1>3 DEF ReceivedInv, ResponseOfThisRequest

LEMMA TransferReceivedInv ==
  ASSUME WireInv, ReceivedInv, TransferStep
  PROVE  ReceivedInv'
<1>1. /\ resp \in ResponseType /\ xfer \in TransferType
      /\ xfer'.url = xfer.url /\ opt.url = xfer.url /\ opt.url \in Url
      /\ Busy /\ phase' # "idle" /\ opt' = opt
  BY TransferStepMoves DEF WireInv, TypeOK, UrlKnown, Busy, ResponseMoves
<1>2. /\ \A h \in resp.headers : h.url = xfer.url
      /\ PiecesInOrder(resp.body, xfer.url)
      /\ opt.writer = "default" => Len(resp.body) = xfer.chunks
  BY <1>1 DEF ReceivedInv, ResponseOfThisRequest, Busy, PiecesInOrder
<1> SUFFICES /\ \A h \in resp'.headers : h.url = xfer.url
             /\ PiecesInOrder(resp'.body, xfer.url)
             /\ opt.writer = "default" => Len(resp'.body) = xfer'.chunks
  BY <1>1 DEF ReceivedInv, ResponseOfThisRequest, PiecesInOrder
<1>3. CASE InterimHead \/ Redirected \/ RedirectFails \/ FinalHead
  <2>1. resp' = HeaderCallback(resp)
    BY <1>3 DEF InterimHead, Redirected, RedirectFails, FinalHead
  <2>2. xfer'.chunks = xfer.chunks
    BY <1>1, <1>3
       DEF InterimHead, Redirected, RedirectFails, FinalHead, Returned, TransferType
  <2> QED
    BY <1>1, <1>2, <2>1, <2>2, HeaderCallbackFields
<1>4. CASE SendUpload \/ SendFields
  BY <1>1, <1>2, <1>4 DEF SendUpload, SendFields, TransferType
<1>5. CASE TransferDone \/ TransferFails \/ TimesOut
  BY <1>1, <1>2, <1>5 DEF TransferDone, TransferFails, TimesOut, Returned, TransferType
<1>6. CASE WriteCallback
  <2>1. xfer'.chunks = xfer.chunks + 1 /\ xfer.chunks \in Nat
    BY <1>1, <1>6 DEF WriteCallback, TransferType
  <2>2. CASE opt.writer = "default"
    <3>1. resp' = [resp EXCEPT !.body = Append(@, <<xfer.url, xfer.chunks + 1>>)]
      BY <1>1, <1>6, <2>2 DEF WriteCallback
    <3>2. /\ resp'.body = Append(resp.body, <<xfer.url, xfer.chunks + 1>>)
          /\ resp'.headers = resp.headers
      BY <1>1, <3>1 DEF ResponseType
    <3>3. resp.body \in Seq(Piece) /\ <<xfer.url, xfer.chunks + 1>> \in Piece
      BY <1>1, <2>1 DEF ResponseType, Piece
    <3> QED
      BY <1>2, <2>1, <2>2, <3>2, <3>3, NextPiece
  <2>3. CASE opt.writer # "default"
    BY <1>2, <1>6, <2>3 DEF WriteCallback
  <2> QED
    BY <2>2, <2>3
<1> QED
  BY <1>3, <1>4, <1>5, <1>6 DEF TransferStep

(* The end of performCurlRequest puts the error text in the place of
   whatever part of a body had arrived. *)
LEMMA FinishReceivedInv ==
  ASSUME WireInv, ReceivedInv, Finish
  PROVE  ReceivedInv'
<1>1. /\ phase = "returned" /\ phase' = "idle"
      /\ resp' = CompletedResponse(resp) /\ resp \in ResponseType
      /\ last' = [curlCode |-> xfer.res, curlError |-> errbuf]
      /\ xfer' = [NoTransfer EXCEPT !.url = xfer.url]
  BY DEF Finish, FinishWith, WireInv, TypeOK
<1>2. xfer'.url = xfer.url /\ last'.curlCode = xfer.res
  BY <1>1 DEF NoTransfer
<1>3. /\ resp'.headers = resp.headers
      /\ resp'.body = IF xfer.res # 0 THEN <<StrError(xfer.res)>> ELSE resp.body
  BY <1>1 DEF CompletedResponse, ResponseType
<1>4. /\ \A h \in resp.headers : h.url = xfer.url
      /\ \A i \in DOMAIN resp.body : resp.body[i] = <<xfer.url, i>>
  BY <1>1 DEF ReceivedInv, ResponseOfThisRequest
<1> QED
  BY <1>1, <1>2, <1>3, <1>4 DEF ReceivedInv, ResponseOfThisRequest, Busy

LEMMA NextReceivedInv == WireInv /\ ReceivedInv /\ [Next]_vars => ReceivedInv'
<1> SUFFICES ASSUME WireInv, ReceivedInv, [Next]_vars PROVE ReceivedInv'
  OBVIOUS
<1> DEFINE Untouched == UNCHANGED <<phase, resp, last, xfer>>
<1>0. Untouched /\ (Busy => opt'.writer = opt.writer) => ReceivedInv'
  BY DEF ReceivedInv, ResponseOfThisRequest, Busy
<1>1. CASE SetterStep
  BY <1>0, <1>1, SetterStepType DEF WireInv, TypeOK, NotConfigured
<1>2. CASE SetLogger
  <2>1. opt'.writer = opt.writer
    BY <1>2 DEF SetLogger, WireInv, TypeOK, Options
  <2> QED
    BY <1>0, <1>2, <2>1 DEF SetLogger
<1>3. CASE Terminate \/ UNCHANGED vars
  BY <1>0, <1>3 DEF Terminate, Busy, vars
<1>4. CASE RequestStep
  BY <1>4, RequestStepPerforms, PerformReceivedInv DEF WireInv
<1>7. CASE GetIntoThrows
  <2>1. resp'.headers = {} /\ resp'.body = <<>> /\ phase' = "idle"
    BY <1>7 DEF GetIntoThrows, Cleared, WireInv, TypeOK, ResponseType
  <2> QED
    BY <2>1 DEF ReceivedInv, ResponseOfThisRequest, Busy
<1>5. CASE TransferStep
  BY <1>5, TransferReceivedInv
<1>6. CASE Finish
  BY <1>6, FinishReceivedInv
<1> QED
  BY <1>1, <1>2, <1>3, <1>4, <1>5, <1>6, <1>7 DEF Next, CallerStep, SetterStep, RequestStep

(* A Response, also one used for several requests in turn, never mixes
   headers or body pieces of two of them, loses no piece and repeats none,
   and after a transport error holds the error text alone. *)
THEOREM ResponseUnmixed == Spec => []ResponseOfThisRequest
<1>1. Init => ReceivedInv
  <2> SUFFICES ASSUME Init PROVE ReceivedInv
    OBVIOUS
  <2>1. resp.headers = {} /\ resp.body = <<>> /\ ~Busy
    BY DEF Init, EmptyResponse, Busy
  <2> QED
    BY <2>1 DEF ReceivedInv, ResponseOfThisRequest
<1>2. ReceivedInv => ResponseOfThisRequest
  BY DEF ReceivedInv
<1> QED
  BY <1>1, <1>2, NextReceivedInv, WireInvariant, PTL DEF Spec

(***************************************************************************)
(* The upload.  While the request is being sent, what the server has is    *)
(* what the read callback has given, up to its offset, or all or nothing   *)
(* of the post fields; the two never mix on a handle that was reset.  A    *)
(* redirect takes back what was sent: it may only repeat an upload before  *)
(* the first read, and after one that drops the body nothing is sent any   *)
(* more.                                                                   *)
(***************************************************************************)
SentSoFar ==
  /\ xfer.status = 0
  /\ BodyDropped => xfer.sent = <<>>
  /\ ~BodyDropped /\ opt.readData => xfer.sent = SubSeq(up.data, 1, up.read)
  /\ ~opt.readData => xfer.sent \in {<<>>, IF opt.post THEN opt.postFields ELSE <<>>}

(* The options tell the verb of the request; they follow redirects when the
   call was asked to. *)
VerbKnown ==
  /\ ~(opt.readData /\ opt.post)
  /\ opt.post => asked.verb = "POST"
  /\ opt.readData => asked.verb \in UploadVerb

(* Only a handle that follows redirects has followed one. *)
Followed == xfer.via # {} => asked.settings.redirects # <<>>

SentInv ==
  /\ AcceptedBodyIsWhole
  /\ Busy => VerbKnown /\ Followed
  /\ phase = "sending" => SentSoFar

(* read_callback continues where it stopped. *)
LEMMA ReadCallbackContinues ==
  ASSUME NEW data \in Seq(Byte), NEW read \in Nat, read <= Len(data), NEW n \in Nat,
         NEW u, u.data = data, u.read = read
  PROVE  SubSeq(data, 1, read) \o ReadCallback(u, n).bytes
           = SubSeq(data, 1, ReadCallback(u, n).read)
<1> DEFINE size == IF Len(data) - read < n THEN Len(data) - read ELSE n
<1>1. size \in Nat /\ read + size <= Len(data)
  OBVIOUS
<1>2. /\ ReadCallback(u, n).bytes = SubSeq(data, read + 1, read + size)
      /\ ReadCallback(u, n).read = read + size
  BY DEF ReadCallback
<1> HIDE DEF size
<1> DEFINE a == SubSeq(data, 1, read)
           b == SubSeq(data, read + 1, read + size)
           c == SubSeq(data, 1, read + size)
<1>3. /\ a \in Seq(Byte) /\ Len(a) = read /\ \A i \in 1 .. read : a[i] = data[i]
      /\ b \in Seq(Byte) /\ Len(b) = size /\ \A i \in 1 .. size : b[i] = data[read + i]
      /\ c \in Seq(Byte) /\ Len(c) = read + size
      /\ \A i \in 1 .. read + size : c[i] = data[i]
  <2>1. /\ a \in Seq(Byte) /\ Len(a) = read /\ \A i \in 1 .. read : a[i] = data[i]
    BY <1>1
  <2>2. /\ b \in Seq(Byte) /\ Len(b) = size /\ \A i \in 1 .. size : b[i] = data[read + i]
    BY <1>1
  <2>3. /\ c \in Seq(Byte) /\ Len(c) = read + size
        /\ \A i \in 1 .. read + size : c[i] = data[i]
    BY <1>1
  <2> QED
    BY <2>1, <2>2, <2>3
<1> HIDE DEF a, b, c
<1>4. a \o b \in Seq(Byte) /\ Len(a \o b) = read + size
  BY <1>1, <1>3, ConcatProperties
<1>5. \A i \in 1 .. read + size : (a \o b)[i] = c[i]
  <2> SUFFICES ASSUME NEW i \in 1 .. read + size PROVE (a \o b)[i] = c[i]
    OBVIOUS
  <2>1. CASE i <= read
    BY <1>3, <2>1, ConcatProperties
  <2>2. CASE i > read
    <3>1. (a \o b)[i] = b[i - read]
      BY <1>1, <1>3, <2>2, ConcatProperties
    <3>2. i - read \in 1 .. size /\ read + (i - read) = i
      BY <1>1, <2>2
    <3> QED
      BY <1>1, <1>3, <3>1, <3>2
  <2>3. i <= read \/ i > read
    BY <1>1
  <2> QED
    BY <2>1, <2>2, <2>3
<1>6. a \o b = c
  BY <1>3, <1>4, <1>5, SeqEqual
<1> QED
  BY <1>2, <1>6 DEF a, b, c

(* What has been read is everything, or nothing, when its length says so. *)
LEMMA ReadAllOrNothing ==
  ASSUME NEW data \in Seq(Byte), NEW read \in Nat, read <= Len(data)
  PROVE  /\ Len(SubSeq(data, 1, read)) = Len(data) => SubSeq(data, 1, read) = data
         /\ SubSeq(data, 1, read) = <<>> => read = 0
         /\ SubSeq(data, 1, 0) = <<>>
<1>1. Len(SubSeq(data, 1, read)) = read /\ SubSeq(data, 1, 0) = <<>>
  OBVIOUS
<1>2. read = Len(data) => SubSeq(data, 1, read) = data
  OBVIOUS
<1> QED
  BY <1>1, <1>2

LEMMA PerformSentInv ==
  ASSUME WireInv, NEW verb \in Verb, NEW url \in Url, NEW body \in AnyBody,
         NEW r \in ResponseType, NEW p, VerbPrepares(p, opt, verb, body),
         Perform(verb, url, body, r, p)
  PROVE  SentInv'
<1>1. opt = CleanOptions(opt.debugData) /\ opt.debugData \in Logger \cup {None}
  BY DEF WireInv, Perform, IdleHandleClean, CleanOptions, TypeOK, Options
<1>2. opt \in Options /\ SettingsClean(opt) /\ NoVerb(opt)
  BY <1>1, CleanOptionsClean
<1>3. p \in Options /\ (p.readData <=> verb \in UploadVerb) /\ (p.post <=> verb = "POST")
  BY <1>2, VerbPrepared
<1>4. opt'.post = p.post /\ opt'.readData = p.readData
  BY <1>3, VerbOptionsKept DEF Perform, WireInv, TypeOK
<1>5. VerbKnown'
  <2>1. asked'.verb = verb
    BY DEF Perform, Asked
  <2> QED
    BY <1>3, <1>4, <2>1 DEF VerbKnown, UploadVerb
<1>6. /\ phase' = "sending" /\ xfer' = [NoTransfer EXCEPT !.url = url]
      /\ up'.read = 0 /\ up'.data \in Seq(Byte)
  BY EmptySequence, BodiesAreSequences DEF Perform
<1>7. xfer'.sent = <<>> /\ xfer'.status = 0 /\ xfer'.via = {}
  BY <1>6 DEF NoTransfer
<1>8. SubSeq(up'.data, 1, 0) = <<>>
  BY <1>6, ReadAllOrNothing
<1> QED
  BY <1>5, <1>6, <1>7, <1>8 DEF SentInv, SentSoFar, Followed, AcceptedBodyIsWhole

(* A redirect turned the request into a GET, and nothing was sent with it. *)
NothingSent ==
  /\ xfer.sent = <<>>
  /\ asked.settings.redirects # <<>>
  /\ \/ asked.verb = "POST" /\ xfer.via \cap {301, 302, 303} # {}
     \/ asked.verb \in UploadVerb /\ 303 \in xfer.via

LEMMA DroppedIsNothingSent ==
  ASSUME SentInv, phase = "sending", BodyDropped
  PROVE  NothingSent
<1>1. /\ xfer.sent = <<>> /\ VerbKnown /\ Followed
      /\ xfer.via \cap DroppingStatus(opt) # {}
  BY DEF SentInv, SentSoFar, Busy, BodyDropped
<1>2. asked.settings.redirects # <<>>
  BY <1>1 DEF Followed
<1>3. CASE opt.post
  BY <1>1, <1>2, <1>3 DEF NothingSent, VerbKnown, DroppingStatus
<1>4. CASE ~opt.post /\ opt.readData
  BY <1>1, <1>2, <1>4 DEF NothingSent, VerbKnown, DroppingStatus
<1>5. CASE ~opt.post /\ ~opt.readData
  BY <1>1, <1>5 DEF DroppingStatus
<1> QED
  BY <1>3, <1>4, <1>5

(* The server accepts when it has as many bytes as the request announced: so
   it has the caller's. *)
LEMMA AcceptedIsAsked ==
  ASSUME WireInv, SentInv, phase = "sending", ~BodyDropped,
         Len(xfer.sent) = Len(OnWire(opt, up).body)
  PROVE  xfer.sent = asked.body
<1>1. /\ Busy /\ opt \in Options /\ SentSoFar /\ ~(opt.readData /\ opt.post)
      /\ up.data \in Seq(Byte) /\ up.read \in Nat /\ up.read <= Len(up.data)
      /\ OnWire(opt, up) = asked
  BY BodiesAreSequences
     DEF WireInv, TypeOK, SentInv, VerbKnown, ReadWithinData, WireIsAsked, Busy
<1>2. asked.body = IF opt.readData THEN up.data
                   ELSE IF opt.post THEN opt.postFields ELSE <<>>
  BY <1>1 DEF OnWire
<1>3. Len(xfer.sent) = Len(asked.body)
  BY <1>1
<1>4. CASE opt.readData
  BY <1>1, <1>2, <1>3, <1>4, ReadAllOrNothing DEF SentSoFar
<1>5. CASE ~opt.readData
  <2>1. asked.body = IF opt.post THEN opt.postFields ELSE <<>>
    BY <1>2, <1>5
  <2>2. asked.body \in Seq(Byte)
    BY <1>1, <2>1, EmptySequence, BodiesAreSequences DEF Options
  <2>3. xfer.sent \in {<<>>, asked.body}
    BY <1>1, <1>5, <2>1 DEF SentSoFar
  <2>4. Len(asked.body) = 0 => asked.body = <<>>
    BY <2>2
  <2> QED
    BY <1>3, <2>3, <2>4
<1> QED
  BY <1>4, <1>5

LEMMA TransferSentInv ==
  ASSUME WireInv, SentInv, TransferStep
  PROVE  SentInv'
<1>1. /\ xfer \in TransferType /\ opt' = opt /\ asked' = asked /\ up'.data = up.data
      /\ InTransfer /\ Busy /\ Busy' /\ VerbKnown /\ Followed
      /\ up \in [data : AnyBody, read : Nat]
      /\ up.data \in Seq(Byte) /\ up.read \in Nat /\ up.read <= Len(up.data)
  BY TransferStepMoves, BodiesAreSequences
     DEF WireInv, TypeOK, ReadWithinData, Busy, InTransfer, ResponseMoves, SentInv
<1>2. VerbKnown'
  BY <1>1 DEF VerbKnown
<1> DEFINE Goes == phase = "sending" /\ phase' = phase
                   /\ xfer'.via = xfer.via /\ xfer'.status = xfer.status
<1>3. Goes => Followed' /\ AcceptedBodyIsWhole' /\ BodyDropped' = BodyDropped /\ SentSoFar
  BY <1>1 DEF SentInv, Followed, AcceptedBodyIsWhole, BodyDropped
<1>4. CASE SendUpload
  <2>1. PICK n \in 1 .. MaxRead :
          /\ phase = "sending" /\ phase' = phase /\ opt.readData /\ ~BodyDropped
          /\ xfer' = [xfer EXCEPT !.sent = @ \o ReadCallback(up, n).bytes]
          /\ up' = [up EXCEPT !.read = ReadCallback(up, n).read]
    BY <1>4 DEF SendUpload
  <2> DEFINE r == ReadCallback(up, n)
  <2>2. SubSeq(up.data, 1, up.read) \o r.bytes = SubSeq(up.data, 1, r.read)
    <3>1. n \in Nat
      BY CodesAndBounds
    <3> QED
      BY <1>1, <3>1, ReadCallbackContinues
  <2> HIDE DEF r
  <2>3. Goes /\ xfer'.sent = xfer.sent \o r.bytes
    BY <1>1, <2>1 DEF TransferType, r
  <2>4. up'.read = r.read
    BY <1>1, <2>1 DEF r
  <2>5. SentSoFar'
    <3>1. SentSoFar /\ ~BodyDropped' /\ opt'.readData /\ up'.data = up.data
      BY <1>1, <1>3, <2>1, <2>3
    <3>2. xfer.sent = SubSeq(up.data, 1, up.read) /\ xfer.status = 0
      BY <2>1, <3>1 DEF SentSoFar
    <3>3. xfer'.sent = SubSeq(up.data, 1, r.read) /\ xfer'.status = 0
      BY <2>2, <2>3, <3>2
    <3> QED
      BY <2>4, <3>1, <3>3 DEF SentSoFar
  <2> QED
    BY <1>2, <1>3, <2>3, <2>5 DEF SentInv
<1>5. CASE SendFields
  <2>1. /\ Goes /\ opt.post /\ ~BodyDropped /\ up' = up
        /\ xfer'.sent = opt.postFields
    BY <1>1, <1>5 DEF SendFields, TransferType
  <2>2. SentSoFar'
    BY <1>1, <1>3, <2>1 DEF SentSoFar, VerbKnown
  <2> QED
    BY <1>2, <1>3, <2>1, <2>2 DEF SentInv
<1>6. CASE InterimHead
  <2>1. Goes /\ up' = up /\ xfer'.sent = xfer.sent
    BY <1>1, <1>6 DEF InterimHead, TransferType
  <2>2. SentSoFar'
    BY <1>1, <1>3, <2>1 DEF SentSoFar
  <2> QED
    BY <1>2, <1>3, <2>1, <2>2 DEF SentInv
<1>7. CASE Redirected
  <2>1. PICK code \in HttpCode :
          /\ phase = "sending" /\ phase' = phase /\ up' = up
          /\ opt.redirects # <<>> /\ MayRepeat(code)
          /\ xfer'.sent = <<>> /\ xfer'.status = xfer.status
          /\ xfer'.via = xfer.via \cup {code}
    BY <1>1, <1>7 DEF Redirected, TransferType
  <2>2. asked.settings.redirects = opt.redirects
    <3>1. OnWire(opt, up).settings.redirects = opt.redirects
      BY DEF OnWire
    <3> QED
      BY <1>1, <3>1 DEF WireInv, WireIsAsked
  <2>3. Followed' /\ AcceptedBodyIsWhole'
    BY <1>1, <2>1, <2>2 DEF Followed, AcceptedBodyIsWhole
  <2>4. ~BodyDropped' => ~BodyDropped /\ code \notin DroppingStatus(opt)
    BY <1>1, <2>1 DEF BodyDropped
  <2>5. ~BodyDropped' /\ opt.readData => xfer'.sent = SubSeq(up.data, 1, up.read)
    <3> SUFFICES ASSUME ~BodyDropped', opt.readData
                 PROVE  xfer'.sent = SubSeq(up.data, 1, up.read)
      OBVIOUS
    <3>1. xfer.sent = <<>>
      BY <2>1, <2>4 DEF MayRepeat
    <3> QED
      BY <2>1, <2>4, <3>1 DEF SentInv, SentSoFar
  <2>6. SentSoFar'
    BY <1>1, <2>1, <2>5 DEF SentInv, SentSoFar
  <2> QED
    BY <1>2, <2>3, <2>6 DEF SentInv
<1>8. CASE FinalHead
  <2>1. PICK code \in HttpCode :
          /\ phase = "sending" /\ phase' = "receiving"
          /\ code < 300 => Len(xfer.sent) = Len(BodyToSend)
          /\ xfer' = [xfer EXCEPT !.heads = @ + 1, !.status = code]
    BY <1>8 DEF FinalHead
  <2>2. xfer'.sent = xfer.sent /\ xfer'.status = code /\ xfer'.via = xfer.via
    BY <1>1, <2>1 DEF TransferType
  <2>3. code \in 200 .. 299 => xfer.sent = asked.body \/ NothingSent
    <3> SUFFICES ASSUME code \in 200 .. 299 PROVE xfer.sent = asked.body \/ NothingSent
      OBVIOUS
    <3>1. code < 300
      OBVIOUS
    <3>2. CASE BodyDropped
      BY <2>1, <3>2, DroppedIsNothingSent
    <3>3. CASE ~BodyDropped
      <4>1. Len(xfer.sent) = Len(OnWire(opt, up).body)
        BY <2>1, <3>1, <3>3 DEF BodyToSend
      <4> QED
        BY <2>1, <3>3, <4>1, AcceptedIsAsked
    <3> QED
      BY <3>2, <3>3
  <2>4. AcceptedBodyIsWhole'
    BY <1>1, <2>2, <2>3 DEF AcceptedBodyIsWhole, NothingSent
  <2> QED
    BY <1>1, <1>2, <2>1, <2>2, <2>4 DEF SentInv, Followed
<1>9. CASE WriteCallback \/ TransferDone \/ TransferFails \/ TimesOut \/ RedirectFails
  <2>1. /\ phase' \in {"receiving", "returned"}
        /\ xfer'.sent = xfer.sent /\ xfer'.status = xfer.status /\ xfer'.via = xfer.via
    BY <1>1, <1>9 DEF WriteCallback, TransferDone, TransferFails, TimesOut, RedirectFails,
                      Returned, TransferType
  <2>2. phase = "sending" => xfer.status \notin 200 .. 299
    <3>1. phase = "sending" => xfer.status = 0
      BY DEF SentInv, SentSoFar
    <3> QED
      BY <3>1
  <2>3. AcceptedBodyIsWhole'
    BY <1>1, <2>1, <2>2 DEF SentInv, AcceptedBodyIsWhole, InTransfer
  <2> QED
    BY <1>1, <1>2, <2>1, <2>3 DEF SentInv, Followed
<1> QED
  BY <1>4, <1>5, <1>6, <1>7, <1>8, <1>9 DEF TransferStep

LEMMA NextSentInv == WireInv /\ SentInv /\ [Next]_vars => SentInv'
<1> SUFFICES ASSUME WireInv, SentInv, [Next]_vars PROVE SentInv'
  OBVIOUS
<1> DEFINE Same(o) == /\ o.readData = opt.readData
                      /\ o.post = opt.post /\ o.postFields = opt.postFields
           Untouched == UNCHANGED <<phase, up, xfer, asked>>
<1>0. Untouched /\ (Busy => Same(opt')) => SentInv'
  BY DEF SentInv, SentSoFar, VerbKnown, Followed, BodyDropped, DroppingStatus,
         AcceptedBodyIsWhole, Busy
<1>1. CASE SetterStep
  BY <1>0, <1>1, SetterStepType DEF WireInv, TypeOK, NotConfigured
<1>2. CASE SetLogger
  <2>1. Same(opt')
    BY <1>2 DEF SetLogger, WireInv, TypeOK, Options
  <2> QED
    BY <1>0, <1>2, <2>1 DEF SetLogger
<1>3. CASE Terminate \/ GetIntoThrows \/ UNCHANGED vars
  BY <1>0, <1>3 DEF Terminate, GetIntoThrows, Busy, vars
<1>4. CASE RequestStep
  BY <1>4, RequestStepPerforms, PerformSentInv DEF WireInv
<1>5. CASE TransferStep
  BY <1>5, TransferSentInv
<1>6. CASE Finish
  <2>1. phase' = "idle"
    BY <1>6 DEF Finish, FinishWith
  <2> QED
    BY <2>1 DEF SentInv, AcceptedBodyIsWhole, Busy
<1> QED
  BY <1>1, <1>2, <1>3, <1>4, <1>5, <1>6 DEF Next, CallerStep, SetterStep, RequestStep

(* Whatever the body and however libcurl slices its reads: a server that
   answered 2xx has the caller's bytes, each once and in order, or, after a
   redirect that turns the request into a GET, none; never a part. *)
THEOREM AcceptedBodyDelivered == Spec => []AcceptedBodyIsWhole
<1>1. Init => SentInv
  BY DEF Init, SentInv, AcceptedBodyIsWhole, Busy
<1>2. SentInv => AcceptedBodyIsWhole
  BY DEF SentInv
<1> QED
  BY <1>1, <1>2, NextSentInv, WireInvariant, PTL DEF Spec

(***************************************************************************)
(* Refinement of HttpExchange.  Under the mapping of Connection, setters   *)
(* are Configure, request calls Send, the end of performCurlRequest        *)
(* Receive, get on a terminated connection Refuse; SetLogger and every     *)
(* step of a transfer are invisible.                                       *)
(***************************************************************************)
MappedRequest == IF Busy THEN OnWire(opt, up) ELSE None
MappedAnswer ==
  IF Busy \/ xfer.url = None \/ resp.code = 0 THEN None
  ELSE [url |-> xfer.url, code |-> resp.code, curlCode |-> last.curlCode]

(* Both specifications speak of the same configurations and requests. *)
LEMMA SameVocabulary ==
  /\ Exchange!Configuration = Configuration
  /\ Exchange!Verb = Verb
  /\ Exchange!AnyBody = AnyBody
  /\ \A code : Exchange!IsHttpStatus(code) <=> IsHttpStatus(code)
  /\ \A c, verb, url, body : Exchange!Asked(c, verb, url, body) = Asked(c, verb, url, body)
<1>1. Exchange!Configuration = Configuration
  BY DEF Exchange!Configuration, Configuration, Exchange!OptionalText, OptionalText,
         Exchange!Proxy, Proxy, Exchange!NoProxy, NoProxy, Exchange!Writer, Writer
<1>2. /\ Exchange!Verb = Verb
      /\ Exchange!AnyBody = AnyBody
      /\ \A code : Exchange!IsHttpStatus(code) <=> IsHttpStatus(code)
  BY DEF Exchange!Verb, Verb, Exchange!AnyBody, AnyBody, Exchange!IsHttpStatus, IsHttpStatus
<1>3. \A c : Exchange!Effective(c) = Effective(c)
  BY DEF Exchange!Effective, Effective, Exchange!UserAgent, UserAgent
<1>4. \A c, verb, url, body :
        Exchange!Asked(c, verb, url, body) = Asked(c, verb, url, body)
  BY <1>3 DEF Exchange!Asked, Asked, Exchange!NoBodyVerb, NoBodyVerb
<1> QED
  BY <1>1, <1>2, <1>4

LEMMA MappedIsBusy ==
  ASSUME WireInv, AnswerInv, Busy
  PROVE  /\ MappedRequest = asked /\ MappedRequest # None
         /\ MappedRequest.url = xfer.url
         /\ MappedAnswer = None
<1>1. OnWire(opt, up).url = xfer.url
  BY DEF WireInv, UrlKnown, OnWire
<1>2. OnWire(opt, up) = asked /\ asked \in Request
  BY DEF WireInv, WireIsAsked, AnswerInv
<1> QED
  BY <1>1, <1>2, NoRequestAssumption DEF MappedRequest, MappedAnswer

(* A request call is a Send of what the configuration asks for. *)
LEMMA PerformSends ==
  ASSUME WireInv, AnswerInv, WireInv', AnswerInv',
         NEW verb \in Verb, NEW url \in Url, NEW body \in AnyBody,
         NEW r, NEW p, Perform(verb, url, body, r, p)
  PROVE  Exchange!Send
<1>1. /\ handle /\ ~Busy /\ Busy' /\ UNCHANGED <<config, handle>>
      /\ asked' = Asked(config, verb, url, body)
  BY DEF Perform, Busy
<1>2. MappedRequest = None
  BY <1>1 DEF MappedRequest
<1>3. MappedRequest' = Asked(config, verb, url, body) /\ MappedAnswer' = None
  <2>1. MappedRequest' = asked'
    BY <1>1 DEF WireInv, WireIsAsked, MappedRequest
  <2>2. MappedAnswer' = None
    BY <1>1 DEF MappedAnswer
  <2> QED
    BY <1>1, <2>1, <2>2
<1> QED
  BY <1>1, <1>2, <1>3, SameVocabulary DEF Exchange!Send, MappedRequest, MappedAnswer

(* The end of performCurlRequest is the Receive of an answer to it. *)
LEMMA FinishReceives ==
  ASSUME WireInv, AnswerInv, WireInv', AnswerInv', Finish
  PROVE  Exchange!Receive
<1>0. resp'.code # 0
  <2>1. /\ xfer.res \in Nat /\ xfer.status \in Nat /\ resp \in ResponseType
        /\ xfer.res = 0 => xfer.status \in HttpCode
        /\ resp' = CompletedResponse(resp)
    BY DEF WireInv, TypeOK, TransferType, AnswerInv, Finish, FinishWith
  <2> QED
    BY <2>1, ResponseMade, ResponseCodeClassifies
<1>1. /\ Busy /\ ~Busy' /\ phase' = "idle" /\ UNCHANGED <<config, handle>>
      /\ xfer' = [NoTransfer EXCEPT !.url = xfer.url]
  BY DEF Finish, FinishWith, Busy
<1>2. xfer'.url = xfer.url /\ xfer.url \in Url /\ xfer.url # None
  BY <1>1, RequestTypesAssumption DEF NoTransfer, WireInv, UrlKnown
<1>3. MappedRequest # None /\ MappedRequest.url = xfer.url
  BY <1>1, MappedIsBusy
<1>4. MappedRequest' = None
  BY <1>1 DEF MappedRequest
<1>5. MappedAnswer' = [url |-> xfer.url, code |-> resp'.code, curlCode |-> last'.curlCode]
  BY <1>0, <1>1, <1>2 DEF MappedAnswer
<1>6. resp'.code \in Int /\ last'.curlCode \in Nat
  BY DEF WireInv, TypeOK, ResponseType
<1>7. MappedAnswer' \in Exchange!Answer(MappedRequest.url)
  BY <1>3, <1>5, <1>6 DEF Exchange!Answer
<1>8. Exchange!WellCoded(MappedAnswer')
  BY <1>0, <1>1, <1>2, <1>5, SameVocabulary
     DEF AnswerInv, AnswerClassified, Exchange!WellCoded
<1> QED
  BY <1>1, <1>3, <1>4, <1>7, <1>8 DEF Exchange!Receive, MappedRequest, MappedAnswer

LEMMA NextExchange ==
  ASSUME WireInv, AnswerInv, WireInv', AnswerInv', [Next]_vars
  PROVE  [Exchange!Next]_Exchange!vars
<1> DEFINE Invisible == UNCHANGED <<config, handle, MappedRequest, MappedAnswer>>
<1>0. Invisible => [Exchange!Next]_Exchange!vars
  BY DEF Exchange!vars, MappedRequest, MappedAnswer
<1>1. CASE SetterStep
  <2>1. config' \in Configuration /\ UNCHANGED NotConfigured
    BY <1>1, SetterStepType DEF WireInv, TypeOK
  <2>2. UNCHANGED <<handle, MappedRequest, MappedAnswer>>
    BY <2>1 DEF NotConfigured, MappedRequest, MappedAnswer, Busy
  <2>3. Exchange!Configure
    BY <2>1, <2>2, SameVocabulary DEF Exchange!Configure, MappedRequest, MappedAnswer
  <2> QED
    BY <2>3 DEF Exchange!Next
<1>2. CASE SetLogger
  <2>1. PICK l \in Logger \cup {None} :
          /\ opt' = IF handle THEN [opt EXCEPT !.debugData = l] ELSE opt
          /\ UNCHANGED <<config, handle, phase, up, resp, errbuf, last, xfer, asked>>
    BY <1>2 DEF SetLogger
  <2>2. OnWire(opt', up) = OnWire(opt, up)
    BY <2>1, LoggerOffWire DEF WireInv, TypeOK
  <2> QED
    BY <1>0, <2>1, <2>2 DEF MappedRequest, MappedAnswer, Busy
<1>3. CASE Terminate
  <2>1. /\ ~Busy /\ ~Busy' /\ handle' = FALSE
        /\ UNCHANGED <<config, resp, last, xfer>>
    BY <1>3 DEF Terminate, Busy
  <2>2. MappedRequest = None /\ UNCHANGED <<MappedRequest, MappedAnswer>>
    BY <2>1 DEF MappedRequest, MappedAnswer
  <2>3. Exchange!Terminate
    BY <2>1, <2>2 DEF Exchange!Terminate, MappedRequest, MappedAnswer
  <2> QED
    BY <2>3 DEF Exchange!Next
<1>4. CASE RequestStep
  BY <1>4, RequestStepPerforms, PerformSends DEF WireInv, Exchange!Next
<1>5. CASE TransferStep
  <2>1. Busy /\ Busy' /\ UNCHANGED <<config, handle, asked>>
    BY <1>5, TransferStepMoves DEF ResponseMoves, Busy
  <2>2. MappedRequest' = asked' /\ MappedAnswer' = None
    BY <2>1 DEF WireInv, WireIsAsked, MappedRequest, MappedAnswer
  <2> QED
    BY <1>0, <2>1, <2>2, MappedIsBusy
<1>6. CASE Finish
  BY <1>6, FinishReceives DEF Exchange!Next
<1>7. CASE UNCHANGED vars
  BY <1>0, <1>7 DEF vars, MappedRequest, MappedAnswer, Busy
<1>8. CASE GetIntoThrows
  <2>1. /\ ~handle /\ resp'.code = 0 /\ UNCHANGED <<config, handle>>
        /\ UNCHANGED MappedRequest
    BY <1>8 DEF GetIntoThrows, Cleared, WireInv, TypeOK, ResponseType, MappedRequest, Busy
  <2>2. MappedAnswer' = None
    BY <2>1 DEF MappedAnswer
  <2>3. Exchange!Refuse
    BY <2>1, <2>2 DEF Exchange!Refuse, MappedRequest, MappedAnswer
  <2> QED
    BY <2>3 DEF Exchange!Next
<1> QED
  BY <1>1, <1>2, <1>3, <1>4, <1>5, <1>6, <1>7, <1>8 DEF Next, CallerStep, SetterStep, RequestStep

(* Every behaviour of the class is a behaviour of the atomic exchange: the
   handle, its options, their order and their reset cannot be observed. *)
THEOREM ConnectionIsExchange == Spec => ImplementsExchange
<1>1. Init => Exchange!Init
  <2> SUFFICES ASSUME Init PROVE Exchange!Init
    OBVIOUS
  <2>1. config \in Configuration
    BY InitWireInv DEF WireInv, TypeOK
  <2>2. handle = TRUE /\ ~Busy /\ xfer = NoTransfer
    BY DEF Init, Busy
  <2>3. xfer.url = None
    BY <2>2 DEF NoTransfer
  <2> QED
    BY <2>1, <2>2, <2>3, SameVocabulary DEF Exchange!Init
<1>2. WireInv /\ AnswerInv /\ WireInv' /\ AnswerInv' /\ [Next]_vars
        => [Exchange!Next]_Exchange!vars
  BY NextExchange
<1> QED
  BY <1>1, <1>2, WireInvariant, AnswerInvariant, PTL DEF Spec, ImplementsExchange, Exchange!Spec
=============================================================================
