-------------------------- MODULE ConnectionProofs --------------------------
(***************************************************************************)
(* Proofs about Connection, for every set of urls, bodies, settings and    *)
(* loggers and every bound.                                                *)
(***************************************************************************)
EXTENDS Connection, TLAPS

(***************************************************************************)
(* The options of the handle.                                              *)
(***************************************************************************)
CleanOptions(d) == [DefaultOptions EXCEPT !.debugData = d]

LEMMA EmptyValues ==
  /\ <<>> \in Follow
  /\ <<>> \in AnyBody
  /\ \A n \in RedirectLimit \cup {-1} : <<n>> \in Follow
  BY DEF Follow, AnyBody

LEMMA UserAgentType ==
  ASSUME NEW c \in Configuration
  PROVE  UserAgent(c) \in Announced
  BY DEF UserAgent, Announced, Configuration, OptionalText

LEMMA DefaultOptionsType == DefaultOptions \in Options
<1>1. /\ [h \in Header |-> 0] \in [Header -> Nat]
      /\ [o \in TextOption |-> ""] \in [TextOption -> OptionalText]
      /\ NoProxy \in Proxy
      /\ "" \in OptionalText
  BY DEF OptionalText, Proxy, NoProxy
<1> QED
  BY <1>1, EmptyValues DEF DefaultOptions, Options

LEMMA VerbOptionsType ==
  ASSUME NEW o \in Options, NEW body \in AnyBody,
         NEW name \in {"PATCH", "DELETE", "HEAD", "OPTIONS"}
  PROVE  /\ PostOptions(o, body) \in Options
         /\ UploadOptions(o) \in Options
         /\ CustomOptions(o, name) \in Options
         /\ NoBodyOptions(o, name) \in Options
<1>1. PostOptions(o, body) \in Options
  BY DEF PostOptions, Options
<1>2. UploadOptions(o) \in Options
  BY DEF UploadOptions, Options
<1>3. CustomOptions(o, name) \in Options
  BY DEF CustomOptions, Options
<1>4. NoBodyOptions(o, name) \in Options
  BY DEF NoBodyOptions, Options
<1> QED
  BY <1>1, <1>2, <1>3, <1>4

LEMMA ExchangeOptionsType ==
  ASSUME NEW o \in Options, NEW c \in Configuration, NEW url \in Url
  PROVE  ExchangeOptions(o, c, url) \in Options
<1> DEFINE username == IF c.username # "" THEN c.username ELSE o.username
           agent == UserAgent(c)
           writer == c.writer
           headers == c.headers
<1>1. /\ agent \in Announced
      /\ writer \in Writer
      /\ headers \in [Header -> Nat]
      /\ username \in OptionalText
  BY UserAgentType DEF Configuration, Options
<1>2. ExchangeOptions(o, c, url) = 
    [o EXCEPT !.url         = url,
              !.writer      = writer,
              !.writeData   = TRUE,
              !.headerData  = TRUE,
              !.headers     = headers,
              !.username    = username,
              !.errorBuffer = TRUE,
              !.agent       = agent]
  BY DEF ExchangeOptions
<1> HIDE DEF username, agent, writer, headers
<1>3. [o EXCEPT !.url         = url,
              !.writer      = writer,
              !.writeData   = TRUE,
              !.headerData  = TRUE,
              !.headers     = headers,
              !.username    = username,
              !.errorBuffer = TRUE,
              !.agent       = agent] \in Options
  BY <1>1 DEF Options
<1> QED
  BY <1>2, <1>3

LEMMA LimitOptionsType ==
  ASSUME NEW o \in Options, NEW c \in Configuration
  PROVE  LimitOptions(o, c) \in Options
<1> DEFINE timeout == IF c.timeout # 0 THEN c.timeout ELSE o.timeout
           noSignal == o.noSignal \/ c.timeout # 0 \/ c.noSignal
           redirects == IF c.follow THEN <<c.maxRedirects>> ELSE o.redirects
           progress == IF ~c.progressFn THEN o.progress
                       ELSE IF c.progressData # "" THEN c.progressData ELSE "this"
<1>1. timeout \in Timeout \cup {0}
  BY DEF Configuration, Options
<1>2. noSignal \in BOOLEAN
  OBVIOUS
<1>3. redirects \in Follow
  BY EmptyValues DEF Configuration, Options
<1>4. progress \in OptionalText \cup {"this"}
  BY DEF Configuration, Options
<1>5. LimitOptions(o, c) =
        [o EXCEPT !.timeout = timeout, !.noSignal = noSignal,
                  !.redirects = redirects, !.progress = progress]
  BY DEF LimitOptions
<1> HIDE DEF timeout, noSignal, redirects, progress
<1>6. [o EXCEPT !.timeout = timeout, !.noSignal = noSignal,
                !.redirects = redirects, !.progress = progress] \in Options
  BY <1>1, <1>2, <1>3, <1>4 DEF Options
<1> QED
  BY <1>5, <1>6

LEMMA PeerOptionsType ==
  ASSUME NEW o \in Options, NEW c \in Configuration
  PROVE  PeerOptions(o, c) \in Options
<1> DEFINE text == [t \in TextOption |->
                      IF c.text[t] # "" THEN c.text[t] ELSE o.text[t]]
           peer == c.verifyPeer
           host == c.verifyHost
           proxy == IF c.proxy.addr # "" THEN c.proxy ELSE o.proxy
           tunnel == o.tunnel \/ c.proxy.addr # ""
<1>1. text \in [TextOption -> OptionalText]
  BY DEF Configuration, Options
<1>2. /\ peer \in BOOLEAN
      /\ host \in BOOLEAN
  BY DEF Configuration
<1>3. proxy \in Proxy
  BY DEF Configuration, Options
<1>4. tunnel \in BOOLEAN
  OBVIOUS
<1>5. PeerOptions(o, c) =
        [o EXCEPT !.text = text, !.verifyPeer = peer, !.verifyHost = host,
                  !.proxy = proxy, !.tunnel = tunnel]
  BY DEF PeerOptions
<1> HIDE DEF text, peer, host, proxy, tunnel
<1>6. [o EXCEPT !.text = text, !.verifyPeer = peer, !.verifyHost = host,
                !.proxy = proxy, !.tunnel = tunnel] \in Options
  BY <1>1, <1>2, <1>3, <1>4 DEF Options
<1> QED
  BY <1>5, <1>6

LEMMA RequestOptionsType ==
  ASSUME NEW o \in Options, NEW c \in Configuration, NEW url \in Url
  PROVE  RequestOptions(o, c, url) \in Options
BY ExchangeOptionsType, LimitOptionsType, PeerOptionsType DEF RequestOptions

(* The settings a handle may not hold when a request is prepared on it. *)
SettingsClean(o) ==
  /\ o.username = ""
  /\ o.timeout = 0
  /\ o.noSignal = FALSE
  /\ o.redirects = <<>>
  /\ o.progress = ""
  /\ o.text = [t \in TextOption |-> ""]
  /\ o.proxy = NoProxy
  /\ o.tunnel = FALSE

(* On such a handle the conditional options of performCurlRequest amount to
   the configuration: what is not set because its field is empty or false
   is not there from before either. *)
LEMMA CleanSettings ==
  ASSUME NEW o \in Options, NEW c \in Configuration, NEW url \in Url, SettingsClean(o),
         NEW u
  PROVE  OnWire(RequestOptions(o, c, url), u).settings = Effective(c)
<1> DEFINE r == RequestOptions(o, c, url)
<1>1. /\ r.headers = c.headers
      /\ r.agent = UserAgent(c)
      /\ r.username = c.username
      /\ r.writer = c.writer
  <2>1. /\ r.headers = c.headers
        /\ r.agent = UserAgent(c)
    BY DEF RequestOptions, PeerOptions, LimitOptions, ExchangeOptions, Options
  <2>2. r.username = (IF c.username # "" THEN c.username ELSE o.username)
    BY DEF RequestOptions, PeerOptions, LimitOptions, ExchangeOptions, Options
  <2>3. r.writer = c.writer
    <3>1. ExchangeOptions(o, c, url).writer = c.writer
      BY DEF ExchangeOptions, Options
    <3>2. \A x \in Options : LimitOptions(x, c).writer = x.writer
      BY DEF LimitOptions, Options
    <3>3. \A x \in Options : PeerOptions(x, c).writer = x.writer
      BY DEF PeerOptions, Options
    <3> QED
      BY <3>1, <3>2, <3>3, ExchangeOptionsType, LimitOptionsType DEF RequestOptions
  <2> QED
    BY <2>1, <2>2, <2>3 DEF SettingsClean
<1>2. /\ r.timeout = c.timeout
      /\ r.redirects = (IF c.follow THEN <<c.maxRedirects>> ELSE <<>>)
      /\ r.progress = (IF ~c.progressFn THEN ""
                       ELSE IF c.progressData # "" THEN c.progressData ELSE "this")
  BY DEF RequestOptions, PeerOptions, LimitOptions, ExchangeOptions, Options, SettingsClean
<1>3. r.noSignal = (c.noSignal \/ c.timeout # 0)
  BY DEF RequestOptions, PeerOptions, LimitOptions, ExchangeOptions, Options,
         SettingsClean, Configuration
<1>4. /\ r.verifyPeer = c.verifyPeer
      /\ r.verifyHost = c.verifyHost
      /\ r.tunnel = (c.proxy.addr # "")
  BY DEF RequestOptions, PeerOptions, LimitOptions, ExchangeOptions, Options,
         SettingsClean, Configuration
<1>5. r.proxy = c.proxy
  <2>1. r.proxy = (IF c.proxy.addr # "" THEN c.proxy ELSE o.proxy)
    BY DEF RequestOptions, PeerOptions, LimitOptions, ExchangeOptions, Options
  <2>2. c.proxy.addr = "" => c.proxy = NoProxy
    BY RequestTypesAssumption DEF Configuration, Proxy, NoProxy
  <2> QED
    BY <2>1, <2>2 DEF SettingsClean
<1>6. r.text = c.text
  <2>1. r.text = [t \in TextOption |-> IF c.text[t] # "" THEN c.text[t] ELSE o.text[t]]
    BY DEF RequestOptions, PeerOptions, LimitOptions, ExchangeOptions, Options
  <2>2. c.text \in [TextOption -> OptionalText]
    BY DEF Configuration
  <2>3. \A t \in TextOption : o.text[t] = ""
    BY DEF SettingsClean
  <2> QED
    BY <2>1, <2>2, <2>3
<1> HIDE DEF r
<1> QED
  BY <1>1, <1>2, <1>3, <1>4, <1>5, <1>6 DEF OnWire, Effective, r

(* performCurlRequest leaves the options of the verb and of SetLogger alone. *)
LEMMA VerbOptionsKept ==
  ASSUME NEW o \in Options, NEW c \in Configuration, NEW url \in Url
  PROVE  LET r == RequestOptions(o, c, url)
         IN /\ r.url = url
            /\ r.post = o.post /\ r.postFields = o.postFields
            /\ r.customRequest = o.customRequest
            /\ r.upload = o.upload /\ r.readData = o.readData
            /\ r.noBody = o.noBody
            /\ r.debugData = o.debugData
            /\ r.errorBuffer = TRUE
<1> DEFINE Kept(x, y) ==
             /\ x.post = y.post /\ x.postFields = y.postFields
             /\ x.customRequest = y.customRequest
             /\ x.upload = y.upload /\ x.readData = y.readData
             /\ x.noBody = y.noBody
             /\ x.debugData = y.debugData
<1>1. /\ ExchangeOptions(o, c, url).url = url
      /\ ExchangeOptions(o, c, url).errorBuffer = TRUE
      /\ Kept(ExchangeOptions(o, c, url), o)
  BY DEF ExchangeOptions, Options
<1>2. \A x \in Options : /\ LimitOptions(x, c).url = x.url
                         /\ LimitOptions(x, c).errorBuffer = x.errorBuffer
                         /\ Kept(LimitOptions(x, c), x)
  BY DEF LimitOptions, Options
<1>3. \A x \in Options : /\ PeerOptions(x, c).url = x.url
                         /\ PeerOptions(x, c).errorBuffer = x.errorBuffer
                         /\ Kept(PeerOptions(x, c), x)
  BY DEF PeerOptions, Options
<1> QED
  BY <1>1, <1>2, <1>3, ExchangeOptionsType, LimitOptionsType DEF RequestOptions

(* p is what one of the verbs, called with this body, makes of the options o. *)
VerbPrepares(p, o, verb, body) ==
  \/ verb = "GET" /\ body = <<>> /\ p = o
  \/ verb = "POST" /\ p = PostOptions(o, body)
  \/ verb = "PUT" /\ p = UploadOptions(o)
  \/ verb = "PATCH" /\ p = UploadOptions(CustomOptions(o, "PATCH"))
  \/ verb = "DELETE" /\ body = <<>> /\ p = CustomOptions(o, "DELETE")
  \/ verb = "HEAD" /\ body = <<>> /\ p = NoBodyOptions(o, "HEAD")
  \/ verb = "OPTIONS" /\ body = <<>> /\ p = NoBodyOptions(o, "OPTIONS")

(* No option of a verb is set. *)
NoVerb(o) ==
  /\ o.post = FALSE
  /\ o.upload = FALSE
  /\ o.readData = FALSE
  /\ o.noBody = FALSE
  /\ o.customRequest = ""

LEMMA CleanOptionsClean ==
  ASSUME NEW d \in Logger \cup {None}
  PROVE  /\ CleanOptions(d) \in Options
         /\ SettingsClean(CleanOptions(d))
         /\ NoVerb(CleanOptions(d))
         /\ CleanOptions(d).debugData = d
  BY DefaultOptionsType DEF CleanOptions, DefaultOptions, SettingsClean, Options, NoVerb

(* What the options of a verb make of the request, the handle being clean. *)
LEMMA VerbPrepared ==
  ASSUME NEW o \in Options, SettingsClean(o), NoVerb(o), NEW verb, NEW body \in AnyBody,
         NEW p, VerbPrepares(p, o, verb, body)
  PROVE  /\ p \in Options
         /\ SettingsClean(p)
         /\ p.debugData = o.debugData
         /\ verb \in Verb
         /\ p.customRequest = IF verb \in {"PATCH", "DELETE", "HEAD", "OPTIONS"}
                              THEN verb ELSE ""
         /\ p.upload <=> verb \in UploadVerb
         /\ p.readData <=> verb \in UploadVerb
         /\ p.post <=> verb = "POST"
         /\ p.post => p.postFields = body
         /\ ~p.post /\ ~p.upload => body = <<>>
         /\ p.noBody <=> verb \in NoBodyVerb
<1>1. CASE verb = "GET" /\ body = <<>> /\ p = o
  BY <1>1 DEF NoVerb, Verb, UploadVerb, NoBodyVerb
<1>2. CASE verb = "POST" /\ p = PostOptions(o, body)
  <2>1. p \in Options
    BY <1>2, VerbOptionsType
  <2>2. SettingsClean(p)
    BY <1>2 DEF PostOptions, SettingsClean, Options
  <2> QED
    BY <1>2, <2>1, <2>2 DEF PostOptions, NoVerb, Verb, UploadVerb, NoBodyVerb, Options
<1>3. CASE verb = "PUT" /\ p = UploadOptions(o)
  <2>1. p \in Options
    BY <1>3, VerbOptionsType
  <2>2. SettingsClean(p)
    BY <1>3 DEF UploadOptions, SettingsClean, Options
  <2> QED
    BY <1>3, <2>1, <2>2 DEF UploadOptions, NoVerb, Verb, UploadVerb, NoBodyVerb, Options
<1>4. CASE verb = "PATCH" /\ p = UploadOptions(CustomOptions(o, "PATCH"))
  <2>1. p \in Options
    BY <1>4, VerbOptionsType
  <2>2. SettingsClean(p)
    BY <1>4 DEF UploadOptions, CustomOptions, SettingsClean, Options
  <2> QED
    BY <1>4, <2>1, <2>2 DEF UploadOptions, CustomOptions, NoVerb, Verb, UploadVerb, NoBodyVerb, Options
<1>5. CASE verb = "DELETE" /\ body = <<>> /\ p = CustomOptions(o, "DELETE")
  <2>1. p \in Options
    BY <1>5, VerbOptionsType
  <2>2. SettingsClean(p)
    BY <1>5 DEF CustomOptions, SettingsClean, Options
  <2> QED
    BY <1>5, <2>1, <2>2 DEF CustomOptions, NoVerb, Verb, UploadVerb, NoBodyVerb, Options
<1>6. CASE verb = "HEAD" /\ body = <<>> /\ p = NoBodyOptions(o, "HEAD")
  <2>1. p \in Options
    BY <1>6, VerbOptionsType
  <2>2. SettingsClean(p)
    BY <1>6 DEF NoBodyOptions, SettingsClean, Options
  <2> QED
    BY <1>6, <2>1, <2>2 DEF NoBodyOptions, NoVerb, Verb, UploadVerb, NoBodyVerb, Options
<1>7. CASE verb = "OPTIONS" /\ body = <<>> /\ p = NoBodyOptions(o, "OPTIONS")
  <2>1. p \in Options
    BY <1>7, VerbOptionsType
  <2>2. SettingsClean(p)
    BY <1>7 DEF NoBodyOptions, SettingsClean, Options
  <2> QED
    BY <1>7, <2>1, <2>2 DEF NoBodyOptions, NoVerb, Verb, UploadVerb, NoBodyVerb, Options
<1> QED
  BY <1>1, <1>2, <1>3, <1>4, <1>5, <1>6, <1>7 DEF VerbPrepares

(* A request prepared on a clean handle says what its caller asked for. *)
LEMMA PreparedIsAsked ==
  ASSUME NEW o \in Options, SettingsClean(o), NoVerb(o), NEW verb, NEW body \in AnyBody,
         NEW p, VerbPrepares(p, o, verb, body),
         NEW c \in Configuration, NEW url \in Url,
         NEW u, u.data = IF p.readData THEN body ELSE <<>>
  PROVE  OnWire(RequestOptions(p, c, url), u) = Asked(c, verb, url, body)
<1> DEFINE r == RequestOptions(p, c, url)
<1>1. /\ p \in Options
      /\ SettingsClean(p)
  BY VerbPrepared
<1>2. OnWire(r, u).settings = Effective(c)
  BY <1>1, CleanSettings
<1>3. /\ r.url = url
      /\ r.post = p.post /\ r.postFields = p.postFields
      /\ r.customRequest = p.customRequest
      /\ r.upload = p.upload /\ r.readData = p.readData
      /\ r.noBody = p.noBody
  BY <1>1, VerbOptionsKept
<1>4. /\ p.post \in BOOLEAN /\ p.upload \in BOOLEAN /\ p.noBody \in BOOLEAN
      /\ p.readData \in BOOLEAN
  BY <1>1 DEF Options
<1> HIDE DEF r
<1>5. verb = IF r.customRequest # "" THEN r.customRequest
             ELSE IF r.upload THEN "PUT" ELSE IF r.post THEN "POST" ELSE "GET"
  BY <1>3, <1>4, VerbPrepared DEF Verb, UploadVerb
<1>6. body = IF r.readData THEN u.data ELSE IF r.post THEN r.postFields ELSE <<>>
  BY <1>3, <1>4, VerbPrepared DEF UploadVerb
<1>7. (verb \notin NoBodyVerb) = (~r.noBody)
  BY <1>3, <1>4, VerbPrepared
<1> QED
  BY <1>2, <1>3, <1>5, <1>6, <1>7 DEF OnWire, Asked, r

(***************************************************************************)
(* Types.                                                                  *)
(***************************************************************************)
LEMMA EffectiveType ==
  ASSUME NEW c \in Configuration
  PROVE  Effective(c) \in Settings
<1> DEFINE redirects == IF c.follow THEN <<c.maxRedirects>> ELSE <<>>
           noSignal == c.noSignal \/ c.timeout # 0
           progress == IF ~c.progressFn THEN ""
                       ELSE IF c.progressData # "" THEN c.progressData ELSE "this"
           tunnel == c.proxy.addr # ""
           agent == UserAgent(c)
<1>1. redirects \in Follow
  BY EmptyValues DEF Configuration
<1>2. noSignal \in BOOLEAN /\ tunnel \in BOOLEAN
  OBVIOUS
<1>3. progress \in OptionalText \cup {"this"}
  BY DEF Configuration, OptionalText
<1>4. agent \in Announced
  BY UserAgentType
<1> HIDE DEF redirects, noSignal, progress, tunnel, agent
<1>5. [headers |-> c.headers, text |-> c.text, agent |-> agent, username |-> c.username,
       proxy |-> c.proxy, tunnel |-> tunnel, timeout |-> c.timeout,
       redirects |-> redirects, noSignal |-> noSignal, progress |-> progress,
       writer |-> c.writer, verifyPeer |-> c.verifyPeer, verifyHost |-> c.verifyHost]
        \in Settings
  BY <1>1, <1>2, <1>3, <1>4 DEF Settings, Configuration
<1> QED
  BY <1>5 DEF Effective, redirects, noSignal, progress, tunnel, agent

LEMMA AskedType ==
  ASSUME NEW c \in Configuration, NEW verb \in Verb, NEW url \in Url,
         NEW body \in AnyBody
  PROVE  Asked(c, verb, url, body) \in Request
<1> DEFINE settings == Effective(c)
           want == verb \notin NoBodyVerb
<1>1. settings \in Settings
  BY EffectiveType
<1>2. want \in BOOLEAN
  OBVIOUS
<1> HIDE DEF settings, want
<1>3. [verb |-> verb, url |-> url, body |-> body, wantBody |-> want,
       settings |-> settings] \in Request
  BY <1>1, <1>2 DEF Request
<1> QED
  BY <1>3 DEF Asked, settings, want

(* A configuration call: one field of the configuration takes a value of its
   type, nothing else moves. *)
SetterStep ==
  \/ AppendHeader \/ SetHeaders \/ SetText \/ SetUserAgent \/ SetBasicAuth
  \/ SetProxy \/ SetTimeout \/ FollowRedirects \/ SetNoSignal
  \/ SetFileProgressCallback \/ SetFileProgressCallbackData \/ SetWriteFunction
  \/ SetVerifyPeer \/ SetVerifyHost

NotConfigured ==
  <<logger, handle, opt, phase, up, resp, errbuf, last, xfer, asked>>

LEMMA SetterStepType ==
  ASSUME config \in Configuration, SetterStep
  PROVE  config' \in Configuration /\ UNCHANGED NotConfigured
<1> USE DEF Configure, NotConfigured
<1>1. CASE AppendHeader
  <2>1. PICK h \in Header : Configure("AppendHeader", [config EXCEPT !.headers[h] = @ + 1])
    BY <1>1 DEF AppendHeader
  <2>2. [config.headers EXCEPT ![h] = @ + 1] \in [Header -> Nat]
    BY DEF Configuration
  <2>3. [config EXCEPT !.headers[h] = @ + 1] =
           [config EXCEPT !.headers = [config.headers EXCEPT ![h] = @ + 1]]
    BY DEF Configuration
  <2> QED
    BY <2>1, <2>2, <2>3 DEF Configuration
<1>2. CASE SetHeaders
  <2>1. PICK hs \in [Header -> 0..MaxHeader] :
             Configure("SetHeaders", [config EXCEPT !.headers = hs])
    BY <1>2 DEF SetHeaders
  <2>2. hs \in [Header -> Nat]
    BY ConnectionAssumption
  <2> QED
    BY <2>1, <2>2 DEF Configuration
<1>3. CASE SetText
  <2>1. PICK o \in TextOption, t \in OptionalText :
             Configure(o, [config EXCEPT !.text[o] = t])
    BY <1>3 DEF SetText
  <2>2. [config.text EXCEPT ![o] = t] \in [TextOption -> OptionalText]
    BY DEF Configuration
  <2>3. [config EXCEPT !.text[o] = t] =
           [config EXCEPT !.text = [config.text EXCEPT ![o] = t]]
    BY DEF Configuration
  <2> QED
    BY <2>1, <2>2, <2>3 DEF Configuration
<1>4. CASE SetUserAgent
  BY <1>4 DEF SetUserAgent, Configuration
<1>5. CASE SetBasicAuth
  BY <1>5 DEF SetBasicAuth, Configuration
<1>6. CASE SetProxy
  <2>1. PICK p \in Proxy : Configure("SetProxy",
          [config EXCEPT !.proxy = IF p.addr # "" THEN [p EXCEPT !.http = TRUE] ELSE p])
    BY <1>6 DEF SetProxy
  <2> DEFINE q == IF p.addr # "" THEN [p EXCEPT !.http = TRUE] ELSE p
  <2>2. q \in Proxy
    <3>1. CASE p.addr # ""
      <4>1. p \in [http : BOOLEAN, addr : Text]
        <5>1. NoProxy.addr = ""
          BY DEF NoProxy
        <5> QED
          BY <3>1, <5>1 DEF Proxy
      <4>2. [p EXCEPT !.http = TRUE] \in [http : BOOLEAN, addr : Text]
        BY <4>1
      <4> QED
        BY <3>1, <4>2 DEF Proxy
    <3>2. CASE p.addr = ""
      BY <3>2
    <3> QED
      BY <3>1, <3>2
  <2> HIDE DEF q
  <2>3. [config EXCEPT !.proxy = q] \in Configuration
    BY <2>2 DEF Configuration
  <2> QED
    BY <2>1, <2>3 DEF q
<1>7. CASE SetTimeout
  BY <1>7 DEF SetTimeout, Configuration
<1>8. CASE FollowRedirects
  BY <1>8 DEF FollowRedirects, Configuration
<1>9. CASE SetNoSignal
  BY <1>9 DEF SetNoSignal, Configuration
<1>10. CASE SetFileProgressCallback
  BY <1>10 DEF SetFileProgressCallback, Configuration
<1>11. CASE SetFileProgressCallbackData
  BY <1>11 DEF SetFileProgressCallbackData, Configuration
<1>12. CASE SetWriteFunction
  BY <1>12 DEF SetWriteFunction, Configuration
<1>13. CASE SetVerifyPeer
  BY <1>13 DEF SetVerifyPeer, Configuration
<1>14. CASE SetVerifyHost
  BY <1>14 DEF SetVerifyHost, Configuration
<1> QED
  BY <1>1, <1>2, <1>3, <1>4, <1>5, <1>6, <1>7, <1>8, <1>9, <1>10, <1>11, <1>12,
     <1>13, <1>14 DEF SetterStep

(***************************************************************************)
(* The inductive invariant.  WireIsAsked alone is not inductive: that a    *)
(* request starts from a clean handle is IdleHandleClean, which needs the  *)
(* types; and the callbacks file their data under the url of the transfer. *)
(***************************************************************************)
UrlKnown == Busy => opt.url \in Url /\ xfer.url = opt.url

ReadWithinData == up.read <= Len(up.data)

WireInv ==
  /\ TypeOK
  /\ IdleHandleClean
  /\ WireIsAsked
  /\ UrlKnown
  /\ ReadWithinData

LEMMA EmptySequence == ASSUME NEW S PROVE <<>> \in Seq(S)
  OBVIOUS

LEMMA BodiesAreSequences == AnyBody \subseteq Seq(Byte)
<1>1. Body \subseteq Seq(Byte)
  BY RequestTypesAssumption
<1> QED
  BY <1>1, EmptySequence DEF AnyBody

LEMMA EmptyResponseType == EmptyResponse \in ResponseType
<1>1. <<>> \in Seq(Piece)
  BY EmptySequence
<1> QED
  BY <1>1 DEF EmptyResponse, ResponseType

LEMMA ClearedType ==
  ASSUME NEW r \in ResponseType
  PROVE  Cleared(r) \in ResponseType
<1> DEFINE b == <<>>
           h == {}
           z == 0
<1>1. b \in Seq(Piece) /\ h \in SUBSET HeaderEntry /\ z \in Int
  BY EmptySequence
<1> HIDE DEF b, h, z
<1>2. [r EXCEPT !.body = b, !.code = z, !.headers = h] \in ResponseType
  BY <1>1 DEF ResponseType
<1> QED
  BY <1>2 DEF Cleared, b, h, z

LEMMA InitWireInv == Init => WireInv
<1> SUFFICES ASSUME Init PROVE WireInv
  OBVIOUS
<1>1. config \in Configuration
  <2>1. /\ [h \in Header |-> 0] \in [Header -> Nat]
        /\ [o \in TextOption |-> ""] \in [TextOption -> OptionalText]
        /\ NoProxy \in Proxy
        /\ "" \in OptionalText
        /\ "default" \in Writer
    BY DEF OptionalText, Proxy, Writer
  <2> QED
    BY <2>1 DEF Init, Configuration
<1>2. TypeOK
  <2>1. opt \in Options
    BY DefaultOptionsType DEF Init
  <2>2. resp \in ResponseType
    BY EmptyResponseType DEF Init
  <2>3. up \in [data : AnyBody, read : Nat]
    BY EmptyValues DEF Init, NoUpload
  <2>4. xfer \in TransferType
    BY EmptySequence DEF Init, NoTransfer, TransferType
  <2> QED
    BY <1>1, <2>1, <2>2, <2>3, <2>4 DEF Init, TypeOK
<1>3. IdleHandleClean
  <2>1. \A o \in Options : o = [o EXCEPT !.debugData = o.debugData]
    BY DEF Options
  <2> QED
    BY <2>1, DefaultOptionsType DEF Init, IdleHandleClean
<1>4. WireIsAsked /\ UrlKnown
  BY DEF Init, WireIsAsked, UrlKnown, Busy
<1>5. ReadWithinData
  <2>1. NoUpload.read <= Len(NoUpload.data)
    BY DEF NoUpload
  <2> QED
    BY <2>1 DEF Init, ReadWithinData
<1> QED
  BY <1>2, <1>3, <1>4, <1>5 DEF WireInv

LEMMA SetterWireInv ==
  ASSUME WireInv, SetterStep
  PROVE  WireInv'
<1>1. config' \in Configuration /\ UNCHANGED NotConfigured
  BY SetterStepType DEF WireInv, TypeOK
<1>2. TypeOK'
  BY <1>1 DEF WireInv, TypeOK, NotConfigured
<1>3. IdleHandleClean' /\ WireIsAsked' /\ UrlKnown' /\ ReadWithinData'
  BY <1>1 DEF WireInv, IdleHandleClean, WireIsAsked, UrlKnown, ReadWithinData, Busy,
              NotConfigured
<1> QED
  BY <1>2, <1>3 DEF WireInv

(* The debug options are no part of the request. *)
LEMMA LoggerOffWire ==
  ASSUME NEW o \in Options, NEW d \in Logger \cup {None}, NEW u
  PROVE  /\ [o EXCEPT !.debugData = d] \in Options
         /\ OnWire([o EXCEPT !.debugData = d], u) = OnWire(o, u)
         /\ [o EXCEPT !.debugData = d].debugData = d
         /\ [o EXCEPT !.debugData = d].url = o.url
<1>1. /\ [o EXCEPT !.debugData = d] \in Options
      /\ [o EXCEPT !.debugData = d].debugData = d
      /\ [o EXCEPT !.debugData = d].url = o.url
  BY DEF Options
<1>2. OnWire([o EXCEPT !.debugData = d], u) = OnWire(o, u)
  BY DEF Options, OnWire
<1> QED
  BY <1>1, <1>2

LEMMA LoggerWireInv ==
  ASSUME WireInv, SetLogger
  PROVE  WireInv'
<1> USE DEF WireInv
<1>1. PICK l \in Logger \cup {None} :
         /\ logger' = l
         /\ opt' = IF handle THEN [opt EXCEPT !.debugData = l] ELSE opt
         /\ UNCHANGED <<config, handle, phase, up, resp, errbuf, last, xfer, asked>>
  BY DEF SetLogger
<1>2. opt \in Options
  BY DEF TypeOK
<1>3. /\ opt' \in Options
      /\ OnWire(opt', up) = OnWire(opt, up)
      /\ opt'.url = opt.url
  BY <1>1, <1>2, LoggerOffWire
<1>4. TypeOK'
  BY <1>1, <1>3 DEF TypeOK
<1>5. IdleHandleClean'
  <2>1. CASE handle
    BY <1>1, <1>2, <2>1 DEF IdleHandleClean, DefaultOptions, Options
  <2>2. CASE ~handle
    BY <1>1, <2>2 DEF IdleHandleClean
  <2> QED
    BY <2>1, <2>2
<1>6. WireIsAsked' /\ UrlKnown' /\ ReadWithinData'
  BY <1>1, <1>3 DEF WireIsAsked, UrlKnown, ReadWithinData, Busy
<1> QED
  BY <1>4, <1>5, <1>6

LEMMA TerminateWireInv ==
  ASSUME WireInv, Terminate
  PROVE  WireInv'
<1> USE DEF WireInv, Terminate
<1>1. opt' = DefaultOptions /\ DefaultOptions \in Options
  BY DefaultOptionsType
<1>2. TypeOK'
  BY <1>1 DEF TypeOK
<1>3. IdleHandleClean'
  <2>1. \A o \in Options : o = [o EXCEPT !.debugData = o.debugData]
    BY DEF Options
  <2> QED
    BY <1>1, <2>1 DEF IdleHandleClean
<1>4. WireIsAsked' /\ UrlKnown' /\ ReadWithinData'
  BY DEF WireIsAsked, UrlKnown, ReadWithinData, Busy
<1> QED
  BY <1>2, <1>3, <1>4

LEMMA GetIntoThrowsWireInv ==
  ASSUME WireInv, GetIntoThrows
  PROVE  WireInv'
<1>1. resp' \in ResponseType
  BY ClearedType DEF WireInv, TypeOK, GetIntoThrows
<1>2. UNCHANGED <<config, logger, handle, opt, phase, up, errbuf, last, xfer, asked>>
  BY DEF GetIntoThrows
<1>3. TypeOK'
  BY <1>1, <1>2 DEF WireInv, TypeOK
<1>4. IdleHandleClean' /\ WireIsAsked' /\ UrlKnown' /\ ReadWithinData'
  BY <1>2 DEF WireInv, IdleHandleClean, WireIsAsked, UrlKnown, ReadWithinData, Busy
<1> QED
  BY <1>3, <1>4 DEF WireInv

(* The eight request calls. *)
RequestStep ==
  Get \/ GetInto \/ Post \/ Put \/ Patch \/ Del \/ HeadCall \/ OptionsCall

LEMMA RequestStepPerforms ==
  ASSUME TypeOK, RequestStep
  PROVE  \E verb \in Verb, url \in Url, body \in AnyBody, r \in ResponseType : \E p :
           Perform(verb, url, body, r, p) /\ VerbPrepares(p, opt, verb, body)
<1> USE EmptyResponseType, EmptyValues DEF VerbPrepares, Verb, AnyBody
<1>1. CASE Get
  BY <1>1 DEF Get
<1>2. CASE GetInto
  BY <1>2 DEF GetInto, TypeOK
<1>3. CASE Post
  BY <1>3 DEF Post
<1>4. CASE Put
  BY <1>4 DEF Put
<1>5. CASE Patch
  BY <1>5 DEF Patch
<1>6. CASE Del
  BY <1>6 DEF Del
<1>7. CASE HeadCall
  BY <1>7 DEF HeadCall
<1>8. CASE OptionsCall
  BY <1>8 DEF OptionsCall
<1> QED
  BY <1>1, <1>2, <1>3, <1>4, <1>5, <1>6, <1>7, <1>8 DEF RequestStep

(* A request call puts on the wire what was asked: the handle was clean. *)
LEMMA PerformWireInv ==
  ASSUME WireInv, NEW verb \in Verb, NEW url \in Url, NEW body \in AnyBody,
         NEW r \in ResponseType, NEW p, VerbPrepares(p, opt, verb, body),
         Perform(verb, url, body, r, p)
  PROVE  WireInv'
<1> USE DEF WireInv
<1>1. opt = CleanOptions(opt.debugData) /\ opt.debugData \in Logger \cup {None}
  BY DEF Perform, IdleHandleClean, CleanOptions, TypeOK, Options
<1>2. opt \in Options /\ SettingsClean(opt) /\ NoVerb(opt)
  BY <1>1, CleanOptionsClean
<1>3. p \in Options
  BY <1>2, VerbPrepared
<1>4. config \in Configuration
  BY DEF TypeOK
<1>5. opt' \in Options /\ opt'.url = url
  BY <1>3, <1>4, RequestOptionsType, VerbOptionsKept DEF Perform
<1>6. up'.data = (IF p.readData THEN body ELSE <<>>) /\ up'.read = 0
  BY DEF Perform
<1>7. up' \in [data : AnyBody, read : Nat]
  BY EmptyValues DEF Perform
<1>8. resp' \in ResponseType
  BY ClearedType DEF Perform
<1>9. xfer' \in TransferType /\ xfer'.url = url
  BY EmptySequence DEF Perform, NoTransfer, TransferType
<1>10. asked' \in Request
  BY <1>4, AskedType DEF Perform
<1>11. TypeOK'
  BY <1>4, <1>5, <1>7, <1>8, <1>9, <1>10 DEF Perform, TypeOK
<1>12. WireIsAsked'
  <2>1. OnWire(opt', up') = Asked(config, verb, url, body)
    <3>1. OnWire(RequestOptions(p, config, url), up') = Asked(config, verb, url, body)
      BY <1>2, <1>4, <1>6, PreparedIsAsked
    <3> QED
      BY <3>1 DEF Perform
  <2>2. asked' = Asked(config, verb, url, body)
    BY DEF Perform
  <2> QED
    BY <2>1, <2>2 DEF WireIsAsked
<1>13. IdleHandleClean' /\ UrlKnown'
  BY <1>5, <1>9 DEF IdleHandleClean, UrlKnown, Perform, Busy
<1>14. ReadWithinData'
  BY <1>6, <1>7, BodiesAreSequences DEF ReadWithinData
<1> QED
  BY <1>11, <1>12, <1>13, <1>14

(* The callbacks and the returns of curl_easy_perform leave the options of
   the handle alone, and move the response, the upload object and the
   transfer within their types. *)
ResponseMoves ==
  /\ resp' \in ResponseType
  /\ xfer' \in TransferType
  /\ xfer'.url = xfer.url
  /\ errbuf' \in {"garbage", ""} \cup Url
  /\ up' \in [data : AnyBody, read : Nat]
  /\ up'.data = up.data
  /\ ReadWithinData'
  /\ phase \in {"sending", "receiving"}
  /\ phase' \in {"sending", "receiving", "returned"}
  /\ UNCHANGED <<config, logger, handle, opt, last, asked>>

LEMMA HeaderCallbackType ==
  ASSUME NEW r \in ResponseType, opt.url \in Url, xfer.heads \in Nat
  PROVE  HeaderCallback(r) \in ResponseType
<1> DEFINE hs == r.headers \cup {[url |-> opt.url, head |-> xfer.heads + 1]}
<1>1. [url |-> opt.url, head |-> xfer.heads + 1] \in HeaderEntry
  BY DEF HeaderEntry
<1>2. hs \in SUBSET HeaderEntry
  BY <1>1 DEF ResponseType
<1> HIDE DEF hs
<1>3. [r EXCEPT !.headers = hs] \in ResponseType
  BY <1>2 DEF ResponseType
<1> QED
  BY <1>3 DEF HeaderCallback, hs

LEMMA ReadCallbackType ==
  ASSUME NEW u, u.data \in Seq(Byte), u.read \in Nat, u.read <= Len(u.data),
         NEW n \in Nat
  PROVE  /\ ReadCallback(u, n).bytes \in Seq(Byte)
         /\ ReadCallback(u, n).read \in Nat
         /\ ReadCallback(u, n).read <= Len(u.data)
  BY DEF ReadCallback

LEMMA CodesAndBounds ==
  /\ MaxRead \in Nat
  /\ CurlError \subseteq Nat
  /\ HttpCode \subseteq Nat
<1>1. /\ MaxRead \in Nat
      /\ CurlError \subseteq Nat
      /\ HttpCode \subseteq 200..599
  BY ConnectionAssumption
<1> QED
  BY <1>1

LEMMA Concatenation ==
  ASSUME NEW S, NEW s \in Seq(S), NEW t \in Seq(S)
  PROVE  s \o t \in Seq(S)
  OBVIOUS

LEMMA TransferFields ==
  ASSUME NEW x \in TransferType
  PROVE  /\ x.sent \in Seq(Byte)
         /\ x.heads \in Nat /\ x.hops \in Nat /\ x.chunks \in Nat
         /\ x.heads + 1 \in Nat /\ x.hops + 1 \in Nat /\ x.chunks + 1 \in Nat
         /\ x.status \in Nat /\ x.res \in Nat
         /\ x.via \in SUBSET HttpCode
<1>1. /\ x.sent \in Seq(Byte)
      /\ x.heads \in Nat /\ x.hops \in Nat /\ x.chunks \in Nat
      /\ x.status \in Nat /\ x.res \in Nat
      /\ x.via \in SUBSET HttpCode
  BY DEF TransferType
<1> QED
  BY <1>1

LEMMA TransferUpdates ==
  ASSUME NEW x \in TransferType
  PROVE  /\ \A s \in Seq(Byte) : [x EXCEPT !.sent = s] \in TransferType
         /\ \A n \in Nat : /\ [x EXCEPT !.heads = n] \in TransferType
                           /\ [x EXCEPT !.hops = n] \in TransferType
                           /\ [x EXCEPT !.chunks = n] \in TransferType
                           /\ [x EXCEPT !.status = n] \in TransferType
                           /\ [x EXCEPT !.res = n] \in TransferType
         /\ \A v \in SUBSET HttpCode : [x EXCEPT !.via = v] \in TransferType
  BY DEF TransferType

LEMMA TransferStepMoves ==
  ASSUME WireInv, TransferStep
  PROVE  ResponseMoves
<1> USE DEF WireInv
<1>0. /\ resp \in ResponseType /\ xfer \in TransferType /\ opt \in Options
      /\ up \in [data : AnyBody, read : Nat] /\ up.data \in Seq(Byte)
      /\ errbuf \in {"garbage", ""} \cup Url
      /\ InTransfer => opt.url \in Url
  BY BodiesAreSequences DEF TypeOK, InTransfer, UrlKnown, Busy
<1>1. CASE SendUpload
  <2>1. PICK n \in 1..MaxRead :
          /\ phase = "sending"
          /\ xfer' = [xfer EXCEPT !.sent = @ \o ReadCallback(up, n).bytes]
          /\ up' = [up EXCEPT !.read = ReadCallback(up, n).read]
          /\ UNCHANGED <<config, logger, handle, opt, phase, resp, errbuf, last, asked>>
    BY <1>1 DEF SendUpload
  <2> DEFINE r == ReadCallback(up, n)
  <2>2. r.bytes \in Seq(Byte) /\ r.read \in Nat /\ r.read <= Len(up.data)
    <3>1. up.read \in Nat
      BY <1>0
    <3>2. up.read <= Len(up.data)
      BY DEF ReadWithinData
    <3>3. n \in Nat
      BY CodesAndBounds
    <3> QED
      BY <1>0, <3>1, <3>2, <3>3, ReadCallbackType
  <2> HIDE DEF r
  <2>3. xfer.sent \o r.bytes \in Seq(Byte)
    BY <1>0, <2>2, TransferFields, Concatenation
  <2>4. xfer' \in TransferType /\ xfer'.url = xfer.url
    BY <1>0, <2>1, <2>3, TransferUpdates DEF TransferType, r
  <2>5. up' \in [data : AnyBody, read : Nat] /\ up'.data = up.data /\ up'.read = r.read
    BY <1>0, <2>1, <2>2 DEF r
  <2> QED
    BY <1>0, <2>1, <2>2, <2>4, <2>5 DEF ResponseMoves, ReadWithinData
<1>2. CASE SendFields
  <2>1. opt.postFields \in Seq(Byte)
    BY <1>0, BodiesAreSequences DEF Options
  <2>2. xfer' \in TransferType /\ xfer'.url = xfer.url
    BY <1>0, <1>2, <2>1, TransferUpdates DEF SendFields, TransferType
  <2> QED
    BY <1>0, <1>2, <2>2 DEF SendFields, ResponseMoves, ReadWithinData
<1>3. CASE InterimHead
  <2>1. xfer.heads + 1 \in Nat
    BY <1>0, TransferFields
  <2>2. xfer' \in TransferType /\ xfer'.url = xfer.url
    BY <1>0, <1>3, <2>1, TransferUpdates DEF InterimHead, TransferType
  <2>3. resp' \in ResponseType
    BY <1>0, <1>3, HeaderCallbackType DEF InterimHead, InTransfer, TransferType
  <2> QED
    BY <1>0, <1>3, <2>2, <2>3 DEF InterimHead, ResponseMoves, ReadWithinData
<1>4. CASE Redirected
  <2>1. PICK code \in HttpCode :
          /\ phase = "sending"
          /\ resp' = HeaderCallback(resp)
          /\ xfer' = [xfer EXCEPT !.heads = @ + 1, !.hops = @ + 1, !.sent = <<>>,
                                  !.via = @ \cup {code}]
          /\ UNCHANGED <<config, logger, handle, opt, phase, up, errbuf, last, asked>>
    BY <1>4 DEF Redirected
  <2> DEFINE x == [[xfer EXCEPT !.heads = xfer.heads + 1] EXCEPT !.hops = xfer.hops + 1]
             y == [x EXCEPT !.sent = <<>>]
             z == [y EXCEPT !.via = xfer.via \cup {code}]
  <2>2. /\ xfer.heads + 1 \in Nat /\ xfer.hops + 1 \in Nat /\ <<>> \in Seq(Byte)
        /\ xfer.via \cup {code} \in SUBSET HttpCode
    BY <1>0, TransferFields, EmptySequence
  <2>3. z \in TransferType
    <3>1. [xfer EXCEPT !.heads = xfer.heads + 1] \in TransferType
      BY <1>0, <2>2, TransferUpdates
    <3>2. x \in TransferType
      BY <2>2, <3>1, TransferUpdates
    <3>3. y \in TransferType
      BY <2>2, <3>2, TransferUpdates
    <3> HIDE DEF y
    <3> QED
      BY <2>2, <3>3, TransferUpdates
  <2>4. z.url = xfer.url
    BY <1>0 DEF TransferType
  <2>5. xfer' = z
    BY <1>0, <2>1 DEF TransferType
  <2>6. resp' \in ResponseType
    BY <1>0, <2>1, HeaderCallbackType DEF InTransfer, TransferType
  <2> HIDE DEF z
  <2> QED
    BY <1>0, <2>1, <2>3, <2>4, <2>5, <2>6 DEF ResponseMoves, ReadWithinData
<1>5. CASE RedirectFails
  <2> DEFINE n == IF MayFollow THEN SEND_FAIL_REWIND ELSE TOO_MANY_REDIRECTS
             y == [[xfer EXCEPT !.res = n] EXCEPT !.heads = xfer.heads + 1]
  <2>1. n \in Nat /\ xfer.heads + 1 \in Nat
    BY <1>0, TransferFields DEF SEND_FAIL_REWIND, TOO_MANY_REDIRECTS
  <2>2. y \in TransferType
    BY <1>0, <2>1, TransferUpdates
  <2>3. y.url = xfer.url
    BY <1>0 DEF TransferType
  <2>4. xfer' = y
    BY <1>0, <1>5 DEF RedirectFails, Returned, TransferType
  <2>5. resp' \in ResponseType
    BY <1>0, <1>5, HeaderCallbackType DEF RedirectFails, InTransfer, TransferType
  <2> QED
    BY <1>0, <1>5, <2>2, <2>3, <2>4, <2>5
       DEF RedirectFails, ResponseMoves, ReadWithinData, InTransfer
<1>6. CASE FinalHead
  <2>1. PICK code \in HttpCode :
          /\ phase = "sending"
          /\ phase' = "receiving"
          /\ resp' = HeaderCallback(resp)
          /\ xfer' = [xfer EXCEPT !.heads = @ + 1, !.status = code]
          /\ UNCHANGED <<config, logger, handle, opt, up, errbuf, last, asked>>
    BY <1>6 DEF FinalHead
  <2> DEFINE y == [[xfer EXCEPT !.heads = xfer.heads + 1] EXCEPT !.status = code]
  <2>2. code \in Nat /\ xfer.heads + 1 \in Nat
    BY <1>0, TransferFields, CodesAndBounds
  <2>3. y \in TransferType
    BY <1>0, <2>2, TransferUpdates
  <2>4. y.url = xfer.url
    BY <1>0 DEF TransferType
  <2>5. xfer' = y
    BY <1>0, <2>1 DEF TransferType
  <2>6. resp' \in ResponseType
    BY <1>0, <2>1, HeaderCallbackType DEF InTransfer, TransferType
  <2> QED
    BY <1>0, <2>1, <2>3, <2>4, <2>5, <2>6 DEF ResponseMoves, ReadWithinData
<1>7. CASE WriteCallback
  <2>1. xfer.chunks + 1 \in Nat
    BY <1>0, TransferFields
  <2>2. xfer' \in TransferType /\ xfer'.url = xfer.url
    BY <1>0, <1>7, <2>1, TransferUpdates DEF WriteCallback, TransferType
  <2> DEFINE b == Append(resp.body, <<opt.url, xfer.chunks + 1>>)
  <2>3. b \in Seq(Piece)
    <3>1. <<opt.url, xfer.chunks + 1>> \in Piece
      BY <1>0, <1>7, <2>1 DEF Piece, WriteCallback, InTransfer
    <3>2. resp.body \in Seq(Piece)
      BY <1>0 DEF ResponseType
    <3> QED
      BY <3>1, <3>2
  <2> HIDE DEF b
  <2>4. [resp EXCEPT !.body = b] \in ResponseType
    BY <1>0, <2>3 DEF ResponseType
  <2>5. resp' \in ResponseType
    BY <1>0, <1>7, <2>4 DEF WriteCallback, b
  <2> QED
    BY <1>0, <1>7, <2>2, <2>5 DEF WriteCallback, ResponseMoves, ReadWithinData
<1>8. CASE TransferDone
  <2>1. xfer' \in TransferType /\ xfer'.url = xfer.url
    BY <1>0, <1>8, TransferUpdates DEF TransferDone, Returned, TransferType
  <2> QED
    BY <1>0, <1>8, <2>1 DEF TransferDone, ResponseMoves, ReadWithinData
<1>9. CASE TransferFails
  <2>1. CurlError \subseteq Nat
    BY CodesAndBounds
  <2>2. xfer' \in TransferType
    <3>1. PICK code \in CurlError : xfer' = [xfer EXCEPT !.res = code]
      BY <1>9 DEF TransferFails, Returned
    <3> QED
      BY <1>0, <2>1, <3>1, TransferUpdates
  <2>3. xfer'.url = xfer.url
    BY <1>0, <1>9 DEF TransferFails, Returned, TransferType
  <2> QED
    BY <1>0, <1>9, <2>2, <2>3 DEF TransferFails, ResponseMoves, ReadWithinData, InTransfer
<1>10. CASE TimesOut
  <2>1. TIMEDOUT \in Nat
    BY DEF TIMEDOUT
  <2>2. xfer' \in TransferType /\ xfer'.url = xfer.url
    BY <1>0, <1>10, <2>1, TransferUpdates DEF TimesOut, Returned, TransferType
  <2> QED
    BY <1>0, <1>10, <2>2 DEF TimesOut, ResponseMoves, ReadWithinData, InTransfer
<1> QED
  BY <1>1, <1>2, <1>3, <1>4, <1>5, <1>6, <1>7, <1>8, <1>9, <1>10 DEF TransferStep

LEMMA TransferWireInv ==
  ASSUME WireInv, TransferStep
  PROVE  WireInv'
<1> USE DEF WireInv
<1>1. ResponseMoves
  BY TransferStepMoves
<1>2. TypeOK'
  BY <1>1 DEF ResponseMoves, TypeOK
<1>3. OnWire(opt', up') = OnWire(opt, up)
  BY <1>1 DEF ResponseMoves, OnWire
<1>4. WireIsAsked' /\ IdleHandleClean'
  BY <1>1, <1>3 DEF ResponseMoves, WireIsAsked, IdleHandleClean, Busy
<1>5. UrlKnown' /\ ReadWithinData'
  BY <1>1 DEF ResponseMoves, UrlKnown, Busy
<1> QED
  BY <1>2, <1>4, <1>5

LEMMA FinishWireInv ==
  ASSUME WireInv, Finish
  PROVE  WireInv'
<1> USE DEF WireInv
<1>0. /\ xfer \in TransferType
      /\ xfer.res \in Nat /\ xfer.status \in Nat
      /\ resp \in ResponseType
  BY TransferFields DEF TypeOK
<1>1. opt' \in Options
  BY DefaultOptionsType DEF Finish, FinishWith
<1>2. CompletedResponse(resp) \in ResponseType
  <2> DEFINE code == ResponseCode(xfer.res, xfer.status)
             body == IF xfer.res # 0 THEN <<StrError(xfer.res)>> ELSE resp.body
  <2>1. code \in Int
    BY <1>0 DEF ResponseCode
  <2>2. body \in Seq(Piece)
    <3>1. StrError(xfer.res) \in Piece
      BY <1>0 DEF StrError, Piece
    <3>2. <<StrError(xfer.res)>> \in Seq(Piece)
      BY <3>1
    <3>3. resp.body \in Seq(Piece)
      BY <1>0 DEF ResponseType
    <3> QED
      BY <3>2, <3>3
  <2> HIDE DEF code, body
  <2>3. [resp EXCEPT !.code = code, !.body = body] \in ResponseType
    BY <1>0, <2>1, <2>2 DEF ResponseType
  <2> QED
    BY <2>3 DEF CompletedResponse, code, body
<1>3. xfer' \in TransferType
  <2>1. NoTransfer \in TransferType
    BY EmptySequence DEF NoTransfer, TransferType
  <2>2. \A x \in TransferType, url \in Url \cup {None} :
           [x EXCEPT !.url = url] \in TransferType
    BY DEF TransferType
  <2>3. xfer.url \in Url \cup {None}
    BY <1>0 DEF TransferType
  <2> QED
    BY <2>1, <2>2, <2>3 DEF Finish, FinishWith
<1>4. up' \in [data : AnyBody, read : Nat]
  BY EmptyValues DEF Finish, FinishWith, NoUpload
<1>5. last' \in [curlCode : Nat, curlError : {"garbage", ""} \cup Url]
  BY <1>0 DEF Finish, FinishWith, TypeOK
<1>6. TypeOK'
  BY <1>1, <1>2, <1>3, <1>4, <1>5 DEF Finish, FinishWith, TypeOK
<1>7. IdleHandleClean'
  <2>1. \A o \in Options : o = [o EXCEPT !.debugData = o.debugData]
    BY DEF Options
  <2> QED
    BY <2>1, DefaultOptionsType DEF Finish, FinishWith, IdleHandleClean
<1>8. WireIsAsked' /\ UrlKnown'
  BY DEF Finish, FinishWith, WireIsAsked, UrlKnown, Busy
<1>9. ReadWithinData'
  <2>1. NoUpload.read <= Len(NoUpload.data)
    BY DEF NoUpload
  <2> QED
    BY <2>1 DEF Finish, FinishWith, ReadWithinData
<1> QED
  BY <1>6, <1>7, <1>8, <1>9

LEMMA NextWireInv == WireInv /\ [Next]_vars => WireInv'
<1> SUFFICES ASSUME WireInv, [Next]_vars PROVE WireInv'
  OBVIOUS
<1>1. CASE SetterStep
  BY <1>1, SetterWireInv
<1>2. CASE SetLogger
  BY <1>2, LoggerWireInv
<1>3. CASE Terminate
  BY <1>3, TerminateWireInv
<1>4. CASE RequestStep
  BY <1>4, RequestStepPerforms, PerformWireInv DEF WireInv
<1>5. CASE TransferStep
  BY <1>5, TransferWireInv
<1>6. CASE Finish
  BY <1>6, FinishWireInv
<1>7. CASE UNCHANGED vars
  BY <1>7 DEF vars, WireInv, TypeOK, IdleHandleClean, WireIsAsked, UrlKnown,
              ReadWithinData, Busy
<1>8. CASE GetIntoThrows
  BY <1>8, GetIntoThrowsWireInv
<1> QED
  BY <1>1, <1>2, <1>3, <1>4, <1>5, <1>6, <1>7, <1>8 DEF Next, CallerStep, SetterStep, RequestStep

LEMMA WireInvariant == Spec => []WireInv
  BY InitWireInv, NextWireInv, PTL DEF Spec

(* The members of the connection, the options of the handle, the response
   and the transfer keep their types in every behaviour. *)
THEOREM TypeCorrect == Spec => []TypeOK
<1>1. WireInv => TypeOK
  BY DEF WireInv
<1> QED
  BY <1>1, WireInvariant, PTL

(* performCurlRequest leaves a handle behind that holds nothing of the
   request: the next one, of whatever verb, starts from the defaults. *)
THEOREM HandleReset == Spec => []IdleHandleClean
<1>1. WireInv => IdleHandleClean
  BY DEF WireInv
<1> QED
  BY <1>1, WireInvariant, PTL

(* What is on the wire is what the call asked for, for any settings made
   before the call, during it and for earlier calls. *)
THEOREM RequestIsTheOneAsked == Spec => []WireIsAsked
<1>1. WireInv => WireIsAsked
  BY DEF WireInv
<1> QED
  BY <1>1, WireInvariant, PTL
=============================================================================
