---------------------------- MODULE RequestTypes ----------------------------
(***************************************************************************)
(* The vocabulary shared by the abstract exchange and by the Connection    *)
(* class of deps/restclient-cpp: what a caller can configure, what a       *)
(* request says, what a caller gets back.  Text that the code only copies  *)
(* (a path, a password, a user agent) is a member of the constant Text;    *)
(* the empty C++ string is "".                                             *)
(***************************************************************************)
EXTENDS Integers, Sequences

CONSTANTS
    Header,        \* header lines a caller may append
    TextOption,    \* the string settings handed to libcurl only when non-empty
    Text,          \* the non-empty strings those settings may take
    Timeout,       \* values passed to SetTimeout, 0 meaning none
    RedirectLimit, \* values passed to FollowRedirects, -1 meaning no limit
    Logger,        \* logger objects
    Url,           \* urls
    Body,          \* request bodies
    Byte,          \* what the bodies are made of
    None           \* no object: a null pointer

ASSUME RequestTypesAssumption ==
    /\ TextOption \subseteq {"caInfoFilePath", "certPath", "certType",
                             "keyPath", "keyPassword", "unixSocketPath"}
    /\ "" \notin Text
    /\ Timeout \subseteq Nat
    /\ RedirectLimit \subseteq Int
    /\ Body \subseteq Seq(Byte)
    /\ None \notin Logger \cup Url

OptionalText == Text \cup {""}

(* A proxy address, with whether it carries the http prefix. *)
NoProxy == [http |-> FALSE, addr |-> ""]
Proxy == {NoProxy} \cup [http : BOOLEAN, addr : Text]

(* write_callback of the library, or one of the caller's. *)
Writer == {"default", "custom"}

(* The settable fields of a Connection. *)
Configuration ==
    [headers      : [Header -> Nat],
     text         : [TextOption -> OptionalText],
     customAgent  : OptionalText,
     username     : OptionalText,
     proxy        : Proxy,
     timeout      : Timeout \cup {0},
     follow       : BOOLEAN,
     maxRedirects : RedirectLimit \cup {-1},
     noSignal     : BOOLEAN,
     progressFn   : BOOLEAN,
     progressData : OptionalText,
     writer       : Writer,
     verifyPeer   : BOOLEAN,
     verifyHost   : BOOLEAN]

(* The user agent the connection announces: the custom one alone when there
   is one, the library's token otherwise. *)
UserAgent(c) ==
    IF c.customAgent # "" THEN <<c.customAgent>> ELSE <<"restclient-cpp/VERSION">>

(***************************************************************************)
(* Requests.                                                               *)
(***************************************************************************)
Announced == {<<t>> : t \in Text \cup {"restclient-cpp/VERSION"}}
Follow == {<<>>} \cup {<<n>> : n \in RedirectLimit \cup {-1}}
AnyBody == Body \cup {<<>>}

Verb == {"GET", "POST", "PUT", "PATCH", "DELETE", "HEAD", "OPTIONS"}
UploadVerb == {"PUT", "PATCH"}
NoBodyVerb == {"HEAD", "OPTIONS"}

(* What a configuration means for a transfer, whatever the mechanism that
   carries it to libcurl: a redirect limit counts only when redirects are
   followed, a progress callback without data of its own is given the
   connection ("this"), a timeout turns signals off. *)
Effective(c) ==
    [headers    |-> c.headers,
     text       |-> c.text,
     agent      |-> UserAgent(c),
     username   |-> c.username,
     proxy      |-> c.proxy,
     tunnel     |-> c.proxy.addr # "",
     timeout    |-> c.timeout,
     redirects  |-> IF c.follow THEN <<c.maxRedirects>> ELSE <<>>,
     noSignal   |-> c.noSignal \/ c.timeout # 0,
     progress   |-> IF ~c.progressFn THEN ""
                    ELSE IF c.progressData # "" THEN c.progressData ELSE "this",
     writer     |-> c.writer,
     verifyPeer |-> c.verifyPeer,
     verifyHost |-> c.verifyHost]

(* The request a call of a verb on a connection configured as c asks for. *)
Asked(c, verb, url, body) ==
    [verb     |-> verb,
     url      |-> url,
     body     |-> body,
     wantBody |-> verb \notin NoBodyVerb,
     settings |-> Effective(c)]

Settings ==
    [headers : [Header -> Nat], text : [TextOption -> OptionalText],
     agent : Announced,
     username : OptionalText, proxy : Proxy, tunnel : BOOLEAN, timeout : Timeout \cup {0},
     redirects : Follow,
     noSignal : BOOLEAN, progress : OptionalText \cup {"this"},
     writer : Writer, verifyPeer : BOOLEAN, verifyHost : BOOLEAN]

Request ==
    [verb : Verb, url : Url, body : AnyBody, wantBody : BOOLEAN,
     settings : Settings]

(* No request is no object. *)
ASSUME NoRequestAssumption == None \notin Request

(***************************************************************************)
(* Answers: an HTTP status, or the error code of libcurl.                  *)
(***************************************************************************)
IsHttpStatus(code) == code >= 100
=============================================================================
