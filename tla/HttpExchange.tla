---------------------------- MODULE HttpExchange ----------------------------
(***************************************************************************)
(* What a Connection promises to its caller, with no libcurl handle in     *)
(* sight.  A connection has a configuration; a call puts one request on    *)
(* the wire that says exactly what the verb and the configuration of that  *)
(* moment ask for; the exchange ends with one answer, which belongs to     *)
(* this request and is an HTTP status or a transport error, never mixed    *)
(* up.  Changing the configuration while a request is under way (from the  *)
(* progress callback) changes later requests only.  A terminated           *)
(* connection sends nothing any more; a call on it may take the last       *)
(* answer back, never leave it in part.                                    *)
(***************************************************************************)
EXTENDS RequestTypes

VARIABLES
    config,    \* the caller's configuration
    open,      \* the connection has not been terminated
    request,   \* the request on the wire, None when idle
    answer     \* the answer to the last request, None while there is none

vars == <<config, open, request, answer>>

Answer(url) == [url : {url}, code : Int, curlCode : Nat]

(* The answer tells an HTTP status from a transport error by its code
   alone, and a transport error that would look like a status is -1. *)
WellCoded(a) ==
    /\ a.curlCode = 0 <=> IsHttpStatus(a.code)
    /\ a.curlCode \in 1..99 => a.code = a.curlCode
    /\ a.curlCode > 99 => a.code = -1

Init ==
    /\ config \in Configuration
    /\ open = TRUE
    /\ request = None
    /\ answer = None

Configure ==
    /\ config' \in Configuration
    /\ UNCHANGED <<open, request, answer>>

Send ==
    /\ open
    /\ request = None
    /\ \E v \in Verb, u \in Url, b \in AnyBody :
          request' = Asked(config, v, u, b)
    /\ answer' = None
    /\ UNCHANGED <<config, open>>

Receive ==
    /\ request # None
    /\ answer' \in Answer(request.url)
    /\ WellCoded(answer')
    /\ request' = None
    /\ UNCHANGED <<config, open>>

Terminate ==
    /\ request = None
    /\ open' = FALSE
    /\ UNCHANGED <<config, request, answer>>

(* A call on a terminated connection fails; an answer it was given to fill
   again is gone. *)
Refuse ==
    /\ ~open
    /\ answer' = None
    /\ UNCHANGED <<config, open, request>>

Next == Configure \/ Send \/ Receive \/ Terminate \/ Refuse

Spec == Init /\ [][Next]_vars
=============================================================================
