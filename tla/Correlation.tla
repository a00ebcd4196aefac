---------------------------- MODULE Correlation ----------------------------
(***************************************************************************)
(* Correlation ids in the log: Log_correlation_rule puts the id of a       *)
(* request into the diagnostic context of log4cplus (MDC), and the layout  *)
(* of log.ini prints it on every line.                                     *)
(*                                                                         *)
(* The MDC belongs to a thread.  restbed runs the rules, then the handler  *)
(* on the worker that took the request; a handler that asks for the body   *)
(* goes on in a callback, on whatever worker is free when the body is      *)
(* there, and the rule does not run again.  restbed is external: Arrive,   *)
(* FetchBody, BodyArrives and Close say what it may do.                    *)
(***************************************************************************)
EXTENDS Naturals, FiniteSets

CONSTANTS
    Worker,       \* the threads of the service (worker_limit)
    Session,      \* connections
    ClientId,     \* ids that clients send, in lower case
    Uuid,         \* ids that create_uuid gives
    MaxRequests,  \* bound on the requests of a behaviour
    None          \* no header, no session, an empty MDC

Id == ClientId \cup Uuid

ASSUME CorrelationAssumption ==
    /\ MaxRequests \in Nat
    /\ ClientId \cap Uuid = {}
    /\ None \notin Id \cup Session

(* An X-Request-ID header, as written by the client. *)
Header == [id : ClientId, upper : BOOLEAN]

VARIABLES
    mdc,       \* correlationId in the MDC of each worker
    running,   \* the session each worker executes code of
    inline,    \* that code was called by the rule, not by a later callback
    stage,     \* where the request of each session is
    header,    \* its X-Request-ID
    own,       \* history: the id the rule settled on
    used,      \* the uuids generated so far
    arrived,   \* the number of requests so far
    log        \* the lines written

vars == <<mdc, running, inline, stage, header, own, used, arrived, log>>

Init ==
    /\ mdc = [w \in Worker |-> None]
    /\ running = [w \in Worker |-> None]
    /\ inline = [w \in Worker |-> FALSE]
    /\ stage = [s \in Session |-> "idle"]
    /\ header = [s \in Session |-> None]
    /\ own = [s \in Session |-> None]
    /\ used = {}
    /\ arrived = 0
    /\ log = {}

(* A request head has been read. *)
Arrive(s) == \E h \in Header \cup {None} :
    /\ stage[s] = "idle"
    /\ arrived < MaxRequests
    /\ arrived' = arrived + 1
    /\ stage' = [stage EXCEPT ![s] = "arrived"]
    /\ header' = [header EXCEPT ![s] = h]
    /\ own' = [own EXCEPT ![s] = None]
    /\ UNCHANGED <<mdc, running, inline, used, log>>

(***************************************************************************)
(* The rule.                                                               *)
(***************************************************************************)
(* Mutant: the header is taken as the client wrote it. *)
RawIds(s) == IF header[s] # None THEN {header[s]} ELSE Uuid \ used

(* The ids the request may get: its own in lower case, or a fresh one. *)
CorrelationIds(s) == IF header[s] # None THEN {header[s].id} ELSE Uuid \ used

(* Mutant: one context for all threads. *)
PutShared(w, id) == [v \in Worker |-> id]

PutMdc(w, id) == [mdc EXCEPT ![w] = id]

(* A line of the log: whose it is, which id it shows, whether it was written
   below the rule, and how much of the body it has. *)
Line(kind, id, shown, below, body) ==
    [kind |-> kind, own |-> id, shown |-> shown, inline |-> below, body |-> body]

(* Mutant: the warning is written before the id is in the context. *)
WarnedEarly(w, s, id) ==
    IF header[s] # None THEN {} ELSE {Line("missing id", id, mdc[w], TRUE, "")}

(* The warning about a generated id. *)
Warning(w, s, id) ==
    IF header[s] # None THEN {} ELSE {Line("missing id", id, mdc'[w], TRUE, "")}

(* The context is cleared and filled, the warning written, and the callback
   runs the handler before the rule returns. *)
RuleAction(w, s) == \E id \in CorrelationIds(s) :
    /\ running[w] = None
    /\ stage[s] = "arrived"
    /\ mdc' = PutMdc(w, id)
    /\ used' = used \cup ({id} \cap Uuid)
    /\ own' = [own EXCEPT ![s] = id]
    /\ log' = log \cup Warning(w, s, id)
    /\ running' = [running EXCEPT ![w] = s]
    /\ inline' = [inline EXCEPT ![w] = TRUE]
    /\ stage' = [stage EXCEPT ![s] = "handled"]
    /\ UNCHANGED <<header, arrived>>

(***************************************************************************)
(* The handler and what it logs.                                           *)
(***************************************************************************)
Written(w, kind, body) ==
    /\ running[w] # None
    /\ log' = log \cup {Line(kind, own[running[w]], mdc[w], inline[w], body)}
    /\ UNCHANGED <<mdc, running, inline, stage, header, own, used, arrived>>

(* log_request_message writes a body only if it is told to, for a GET or a
   POST, and if the head announces one; get_body gives nothing until the body
   was fetched.  What the request is, is chosen anew for each line. *)
LogRequestMessage(w) == \E logBody, getOrPost, announced \in BOOLEAN :
    Written(w, "message", IF ~(logBody /\ getOrPost /\ announced) THEN ""
                          ELSE IF stage[running[w]] = "fetched" THEN "whole" ELSE "pending")

(* The body, or a line that says that there is none. *)
LogRequestBody(w) == \E empty \in BOOLEAN :
    /\ running[w] # None
    /\ stage[running[w]] = "fetched"
    /\ Written(w, "body", IF empty THEN "none" ELSE "whole")

(* Session::fetch: at once when the body is in already, later otherwise. *)
FetchBody(w) == \E there \in BOOLEAN :
    /\ running[w] # None
    /\ stage[running[w]] = "handled"
    /\ stage' = [stage EXCEPT ![running[w]] = IF there THEN "fetched" ELSE "fetching"]
    /\ running' = IF there THEN running ELSE [running EXCEPT ![w] = None]
    /\ UNCHANGED <<mdc, inline, header, own, used, arrived, log>>

BodyArrives(w, s) ==
    /\ running[w] = None
    /\ stage[s] = "fetching"
    /\ stage' = [stage EXCEPT ![s] = "fetched"]
    /\ running' = [running EXCEPT ![w] = s]
    /\ inline' = [inline EXCEPT ![w] = FALSE]
    /\ UNCHANGED <<mdc, header, own, used, arrived, log>>

(* The answer is sent; the connection may bring another request. *)
Close(w) ==
    /\ running[w] # None
    /\ stage' = [stage EXCEPT ![running[w]] = "idle"]
    /\ running' = [running EXCEPT ![w] = None]
    /\ UNCHANGED <<mdc, inline, header, own, used, arrived, log>>

Next ==
    \/ \E s \in Session : Arrive(s)
    \/ \E w \in Worker, s \in Session : RuleAction(w, s) \/ BodyArrives(w, s)
    \/ \E w \in Worker : \/ LogRequestMessage(w) \/ LogRequestBody(w)
                         \/ FetchBody(w) \/ Close(w)

Spec == Init /\ [][Next]_vars

(***************************************************************************)
(* Properties.                                                             *)
(***************************************************************************)
LineType ==
    [kind : {"missing id", "message", "body"}, own : Id, shown : Id \cup {None},
     inline : BOOLEAN, body : {"", "none", "pending", "whole"}]

(* Contexts, sessions and lines hold ids in the form the rule gives them. *)
TypeOK ==
    /\ mdc \in [Worker -> Id \cup {None}]
    /\ running \in [Worker -> Session \cup {None}]
    /\ inline \in [Worker -> BOOLEAN]
    /\ stage \in [Session -> {"idle", "arrived", "handled", "fetching", "fetched"}]
    /\ header \in [Session -> Header \cup {None}]
    /\ own \in [Session -> Id \cup {None}]
    /\ used \subseteq Uuid
    /\ arrived \in Nat
    /\ log \subseteq LineType

(* Every line written below the rule, its own warning included, shows the
   id of its request, whatever other workers do meanwhile and whatever the
   worker did before (Log_correlation_rule::action calls the handler while
   its context is in place). *)
InlineLinesOwn ==
    \A l \in log : l.inline => l.shown = l.own

(* An id that no client sent is explained: whatever line shows it, the log
   has the warning of the request it was generated for, under that id. *)
GeneratedIdAnnounced ==
    \A l \in log : l.shown \in Uuid =>
        \E m \in log : m.kind = "missing id" /\ m.shown = l.shown /\ m.own = l.shown

(* The rule fills the context of the logger and log.ini prints it on every
   line: a line shows the id of the request it is about. *)
LinesOwn ==
    \A l \in log : l.shown = l.own
=============================================================================
