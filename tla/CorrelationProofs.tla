------------------------- MODULE CorrelationProofs -------------------------
(***************************************************************************)
(* Proofs about Correlation, for any number of workers, connections and    *)
(* requests.                                                               *)
(***************************************************************************)
EXTENDS Correlation, TLAPS

(* A worker executes code of a request that has its id, no two workers of
   the same one, and below the rule its context holds that id. *)
WorkerInv ==
    \A w \in Worker : running[w] # None =>
        /\ stage[running[w]] \in {"handled", "fetched"}
        /\ own[running[w]] \in Id
        /\ inline[w] => mdc[w] = own[running[w]]
        /\ \A v \in Worker : v # w => running[v] # running[w]

(* A request waiting for its body has its id. *)
WaitingInv == \A s \in Session : stage[s] = "fetching" => own[s] \in Id

(* A generated id has been announced as soon as a context holds it. *)
Announced(id) ==
    \E m \in log : m.kind = "missing id" /\ m.shown = id /\ m.own = id

ContextInv == \A w \in Worker : mdc[w] \in Uuid => Announced(mdc[w])

CorrelationInv ==
    /\ TypeOK
    /\ WorkerInv
    /\ WaitingInv
    /\ ContextInv
    /\ InlineLinesOwn
    /\ GeneratedIdAnnounced

LEMMA NoneIsNothing == None \notin Id /\ None \notin Session /\ Uuid \subseteq Id
  BY CorrelationAssumption DEF Id

LEMMA InitInv == Init => CorrelationInv
<1> SUFFICES ASSUME Init PROVE CorrelationInv
  OBVIOUS
<1> USE NoneIsNothing DEF Init
<1>1. TypeOK
  BY DEF TypeOK
<1>2. WorkerInv /\ WaitingInv
  BY DEF WorkerInv, WaitingInv
<1>3. ContextInv
  BY DEF ContextInv
<1>4. InlineLinesOwn /\ GeneratedIdAnnounced
  BY DEF InlineLinesOwn, GeneratedIdAnnounced
<1> QED
  BY <1>1, <1>2, <1>3, <1>4 DEF CorrelationInv

LEMMA ArriveInv ==
  ASSUME CorrelationInv, NEW s \in Session, Arrive(s)
  PROVE  CorrelationInv'
<1> USE NoneIsNothing DEF CorrelationInv, TypeOK
<1>1. PICK h \in Header \cup {None} :
        /\ stage[s] = "idle"
        /\ arrived' = arrived + 1
        /\ stage' = [stage EXCEPT ![s] = "arrived"]
        /\ header' = [header EXCEPT ![s] = h]
        /\ own' = [own EXCEPT ![s] = None]
        /\ UNCHANGED <<mdc, running, inline, used, log>>
  BY DEF Arrive
<1>2. TypeOK'
  BY <1>1
<1>3. WorkerInv'
  BY <1>1 DEF WorkerInv
<1>4. WaitingInv'
  BY <1>1 DEF WaitingInv
<1>5. ContextInv' /\ InlineLinesOwn' /\ GeneratedIdAnnounced'
  BY <1>1 DEF ContextInv, Announced, InlineLinesOwn, GeneratedIdAnnounced
<1> QED
  BY <1>2, <1>3, <1>4, <1>5

(* The rule: the warning, if any, is written with the new context. *)
LEMMA RuleActionInv ==
  ASSUME CorrelationInv, NEW w \in Worker, NEW s \in Session, RuleAction(w, s)
  PROVE  CorrelationInv'
<1> USE NoneIsNothing DEF CorrelationInv, TypeOK
<1>1. PICK id \in CorrelationIds(s) :
        /\ running[w] = None
        /\ stage[s] = "arrived"
        /\ mdc' = PutMdc(w, id)
        /\ used' = used \cup ({id} \cap Uuid)
        /\ own' = [own EXCEPT ![s] = id]
        /\ log' = log \cup Warning(w, s, id)
        /\ running' = [running EXCEPT ![w] = s]
        /\ inline' = [inline EXCEPT ![w] = TRUE]
        /\ stage' = [stage EXCEPT ![s] = "handled"]
        /\ UNCHANGED <<header, arrived>>
  BY DEF RuleAction
<1>2. id \in Id /\ (header[s] # None => id \notin Uuid)
  BY CorrelationAssumption DEF CorrelationIds, Header, Id
<1>3. mdc' = [mdc EXCEPT ![w] = id] /\ mdc'[w] = id
  BY <1>1 DEF PutMdc
<1> DEFINE l == Line("missing id", id, id, TRUE, "")
<1>4. /\ l \in LineType /\ l.kind = "missing id" /\ l.own = id /\ l.shown = id
  BY <1>2 DEF Line, LineType
<1>5. log' = IF header[s] # None THEN log ELSE log \cup {l}
  BY <1>1, <1>3 DEF Warning
<1> HIDE DEF l
<1>6. TypeOK'
  BY <1>1, <1>2, <1>3, <1>4, <1>5
<1>7. WorkerInv'
  <2>1. \A v \in Worker : running[v] # s
    BY <1>1 DEF WorkerInv
  <2> QED
    BY <1>1, <1>2, <1>3, <2>1 DEF WorkerInv
<1>8. WaitingInv'
  BY <1>1, <1>2 DEF WaitingInv
<1>9. \A i : Announced(i) => Announced(i)'
  BY <1>5 DEF Announced
<1>10. id \in Uuid => Announced(id)'
  BY <1>2, <1>4, <1>5 DEF Announced
<1>11. ContextInv'
  BY <1>3, <1>9, <1>10 DEF ContextInv
<1>12. InlineLinesOwn'
  BY <1>4, <1>5 DEF InlineLinesOwn
<1>13. GeneratedIdAnnounced'
  <2>1. \A i \in log' : i \in log \/ i.shown = id
    BY <1>4, <1>5
  <2>2. \A i \in log : i.shown \in Uuid => Announced(i.shown)
    BY DEF GeneratedIdAnnounced, Announced
  <2>3. \A i \in log' : i.shown \in Uuid => Announced(i.shown)'
    BY <1>9, <1>10, <2>1, <2>2
  <2> QED
    BY <2>3 DEF GeneratedIdAnnounced, Announced
<1> QED
  BY <1>6, <1>7, <1>8, <1>11, <1>12, <1>13

(* A line of the handler shows the context of the worker. *)
LEMMA WrittenInv ==
  ASSUME CorrelationInv, NEW w \in Worker, NEW kind \in {"message", "body"},
         NEW body \in {"", "none", "pending", "whole"}, Written(w, kind, body)
  PROVE  CorrelationInv'
<1> USE NoneIsNothing DEF CorrelationInv, TypeOK
<1> DEFINE l == Line(kind, own[running[w]], mdc[w], inline[w], body)
<1>1. /\ running[w] # None
      /\ log' = log \cup {l}
      /\ UNCHANGED <<mdc, running, inline, stage, header, own, used, arrived>>
  BY DEF Written
<1>2. own[running[w]] \in Id /\ (inline[w] => mdc[w] = own[running[w]])
  BY <1>1 DEF WorkerInv
<1>3. l \in LineType /\ l.own = own[running[w]] /\ l.shown = mdc[w] /\ l.inline = inline[w]
  <2>1. mdc[w] \in Id \cup {None} /\ inline[w] \in BOOLEAN
    OBVIOUS
  <2> QED
    BY <1>2, <2>1 DEF Line, LineType
<1> HIDE DEF l
<1>4. TypeOK' /\ WorkerInv' /\ WaitingInv'
  BY <1>1, <1>3 DEF WorkerInv, WaitingInv
<1>5. \A i : Announced(i) => Announced(i)'
  BY <1>1 DEF Announced
<1>6. ContextInv'
  BY <1>1, <1>5 DEF ContextInv
<1>7. InlineLinesOwn'
  BY <1>1, <1>2, <1>3 DEF InlineLinesOwn
<1>8. GeneratedIdAnnounced'
  <2>1. \A i \in log : i.shown \in Uuid => Announced(i.shown)
    BY DEF GeneratedIdAnnounced, Announced
  <2>2. l.shown \in Uuid => Announced(l.shown)
    BY <1>3 DEF ContextInv
  <2>3. \A i \in log' : i.shown \in Uuid => Announced(i.shown)'
    BY <1>1, <1>5, <2>1, <2>2
  <2> QED
    BY <2>3 DEF GeneratedIdAnnounced, Announced
<1> QED
  BY <1>4, <1>6, <1>7, <1>8

LEMMA FetchBodyInv ==
  ASSUME CorrelationInv, NEW w \in Worker, FetchBody(w)
  PROVE  CorrelationInv'
<1> USE NoneIsNothing DEF CorrelationInv, TypeOK
<1>1. PICK there \in BOOLEAN :
        /\ running[w] # None
        /\ stage' = [stage EXCEPT ![running[w]] = IF there THEN "fetched" ELSE "fetching"]
        /\ running' = IF there THEN running ELSE [running EXCEPT ![w] = None]
        /\ UNCHANGED <<mdc, inline, header, own, used, arrived, log>>
  BY DEF FetchBody
<1>2. TypeOK'
  BY <1>1
<1>3. WorkerInv'
  BY <1>1 DEF WorkerInv
<1>4. WaitingInv'
  BY <1>1 DEF WorkerInv, WaitingInv
<1>5. ContextInv' /\ InlineLinesOwn' /\ GeneratedIdAnnounced'
  BY <1>1 DEF ContextInv, Announced, InlineLinesOwn, GeneratedIdAnnounced
<1> QED
  BY <1>2, <1>3, <1>4, <1>5

LEMMA BodyArrivesInv ==
  ASSUME CorrelationInv, NEW w \in Worker, NEW s \in Session, BodyArrives(w, s)
  PROVE  CorrelationInv'
<1> USE NoneIsNothing DEF CorrelationInv, TypeOK, BodyArrives
<1>1. TypeOK'
  OBVIOUS
<1>2. WorkerInv'
  <2>1. \A v \in Worker : running[v] # s
    BY DEF WorkerInv
  <2> QED
    BY <2>1 DEF WorkerInv, WaitingInv
<1>3. WaitingInv'
  BY DEF WaitingInv
<1>4. ContextInv' /\ InlineLinesOwn' /\ GeneratedIdAnnounced'
  BY DEF ContextInv, Announced, InlineLinesOwn, GeneratedIdAnnounced
<1> QED
  BY <1>1, <1>2, <1>3, <1>4

LEMMA CloseInv ==
  ASSUME CorrelationInv, NEW w \in Worker, Close(w)
  PROVE  CorrelationInv'
<1> USE NoneIsNothing DEF CorrelationInv, TypeOK, Close
<1>1. TypeOK'
  OBVIOUS
<1>2. WorkerInv'
  BY DEF WorkerInv
<1>3. WaitingInv'
  BY DEF WaitingInv
<1>4. ContextInv' /\ InlineLinesOwn' /\ GeneratedIdAnnounced'
  BY DEF ContextInv, Announced, InlineLinesOwn, GeneratedIdAnnounced
<1> QED
  BY <1>1, <1>2, <1>3, <1>4

LEMMA NextInv == CorrelationInv /\ [Next]_vars => CorrelationInv'
<1> SUFFICES ASSUME CorrelationInv, [Next]_vars PROVE CorrelationInv'
  OBVIOUS
<1>1. ASSUME NEW s \in Session, Arrive(s) PROVE CorrelationInv'
  BY <1>1, ArriveInv
<1>2. ASSUME NEW w \in Worker, NEW s \in Session, RuleAction(w, s) \/ BodyArrives(w, s)
      PROVE  CorrelationInv'
  BY <1>2, RuleActionInv, BodyArrivesInv
<1>3. ASSUME NEW w \in Worker, LogRequestMessage(w) \/ LogRequestBody(w)
      PROVE  CorrelationInv'
  <2>1. CASE LogRequestMessage(w)
    <3>1. PICK body \in {"", "pending", "whole"} : Written(w, "message", body)
      BY <2>1 DEF LogRequestMessage
    <3> QED
      BY <3>1, WrittenInv
  <2>2. CASE LogRequestBody(w)
    <3>1. PICK body \in {"none", "whole"} : Written(w, "body", body)
      BY <2>2 DEF LogRequestBody
    <3> QED
      BY <3>1, WrittenInv
  <2> QED
    BY <1>3, <2>1, <2>2
<1>4. ASSUME NEW w \in Worker, FetchBody(w) \/ Close(w)
      PROVE  CorrelationInv'
  BY <1>4, FetchBodyInv, CloseInv
<1>5. CASE UNCHANGED vars
  BY <1>5 DEF vars, CorrelationInv, TypeOK, WorkerInv, WaitingInv, ContextInv, Announced,
              InlineLinesOwn, GeneratedIdAnnounced
<1> QED
  BY <1>1, <1>2, <1>3, <1>4, <1>5 DEF Next

LEMMA CorrelationInvariant == Spec => []CorrelationInv
  BY InitInv, NextInv, PTL DEF Spec

(* Contexts, sessions and lines hold ids in the form the rule gives them,
   lower case included. *)
THEOREM CorrelationTypes == Spec => []TypeOK
<1>1. CorrelationInv => TypeOK
  BY DEF CorrelationInv
<1> QED
  BY <1>1, CorrelationInvariant, PTL

(* Whatever the workers and the connections, a line written below the rule
   shows the id of its own request. *)
THEOREM LinesBelowTheRuleTraced == Spec => []InlineLinesOwn
<1>1. CorrelationInv => InlineLinesOwn
  BY DEF CorrelationInv
<1> QED
  BY <1>1, CorrelationInvariant, PTL

(* No generated id appears in the log unannounced, not even on lines that
   show a foreign id. *)
THEOREM GeneratedIdsExplained == Spec => []GeneratedIdAnnounced
<1>1. CorrelationInv => GeneratedIdAnnounced
  BY DEF CorrelationInv
<1> QED
  BY <1>1, CorrelationInvariant, PTL
=============================================================================
