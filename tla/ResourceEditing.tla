-------------------------- MODULE ResourceEditing --------------------------
(***************************************************************************)
(* Durable workflows that use the resources of the API (lib.rs: responses  *)
(* "can be journaled by durable execution engines"; bodies and parameters  *)
(* of requests derive both too): each makes one call, whose body and       *)
(* result go through a journal, and may crash and be replayed at any       *)
(* time.                                                                   *)
(*                                                                         *)
(* The fields of a body do not touch one another, so a behaviour is about  *)
(* one field, of any exchange of the API; a workflow that changes other    *)
(* fields leaves this one unset.  Only PATCH requests meet on one object.  *)
(*                                                                         *)
(* External: the engine, and pretix, which leaves fields alone that it     *)
(* does not get, and answers a repeated idempotency key as it did before.  *)
(***************************************************************************)
EXTENDS Api

CONSTANT Workflows  \* strings; each stands for the value it would write, too

None == "none"

ASSUME WorkflowsAssumption == 
  Workflows \cap {Unset, Null, OwnNull, Default, Absent, Error, BlankText, CommaText, TwoTexts, None} = {}

VARIABLES
  field,    \* the field: where it is, and its classes; never changes
  intent,   \* what each workflow means it to be; never changes
  stored,   \* pretix: the field's value
  pc,       \* of each workflow
  body,     \* the workflow's body, as it is in memory
  request,  \* pretix: the field in the request that arrives
  taken,    \* pretix: what it has taken the request to mean
  answer,   \* pretix: the response recorded under the workflow's key
  result,   \* the workflow's result, as it is in memory
  used,     \* the result that the workflow first went on with
  journal   \* of the engine: the body and the result, serialised

inputs == <<field, intent>>
pretix == <<stored, taken, answer>>
memory == <<body, result>>
vars == <<inputs, pc, memory, request, pretix, used, journal>>

Fields ==
  UNION {{[of |-> <<e.handle, e.name, f>>, method |-> e.method,
           sent |-> ClassOf(e.sent, f), model |-> ClassOf(e.model, f)] :
            f \in DOMAIN e.sent \cup DOMAIN e.model} : e \in Exchanges}

\* The values of a class that w may mean.
Values(class, w) ==
  CASE class = "required" -> {w}
    [] class = "clearable" -> {Unset, Null, w}
    [] class \in {"defaulted", "nullDefault"} -> {Default, w}
    [] class = Missing -> {Unset}
    [] class = "texts" -> {Unset, BlankText, CommaText, w}
    [] class = "nullish" -> {OwnNull, w}
    [] class = "optionalNullish" -> {Unset, OwnNull, w}
    [] class = "clearableNullish" -> {Unset, Null, OwnNull, w}
    [] OTHER -> {Unset, w}

Init ==
  /\ field \in Fields
  /\ intent \in [Workflows -> UNION {Values(field.sent, w) : w \in Workflows}]
  /\ \A w \in Workflows : intent[w] \in Values(field.sent, w)
  /\ stored \in {"old"} \cup (IF field.model \in {"nullable", "nullDefault", "nullish"} THEN {Null} ELSE {})
  /\ pc = [w \in Workflows |-> "idle"]
  /\ body = [w \in Workflows |-> None]
  /\ request = [w \in Workflows |-> None]
  /\ taken = [w \in Workflows |-> None]
  /\ answer = [w \in Workflows |-> None]
  /\ result = [w \in Workflows |-> None]
  /\ used = [w \in Workflows |-> None]
  /\ journal = [w \in Workflows |-> [body |-> None, result |-> None]]

-----------------------------------------------------------------------------
(* A workflow, and the engine that runs it.                                *)

\* Its input is journaled before it runs.  Calls that share nothing are made
\* by one workflow alone.
Begin(w) ==
  /\ pc[w] = "idle"
  /\ field.method # "PATCH" => \A v \in Workflows : pc[v] = "idle"
  /\ pc' = [pc EXCEPT ![w] = "ready"]
  /\ body' = [body EXCEPT ![w] = intent[w]]
  /\ journal' = [journal EXCEPT ![w].body = Serialize(field.sent, intent[w])]
  /\ UNCHANGED <<inputs, result, request, pretix, used>>

\* RequestBuilder::json_body
Send(w) ==
  /\ pc[w] = "ready"
  /\ pc' = [pc EXCEPT ![w] = "sent"]
  /\ request' = [request EXCEPT ![w] = Serialize(field.sent, body[w])]
  /\ UNCHANGED <<inputs, memory, pretix, used, journal>>

\* RequestBuilder::json
Receive(w) ==
  /\ pc[w] = "sent"
  /\ answer[w] # None
  /\ result' = [result EXCEPT ![w] = Deserialize(field.model, answer[w])]
  /\ pc' = [pc EXCEPT ![w] = IF result'[w] = Error THEN "failed" ELSE "answered"]
  /\ UNCHANGED <<inputs, body, request, pretix, used, journal>>

\* The result is journaled, and the workflow goes on with it.
Record(w) ==
  /\ pc[w] = "answered"
  /\ pc' = [pc EXCEPT ![w] = "done"]
  /\ journal' = [journal EXCEPT ![w].result = Serialize(field.model, result[w])]
  /\ used' = [used EXCEPT ![w] = result[w]]
  /\ UNCHANGED <<inputs, memory, request, pretix>>

\* The workflow loses its memory and is replayed from the journal.
Crash(w) ==
  /\ pc[w] # "idle"
  /\ body' = [body EXCEPT ![w] = Deserialize(field.sent, journal[w].body)]
  /\ IF journal[w].result = None
     THEN /\ pc' = [pc EXCEPT ![w] = "ready"]
          /\ result' = [result EXCEPT ![w] = None]
     ELSE /\ pc' = [pc EXCEPT ![w] = "done"]
          /\ result' = [result EXCEPT ![w] = Deserialize(field.model, journal[w].result)]
  /\ UNCHANGED <<inputs, request, pretix, used, journal>>

-----------------------------------------------------------------------------
(* pretix.                                                                 *)

\* A null where none can be meant asks for pretix's own choice.
Meaning(wire) ==
  IF wire = Absent \/ (wire = Null /\ field.sent = "nullable") THEN Unset ELSE wire

\* How a value shows in a response.  Only fields that every version has are
\* there without exception.
Shown(value) ==
  CASE field.model = Missing -> {Absent}
    [] field.model \in {"required", "nullish"} -> {value}
    [] OTHER -> {value, Absent}

\* The request arrives, for the first time.
Apply(w) ==
  LET meant == Meaning(request[w])
      now == IF field.method = "GET" \/ meant = Unset THEN stored ELSE meant
  IN  /\ request[w] # None
      /\ answer[w] = None
      /\ taken' = [taken EXCEPT ![w] = meant]
      /\ stored' = IF field.method = "PATCH" THEN now ELSE stored
      /\ \E shown \in Shown(now) : answer' = [answer EXCEPT ![w] = shown]
      /\ UNCHANGED <<inputs, pc, memory, request, used, journal>>

-----------------------------------------------------------------------------

Next ==
  \E w \in Workflows : Begin(w) \/ Send(w) \/ Receive(w) \/ Record(w) \/ Crash(w) \/ Apply(w)

Spec == Init /\ [][Next]_vars

-----------------------------------------------------------------------------
(* Properties.                                                             *)

\* The values of bodies that a journal turns into unset ones.
Forgettable(class, value) ==
  \/ class = "optionalNullish" /\ value = OwnNull
  \/ class = "texts" /\ value = BlankText

\* pretix takes every request as it was meant, as far as that can be written:
\* what is set is written, what is cleared is cleared, and what is left alone
\* keeps the value that anybody else has given it meanwhile.  Only a workflow
\* that has been replayed may leave alone a field for which it meant a value
\* that a journal forgets.
EditsApplyAsIntended ==
  [][\A w \in Workflows : taken'[w] # taken[w] =>
       /\ \/ taken'[w] = Written(intent[w])
          \/ /\ Forgettable(field.sent, intent[w])
             /\ body[w] # intent[w]
             /\ taken'[w] = Unset
       /\ stored' = IF field.method = "PATCH" /\ taken'[w] # Unset THEN taken'[w] ELSE stored]_vars

\* Whatever can be written through a body can be read through the response
\* model, also null: no call takes effect and then fails, or makes later calls
\* fail, because the object cannot be deserialised.
ResponsesReadable == \A w \in Workflows : result[w] # Error

\* A workflow that is replayed sends what it sent before, whatever it has set,
\* cleared or left alone, but for the values that a journal forgets; and it
\* sees the result that it went on with before the crash.
ReplayReadsTheSame ==
  \A w \in Workflows :
    /\ pc[w] # "idle" =>
         \/ Serialize(field.sent, body[w]) = Serialize(field.sent, intent[w])
         \/ Forgettable(field.sent, intent[w]) /\ body[w] = Unset
    /\ pc[w] = "done" => result[w] = used[w]

=============================================================================
