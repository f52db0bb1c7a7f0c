----------------------------- MODULE ApiSchema -----------------------------
(***************************************************************************)
(* The vocabulary in which the modules Api* describe the resources of the  *)
(* API (crates/pretix/src/resources): what serde makes of the fields of    *)
(* requests and responses, and what the methods of handles send where.     *)
(*                                                                         *)
(* A schema is a function from the names of fields to classes.  A class    *)
(* stands for a field's type and serde attributes:                         *)
(*   required     T                                                        *)
(*   nullable     Option<T>                                                *)
(*   defaulted    T, #[serde(default)]                                     *)
(*   nullDefault  T, null_as_default                                       *)
(*   optional     Option<T>, skipped when None                             *)
(*   list         Vec<T>, #[serde(default)], skipped when empty            *)
(*   clearable    Option<Option<T>>, double_option, skipped when None      *)
(*   texts        Vec of texts joined by commas, skipped when empty        *)
(* and, of a T with a value that is written as null itself (null, of       *)
(* serde_json::Value; what is not a number, of f64):                       *)
(*   nullish           T                                                   *)
(*   optionalNullish   like optional                                       *)
(*   clearableNullish  like clearable                                      *)
(***************************************************************************)
EXTENDS Naturals, Sequences, FiniteSets, SequencesExt, TLC

\* A field's value: Unset is None or an empty list, Null is Some(None), Default
\* that of the type.  On the wire, Absent takes the place of Unset.
Unset == "unset"
Null == "null"
Default == "default"
Absent == "absent"
Error == "error"

\* Values that are not written as what they are: T's own null, and lists of one
\* text that is empty, or that has a comma and thus is written as two.
OwnNull == "own null"
BlankText == "blank text"
CommaText == "comma text"
TwoTexts == "two texts"

\* A class that is none of the above, of fields that a schema does not have.
Missing == "missing"

-----------------------------------------------------------------------------
(* Schemas.                                                                *)

\* Both of two functions; where they meet, the first.
f ++ g == [x \in DOMAIN f \cup DOMAIN g |-> IF x \in DOMAIN f THEN f[x] ELSE g[x]]

OfClass(fields, class) == [field \in fields |-> class]

\* A response.
Model(required, nullable, defaulted) ==
  OfClass(required, "required") ++ OfClass(nullable, "nullable") ++ OfClass(defaulted, "defaulted")

\* A request's body.
Body(required, optional) == OfClass(required, "required") ++ OfClass(optional, "optional")

\* The body of a PATCH request.
Patch(optional, clearable) == OfClass(optional, "optional") ++ OfClass(clearable, "clearable")

\* A request's query.
Query(optional, lists) == OfClass(optional, "optional") ++ OfClass(lists, "list")

Nothing == <<>>

\* A body that the caller brings, of whatever type.
Anything == Nothing

ClassOf(schema, field) == IF field \in DOMAIN schema THEN schema[field] ELSE Missing

-----------------------------------------------------------------------------
(* serde.                                                                  *)

\* What is written for a value that is there.
Written(value) ==
  CASE value = OwnNull -> Null
    [] value = CommaText -> TwoTexts
    [] OTHER -> value

\* Mutation of Serialize: skip_serializing_if is forgotten.
SerializeUnskipped(class, value) ==
  IF value # Unset THEN Written(value) ELSE IF class = Missing THEN Absent ELSE Null

Serialize(class, value) ==
  IF value # Unset THEN Written(value) ELSE IF class = "nullable" THEN Null ELSE Absent

\* Mutation of DoubleOption: the two levels of Option read null alike.
DoubleOptionFlat(wire) == IF wire = Null THEN Unset ELSE wire

\* A field that is present is Some, also when it is null.
DoubleOption(wire) == wire

NullAsDefault(wire) == IF wire = Null THEN Default ELSE wire

\* comma::deserialize: nothing to split is no text, rather than an empty one.
SplitCommas(wire) == IF wire = BlankText THEN Unset ELSE wire

Deserialize(class, wire) ==
  IF wire = Absent
  THEN CASE class \in {"required", "nullish"} -> Error
         [] class \in {"defaulted", "nullDefault"} -> Default
         [] OTHER -> Unset
  ELSE CASE class \in {"clearable", "clearableNullish"} -> DoubleOption(wire)
         [] class = "nullDefault" -> NullAsDefault(wire)
         [] class = "texts" -> SplitCommas(wire)
         [] class = "nullish" -> IF wire = Null THEN OwnNull ELSE wire
         [] class \in {"nullable", "optional", "optionalNullish"} -> IF wire = Null THEN Unset ELSE wire
         [] OTHER -> IF wire = Null THEN Error ELSE wire

-----------------------------------------------------------------------------
(* Calls.  A path is a sequence of segments, of which some are arguments;  *)
(* fixed are query parameters that a call always has.                      *)

Text == "{text}"      \* a &str, or the slug of a scope
Number == "{number}"  \* a u64

OrganizerPath == <<"organizers", Text>>

EventPath == OrganizerPath \o <<"events", Text>>

Call(method, path) ==
  [method |-> method, path |-> path, fixed |-> {},
   query |-> Nothing, body |-> Nothing, model |-> Nothing]

Get(path) == Call("GET", path)
Post(path) == Call("POST", path)
PatchAt(path) == Call("PATCH", path)
Delete(path) == Call("DELETE", path)

\* A request for a URL that an earlier response has brought.
Follow(method) == Call(method, <<"{link}">>)

Asking(call, query) == [call EXCEPT !.query = query ++ @]
Fixing(call, pair) == [call EXCEPT !.fixed = @ \cup {pair}]
Sending(call, body) == [call EXCEPT !.body = body]
Reading(call, model) == [call EXCEPT !.model = model]

Fetch(path, query, model) == Reading(Asking(Get(path), query), model)
Submit(path, body, model) == Reading(Sending(Post(path), body), model)
Change(path, body, model) == Reading(Sending(PatchAt(path), body), model)

\* The methods that most handles have.
Lists(at, query, model) == [list |-> Fetch(at, query, model)]
Gets(at, id, model) == [get |-> Fetch(Append(at, id), Nothing, model)]
Creates(at, body, model) == [create |-> Submit(at, body, model)]
Updates(at, id, body, model) == [update |-> Change(Append(at, id), body, model)]
Deletes(at, id) == [delete |-> Delete(Append(at, id))]

\* All of them.
Crud(at, id, query, model, create, update) ==
  Lists(at, query, model) ++ Gets(at, id, model) ++ Creates(at, create, model)
    ++ Updates(at, id, update, model) ++ Deletes(at, id)

\* ListParams, of lists without filters.
ListParams == Query({"page", "page_size"}, {})

\* Expand, FieldSelection
Expand == Query({}, {"expand"})
FieldSelection == Query({}, {"include", "exclude"})

=============================================================================
