----------------------- MODULE ResourceEditing_proof -----------------------
(***************************************************************************)
(* Durable workflows over the resources of the API, for any number of      *)
(* workflows: what they mean is what pretix does, what it answers can be   *)
(* read, and a replay reads what the workflow has gone on with.            *)
(***************************************************************************)
EXTENDS ResourceEditing, TLAPS

-----------------------------------------------------------------------------
(* serde: what bodies and responses of any class become.                   *)

Sentinels ==
  {Unset, Null, OwnNull, Default, Absent, Error, BlankText, CommaText, TwoTexts, None}

\* Values of the type proper.
Proper == Workflows \cup {"old"}

LEMMA ProperFacts == Proper \cap Sentinels = {}
BY WorkflowsAssumption
DEF Proper, Sentinels, Unset, Null, OwnNull, Default, Absent, Error, BlankText, CommaText,
    TwoTexts, None

\* The classes by which a body can have pretix store null.
Clearing == {"clearable", "nullish", "optionalNullish", "clearableNullish"}

\* The classes that null can be read as.
NullReadable(class) ==
  class \in {Missing, "nullable", "nullDefault", "optional"} \cup Clearing

\* What pretix may have stored of a field that responses have in this class.
Storable(class) ==
  Proper \cup {Default, BlankText, TwoTexts} \cup (IF NullReadable(class) THEN {Null} ELSE {})

\* What a response may have of it.
Readables(class) ==
  IF class = Missing
  THEN {Absent}
  ELSE Storable(class) \cup (IF class \in {"required", "nullish"} THEN {} ELSE {Absent})

\* Deserialize, by what is on the wire.
LEMMA AbsentReads ==
  ASSUME NEW class
  PROVE  Deserialize(class, Absent) =
           IF class \in {"required", "nullish"} THEN Error
           ELSE IF class \in {"defaulted", "nullDefault"} THEN Default ELSE Unset
BY DEF Deserialize

LEMMA NullReads ==
  ASSUME NEW class
  PROVE  Deserialize(class, Null) =
           CASE class \in {"clearable", "clearableNullish"} -> Null
             [] class = "nullDefault" -> Default
             [] class = "nullish" -> OwnNull
             [] class = "texts" -> Null
             [] class \in {"nullable", "optional", "optionalNullish"} -> Unset
             [] OTHER -> Error
BY DEF Deserialize, DoubleOption, NullAsDefault, SplitCommas, Null, Absent, BlankText

LEMMA BlankReads ==
  ASSUME NEW class
  PROVE  Deserialize(class, BlankText) = IF class = "texts" THEN Unset ELSE BlankText
BY DEF Deserialize, DoubleOption, NullAsDefault, SplitCommas, Null, Absent, BlankText

LEMMA OtherReads ==
  ASSUME NEW class, NEW wire, wire \notin {Absent, Null, BlankText}
  PROVE  Deserialize(class, wire) = wire
BY DEF Deserialize, DoubleOption, NullAsDefault, SplitCommas

\* A body that comes back from a journal.
Reread(class, value) == Deserialize(class, Serialize(class, value))

\* It is written like the one that was meant, unless it is forgotten, and that
\* is what it means to pretix.
LEMMA BodySurvives ==
  ASSUME NEW class, NEW w \in Workflows, NEW value \in Values(class, w)
  PROVE  /\ \/ Serialize(class, Reread(class, value)) = Serialize(class, value)
            \/ Forgettable(class, value)
         /\ Forgettable(class, value) =>
              Reread(class, value) = Unset /\ Serialize(class, Unset) = Absent /\ value # Unset
         /\ Serialize(class, value) # None
         /\ Written(value) \in Workflows \cup {Unset, Null, Default, BlankText, TwoTexts}
         /\ Written(value) = Null => class \in Clearing
         /\ (IF \/ Serialize(class, value) = Absent
                \/ Serialize(class, value) = Null /\ class = "nullable"
             THEN Unset ELSE Serialize(class, value)) = Written(value)
<1> USE DEF Written, Serialize, Reread, Forgettable, Clearing,
            Unset, Null, OwnNull, Default, Absent, Error, BlankText, CommaText, TwoTexts, None
<1>1. w \notin Sentinels
  BY WorkflowsAssumption DEF Sentinels
<1>2. CASE value = w
  BY <1>1, <1>2, OtherReads DEF Sentinels
<1>3. CASE value = Unset
  <2>1. class \notin {"required", "defaulted", "nullDefault", "nullish"}
    BY <1>3, <1>1 DEF Values, Sentinels, Missing
  <2> QED
    BY <1>3, <2>1, AbsentReads, NullReads
<1>4. CASE value = Null
  <2>1. class \in {"clearable", "clearableNullish"}
    BY <1>4, <1>1 DEF Values, Sentinels, Missing
  <2> QED
    BY <1>4, <2>1, NullReads
<1>5. CASE value = OwnNull
  <2>1. class \in {"nullish", "optionalNullish", "clearableNullish"}
    BY <1>5, <1>1 DEF Values, Sentinels, Missing
  <2> QED
    BY <1>5, <2>1, NullReads
<1>6. CASE value = Default
  <2>1. Deserialize(class, Default) = Default
    BY OtherReads
  <2> QED
    BY <1>6, <2>1
<1>7. CASE value = BlankText
  <2>1. class = "texts"
    BY <1>7, <1>1 DEF Values, Sentinels, Missing
  <2> QED
    BY <1>7, <2>1, BlankReads
<1>8. CASE value = CommaText
  <2>1. Deserialize(class, TwoTexts) = TwoTexts
    BY OtherReads
  <2> QED
    BY <1>8, <2>1
<1> QED
  BY <1>2, <1>3, <1>4, <1>5, <1>6, <1>7, <1>8 DEF Values

\* A response can be read, and what was read is the same after a journal.
LEMMA ResultSurvives ==
  ASSUME NEW class, NEW wire \in Readables(class)
  PROVE  /\ wire # None
         /\ Deserialize(class, wire) \notin {Error, None}
         /\ Serialize(class, Deserialize(class, wire)) # None
         /\ Deserialize(class, Serialize(class, Deserialize(class, wire))) = Deserialize(class, wire)
<1> USE DEF Written, Serialize,
            Unset, Null, OwnNull, Default, Absent, Error, BlankText, CommaText, TwoTexts, None
<1>1. CASE wire \in Proper
  BY <1>1, ProperFacts, OtherReads DEF Sentinels
<1>2. CASE wire \in {Default, TwoTexts}
  BY <1>2, OtherReads
<1>3. CASE wire = BlankText
  BY <1>3, AbsentReads, BlankReads
<1>4. CASE wire = Null
  <2>1. class \in {"nullable", "nullDefault", "optional"} \cup Clearing
    BY <1>4, ProperFacts DEF Readables, Storable, NullReadable, Sentinels
  <2> QED
    BY <1>4, <2>1, AbsentReads, NullReads, OtherReads DEF Clearing
<1>5. CASE wire = Absent
  <2>1. class \notin {"required", "nullish"}
    BY <1>5, ProperFacts DEF Readables, Storable, NullReadable, Sentinels, Missing
  <2> QED
    BY <1>5, <2>1, AbsentReads, NullReads, OtherReads
<1> QED
  BY <1>1, <1>2, <1>3, <1>4, <1>5 DEF Readables, Storable

-----------------------------------------------------------------------------
(* The inductive invariant.                                                *)

\* What the result of a response is.
ResultOf(w) == Deserialize(field.model, answer[w])

\* A body that comes back from the journal.
Replayed(w) == Reread(field.sent, intent[w])

\* A field that can be cleared can be read as null.
Clearable(f) == f.sent \in Clearing => NullReadable(f.model)

TypeOK ==
  /\ \A w \in Workflows : intent[w] \in Values(field.sent, w)
  /\ pc \in [Workflows -> {"idle", "ready", "sent", "answered", "done", "failed"}]
  /\ DOMAIN body = Workflows /\ DOMAIN result = Workflows /\ DOMAIN used = Workflows
  /\ DOMAIN request = Workflows /\ DOMAIN taken = Workflows /\ DOMAIN answer = Workflows
  /\ DOMAIN journal = Workflows
  /\ \A w \in Workflows : journal[w] = [body |-> journal[w].body, result |-> journal[w].result]

\* The journal and the requests say what was meant, as far as a journal keeps
\* it; a request that does not is one of a workflow that has been replayed.
MeaningInv ==
  \A w \in Workflows :
    /\ pc[w] = "idle" => request[w] = None
    /\ pc[w] # "idle" => /\ body[w] \in {intent[w], Replayed(w)}
                         /\ journal[w].body = Serialize(field.sent, intent[w])
    /\ \/ request[w] \in {None, Serialize(field.sent, intent[w])}
       \/ /\ request[w] = Absent
          /\ Forgettable(field.sent, intent[w])
          /\ body[w] = Unset

\* What pretix stores and answers can be read.
AnswerInv ==
  /\ stored \in Storable(field.model)
  /\ \A w \in Workflows : answer[w] \in Readables(field.model) \cup {None}

\* A result is that of the answer, in memory and in the journal; only a
\* workflow that is done has one in the journal.
ResultInv ==
  \A w \in Workflows :
    /\ result[w] \in {None, ResultOf(w)}
    /\ result[w] # None => answer[w] # None
    /\ pc[w] \in {"answered", "done"} => result[w] # None
    /\ journal[w].result # None =>
         answer[w] # None /\ journal[w].result = Serialize(field.model, ResultOf(w))
    /\ pc[w] = "done" => journal[w].result # None
    /\ journal[w].result # None => used[w] = ResultOf(w)

IInv ==
  /\ Clearable(field)
  /\ TypeOK
  /\ MeaningInv
  /\ AnswerInv
  /\ ResultInv

\* What intents and answers lead to, by the lemmas above.
LEMMA ConversionFacts ==
  ASSUME IInv, NEW w \in Workflows
  PROVE  /\ \/ Serialize(field.sent, Replayed(w)) = Serialize(field.sent, intent[w])
            \/ Forgettable(field.sent, intent[w])
         /\ Forgettable(field.sent, intent[w]) =>
              Replayed(w) = Unset /\ Serialize(field.sent, Unset) = Absent /\ intent[w] # Unset
         /\ Meaning(Serialize(field.sent, intent[w])) = Written(intent[w])
         /\ Serialize(field.sent, intent[w]) # None
         /\ Written(intent[w]) # Unset => Written(intent[w]) \in Storable(field.model)
         /\ answer[w] # None =>
              /\ ResultOf(w) \notin {Error, None}
              /\ Serialize(field.model, ResultOf(w)) # None
              /\ Deserialize(field.model, Serialize(field.model, ResultOf(w))) = ResultOf(w)
<1>1. intent[w] \in Values(field.sent, w) /\ Clearable(field)
  BY DEF IInv, TypeOK
<1>2. answer[w] # None => answer[w] \in Readables(field.model)
  BY DEF IInv, AnswerInv
<1>3. Meaning(Serialize(field.sent, intent[w])) = Written(intent[w])
  BY <1>1, BodySurvives DEF Meaning
<1>4. /\ Written(intent[w]) = Null => NullReadable(field.model)
      /\ Written(intent[w]) \in Workflows \cup {Unset, Null, Default, BlankText, TwoTexts}
  BY <1>1, BodySurvives DEF Clearable
<1>5. Written(intent[w]) # Unset => Written(intent[w]) \in Storable(field.model)
  BY <1>4 DEF Storable, Proper
<1> QED
  BY <1>1, <1>2, <1>3, <1>5, BodySurvives, ResultSurvives DEF ResultOf, Replayed

\* Apply, with what the request means.
LEMMA ApplyMeans ==
  ASSUME IInv, NEW w \in Workflows, Apply(w)
  PROVE  \E meant \in {Written(intent[w]), Unset} :
           LET now == IF field.method = "GET" \/ meant = Unset THEN stored ELSE meant
           IN  /\ \/ meant = Written(intent[w])
                  \/ Forgettable(field.sent, intent[w]) /\ body[w] = Unset /\ body[w] # intent[w]
               /\ taken' = [taken EXCEPT ![w] = meant]
               /\ stored' = IF field.method = "PATCH" THEN now ELSE stored
               /\ \E shown \in Shown(now) : answer' = [answer EXCEPT ![w] = shown]
               /\ now \in Storable(field.model)
<1> DEFINE meant == Meaning(request[w])
           now == IF field.method = "GET" \/ meant = Unset THEN stored ELSE meant
<1>1. \/ request[w] = Serialize(field.sent, intent[w])
      \/ request[w] = Absent /\ Forgettable(field.sent, intent[w]) /\ body[w] = Unset
  BY DEF Apply, IInv, MeaningInv
<1>2. Meaning(Absent) = Unset
  BY DEF Meaning
<1>3. \/ meant = Written(intent[w])
      \/ /\ meant = Unset
         /\ Forgettable(field.sent, intent[w]) /\ body[w] = Unset /\ body[w] # intent[w]
  BY <1>1, <1>2, ConversionFacts
<1>4. /\ taken' = [taken EXCEPT ![w] = meant]
      /\ stored' = IF field.method = "PATCH" THEN now ELSE stored
      /\ \E shown \in Shown(now) : answer' = [answer EXCEPT ![w] = shown]
  BY DEF Apply
<1>5. /\ stored \in Storable(field.model)
      /\ Written(intent[w]) # Unset => Written(intent[w]) \in Storable(field.model)
  BY ConversionFacts DEF IInv, AnswerInv
<1> HIDE DEF meant
<1>6. now \in Storable(field.model)
  BY <1>3, <1>5
<1> QED
  BY <1>3, <1>4, <1>6

LEMMA ShownIsReadable ==
  ASSUME NEW value \in Storable(field.model), NEW shown \in Shown(value)
  PROVE  shown \in Readables(field.model)
BY DEF Shown, Readables, Missing

LEMMA StepInv == IInv /\ [Next]_vars => IInv'
<1> SUFFICES ASSUME IInv, [Next]_vars
             PROVE  IInv'
  OBVIOUS
<1> USE DEF inputs, pretix, memory
<1>i. UNCHANGED inputs
  BY DEF Next, vars, Begin, Send, Receive, Record, Crash, Apply
<1>c. Clearable(field)'
  BY <1>i DEF IInv, Clearable
<1>1. ASSUME NEW w \in Workflows, Begin(w)
      PROVE  IInv'
  <2>1. TypeOK'
    BY <1>1 DEF Begin, IInv, TypeOK
  <2>2. MeaningInv'
    BY <1>1 DEF Begin, IInv, TypeOK, MeaningInv, Replayed
  <2>3. AnswerInv'
    BY <1>1 DEF Begin, IInv, AnswerInv
  <2>4. ResultInv'
    BY <1>1 DEF Begin, IInv, TypeOK, ResultInv, ResultOf
  <2> QED
    BY <1>c, <2>1, <2>2, <2>3, <2>4 DEF IInv
<1>2. ASSUME NEW w \in Workflows, Send(w)
      PROVE  IInv'
  <2>1. TypeOK'
    BY <1>2 DEF Send, IInv, TypeOK
  <2>5. \/ Serialize(field.sent, body[w]) = Serialize(field.sent, intent[w])
        \/ /\ Forgettable(field.sent, intent[w]) /\ body[w] = Unset
           /\ Serialize(field.sent, body[w]) = Absent
    BY <1>2, ConversionFacts DEF Send, IInv, MeaningInv
  <2>2. MeaningInv'
    BY <1>2, <2>5 DEF Send, IInv, TypeOK, MeaningInv, Replayed
  <2>3. AnswerInv'
    BY <1>2 DEF Send, IInv, AnswerInv
  <2>4. ResultInv'
    BY <1>2 DEF Send, IInv, TypeOK, ResultInv, ResultOf
  <2> QED
    BY <1>c, <2>1, <2>2, <2>3, <2>4 DEF IInv
<1>3. ASSUME NEW w \in Workflows, Receive(w)
      PROVE  IInv'
  <2>1. TypeOK'
    BY <1>3 DEF Receive, IInv, TypeOK
  <2>2. MeaningInv'
    BY <1>3 DEF Receive, IInv, TypeOK, MeaningInv, Replayed
  <2>3. AnswerInv'
    BY <1>3 DEF Receive, IInv, AnswerInv
  <2>4. result' = [result EXCEPT ![w] = ResultOf(w)] /\ ResultOf(w) # None /\ answer[w] # None
    BY <1>3, ConversionFacts DEF Receive, ResultOf
  <2>5. ResultInv'
    BY <1>3, <2>4 DEF Receive, IInv, TypeOK, ResultInv, ResultOf
  <2> QED
    BY <1>c, <2>1, <2>2, <2>3, <2>5 DEF IInv
<1>4. ASSUME NEW w \in Workflows, Record(w)
      PROVE  IInv'
  <2>1. TypeOK'
    BY <1>4 DEF Record, IInv, TypeOK
  <2>2. MeaningInv'
    BY <1>4 DEF Record, IInv, TypeOK, MeaningInv, Replayed
  <2>3. AnswerInv'
    BY <1>4 DEF Record, IInv, AnswerInv
  <2>4. result[w] = ResultOf(w) /\ answer[w] # None
    BY <1>4 DEF Record, IInv, ResultInv
  <2>5. Serialize(field.model, ResultOf(w)) # None
    BY <2>4, ConversionFacts
  <2>6. ResultInv'
    BY <1>4, <2>4, <2>5 DEF Record, IInv, TypeOK, ResultInv, ResultOf
  <2> QED
    BY <1>c, <2>1, <2>2, <2>3, <2>6 DEF IInv
<1>5. ASSUME NEW w \in Workflows, Crash(w)
      PROVE  IInv'
  <2>1. TypeOK'
    BY <1>5 DEF Crash, IInv, TypeOK
  <2>2. body' = [body EXCEPT ![w] = Replayed(w)] /\ pc[w] # "idle"
    BY <1>5 DEF Crash, IInv, MeaningInv, Replayed, Reread
  <2>7. Forgettable(field.sent, intent[w]) => Replayed(w) = Unset
    BY ConversionFacts
  <2>8. pc'[w] # "idle" /\ \A v \in Workflows : v # w => pc'[v] = pc[v]
    BY <1>5 DEF Crash, IInv, TypeOK
  <2>3. MeaningInv'
    BY <1>5, <2>2, <2>7, <2>8 DEF Crash, IInv, TypeOK, MeaningInv, Replayed
  <2>4. AnswerInv'
    BY <1>5 DEF Crash, IInv, AnswerInv
  <2>5. CASE journal[w].result = None
    <3>1. ResultInv'
      BY <1>5, <2>5 DEF Crash, IInv, TypeOK, ResultInv, ResultOf
    <3> QED
      BY <1>c, <2>1, <2>3, <2>4, <3>1 DEF IInv
  <2>6. CASE journal[w].result # None
    <3>1. result' = [result EXCEPT ![w] = ResultOf(w)] /\ ResultOf(w) # None /\ answer[w] # None
      BY <1>5, <2>6, ConversionFacts DEF Crash, IInv, ResultInv
    <3>2. ResultInv'
      BY <1>5, <2>6, <3>1 DEF Crash, IInv, TypeOK, ResultInv, ResultOf
    <3> QED
      BY <1>c, <2>1, <2>3, <2>4, <3>2 DEF IInv
  <2> QED
    BY <2>5, <2>6
<1>6. ASSUME NEW w \in Workflows, Apply(w)
      PROVE  IInv'
  <2>1. TypeOK'
    BY <1>6 DEF Apply, IInv, TypeOK
  <2>2. MeaningInv'
    <3>1. UNCHANGED <<inputs, pc, body, request, journal>>
      BY <1>6 DEF Apply
    <3> QED
      BY <3>1 DEF IInv, TypeOK, MeaningInv, Replayed
  <2>3. PICK shown \in Readables(field.model) : answer' = [answer EXCEPT ![w] = shown]
    BY <1>6, ApplyMeans, ShownIsReadable
  <2>4. stored' \in Storable(field.model)
    BY <1>6, ApplyMeans DEF IInv, AnswerInv
  <2>5. AnswerInv'
    BY <1>i, <2>3, <2>4 DEF IInv, TypeOK, AnswerInv
  <2>6. ResultInv'
    BY <1>6, <2>3 DEF Apply, IInv, TypeOK, ResultInv, ResultOf
  <2> QED
    BY <1>c, <2>1, <2>2, <2>5, <2>6 DEF IInv
<1>7. CASE UNCHANGED vars
  BY <1>7 DEF vars, IInv, Clearable, TypeOK, MeaningInv, Replayed, AnswerInv, ResultInv, ResultOf
<1> QED
  BY <1>1, <1>2, <1>3, <1>4, <1>5, <1>6, <1>7 DEF Next

-----------------------------------------------------------------------------
(* The schemas of the API.                                                 *)

\* Bodies and queries without a field that can be cleared; those whose fields
\* that can be cleared can be read as null; calls; and handles.
Plain(schema) == \A f : ClassOf(schema, f) \notin Clearing

Fits(sent, model) == \A f : ClassOf(sent, f) \in Clearing => NullReadable(ClassOf(model, f))

IsReadable(call) ==
  /\ {"query", "body", "model"} \subseteq DOMAIN call
  /\ Fits(call.query ++ call.body, call.model)

AllReadable(handle) == \A n \in DOMAIN handle : IsReadable(handle[n])

\* What ++ does to classes and to domains.
LEMMA MergedClass ==
  ASSUME NEW f, NEW g, NEW x
  PROVE  ClassOf(f ++ g, x) = IF x \in DOMAIN f THEN ClassOf(f, x) ELSE ClassOf(g, x)
BY DEF ClassOf, ++

LEMMA MergedDomain ==
  ASSUME NEW f, NEW g
  PROVE  DOMAIN (f ++ g) = DOMAIN f \cup DOMAIN g
BY DEF ++

\* No query can be cleared, nor can a body that is not made by Patch.
LEMMA Queries ==
  /\ Plain(Nothing)
  /\ \A optional, lists : Plain(Query(optional, lists))
<1>1. Plain(Nothing)
  BY DEF Plain, Nothing, ClassOf, Missing, Clearing
<1>2. ASSUME NEW optional, NEW lists
      PROVE  Plain(Query(optional, lists))
  BY DEF Plain, Query, OfClass, ClassOf, Missing, Clearing, ++
<1> QED
  BY <1>1, <1>2

LEMMA Bodies ==
  /\ \A required, optional : Plain(Body(required, optional))
  /\ \A fields : \A class \in {"required", "nullable", "defaulted", "optional", "list", "texts"} :
       Plain(OfClass(fields, class))
  /\ \A f, g : Plain(f) /\ Plain(g) => Plain(f ++ g)
<1>1. ASSUME NEW required, NEW optional
      PROVE  Plain(Body(required, optional))
  BY DEF Plain, Body, OfClass, ClassOf, Missing, Clearing, ++
<1>2. ASSUME NEW fields, NEW class \in {"required", "nullable", "defaulted", "optional", "list", "texts"}
      PROVE  Plain(OfClass(fields, class))
  BY DEF Plain, OfClass, ClassOf, Missing, Clearing
<1>3. ASSUME NEW f, NEW g, Plain(f), Plain(g)
      PROVE  Plain(f ++ g)
  BY <1>3, MergedClass DEF Plain
<1> QED
  BY <1>1, <1>2, <1>3

\* What a PATCH can clear is nullable in the model, or missing there; the model
\* may have other fields with a null of their own.
LEMMA PatchFits ==
  ASSUME NEW optional, NEW clearable, NEW required, NEW nullable, NEW defaulted, NEW fields,
         NEW class \in {"nullDefault", "nullish"},
         clearable \cap (required \cup defaulted) = {}
  PROVE  /\ Fits(Patch(optional, clearable), Model(required, nullable, defaulted))
         /\ Fits(Patch(optional, clearable),
                 Model(required, nullable, defaulted) ++ OfClass(fields, class))
<1> DEFINE p == Patch(optional, clearable)
           m == Model(required, nullable, defaulted)
<1>1. ASSUME NEW f, ClassOf(p, f) \in Clearing
      PROVE  f \in clearable
  BY <1>1 DEF Patch, OfClass, ClassOf, Missing, Clearing, ++
<1>2. ASSUME NEW f \in clearable
      PROVE  /\ ClassOf(m, f) \in {Missing, "nullable"}
             /\ f \in DOMAIN m => ClassOf(m, f) = "nullable"
  BY <1>2 DEF Model, OfClass, ClassOf, Missing, ++
<1>3. ASSUME NEW f
      PROVE  ClassOf(OfClass(fields, class), f) \in {Missing, class}
  BY DEF OfClass, ClassOf
<1> HIDE DEF p, m
<1> QED
  BY <1>1, <1>2, <1>3, MergedClass DEF Fits, NullReadable, Clearing, p, m

\* Fields with a null of their own fit when the model has them likewise, or has
\* them nullable, or does not have them.
LEMMA NullsFit ==
  ASSUME NEW fields, NEW class, NEW required, NEW nullable, NEW defaulted,
         fields \cap (required \cup defaulted) = {}
  PROVE  /\ Fits(OfClass(fields, class), Model(required, nullable, defaulted))
         /\ Fits(OfClass(fields, class),
                 Model(required, nullable, defaulted) ++ OfClass(fields, "nullish"))
<1> DEFINE o == OfClass(fields, class)
           m == Model(required, nullable, defaulted)
<1>1. ASSUME NEW f, ClassOf(o, f) \in Clearing
      PROVE  f \in fields
  BY <1>1 DEF OfClass, ClassOf, Missing, Clearing
<1>2. ASSUME NEW f \in fields
      PROVE  /\ ClassOf(m, f) \in {Missing, "nullable"}
             /\ f \in DOMAIN m => ClassOf(m, f) = "nullable"
             /\ ClassOf(OfClass(fields, "nullish"), f) = "nullish"
  BY <1>2 DEF Model, OfClass, ClassOf, Missing, ++
<1> HIDE DEF o, m
<1> QED
  BY <1>1, <1>2, MergedClass DEF Fits, NullReadable, Clearing, o, m

LEMMA FitsMerge ==
  ASSUME NEW f, NEW g, NEW model, Fits(f, model), Fits(g, model)
  PROVE  Fits(f ++ g, model)
BY MergedClass DEF Fits

\* What cannot be cleared needs no answer to be null.
LEMMA PlainFits == \A sent, model : Plain(sent) => Fits(sent, model)
BY DEF Plain, Fits

\* A call is readable when its query is plain and its body fits.
LEMMA CallReadable ==
  ASSUME NEW call, {"query", "body", "model"} \subseteq DOMAIN call,
         Plain(call.query), Fits(call.body, call.model)
  PROVE  IsReadable(call)
<1>1. ASSUME NEW f, ClassOf(call.query ++ call.body, f) \in Clearing
      PROVE  ClassOf(call.body, f) \in Clearing
  BY <1>1, MergedClass DEF Plain
<1> QED
  BY <1>1 DEF IsReadable, Fits

\* So are the calls of each form...
LEMMA CallsReadable ==
  /\ \A path, query, model : Plain(query) => IsReadable(Fetch(path, query, model))
  /\ \A path, sent, model : Fits(sent, model) => IsReadable(Submit(path, sent, model))
  /\ \A path, sent, model : Fits(sent, model) => IsReadable(Change(path, sent, model))
  /\ \A path : IsReadable(Delete(path))
  /\ \A path, model : IsReadable(Reading(Delete(path), model))
  /\ \A method : IsReadable(Follow(method))
  /\ \A method, model : IsReadable(Reading(Follow(method), model))
<1>1. ASSUME NEW path, NEW query, NEW model, Plain(query)
      PROVE  IsReadable(Fetch(path, query, model))
  <2> DEFINE c == Fetch(path, query, model)
  <2>1. /\ {"query", "body", "model"} \subseteq DOMAIN c
        /\ c.query = query ++ Nothing /\ c.body = Nothing
    BY DEF Fetch, Reading, Asking, Get, Call
  <2> QED
    BY <1>1, <2>1, Queries, Bodies, PlainFits, CallReadable
<1>2. ASSUME NEW path, NEW sent, NEW model, Fits(sent, model)
      PROVE  IsReadable(Submit(path, sent, model)) /\ IsReadable(Change(path, sent, model))
  <2>1. ASSUME NEW c \in {Submit(path, sent, model), Change(path, sent, model)}
        PROVE  /\ {"query", "body", "model"} \subseteq DOMAIN c
               /\ c.query = Nothing /\ c.body = sent /\ c.model = model
    BY DEF Submit, Change, Reading, Sending, Post, PatchAt, Call
  <2> QED
    BY <1>2, <2>1, Queries, CallReadable
<1>3. ASSUME NEW method, NEW path, NEW model
      PROVE  IsReadable(Call(method, path)) /\ IsReadable(Reading(Call(method, path), model))
  <2>1. ASSUME NEW c \in {Call(method, path), Reading(Call(method, path), model)}
        PROVE  /\ {"query", "body", "model"} \subseteq DOMAIN c
               /\ c.query = Nothing /\ c.body = Nothing
    BY DEF Reading, Call
  <2> QED
    BY <2>1, Queries, PlainFits, CallReadable
<1> QED
  BY <1>1, <1>2, <1>3, PlainFits DEF Delete, Follow

\* ...and what methods make of them.
LEMMA CallsExtended ==
  /\ \A call, pair : IsReadable(call) => IsReadable(Fixing(call, pair))
  /\ \A call, query : IsReadable(call) /\ Plain(query) => IsReadable(Asking(call, query))
<1>1. ASSUME NEW call, IsReadable(call), NEW query, Plain(query)
      PROVE  IsReadable(Asking(call, query))
  <2>1. /\ {"query", "body", "model"} \subseteq DOMAIN Asking(call, query)
        /\ Asking(call, query).query = query ++ call.query
        /\ Asking(call, query).body = call.body
        /\ Asking(call, query).model = call.model
    BY <1>1 DEF IsReadable, Asking
  <2>2. ASSUME NEW f, ClassOf((query ++ call.query) ++ call.body, f) \in Clearing
        PROVE  ClassOf(call.query ++ call.body, f) \in Clearing
    <3>1. ClassOf(query, f) \notin Clearing
      BY <1>1 DEF Plain
    <3>2. \/ ClassOf((query ++ call.query) ++ call.body, f) = ClassOf(query, f)
          \/ ClassOf((query ++ call.query) ++ call.body, f) = ClassOf(call.query ++ call.body, f)
      <4>1. DOMAIN (query ++ call.query) = DOMAIN query \cup DOMAIN call.query
        BY MergedDomain
      <4>2. CASE f \in DOMAIN query
        BY <4>1, <4>2, MergedClass
      <4>3. CASE f \notin DOMAIN query /\ f \in DOMAIN call.query
        BY <4>1, <4>3, MergedClass
      <4>4. CASE f \notin DOMAIN query /\ f \notin DOMAIN call.query
        BY <4>1, <4>4, MergedClass
      <4> QED
        BY <4>2, <4>3, <4>4
    <3> QED
      BY <2>2, <3>1, <3>2
  <2> QED
    BY <1>1, <2>1, <2>2 DEF IsReadable, Fits
<1>2. ASSUME NEW call, IsReadable(call), NEW pair
      PROVE  IsReadable(Fixing(call, pair))
  BY <1>2 DEF IsReadable, Fixing
<1> QED
  BY <1>1, <1>2

\* Handles are made of handles, each with the methods of one kind.
LEMMA HandlesMerge ==
  ASSUME NEW f, NEW g, AllReadable(f), AllReadable(g)
  PROVE  AllReadable(f ++ g)
BY DEF AllReadable, ++

LEMMA MethodsReadable ==
  /\ \A at, query, model : Plain(query) => AllReadable(Lists(at, query, model))
  /\ \A at, id, model : AllReadable(Gets(at, id, model))
  /\ \A at, sent, model : Fits(sent, model) => AllReadable(Creates(at, sent, model))
  /\ \A at, id, sent, model : Fits(sent, model) => AllReadable(Updates(at, id, sent, model))
  /\ \A at, id : AllReadable(Deletes(at, id))
BY Queries, CallsReadable DEF AllReadable, Lists, Gets, Creates, Updates, Deletes

LEMMA CrudReadable ==
  ASSUME NEW at, NEW id, NEW query, NEW model, NEW create, NEW update,
         Plain(query), Fits(create, model), Fits(update, model)
  PROVE  AllReadable(Crud(at, id, query, model, create, update))
BY HandlesMerge, MethodsReadable DEF Crud

\* The handles of each module.
LEMMA OrganizersReadable ==
  /\ AllReadable(Organizers) /\ AllReadable(Teams) /\ AllReadable(TeamMembers)
  /\ AllReadable(TeamInvites) /\ AllReadable(TeamTokens) /\ AllReadable(Devices)
  /\ AllReadable(Customers) /\ AllReadable(MembershipTypes) /\ AllReadable(Memberships)
  /\ AllReadable(GiftCards) /\ AllReadable(ReusableMedia) /\ AllReadable(SeatingPlans)
  /\ AllReadable(SalesChannels) /\ AllReadable(Webhooks) /\ AllReadable(Resellers)
  /\ AllReadable(BillingInvoices) /\ AllReadable(BankImportJobs)
  /\ AllReadable(EventMetaProperties)
<1>1. AllReadable(Organizers)
  BY Queries, Bodies, MethodsReadable, HandlesMerge, CallsReadable, CallsExtended, PlainFits,
     PatchFits
  DEF AllReadable, Organizers, ListOrganizers, Organizer, UpdateOrganizer, Anything
<1>2. AllReadable(Teams)
  BY Queries, Bodies, CrudReadable, PlainFits, PatchFits
  DEF Teams, ListParams, Team, CreateTeam, UpdateTeam
<1>3. AllReadable(TeamMembers)
  BY Queries, Bodies, MethodsReadable, HandlesMerge
  DEF TeamMembers, ListParams
<1>4. AllReadable(TeamInvites)
  BY Queries, Bodies, MethodsReadable, HandlesMerge, PlainFits
  DEF TeamInvites, ListParams, CreateTeamInvite
<1>5. AllReadable(TeamTokens)
  BY Queries, Bodies, MethodsReadable, HandlesMerge, CallsReadable, PlainFits
  DEF AllReadable, TeamTokens, ListParams, CreateTeamToken
<1>6. AllReadable(Devices)
  BY Queries, Bodies, MethodsReadable, HandlesMerge, PlainFits, PatchFits
  DEF Devices, ListParams, Device, CreateDevice, UpdateDevice
<1>7. AllReadable(Customers)
  BY Queries, Bodies, MethodsReadable, HandlesMerge, CallsReadable, PlainFits, PatchFits
  DEF AllReadable, Customers, ListCustomers, Customer, CreateCustomer, UpdateCustomer
<1>8. AllReadable(MembershipTypes)
  BY Queries, Bodies, CrudReadable, PlainFits, PatchFits
  DEF MembershipTypes, ListParams, MembershipType, CreateMembershipType, UpdateMembershipType
<1>9. AllReadable(Memberships)
  BY Queries, Bodies, MethodsReadable, HandlesMerge, PlainFits, PatchFits
  DEF Memberships, ListMemberships, Membership, CreateMembership, UpdateMembership
<1>10. AllReadable(GiftCards)
  BY Queries, Bodies, MethodsReadable, HandlesMerge, CallsReadable, CallsExtended, PlainFits,
     PatchFits
  DEF AllReadable, GiftCards, ListGiftCards, GiftCard, CreateGiftCard, UpdateGiftCard,
      IncludeAccepted, Expand, TransactGiftCard, ListParams
<1>11. AllReadable(ReusableMedia)
  BY Queries, Bodies, MethodsReadable, HandlesMerge, CallsReadable, CallsExtended, PlainFits,
     PatchFits
  DEF AllReadable, ReusableMedia, ListReusableMedia, ReusableMedium, CreateReusableMedium,
      UpdateReusableMedium, Expand, LookupMedium
<1>12. AllReadable(SeatingPlans)
  <2>1. Fits(CreateSeatingPlan, SeatingPlan) /\ Fits(UpdateSeatingPlan, SeatingPlan)
    BY Bodies, PlainFits, PatchFits, NullsFit, FitsMerge
    DEF SeatingPlan, CreateSeatingPlan, UpdateSeatingPlan
  <2> QED
    BY <2>1, Queries, CrudReadable DEF SeatingPlans, ListParams
<1>13. AllReadable(SalesChannels)
  BY Queries, Bodies, CrudReadable, PlainFits, PatchFits
  DEF SalesChannels, ListParams, SalesChannel, CreateSalesChannel, UpdateSalesChannel
<1>14. AllReadable(Webhooks)
  BY Queries, Bodies, CrudReadable, PlainFits, PatchFits
  DEF Webhooks, ListWebhooks, Webhook, CreateWebhook, UpdateWebhook
<1>15. AllReadable(Resellers)
  BY Queries, Bodies, MethodsReadable, HandlesMerge, CallsReadable, PlainFits
  DEF AllReadable, Resellers, ListParams, CreateOrganizer
<1>16. AllReadable(BillingInvoices)
  BY Queries, Bodies, MethodsReadable, HandlesMerge, CallsReadable
  DEF AllReadable, BillingInvoices, ListBillingInvoices
<1>17. AllReadable(BankImportJobs)
  BY Queries, Bodies, MethodsReadable, HandlesMerge, PlainFits
  DEF BankImportJobs, ListBankImportJobs, CreateBankImportJob
<1>18. AllReadable(EventMetaProperties)
  BY Queries, Bodies, CrudReadable, PlainFits, PatchFits
  DEF EventMetaProperties, ListParams, EventMetaProperty, CreateEventMetaProperty,
      UpdateEventMetaProperty
<1> QED
  BY <1>1, <1>2, <1>3, <1>4, <1>5, <1>6, <1>7, <1>8, <1>9, <1>10, <1>11, <1>12, <1>13, <1>14,
     <1>15, <1>16, <1>17, <1>18

LEMMA CatalogReadable ==
  /\ AllReadable(ItemVariations) /\ AllReadable(ItemAddOns) /\ AllReadable(ItemBundles)
  /\ AllReadable(ItemProgramTimes) /\ AllReadable(Items) /\ AllReadable(Categories)
  /\ AllReadable(Questions) /\ AllReadable(QuestionOptions) /\ AllReadable(Quotas)
  /\ AllReadable(Discounts) /\ AllReadable(ItemMetaProperties) /\ AllReadable(Vouchers)
  /\ AllReadable(WaitingListEntries) /\ AllReadable(CartPositions)
  /\ AllReadable(ImportedSecrets)
<1>1. AllReadable(ItemVariations)
  BY Queries, Bodies, CrudReadable, PlainFits, PatchFits
  DEF ItemVariations, ListItemVariations, ItemVariation, CreateItemVariation, UpdateItemVariation
<1>2. AllReadable(ItemAddOns)
  BY Queries, Bodies, CrudReadable, PlainFits, PatchFits
  DEF ItemAddOns, ListParams, ItemAddOn, CreateItemAddOn, UpdateItemAddOn
<1>3. AllReadable(ItemBundles)
  BY Queries, Bodies, CrudReadable, PlainFits, PatchFits
  DEF ItemBundles, ListParams, ItemBundle, CreateItemBundle, UpdateItemBundle
<1>4. AllReadable(ItemProgramTimes)
  BY Queries, Bodies, CrudReadable, PlainFits, PatchFits
  DEF ItemProgramTimes, ListParams, ItemProgramTime, CreateItemProgramTime, UpdateItemProgramTime
<1>5. AllReadable(Items)
  BY Queries, Bodies, CrudReadable, PlainFits, PatchFits
  DEF Items, ListItems, Item, CreateItem, UpdateItem
<1>6. AllReadable(Categories)
  BY Queries, Bodies, CrudReadable, PlainFits, PatchFits
  DEF Categories, ListCategories, Category, CreateCategory, UpdateCategory
<1>7. AllReadable(Questions)
  BY Queries, Bodies, CrudReadable, PlainFits, PatchFits
  DEF Questions, ListQuestions, Question, CreateQuestion, UpdateQuestion
<1>8. AllReadable(QuestionOptions)
  BY Queries, Bodies, CrudReadable, PlainFits, PatchFits
  DEF QuestionOptions, ListQuestionOptions, QuestionOption, CreateQuestionOption,
      UpdateQuestionOption
<1>9. AllReadable(Quotas)
  BY Queries, Bodies, CrudReadable, HandlesMerge, CallsReadable, PlainFits, PatchFits
  DEF AllReadable, Quotas, ListQuotas, Quota, CreateQuota, UpdateQuota, GetQuota
<1>10. AllReadable(Discounts)
  BY Queries, Bodies, CrudReadable, PlainFits, PatchFits
  DEF Discounts, ListDiscounts, Discount, CreateDiscount, UpdateDiscount
<1>11. AllReadable(ItemMetaProperties)
  BY Queries, Bodies, CrudReadable, PlainFits, PatchFits
  DEF ItemMetaProperties, ListParams, ItemMetaProperty, CreateItemMetaProperty,
      UpdateItemMetaProperty
<1>12. AllReadable(Vouchers)
  BY Queries, Bodies, CrudReadable, HandlesMerge, CallsReadable, PlainFits, PatchFits
  DEF AllReadable, Vouchers, ListVouchers, Voucher, CreateVoucher, UpdateVoucher
<1>13. AllReadable(WaitingListEntries)
  BY Queries, Bodies, CrudReadable, HandlesMerge, CallsReadable, PlainFits, PatchFits
  DEF AllReadable, WaitingListEntries, ListWaitingListEntries, WaitingListEntry,
      CreateWaitingListEntry, UpdateWaitingListEntry
<1>14. AllReadable(CartPositions)
  BY Queries, Bodies, MethodsReadable, HandlesMerge, CallsReadable, PlainFits
  DEF AllReadable, CartPositions, ListParams, CreateCartPosition
<1>15. AllReadable(ImportedSecrets)
  BY Queries, Bodies, CrudReadable, HandlesMerge, CallsReadable, PlainFits, PatchFits
  DEF AllReadable, ImportedSecrets, ListParams, ImportedSecret, CreateImportedSecret,
      UpdateImportedSecret
<1> QED
  BY <1>1, <1>2, <1>3, <1>4, <1>5, <1>6, <1>7, <1>8, <1>9, <1>10, <1>11, <1>12, <1>13, <1>14,
     <1>15

LEMMA EventsReadable ==
  /\ AllReadable(Events) /\ AllReadable(SubEvents) /\ AllReadable(OrganizerSubEvents)
  /\ (\A at : AllReadable(Seats(at))) /\ AllReadable(TaxRules) /\ AllReadable(Campaigns)
  /\ AllReadable(Exhibitors) /\ AllReadable(ExhibitorVouchers) /\ AllReadable(DigitalContents)
  /\ AllReadable(AutoCheckinRules) /\ AllReadable(SendmailRules) /\ AllReadable(Shredders)
  /\ (\A at : AllReadable(Exporters(at))) /\ (\A at : AllReadable(ScheduledExports(at)))
  /\ AllReadable(OfflineSalesBatches) /\ AllReadable(Certificates) /\ AllReadable(BadgeLayouts)
  /\ AllReadable(BadgeItems) /\ AllReadable(TicketLayouts) /\ AllReadable(TicketLayoutItems)
  /\ AllReadable(TicketPdfRenderer)
<1>1. AllReadable(Events)
  <2>1. Fits(CreateEvent, Event) /\ Fits(UpdateEvent, Event)
    BY Bodies, PlainFits, PatchFits, NullsFit, FitsMerge DEF Event, CreateEvent, UpdateEvent
  <2> QED
    BY <2>1, Queries, Bodies, CrudReadable, HandlesMerge, CallsReadable, CallsExtended, PlainFits
    DEF AllReadable, Events, ListEvents, Anything
<1>2. AllReadable(SubEvents)
  <2>1. Fits(CreateSubEvent, SubEvent) /\ Fits(UpdateSubEvent, SubEvent)
    BY Bodies, PlainFits, PatchFits, NullsFit, FitsMerge
    DEF SubEvent, CreateSubEvent, UpdateSubEvent
  <2> QED
    BY <2>1, Queries, CrudReadable DEF SubEvents, ListSubEvents
<1>3. AllReadable(OrganizerSubEvents)
  BY Queries, Bodies, MethodsReadable
  DEF OrganizerSubEvents, ListOrganizerSubEvents
<1>4. \A at : AllReadable(Seats(at))
  BY Queries, Bodies, MethodsReadable, HandlesMerge, CallsReadable, PlainFits, PatchFits
  DEF AllReadable, Seats, ListSeats, Seat, UpdateSeat, Expand, BulkBlockSeats
<1>5. AllReadable(TaxRules)
  <2>1. Fits(CreateTaxRule, TaxRule) /\ Fits(UpdateTaxRule, TaxRule)
    BY Bodies, PlainFits, PatchFits, NullsFit, FitsMerge
    DEF TaxRule, CreateTaxRule, UpdateTaxRule
  <2> QED
    BY <2>1, Queries, CrudReadable DEF TaxRules, ListParams
<1>6. AllReadable(Campaigns)
  BY Queries, Bodies, CrudReadable, PlainFits, PatchFits
  DEF Campaigns, ListParams, Campaign, CreateCampaign, UpdateCampaign
<1>7. AllReadable(Exhibitors)
  BY Queries, Bodies, CrudReadable, HandlesMerge, CallsReadable, PlainFits, PatchFits
  DEF AllReadable, Exhibitors, ListParams, Exhibitor, CreateExhibitor, UpdateExhibitor
<1>8. AllReadable(ExhibitorVouchers)
  BY Queries, Bodies, MethodsReadable, HandlesMerge, CallsReadable, PlainFits
  DEF AllReadable, ExhibitorVouchers, ListParams, AttachVoucher
<1>9. AllReadable(DigitalContents)
  BY Queries, Bodies, CrudReadable, PlainFits, PatchFits
  DEF DigitalContents, ListParams, DigitalContent, CreateDigitalContent, UpdateDigitalContent
<1>10. AllReadable(AutoCheckinRules)
  BY Queries, Bodies, CrudReadable, PlainFits, PatchFits
  DEF AutoCheckinRules, ListParams, AutoCheckinRule, CreateAutoCheckinRule, UpdateAutoCheckinRule
<1>11. AllReadable(SendmailRules)
  BY Queries, Bodies, CrudReadable, PlainFits, PatchFits
  DEF SendmailRules, ListParams, SendmailRule, CreateSendmailRule, UpdateSendmailRule
<1>12. AllReadable(Shredders)
  BY Queries, Bodies, MethodsReadable, HandlesMerge, CallsReadable, PlainFits
  DEF AllReadable, Shredders, ListParams, ExportShredders
<1>13. \A at : AllReadable(Exporters(at))
  BY Queries, Bodies, MethodsReadable, HandlesMerge, CallsReadable, PlainFits
  DEF AllReadable, Exporters, ListParams, Anything
<1>14. \A at : AllReadable(ScheduledExports(at))
  BY Queries, Bodies, CrudReadable, PlainFits, PatchFits
  DEF ScheduledExports, ListScheduledExports, ScheduledExport, CreateScheduledExport,
      UpdateScheduledExport
<1>15. AllReadable(OfflineSalesBatches)
  BY Queries, Bodies, MethodsReadable, HandlesMerge, CallsReadable, PlainFits
  DEF AllReadable, OfflineSalesBatches, ListParams, CreateOfflineSalesBatch
<1>16. AllReadable(Certificates)
  BY Queries, Bodies, CallsReadable
  DEF AllReadable, Certificates
<1>17. AllReadable(BadgeLayouts)
  BY Queries, Bodies, MethodsReadable, HandlesMerge
  DEF BadgeLayouts, ListParams
<1>18. AllReadable(BadgeItems)
  BY Queries, Bodies, MethodsReadable
  DEF BadgeItems, ListParams
<1>19. AllReadable(TicketLayouts)
  <2>1. Fits(CreateTicketLayout, TicketLayout) /\ Fits(UpdateTicketLayout, TicketLayout)
    BY Bodies, PlainFits, PatchFits, NullsFit, FitsMerge
    DEF TicketLayout, CreateTicketLayout, UpdateTicketLayout
  <2> QED
    BY <2>1, Queries, CrudReadable DEF TicketLayouts, ListParams
<1>20. AllReadable(TicketLayoutItems)
  BY Queries, Bodies, MethodsReadable
  DEF TicketLayoutItems, ListParams
<1>21. AllReadable(TicketPdfRenderer)
  BY Queries, Bodies, CallsReadable, PlainFits
  DEF AllReadable, TicketPdfRenderer, RenderBatch
<1> QED
  BY <1>1, <1>2, <1>3, <1>4, <1>5, <1>6, <1>7, <1>8, <1>9, <1>10, <1>11, <1>12, <1>13, <1>14,
     <1>15, <1>16, <1>17, <1>18, <1>19, <1>20, <1>21

LEMMA OrdersReadable ==
  /\ AllReadable(OrderPayments) /\ AllReadable(OrderRefunds) /\ AllReadable(OrderPositions)
  /\ AllReadable(OrganizerOrderPositions) /\ AllReadable(RevokedSecrets)
  /\ AllReadable(BlockedSecrets) /\ AllReadable(Invoices) /\ AllReadable(OrganizerInvoices)
  /\ AllReadable(Orders) /\ AllReadable(OrganizerOrders) /\ AllReadable(Transactions)
  /\ AllReadable(OrganizerTransactions) /\ AllReadable(CheckinRpc) /\ AllReadable(Checkins)
  /\ AllReadable(CheckinLists) /\ AllReadable(CheckinListPositions) /\ AllReadable(Shipping)
  /\ AllReadable(PrintJobs)
<1>1. AllReadable(OrderPayments)
  <2>1. Fits(CreateOrderPayment, OrderPayment)
    BY Bodies, PlainFits, NullsFit, FitsMerge DEF OrderPayment, CreateOrderPayment
  <2> QED
    BY <2>1, Queries, Bodies, MethodsReadable, HandlesMerge, CallsReadable, PlainFits
    DEF AllReadable, OrderPayments, ListParams, ConfirmPayment, RefundPayment
<1>2. AllReadable(OrderRefunds)
  <2>1. Fits(CreateOrderRefund, OrderRefund)
    BY Bodies, PlainFits, NullsFit, FitsMerge DEF OrderRefund, CreateOrderRefund
  <2> QED
    BY <2>1, Queries, Bodies, MethodsReadable, HandlesMerge, CallsReadable, PlainFits
    DEF AllReadable, OrderRefunds, ListParams, ProcessRefund
<1>3. AllReadable(OrderPositions)
  BY Queries, Bodies, CrudReadable, HandlesMerge, CallsReadable, CallsExtended, PlainFits,
     PatchFits
  DEF AllReadable, OrderPositions, ListOrderPositions, OrderPosition, CreateOrderPosition,
      UpdateOrderPosition, GetOrderPosition, QuotaCheck, CreatePrintLog
<1>4. AllReadable(OrganizerOrderPositions)
  BY Queries, Bodies, MethodsReadable
  DEF OrganizerOrderPositions, ListOrderPositions
<1>5. AllReadable(RevokedSecrets)
  BY Queries, Bodies, MethodsReadable
  DEF RevokedSecrets, ListRevokedSecrets
<1>6. AllReadable(BlockedSecrets)
  BY Queries, Bodies, MethodsReadable
  DEF BlockedSecrets, ListBlockedSecrets
<1>7. AllReadable(Invoices)
  BY Queries, Bodies, MethodsReadable, HandlesMerge, CallsReadable, PlainFits
  DEF AllReadable, Invoices, ListInvoices
<1>8. AllReadable(OrganizerInvoices)
  BY Queries, Bodies, MethodsReadable
  DEF OrganizerInvoices, ListInvoices
<1>9. AllReadable(Orders)
  <2>1. /\ Plain(ListOrders) /\ Plain(FieldSelection) /\ Plain(GetOrder) /\ Plain(QuotaCheck)
        /\ Plain(MarkPaid) /\ Plain(MarkCanceled) /\ Plain(ExtendOrder) /\ Plain(DenyOrder)
        /\ Plain(ChangeOrder) /\ Plain(Nothing)
    BY Queries, Bodies
    DEF ListOrders, FieldSelection, GetOrder, QuotaCheck, MarkPaid, MarkCanceled, ExtendOrder,
        DenyOrder, ChangeOrder
  <2>2. Fits(UpdateOrder, Order)
    BY PatchFits DEF UpdateOrder, Order
  <2>3. Fits(CreateOrder, Order)
    <3>1. ASSUME NEW f, ClassOf(CreateOrder, f) \in Clearing
          PROVE  f \in {"send_email", "payment_info"}
      BY <3>1 DEF CreateOrder, Body, OfClass, ClassOf, Missing, Clearing, ++
    <3>2. ClassOf(Order, "send_email") = Missing /\ ClassOf(Order, "payment_info") = Missing
      BY DEF Order, Model, OfClass, ClassOf, ++
    <3> QED
      BY <3>1, <3>2 DEF Fits, NullReadable
  <2> QED
    BY <2>1, <2>2, <2>3, PlainFits, CrudReadable, HandlesMerge, CallsReadable, CallsExtended
    DEF AllReadable, Orders
<1>10. AllReadable(OrganizerOrders)
  BY Queries, Bodies, MethodsReadable, HandlesMerge, CallsReadable, CallsExtended
  DEF AllReadable, OrganizerOrders, ListOrders, FieldSelection
<1>11. AllReadable(Transactions)
  BY Queries, Bodies, MethodsReadable
  DEF Transactions, ListTransactions
<1>12. AllReadable(OrganizerTransactions)
  BY Queries, Bodies, MethodsReadable
  DEF OrganizerTransactions, ListTransactions
<1>13. AllReadable(CheckinRpc)
  BY Queries, Bodies, CallsReadable, CallsExtended, PlainFits
  DEF AllReadable, CheckinRpc, RedeemTicket, Expand, SearchTickets, AnnulCheckin
<1>14. AllReadable(Checkins)
  BY Queries, Bodies, MethodsReadable
  DEF Checkins, ListCheckins
<1>15. AllReadable(CheckinLists)
  BY Queries, Bodies, CrudReadable, HandlesMerge, CallsReadable, CallsExtended, PlainFits,
     PatchFits
  DEF AllReadable, CheckinLists, ListCheckinLists, CheckinList, CreateCheckinList,
      UpdateCheckinList, FieldSelection, CreateFailedCheckin
<1>16. AllReadable(CheckinListPositions)
  BY Queries, Bodies, MethodsReadable, HandlesMerge, CallsReadable, CallsExtended, PlainFits
  DEF AllReadable, CheckinListPositions, ListCheckinListPositions, Expand, RedeemPosition
<1>17. AllReadable(Shipping)
  BY Queries, Bodies, CallsReadable
  DEF AllReadable, Shipping
<1>18. AllReadable(PrintJobs)
  BY Queries, Bodies, MethodsReadable, HandlesMerge, CallsReadable, PlainFits
  DEF AllReadable, PrintJobs, ListPrintJobs, PollPrintJobs
<1> QED
  BY <1>1, <1>2, <1>3, <1>4, <1>5, <1>6, <1>7, <1>8, <1>9, <1>10, <1>11, <1>12, <1>13, <1>14,
     <1>15, <1>16, <1>17, <1>18

\* Every handle of the API.
LEMMA HandlesReadable == \A h \in DOMAIN Handles : AllReadable(Handles[h])
BY OrganizersReadable, CatalogReadable, EventsReadable, OrdersReadable DEF Handles

\* Every exchange of a method...
LEMMA MethodsExchange == \A m \in Methods : Fits(m.call.query ++ m.call.body, m.call.model)
<1>1. ASSUME NEW m \in Methods
      PROVE  \E h \in DOMAIN Handles : \E n \in DOMAIN Handles[h] : m.call = Handles[h][n]
  BY DEF Methods
<1> QED
  BY <1>1, HandlesReadable DEF AllReadable, IsReadable

\* ...and every value within a body fits.
LEMMA PartsFit == \A part \in Parts : Fits(part.sent, part.model)
<1>1. /\ Plain(Nothing) /\ Plain(CreateBankTransaction) /\ Plain(CreateCartAddon)
      /\ Plain(EventMetaPropertyChoice) /\ Plain(CreateInvoiceAddress) /\ Plain(CreateAnswer)
      /\ Plain(NewOrderFee) /\ Plain(PatchPosition) /\ Plain(CancelPosition)
      /\ Plain(SplitPosition) /\ Plain(AddPosition) /\ Plain(PatchFee) /\ Plain(FeeChanges)
      /\ Plain(CancelFee) /\ Plain(SubEventItemPriceOverride)
      /\ Plain(SubEventVariationPriceOverride) /\ Plain(RenderBatchPart)
  BY Queries, Bodies
  DEF CreateBankTransaction, CreateCartAddon, EventMetaPropertyChoice, CreateInvoiceAddress,
      CreateAnswer, NewOrderFee, PatchPosition, CancelPosition, SplitPosition, AddPosition,
      PatchFee, FeeChanges, CancelFee, SubEventItemPriceOverride,
      SubEventVariationPriceOverride, RenderBatchPart
<1>2. Fits(PositionChanges, OrderPosition)
  BY PatchFits DEF PositionChanges, OrderPosition
<1>3. Fits(NewOrderPosition, OrderPosition)
  <2>1. ASSUME NEW f, ClassOf(NewOrderPosition, f) \in Clearing
        PROVE  f \in {"valid_from", "valid_until"}
    BY <2>1 DEF NewOrderPosition, Body, OfClass, ClassOf, Missing, Clearing, ++
  <2>2. ASSUME NEW f \in {"valid_from", "valid_until"}
        PROVE  ClassOf(OrderPosition, f) = "nullable"
    BY DEF OrderPosition, Model, OfClass, ClassOf, ++
  <2> QED
    BY <2>1, <2>2 DEF Fits, NullReadable
<1>4. ASSUME NEW part \in Parts
      PROVE  Plain(part.sent) \/ Fits(part.sent, part.model)
  BY <1>1, <1>2, <1>3 DEF Parts, Part
<1> QED
  BY <1>4, PlainFits

\* Whatever a caller can clear reads back as null or is not there: every field of
\* the API has it, by its declared type.
LEMMA FieldsClearable == \A f \in Fields : Clearable(f)
<1>1. ASSUME NEW e \in Exchanges
      PROVE  Fits(e.sent, e.model)
  BY MethodsExchange, PartsFit DEF Exchanges
<1>2. ASSUME NEW f \in Fields
      PROVE  \E e \in Exchanges : \E g :
               f.sent = ClassOf(e.sent, g) /\ f.model = ClassOf(e.model, g)
  BY DEF Fields
<1> QED
  BY <1>1, <1>2 DEF Clearable, Fits

-----------------------------------------------------------------------------
(* Theorems.                                                               *)

LEMMA InitInv == Init => IInv
<1> SUFFICES ASSUME Init
             PROVE  IInv
  OBVIOUS
<1>1. Clearable(field)
  BY FieldsClearable DEF Init
<1>2. TypeOK
  BY DEF Init, TypeOK
<1>3. MeaningInv
  BY DEF Init, MeaningInv
<1>4. stored \in Storable(field.model)
  BY DEF Init, Storable, Proper, NullReadable, Clearing
<1>5. AnswerInv /\ ResultInv
  BY <1>4 DEF Init, AnswerInv, ResultInv
<1> QED
  BY <1>1, <1>2, <1>3, <1>5 DEF IInv

\* The inductive invariant holds throughout.
THEOREM Invariant == Spec => []IInv
BY InitInv, StepInv, PTL DEF Spec

\* ResponsesReadable: whatever a field of the API is set to, or cleared, by any
\* number of workflows, responses can be deserialised.
THEOREM EveryResponseIsReadable == Spec => []ResponsesReadable
<1>1. IInv => ResponsesReadable
  <2> SUFFICES ASSUME IInv, NEW w \in Workflows
               PROVE  result[w] # Error
    BY DEF ResponsesReadable
  <2>1. result[w] = None \/ (answer[w] # None /\ result[w] = ResultOf(w))
    BY DEF IInv, ResultInv
  <2> QED
    BY <2>1, ConversionFacts DEF None, Error
<1> QED
  BY <1>1, Invariant, PTL

\* ReplayReadsTheSame: a replayed workflow has a body that is written as the
\* one that was meant, but for the values that a journal forgets, and has the
\* result that it has gone on with before.
THEOREM ReplaysAreFaithful == Spec => []ReplayReadsTheSame
<1>1. IInv => ReplayReadsTheSame
  <2> SUFFICES ASSUME IInv, NEW w \in Workflows
               PROVE  /\ pc[w] # "idle" =>
                           \/ Serialize(field.sent, body[w]) = Serialize(field.sent, intent[w])
                           \/ Forgettable(field.sent, intent[w]) /\ body[w] = Unset
                      /\ pc[w] = "done" => result[w] = used[w]
    BY DEF ReplayReadsTheSame
  <2>1. pc[w] # "idle" => body[w] \in {intent[w], Replayed(w)}
    BY DEF IInv, MeaningInv
  <2>2. pc[w] = "done" => result[w] = used[w]
    BY DEF IInv, ResultInv
  <2> QED
    BY <2>1, <2>2, ConversionFacts
<1> QED
  BY <1>1, Invariant, PTL

\* EditsApplyAsIntended: each request is taken as it was meant, or, by a replayed
\* workflow whose journal forgets the value, as leaving the field alone; and it
\* changes of the object what it is taken to change.
THEOREM EditsAreIntended == Spec => EditsApplyAsIntended
<1> DEFINE Intended(w) ==
      /\ \/ taken'[w] = Written(intent[w])
         \/ /\ Forgettable(field.sent, intent[w])
            /\ body[w] # intent[w]
            /\ taken'[w] = Unset
      /\ stored' = IF field.method = "PATCH" /\ taken'[w] # Unset THEN taken'[w] ELSE stored
<1>1. IInv /\ [Next]_vars => [\A w \in Workflows : taken'[w] # taken[w] => Intended(w)]_vars
  <2> SUFFICES ASSUME IInv, Next, NEW w \in Workflows, taken'[w] # taken[w]
               PROVE  Intended(w)
    OBVIOUS
  <2>1. PICK v \in Workflows :
           Begin(v) \/ Send(v) \/ Receive(v) \/ Record(v) \/ Crash(v) \/ Apply(v)
    BY DEF Next
  <2>2. Apply(v)
    BY <2>1 DEF Begin, Send, Receive, Record, Crash, pretix
  <2>3. PICK meant \in {Written(intent[v]), Unset} :
          /\ \/ meant = Written(intent[v])
             \/ /\ Forgettable(field.sent, intent[v])
                /\ body[v] = Unset /\ body[v] # intent[v]
          /\ taken' = [taken EXCEPT ![v] = meant]
          /\ stored' = IF field.method = "PATCH"
                       THEN IF field.method = "GET" \/ meant = Unset THEN stored ELSE meant
                       ELSE stored
    BY <2>2, ApplyMeans
  <2>4. w = v
    BY <2>3 DEF IInv, TypeOK
  <2>5. taken'[w] = meant
    BY <2>3, <2>4 DEF IInv, TypeOK
  <2>6. meant = Written(intent[v]) \/ meant = Unset
    BY <2>3
  <2> QED
    BY <2>3, <2>4, <2>5, <2>6
<1> QED
  BY <1>1, Invariant, PTL DEF Spec, EditsApplyAsIntended

=============================================================================
