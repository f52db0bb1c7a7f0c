-------------------------- MODULE CliServer_proof --------------------------
(***************************************************************************)
(* The server keeps what its settings say, for any settings, paths and     *)
(* notifications, across interruptions, kills and restarts.                *)
(*                                                                         *)
(* The settings never change, and the endpoints follow from them: so what  *)
(* a delivery has passed is told from the settings alone (InvokedInv), and *)
(* still holds when the process that served it is gone.                    *)
(***************************************************************************)
EXTENDS CliServer, TLAPS

-----------------------------------------------------------------------------
(* What settings lead to.                                                  *)

\* Relative paths under one prefix are told apart by what they resolve to.
LEMMA ResolveInjective ==
  ASSUME NEW prefix \in Seq(Texts), NEW p \in Seq(Texts), NEW q \in Seq(Texts),
         Resolve(prefix, p) = Resolve(prefix, q)
  PROVE  p = q
<1> DEFINE base == IF prefix = Root THEN <<"">> ELSE prefix
<1>1. base \in Seq(Texts)
  <2>1. "" \in Texts
    BY CliConfigAssumption
  <2>2. \A x \in Texts : <<x>> \in Seq(Texts)
    OBVIOUS
  <2> QED BY <2>1, <2>2
<1>2. base \o p = base \o q
  BY DEF Resolve
<1> HIDE DEF base
<1>3. Len(base \o p) = Len(base) + Len(p) /\ Len(base \o q) = Len(base) + Len(q)
  BY <1>1
<1>4. Len(p) = Len(q)
  BY <1>1, <1>2, <1>3
<1>5. ASSUME NEW i \in 1..Len(p) PROVE p[i] = q[i]
  <2>1. (base \o p)[Len(base) + i] = p[i] /\ (base \o q)[Len(base) + i] = q[i]
    BY <1>1, <1>4
  <2> QED BY <2>1, <1>2
<1> QED BY <1>4, <1>5

\* A list without elements is empty.
LEMMA NoElements ==
  ASSUME NEW S, NEW l \in Seq(S), ToSet(l) = {} PROVE l = <<>>
<1>1. DOMAIN l = {}
  BY DEF ToSet
<1> QED BY <1>1

\* Every endpoint is that of the flags and environment, or one of the file's.
LEMMA Effective ==
  ASSUME NEW s, NEW e \in ToSet(IntoEffective(s))
  PROVE  /\ Parses(s) /\ ListsReadable(s)
         /\ \/ s.file = None /\ SimpleAccepted(s) /\ e = SimpleEndpoints(s)[1]
            \/ /\ s.file # None /\ MultiAccepted(s)
               /\ \E i \in DOMAIN s.file.webhooks : e = MultiEndpoints(s)[i]
<1>1. ToSet(<<>>) = {}
  BY DEF ToSet
<1>2. Parses(s) /\ ListsReadable(s)
  BY <1>1 DEF IntoEffective
<1>3. CASE s.file = None
  <2>1. SimpleAccepted(s) /\ e \in ToSet(SimpleEndpoints(s))
    BY <1>1, <1>2, <1>3 DEF IntoEffective
  <2>2. e = SimpleEndpoints(s)[1]
    BY <2>1 DEF ToSet, SimpleEndpoints
  <2> QED BY <1>2, <1>3, <2>1, <2>2
<1>4. CASE s.file # None
  <2>1. MultiAccepted(s) /\ e \in ToSet(MultiEndpoints(s))
    BY <1>1, <1>2, <1>4 DEF IntoEffective
  <2>2. \E i \in DOMAIN s.file.webhooks : e = MultiEndpoints(s)[i]
    BY <2>1 DEF ToSet, MultiEndpoints
  <2> QED BY <1>2, <1>4, <2>1, <2>2
<1> QED BY <1>3, <1>4

\* What an endpoint enforces is what is written for its path, no more and no
\* less, and it says itself where nothing is.
Keeps(e) ==
  /\ e.organizers \subseteq Slugs /\ e.events \subseteq Slugs /\ e.credentials \subseteq Credentials
  /\ \A list \in Lists : \A l \in Written(e.path, list) : ToSet(l) = e[list] /\ e[list] # {}
  /\ e.credentials = {} => e.unauthenticated
  /\ Written(e.path, "organizers") \cup Written(e.path, "events") = {} => e.unrestricted

LEMMA SimpleKeeps ==
  ASSUME Setting(settings), settings.file = None,
         Parses(settings), ListsReadable(settings), SimpleAccepted(settings)
  PROVE  Keeps(SimpleEndpoints(settings)[1])
<1> DEFINE s == settings
           e == SimpleEndpoints(s)[1]
<1>1. /\ e.organizers = ToSet(ListSetting(s, "organizers"))
      /\ e.events = ToSet(ListSetting(s, "events"))
      /\ e.credentials = ToSet(ListSetting(s, "credentials"))
      /\ e.unrestricted = (ListSetting(s, "organizers") = <<>> /\ ListSetting(s, "events") = <<>>)
      /\ e.unauthenticated = (ListSetting(s, "credentials") = <<>>)
  BY DEF SimpleEndpoints, Endpoint
<1>2. e.organizers \subseteq Slugs /\ e.events \subseteq Slugs /\ e.credentials \subseteq Credentials
  BY <1>1 DEF SimpleAccepted
<1>3. ASSUME NEW list \in Lists PROVE e[list] = ToSet(ListSetting(s, list))
  BY DEF SimpleEndpoints, Endpoint, Lists
<1>4. ASSUME NEW list \in Lists, NEW path
      PROVE  /\ Written(path, list) = {} => ListSetting(s, list) = <<>>
             /\ \A l \in Written(path, list) : l = ListSetting(s, list) /\ l # <<>>
             /\ ListSetting(s, list) \in Seq(Texts)
  <2>1. s.flags[list] # <<>> \/ s.lists[list] # NotUnicode
    BY DEF ListsReadable
  <2>2. s.flags[list] \in Seq(Texts) /\ (s.lists[list] # NotUnicode => Given(s.lists[list]) /\ s.lists[list] # <<>>)
    BY DEF Setting
  <2>3. Written(path, list) = IF s.flags[list] # <<>> THEN {s.flags[list]} ELSE {s.lists[list]} \ {None}
    BY DEF Written
  <2> QED BY <2>1, <2>2, <2>3 DEF ListSetting, SemicolonList, Given
<1>5. ASSUME NEW list \in Lists, NEW l \in Written(e.path, list)
      PROVE  ToSet(l) = e[list] /\ e[list] # {}
  BY <1>3, <1>4, <1>5, NoElements
<1>6. e.credentials = {} => e.unauthenticated
  BY <1>1, <1>4, NoElements DEF Lists
<1>7. Written(e.path, "organizers") \cup Written(e.path, "events") = {} => e.unrestricted
  BY <1>1, <1>4 DEF Lists
<1> QED BY <1>2, <1>5, <1>6, <1>7 DEF Keeps

LEMMA PrefixTyped ==
  ASSUME NEW s, Setting(s), s.file \notin {None, Unreadable} PROVE Prefix(s) \in Seq(Texts)
<1>1. "" \in Texts /\ "webhook" \in Texts
  BY CliConfigAssumption
<1>2. \A x, y \in Texts : <<x, y>> \in Seq(Texts)
  OBVIOUS
<1>3. DefaultPath \in Seq(Texts)
  BY <1>1, <1>2 DEF DefaultPath
<1>4. Given(s.prefix) /\ Given(s.file.prefix)
  BY DEF Setting, File
<1> QED BY <1>3, <1>4 DEF Prefix, Given

LEMMA MultiKeeps ==
  ASSUME Setting(settings), settings.file # None, ListsReadable(settings), MultiAccepted(settings),
         NEW i \in DOMAIN settings.file.webhooks
  PROVE  Keeps(MultiEndpoints(settings)[i])
<1> DEFINE s == settings
           webhooks == s.file.webhooks
           w == webhooks[i]
           credentials == [k \in DOMAIN w.credential_env |-> s.variables[w.credential_env[k]]]
           ofEntry(list) ==
             CASE list = "organizers" -> w.allow_organizers
               [] list = "events" -> w.allow_events
               [] OTHER -> credentials
           e == MultiEndpoints(s)[i]
<1>1. /\ e.path = Resolve(Prefix(s), w.path)
      /\ e.organizers = ToSet(w.allow_organizers)
      /\ e.events = ToSet(w.allow_events)
      /\ e.credentials = ToSet(credentials)
      /\ e.unrestricted = (w.allow_organizers = <<>> /\ w.allow_events = <<>>)
      /\ e.unauthenticated = (credentials = <<>>)
  BY DEF MultiEndpoints, Endpoint
<1>2. w \in ToSet(webhooks)
  BY DEF ToSet
<1>3. WebhookValid(s, w)
  BY <1>2 DEF MultiAccepted
<1>4. File(s.file) /\ s.file # Unreadable
  BY DEF Setting, MultiAccepted
<1>5. /\ w.allow_organizers \in Seq(Texts)
      /\ w.allow_events \in Seq(Texts)
      /\ credentials \in Seq(Credentials)
  <2>1. w.credential_env \in Seq(Texts)
    BY <1>2, <1>4 DEF File
  <2>2. \A k \in DOMAIN w.credential_env : credentials[k] \in Credentials
    BY <1>3 DEF WebhookValid, ToSet
  <2>3. credentials \in Seq(Credentials)
    BY <2>1, <2>2
  <2> QED BY <2>3, <1>2, <1>4 DEF File
<1>6. e.organizers \subseteq Slugs /\ e.events \subseteq Slugs /\ e.credentials \subseteq Credentials
  <2>1. e.organizers \cup e.events \subseteq Slugs
    BY <1>1, <1>3 DEF WebhookValid
  <2>2. e.credentials \subseteq Credentials
    <3> HIDE DEF credentials, e
    <3>1. ToSet(credentials) \subseteq Credentials
      BY <1>5 DEF ToSet
    <3> QED BY <1>1, <3>1
  <2> QED BY <2>1, <2>2
<1>7. ASSUME NEW list \in Lists PROVE e[list] = ToSet(ofEntry(list))
  BY <1>1 DEF Lists
\* Nothing but the file is written, and one entry of it for the path.
<1>8. ASSUME NEW list \in Lists PROVE s.flags[list] = <<>> /\ s.lists[list] = None
  <2>1. ListSetting(s, list) = <<>>
    BY DEF MultiAccepted, NoModeConflict
  <2>2. s.flags[list] = <<>>
    BY <2>1 DEF ListSetting
  <2>3. s.lists[list] # NotUnicode
    BY <2>2 DEF ListsReadable
  <2>4. s.lists[list] # <<>>
    BY <2>3 DEF Setting
  <2> QED BY <2>1, <2>2, <2>4 DEF ListSetting, SemicolonList
<1>9. {webhook \in ToSet(webhooks) : Resolve(Prefix(s), webhook.path) = e.path} = {w}
  <2>1. ASSUME NEW webhook \in ToSet(webhooks), Resolve(Prefix(s), webhook.path) = e.path
        PROVE  webhook = w
    <3>1. PICK j \in DOMAIN webhooks : webhook = webhooks[j]
      BY DEF ToSet
    <3>2. webhook.path \in Seq(Texts) /\ w.path \in Seq(Texts)
      BY <1>2, <1>4 DEF File
    <3>3. Prefix(s) \in Seq(Texts)
      BY <1>4, PrefixTyped
    <3>4. webhooks[j].path = webhooks[i].path
      BY <1>1, <2>1, <3>1, <3>2, <3>3, ResolveInjective
    <3>5. RoutesDistinct(webhooks)
      BY DEF MultiAccepted
    <3>6. j = i
      BY <3>4, <3>5 DEF RoutesDistinct, IsInjective
    <3> QED BY <3>1, <3>6
  <2> QED BY <2>1, <1>1, <1>2
<1>10. ASSUME NEW list \in Lists PROVE Written(e.path, list) = {ofEntry(list)} \ {<<>>}
  <2> HIDE DEF e
  <2>1. Written(e.path, list) =
          {CASE list = "organizers" -> webhook.allow_organizers
             [] list = "events" -> webhook.allow_events
             [] OTHER -> [k \in DOMAIN webhook.credential_env |-> s.variables[webhook.credential_env[k]]] :
             webhook \in {webhook \in ToSet(webhooks) : Resolve(Prefix(s), webhook.path) = e.path}}
            \ {<<>>}
    BY <1>8 DEF Written
  <2> QED BY <2>1, <1>9
<1>11. ASSUME NEW list \in Lists, NEW l \in Written(e.path, list)
       PROVE  ToSet(l) = e[list] /\ e[list] # {}
  <2>1. l = ofEntry(list) /\ l # <<>>
    BY <1>10, <1>11
  <2>2. l \in Seq(Texts) \/ l \in Seq(Credentials)
    BY <1>5, <2>1
  <2> QED BY <1>7, <2>1, <2>2, NoElements
<1>12. e.credentials = {} => e.unauthenticated
  BY <1>1, <1>5, NoElements
<1>13. Written(e.path, "organizers") \cup Written(e.path, "events") = {} => e.unrestricted
  BY <1>1, <1>10 DEF Lists
<1> QED BY <1>6, <1>11, <1>12, <1>13 DEF Keeps

\* What is served keeps what is written, whatever the mode.
LEMMA ServedKeeps ==
  ASSUME Setting(settings), NEW e \in ToSet(IntoEffective(settings)) PROVE Keeps(e)
BY Effective, SimpleKeeps, MultiKeeps

-----------------------------------------------------------------------------
(* What a service lets pass.                                               *)

\* The families of events do not depend on a service's policy.
LEMMA SameKinds ==
  ASSUME NEW p, NEW action
  PROVE  /\ Service(p)!KindOf(action) = Events!KindOf(action)
         /\ Service(p)!GiftCardKinds = Events!GiftCardKinds
         /\ Service(p)!EventKinds = Events!EventKinds
BY DEF Service!KindOf, Service!GiftCardKind, Service!StartsWith, Service!GiftCardKinds,
       Service!EventKinds, Events!KindOf, Events!GiftCardKind, Events!StartsWith,
       Events!GiftCardKinds, Events!EventKinds

\* The actions of customers and gift cards, whose events are an organizer's.
OfOrganizer(action) ==
  \E family \in {"customer", "giftcards"} : Events!StartsWith(action, <<"pretix", family>>)

\* Only they are of the families without an event.
LEMMA OrganizersKinds ==
  ASSUME NEW action, Events!KindOf(action) \in Events!GiftCardKinds \cup {"Customer"}
  PROVE  OfOrganizer(action)
BY DEF Events!KindOf, Events!GiftCardKinds, OfOrganizer

\* The families are those of WebhookEventKind.
LEMMA KindTyped ==
  ASSUME NEW action
  PROVE  Events!KindOf(action) \in Events!EventKinds \cup Events!GiftCardKinds \cup {"Customer", "Unknown"}
BY DEF Events!KindOf, Events!GiftCardKind, Events!EventKinds, Events!GiftCardKinds

\* A slug that passes a filter is that of a field of the event.
LEMMA SlugIsField ==
  ASSUME NEW p, NEW event, NEW f, NEW slugs \in SUBSET Slugs, Service(p)!Get(event, f) \in slugs
  PROVE  f \in DOMAIN event.fields /\ event.fields[f] \in slugs
<1>1. None \notin slugs
  BY CliConfigAssumption
<1> QED BY <1>1 DEF Service!Get, Service!AsStr

\* What passes the filters of a policy shows it in its fields.
LEMMA AllowedShown ==
  ASSUME NEW p, NEW payload, p.organizers \subseteq Slugs, p.events \subseteq Slugs,
         Service(p)!Deserialize(payload) # None,
         Service(p)!Allows(p, Service(p)!Deserialize(payload))
  PROVE  LET fields == payload.fields
             shows(f, slugs) == f \in DOMAIN fields /\ fields[f] \in slugs
         IN  /\ p.organizers # {} =>
                  shows("organizer", p.organizers) \/ shows("issuer_slug", p.organizers)
             /\ /\ p.events # {}
                /\ "event" \in DOMAIN fields
                /\ ~OfOrganizer(payload.action)
                => shows("event", p.events)
<1> DEFINE event == Service(p)!Deserialize(payload)
<1>1. event.kind = Events!KindOf(payload.action) /\ event.fields = payload.fields
  BY SameKinds DEF Service!Deserialize
<1>2. ASSUME p.organizers # {}
      PROVE  \E f \in {"organizer", "issuer_slug"} :
               f \in DOMAIN event.fields /\ event.fields[f] \in p.organizers
  <2>1. Service(p)!OrganizerSlug(event) \in p.organizers
    BY <1>2 DEF Service!Allows
  <2>2. \E f \in {"organizer", "issuer_slug"} : Service(p)!Get(event, f) \in p.organizers
    BY <2>1 DEF Service!OrganizerSlug
  <2> QED BY <2>2, SlugIsField
<1>3. ASSUME p.events # {}, "event" \in DOMAIN event.fields,
             ~OfOrganizer(payload.action)
      PROVE  event.fields["event"] \in p.events
  <2>1. event.kind \in Events!EventKinds \cup {"Unknown"}
    BY <1>1, <1>3, KindTyped, OrganizersKinds
  <2>2. Service(p)!IsEventLevel(event)
    BY <1>3, <2>1, SameKinds DEF Service!IsEventLevel
  <2>3. Service(p)!EventSlug(event) \in p.events
    BY <1>3, <2>2 DEF Service!Allows
  <2>4. Service(p)!Get(event, "event") \in p.events
    BY <2>1, <2>3, SameKinds DEF Service!EventSlug
  <2> QED BY <2>4, SlugIsField
<1> QED BY <1>1, <1>2, <1>3

-----------------------------------------------------------------------------
(* The invariant.                                                          *)

Running == {"serving", "draining", "draining after error"}

\* While the process runs it serves what its settings lead to, and has warned
\* of all of it.  Otherwise none of its futures is left.
ServingInv ==
  /\ phase \in Running => endpoints = IntoEffective(settings) /\ Warnings(endpoints) \subseteq warned
  /\ phase \notin Running => Open = {}

\* What is open is routed, and its body is read for a credential of its route.
RouteInv ==
  \A d \in Open :
    /\ Routes(d) # {}
    /\ stage[d] # "received" =>
         Service(PolicyFor(d))!Authenticates(PolicyFor(d), notice[d[1]].credential)

HandlingInv == \A d \in Deliveries : stage[d] = "handling" => d \in invoked

\* A notice that the service at an endpoint gives to the handler.
Passes(endpoint, note) ==
  LET p == PolicyAt(endpoint)
      event == Service(p)!Deserialize(note.payload)
  IN  /\ Service(p)!Authenticates(p, note.credential)
      /\ event # None
      /\ Service(p)!Allows(p, event)

\* What was invoked has passed an endpoint of the settings that has its path
\* and was warned of, whether the process that did so still runs or not.
InvokedInv ==
  \A d \in invoked : \E e \in ToSet(IntoEffective(settings)) :
    e.path = target[d[1]] /\ Passes(e, notice[d[1]]) /\ Warnings(<<e>>) \subseteq warned

IInv == TypeOK /\ ServingInv /\ RouteInv /\ HandlingInv /\ InvokedInv

LEMMA Initially == ASSUME Init PROVE IInv
<1>1. Setting(settings)
  BY ServerAssumption DEF Init
<1>2. TypeOK
  BY <1>1 DEF Init, TypeOK, Phases, Stages
<1>3. Open = {}
  BY DEF Init, Open
<1> QED BY <1>2, <1>3 DEF Init, IInv, ServingInv, RouteInv, HandlingInv, InvokedInv, Running

\* Nothing that was invoked is called into question while the settings stay.
LEMMA InvokedStays ==
  ASSUME InvokedInv, UNCHANGED <<settings, target, notice, invoked>>, warned \subseteq warned'
  PROVE  InvokedInv'
BY DEF InvokedInv

LEMMA StartKeeps == ASSUME IInv, Start PROVE IInv'
<1> USE DEF IInv, Start, served
<1>1. Open = {} /\ Open' = {}
  BY DEF ServingInv, Running, Open
<1>2. TypeOK'
  BY DEF TypeOK, Phases
<1>3. ServingInv'
  BY <1>1 DEF ServingInv, Running
<1>4. RouteInv'
  BY <1>1 DEF RouteInv
<1>5. HandlingInv'
  BY DEF HandlingInv
<1>6. InvokedInv'
  BY InvokedStays
<1> QED BY <1>2, <1>3, <1>4, <1>5, <1>6

LEMMA CtrlCKeeps == ASSUME IInv, CtrlC PROVE IInv'
<1> USE DEF IInv, CtrlC, served
<1>1. TypeOK'
  BY DEF TypeOK, Phases
<1>2. ServingInv'
  BY DEF ServingInv, Running, Open
<1>3. RouteInv'
  BY DEF RouteInv, Open, Routes, PolicyFor, Service!Authenticates
<1>4. HandlingInv'
  BY DEF HandlingInv
<1>5. InvokedInv'
  BY InvokedStays
<1> QED BY <1>1, <1>2, <1>3, <1>4, <1>5

LEMMA ExitKeeps == ASSUME IInv, Exit PROVE IInv'
<1> USE DEF IInv, Exit, served
<1>1. Open' = {}
  BY DEF Open
<1>2. TypeOK'
  BY DEF TypeOK, Phases
<1>3. ServingInv'
  BY <1>1 DEF ServingInv, Running
<1>4. RouteInv'
  BY <1>1 DEF RouteInv
<1>5. HandlingInv'
  BY DEF HandlingInv
<1>6. InvokedInv'
  BY InvokedStays
<1> QED BY <1>2, <1>3, <1>4, <1>5, <1>6

LEMMA KillKeeps == ASSUME IInv, Kill PROVE IInv'
<1> USE DEF IInv, Kill, served
<1>1. \A d \in Deliveries : stage'[d] = IF d \in Open THEN "dropped" ELSE stage[d]
  OBVIOUS
<1>2. Open' = {}
  BY <1>1 DEF Open
<1>3. TypeOK'
  <2>1. stage' \in [Deliveries -> Stages]
    BY DEF TypeOK, Stages
  <2> QED BY <2>1 DEF TypeOK, Phases
<1>4. ServingInv'
  BY <1>2 DEF ServingInv, Running
<1>5. RouteInv'
  BY <1>2 DEF RouteInv
<1>6. HandlingInv'
  BY <1>1 DEF HandlingInv
<1>7. InvokedInv'
  BY InvokedStays
<1> QED BY <1>3, <1>4, <1>5, <1>6, <1>7

LEMMA RestartKeeps == ASSUME IInv, Restart PROVE IInv'
<1> USE DEF IInv, Restart, served
<1>1. Open = {} /\ Open' = {}
  BY DEF ServingInv, Running, Open
<1>2. TypeOK'
  BY DEF TypeOK, Phases
<1>3. ServingInv'
  BY <1>1 DEF ServingInv, Running
<1>4. RouteInv'
  BY <1>1 DEF RouteInv
<1>5. HandlingInv'
  BY DEF HandlingInv
<1>6. InvokedInv'
  BY InvokedStays
<1> QED BY <1>2, <1>3, <1>4, <1>5, <1>6

-----------------------------------------------------------------------------
(* The steps of a delivery.                                                *)

\* What is open is served by a process that runs, and on a route.
LEMMA OpenIsServed ==
  ASSUME IInv, NEW d \in Deliveries, stage[d] \in {"received", "reading", "handling"}
  PROVE  phase \in Running /\ Routes(d) # {}
BY DEF IInv, ServingInv, RouteInv, Open

\* A delivery that goes on is routed, and authenticated before it is read.
LEMMA StageKeeps ==
  ASSUME IInv, UNCHANGED process, NEW d \in Deliveries, NEW x,
         stage' = [stage EXCEPT ![d] = x],
         x \in {"received", "reading", "handling"} => phase \in Running /\ Routes(d) # {},
         x \in {"reading", "handling"} =>
           Service(PolicyFor(d))!Authenticates(PolicyFor(d), notice[d[1]].credential)
  PROVE  ServingInv' /\ RouteInv'
<1> USE DEF IInv, process
<1>1. \A c \in Deliveries : stage'[c] = IF c = d THEN x ELSE stage[c]
  BY DEF TypeOK
<1>2. ServingInv'
  BY <1>1 DEF ServingInv, Open
<1>3. ASSUME NEW c \in Deliveries PROVE PolicyFor(c)' = PolicyFor(c) /\ Routes(c)' = Routes(c)
  BY DEF PolicyFor, Routes
<1>4. ASSUME NEW c \in Open'
      PROVE  /\ Routes(c)' # {}
             /\ (stage[c] # "received" =>
                   Service(PolicyFor(c))!Authenticates(PolicyFor(c), notice[c[1]].credential))'
  <2>1. c \in Deliveries /\ stage'[c] \in {"received", "reading", "handling"}
    BY <1>4 DEF Open
  <2>2. CASE c = d
    BY <2>1, <2>2, <1>1, <1>3 DEF Service!Authenticates
  <2>3. CASE c # d
    <3>1. c \in Open /\ stage'[c] = stage[c]
      BY <2>1, <2>3, <1>1 DEF Open
    <3> QED BY <2>1, <3>1, <1>3 DEF RouteInv, Service!Authenticates
  <2> QED BY <2>2, <2>3
<1> QED BY <1>2, <1>4 DEF RouteInv

LEMMA DeliverKeeps == ASSUME IInv, NEW d \in Deliveries, Deliver(d) PROVE IInv'
<1> USE DEF IInv
<1>1. UNCHANGED <<settings, target, notice, invoked, handled, acked, read, warned, endpoints, phase>>
  BY DEF Deliver, Service!Deliver, process, served
<1>2. PICK x \in {"received", "answered"} : stage' = [stage EXCEPT ![d] = x]
  BY DEF Deliver, Service!Deliver, Service!Answer
<1>3. TypeOK'
  <2>1. stage' \in [Deliveries -> Stages]
    BY <1>2 DEF TypeOK, Stages
  <2>2. status' \in [Deliveries -> {204, 400, 401, 404, 413, None}]
    <3>1. CASE Routes(d) # {}
      BY <3>1 DEF TypeOK, Deliver, Service!Deliver
    <3>2. CASE Routes(d) = {}
      BY <3>2 DEF TypeOK, Deliver, Service!Answer
    <3> QED BY <3>1, <3>2
  <2> QED BY <2>1, <2>2, <1>1 DEF TypeOK
<1>4. ServingInv' /\ RouteInv'
  <2>1. UNCHANGED process
    BY <1>1 DEF process
  <2>2. x = "received" => phase \in Running /\ Routes(d) # {}
    <3>1. phase \in Running
      BY DEF Deliver, Running
    <3>2. Routes(d) = {} => x # "received"
      BY <1>2 DEF Deliver, Service!Answer, TypeOK
    <3> QED BY <3>1, <3>2
  <2> QED BY <1>2, <2>1, <2>2, StageKeeps
<1>5. HandlingInv'
  BY <1>1, <1>2 DEF HandlingInv, TypeOK
<1>6. InvokedInv'
  BY <1>1, InvokedStays
<1> QED BY <1>3, <1>4, <1>5, <1>6

LEMMA AuthenticateKeeps == ASSUME IInv, NEW d \in Deliveries, Authenticate(d) PROVE IInv'
<1> USE DEF IInv
<1> DEFINE accepted == Service(PolicyFor(d))!Authenticates(PolicyFor(d), notice[d[1]].credential)
<1>1. UNCHANGED <<settings, target, notice, invoked, handled, acked, read, warned, endpoints, phase>>
  BY DEF Authenticate, Service!Authenticate, process
<1>2. stage[d] = "received"
  BY DEF Authenticate, Service!Authenticate
<1>3. PICK x \in {"reading", "answered"} :
        stage' = [stage EXCEPT ![d] = x] /\ (x = "reading" => accepted)
  BY DEF Authenticate, Service!Authenticate, Service!Answer, Service!NoticeOf
<1>4. TypeOK'
  <2>1. stage' \in [Deliveries -> Stages]
    BY <1>3 DEF TypeOK, Stages
  <2>2. status' \in [Deliveries -> {204, 400, 401, 404, 413, None}]
    BY DEF TypeOK, Authenticate, Service!Authenticate, Service!Answer
  <2> QED BY <2>1, <2>2, <1>1 DEF TypeOK
<1>5. ServingInv' /\ RouteInv'
  <2>1. UNCHANGED process
    BY <1>1 DEF process
  <2> QED BY <1>2, <1>3, <2>1, OpenIsServed, StageKeeps
<1>6. HandlingInv'
  BY <1>1, <1>3 DEF HandlingInv, TypeOK
<1>7. InvokedInv'
  BY <1>1, InvokedStays
<1> QED BY <1>4, <1>5, <1>6, <1>7

\* A frame arrives, or the body breaks off.
LEMMA ReadFrameKeeps ==
  ASSUME IInv, NEW d \in Deliveries, UNCHANGED process,
         Service(PolicyFor(d))!ReadFrame(d) \/ Service(PolicyFor(d))!ReadError(d)
  PROVE  IInv'
<1> USE DEF IInv
<1>1. UNCHANGED <<settings, target, notice, invoked, handled, acked, warned, endpoints, phase>>
  BY DEF Service!ReadFrame, Service!ReadError, process
<1>2. stage[d] = "reading"
  BY DEF Service!ReadFrame, Service!ReadError
<1>3. PICK x \in {"reading", "answered"} : stage' = [stage EXCEPT ![d] = x]
  BY <1>2 DEF Service!ReadFrame, Service!ReadError, Service!Answer, TypeOK
<1>4. TypeOK'
  <2>1. stage' \in [Deliveries -> Stages]
    BY <1>3 DEF TypeOK, Stages
  <2>2. status' \in [Deliveries -> {204, 400, 401, 404, 413, None}]
    BY DEF TypeOK, Service!ReadFrame, Service!ReadError, Service!Answer
  <2>3. read' \in [Deliveries -> Nat]
    <3>1. notice[d[1]].size \in Nat
      BY ServerAssumption DEF TypeOK, Deliveries
    <3> QED BY <3>1 DEF TypeOK, Service!ReadFrame, Service!ReadError, Service!NoticeOf
  <2> QED BY <2>1, <2>2, <2>3, <1>1 DEF TypeOK
<1>5. ServingInv' /\ RouteInv'
  <2>1. Service(PolicyFor(d))!Authenticates(PolicyFor(d), notice[d[1]].credential)
    BY <1>2 DEF RouteInv, Open
  <2> QED BY <1>2, <1>3, <2>1, OpenIsServed, StageKeeps
<1>6. HandlingInv'
  BY <1>1, <1>3 DEF HandlingInv, TypeOK
<1>7. InvokedInv'
  BY <1>1, InvokedStays
<1> QED BY <1>4, <1>5, <1>6, <1>7

\* What is dispatched to the handler passes the endpoint it is routed to.
LEMMA DispatchPasses ==
  ASSUME IInv, NEW d \in Deliveries, stage[d] = "reading",
         LET event == Service(PolicyFor(d))!Deserialize(notice[d[1]].payload)
         IN  event # None /\ Service(PolicyFor(d))!Allows(PolicyFor(d), event)
  PROVE  \E e \in ToSet(IntoEffective(settings)) :
           e.path = target[d[1]] /\ Passes(e, notice[d[1]]) /\ Warnings(<<e>>) \subseteq warned
<1> USE DEF IInv
<1> DEFINE e == CHOOSE endpoint \in Routes(d) : TRUE
<1>1. phase \in Running /\ Routes(d) # {}
  BY OpenIsServed
<1>2. e \in Routes(d) /\ PolicyFor(d) = PolicyAt(e)
  BY <1>1 DEF PolicyFor
<1>3. Service(PolicyFor(d))!Authenticates(PolicyFor(d), notice[d[1]].credential)
  BY DEF RouteInv, Open
<1> HIDE DEF e
<1>4. e \in ToSet(IntoEffective(settings)) /\ e.path = target[d[1]]
  BY <1>1, <1>2 DEF Routes, ServingInv
<1>5. Passes(e, notice[d[1]])
  BY <1>2, <1>3 DEF Passes
<1>6. Warnings(<<e>>) \subseteq warned
  <2>1. ToSet(<<e>>) = {e} /\ e \in ToSet(endpoints)
    BY <1>2 DEF ToSet, Routes
  <2>2. Warnings(<<e>>) \subseteq Warnings(endpoints)
    BY <2>1 DEF Warnings
  <2> QED BY <1>1, <2>2 DEF ServingInv
<1> QED BY <1>4, <1>5, <1>6

LEMMA DispatchKeeps ==
  ASSUME IInv, NEW d \in Deliveries, UNCHANGED process, Service(PolicyFor(d))!Dispatch(d)
  PROVE  IInv'
<1> USE DEF IInv
<1> DEFINE event == Service(PolicyFor(d))!Deserialize(notice[d[1]].payload)
           passes == event # None /\ Service(PolicyFor(d))!Allows(PolicyFor(d), event)
<1>1. UNCHANGED <<settings, target, notice, handled, acked, read, warned, endpoints, phase>>
  BY DEF Service!Dispatch, process
<1>2. stage[d] = "reading"
  BY DEF Service!Dispatch
<1>3. \/ stage' = [stage EXCEPT ![d] = "answered"] /\ UNCHANGED invoked
      \/ stage' = [stage EXCEPT ![d] = "handling"] /\ invoked' = invoked \cup {d} /\ passes
  BY DEF Service!Dispatch, Service!Answer, Service!NoticeOf
<1>4. PICK x \in {"answered", "handling"} : stage' = [stage EXCEPT ![d] = x]
  BY <1>3
<1>5. TypeOK'
  <2>1. stage' \in [Deliveries -> Stages]
    BY <1>4 DEF TypeOK, Stages
  <2>2. status' \in [Deliveries -> {204, 400, 401, 404, 413, None}]
    <3>1. UNCHANGED status \/ \E code \in {400, 404} : status' = [status EXCEPT ![d] = code]
      BY DEF Service!Dispatch, Service!Answer
    <3> QED BY <3>1 DEF TypeOK
  <2>3. invoked' \subseteq Deliveries /\ invoked \subseteq invoked'
    BY <1>3 DEF TypeOK
  <2> QED BY <2>1, <2>2, <2>3, <1>1 DEF TypeOK
<1>6. ServingInv' /\ RouteInv'
  <2>1. Service(PolicyFor(d))!Authenticates(PolicyFor(d), notice[d[1]].credential)
    BY <1>2 DEF RouteInv, Open
  <2> QED BY <1>2, <1>4, <2>1, OpenIsServed, StageKeeps
<1>7. HandlingInv'
  BY <1>3 DEF HandlingInv, TypeOK
<1>8. InvokedInv'
  <2>1. CASE UNCHANGED invoked
    BY <2>1, <1>1, InvokedStays
  <2>2. CASE invoked' = invoked \cup {d} /\ passes
    BY <2>2, <1>1, <1>2, DispatchPasses DEF InvokedInv
  <2> QED BY <1>3, <2>1, <2>2
<1> QED BY <1>5, <1>6, <1>7, <1>8

LEMMA SucceedKeeps == ASSUME IInv, NEW d \in Deliveries, Succeed(d) PROVE IInv'
<1> USE DEF IInv
<1>1. UNCHANGED <<settings, target, notice, invoked, acked, read, warned, endpoints, phase>>
  BY DEF Succeed, Service!Succeed, process
<1>2. stage[d] = "handling" /\ stage' = [stage EXCEPT ![d] = "answered"]
  BY DEF Succeed, Service!Succeed, Service!Answer
<1>3. TypeOK'
  <2>1. stage' \in [Deliveries -> Stages]
    BY <1>2 DEF TypeOK, Stages
  <2>2. status' \in [Deliveries -> {204, 400, 401, 404, 413, None}]
    BY DEF TypeOK, Succeed, Service!Succeed, Service!Answer
  <2>3. handled' \subseteq invoked
    BY <1>2 DEF TypeOK, HandlingInv, Succeed, Service!Succeed
  <2> QED BY <2>1, <2>2, <2>3, <1>1 DEF TypeOK
<1>4. ServingInv' /\ RouteInv'
  BY <1>2, StageKeeps DEF Succeed
<1>5. HandlingInv'
  BY <1>1, <1>2 DEF HandlingInv, TypeOK
<1>6. InvokedInv'
  BY <1>1, InvokedStays
<1> QED BY <1>3, <1>4, <1>5, <1>6

LEMMA DisconnectKeeps == ASSUME IInv, NEW d \in Deliveries, Disconnect(d) PROVE IInv'
<1> USE DEF IInv
<1>1. UNCHANGED <<settings, target, notice, invoked, handled, acked, read, status, warned, endpoints, phase>>
  BY DEF Disconnect, Service!Disconnect, process
<1>2. stage' = [stage EXCEPT ![d] = "dropped"]
  BY DEF Disconnect, Service!Disconnect
<1>3. TypeOK'
  <2>1. stage' \in [Deliveries -> Stages]
    BY <1>2 DEF TypeOK, Stages
  <2> QED BY <2>1, <1>1 DEF TypeOK
<1>4. ServingInv' /\ RouteInv'
  BY <1>2, StageKeeps DEF Disconnect
<1>5. HandlingInv'
  BY <1>1, <1>2 DEF HandlingInv, TypeOK
<1>6. InvokedInv'
  BY <1>1, InvokedStays
<1> QED BY <1>3, <1>4, <1>5, <1>6

LEMMA AcknowledgeKeeps == ASSUME IInv, NEW d \in Deliveries, Acknowledge(d) PROVE IInv'
<1> USE DEF IInv
<1>1. UNCHANGED <<settings, target, notice, invoked, handled, read, status, warned, endpoints, phase>>
  BY DEF Acknowledge, Service!Acknowledge, process
<1>2. stage' = [stage EXCEPT ![d] = "closed"]
  BY DEF Acknowledge, Service!Acknowledge
<1>3. TypeOK'
  <2>1. stage' \in [Deliveries -> Stages]
    BY <1>2 DEF TypeOK, Stages
  <2>2. acked' \subseteq Notifications
    BY DEF TypeOK, Deliveries, Acknowledge, Service!Acknowledge
  <2> QED BY <2>1, <2>2, <1>1 DEF TypeOK
<1>4. ServingInv' /\ RouteInv'
  BY <1>2, StageKeeps DEF Acknowledge
<1>5. HandlingInv'
  BY <1>1, <1>2 DEF HandlingInv, TypeOK
<1>6. InvokedInv'
  BY <1>1, InvokedStays
<1> QED BY <1>3, <1>4, <1>5, <1>6

-----------------------------------------------------------------------------

LEMMA StepKeeps == ASSUME IInv, [Next]_vars PROVE IInv'
<1>1. CASE Next
  <2>1. CASE Start \/ CtrlC \/ Exit \/ Kill \/ Restart
    BY <2>1, StartKeeps, CtrlCKeeps, ExitKeeps, KillKeeps, RestartKeeps
  <2>2. ASSUME NEW d \in Deliveries, Read(d) PROVE IInv'
    <3>1. UNCHANGED process /\ Service(PolicyFor(d))!Read(d)
      BY <2>2 DEF Read
    <3> QED BY <3>1, ReadFrameKeeps, DispatchKeeps DEF Service!Read
  <2>3. ASSUME NEW d \in Deliveries,
               Deliver(d) \/ Authenticate(d) \/ Succeed(d) \/ Disconnect(d) \/ Acknowledge(d)
        PROVE  IInv'
    BY <2>3, DeliverKeeps, AuthenticateKeeps, SucceedKeeps, DisconnectKeeps, AcknowledgeKeeps
  <2> QED BY <1>1, <2>1, <2>2, <2>3 DEF Next
<1>2. CASE UNCHANGED vars
  <2>1. TypeOK' /\ ServingInv' /\ HandlingInv'
    BY <1>2 DEF IInv, TypeOK, ServingInv, HandlingInv, Open, vars, process, served
  <2>2. RouteInv'
    BY <1>2 DEF IInv, RouteInv, Open, Routes, PolicyFor, Service!Authenticates, vars, process
  <2>3. InvokedInv'
    BY <1>2, InvokedStays DEF IInv, vars, process, served
  <2> QED BY <2>1, <2>2, <2>3 DEF IInv
<1> QED BY <1>1, <1>2

\* The inductive invariant.
THEOREM Invariant == Spec => []IInv
BY Initially, StepKeeps, PTL DEF Spec

-----------------------------------------------------------------------------

\* The variables keep their types; whatever happens to the process, it serves
\* all that its settings lead to or nothing (main.rs: run).
THEOREM TypeCorrect == Spec => []TypeOK
<1>1. IInv => TypeOK
  BY DEF IInv
<1> QED BY <1>1, Invariant, PTL

\* What reaches the handler satisfies every list written for its path, in
\* whichever place (config.rs: into_effective; builder.rs: authenticates, allows).
THEOREM WrittenIsEnforced == Spec => []WrittenListsHold
<1>1. ASSUME IInv PROVE WrittenListsHold
  <2> SUFFICES ASSUME NEW d \in invoked
               PROVE  LET path == target[d[1]]
                          payload == notice[d[1]].payload
                          fields == payload.fields
                          shows(f, list) == f \in DOMAIN fields /\ fields[f] \in ToSet(list)
                      IN  /\ \A list \in Written(path, "credentials") :
                               notice[d[1]].credential \in ToSet(list)
                          /\ \A list \in Written(path, "organizers") :
                               shows("organizer", list) \/ shows("issuer_slug", list)
                          /\ \A list \in Written(path, "events") :
                               /\ "event" \in DOMAIN fields
                               /\ ~OfOrganizer(payload.action)
                               => shows("event", list)
    BY DEF WrittenListsHold, OfOrganizer
  <2>1. PICK e \in ToSet(IntoEffective(settings)) :
          e.path = target[d[1]] /\ Passes(e, notice[d[1]])
    BY <1>1 DEF IInv, InvokedInv
  <2>2. Keeps(e)
    BY <1>1, ServedKeeps DEF IInv, TypeOK
  <2> DEFINE p == PolicyAt(e)
  <2>3. p.organizers = e.organizers /\ p.events = e.events /\ p.credentials = e.credentials
    BY DEF PolicyAt
  <2>4. ASSUME NEW list \in Written(target[d[1]], "credentials")
        PROVE  notice[d[1]].credential \in ToSet(list)
    <3>1. ToSet(list) = e.credentials /\ e.credentials # {}
      BY <2>1, <2>2 DEF Keeps, Lists
    <3> QED BY <2>1, <2>3, <3>1 DEF Passes, Service!Authenticates
  <2> DEFINE payload == notice[d[1]].payload
             shows(f, slugs) == f \in DOMAIN payload.fields /\ payload.fields[f] \in slugs
  <2>5. /\ e.organizers # {} => shows("organizer", e.organizers) \/ shows("issuer_slug", e.organizers)
        /\ /\ e.events # {}
           /\ "event" \in DOMAIN payload.fields
           /\ ~OfOrganizer(payload.action)
           => shows("event", e.events)
    <3> HIDE DEF p
    <3>1. p.organizers \subseteq Slugs /\ p.events \subseteq Slugs
      BY <2>2, <2>3 DEF Keeps
    <3>2. Service(p)!Deserialize(payload) # None /\ Service(p)!Allows(p, Service(p)!Deserialize(payload))
      BY <2>1 DEF Passes, p
    <3> QED BY <2>3, <3>1, <3>2, AllowedShown
  <2>6. ASSUME NEW list \in Written(target[d[1]], "organizers")
        PROVE  ToSet(list) = e.organizers /\ e.organizers # {}
    BY <2>1, <2>2 DEF Keeps, Lists
  <2>7. ASSUME NEW list \in Written(target[d[1]], "events")
        PROVE  ToSet(list) = e.events /\ e.events # {}
    BY <2>1, <2>2 DEF Keeps, Lists
  <2> QED BY <2>4, <2>5, <2>6, <2>7
<1> QED BY <1>1, Invariant, PTL

\* A path that lets strangers or every event through has been warned of, in
\* this run of the process or in an earlier one (main.rs: report_startup).
THEOREM OpenPathsWarned == Spec => []WarnedIfOpen
<1>1. ASSUME IInv PROVE WarnedIfOpen
  <2> SUFFICES ASSUME NEW d \in invoked
               PROVE  /\ notice[d[1]].credential = None =>
                           <<target[d[1]], "unauthenticated">> \in warned
                      /\ Written(target[d[1]], "organizers") \cup Written(target[d[1]], "events") = {} =>
                           <<target[d[1]], "unrestricted">> \in warned
    BY DEF WarnedIfOpen
  <2>1. PICK e \in ToSet(IntoEffective(settings)) :
          /\ e.path = target[d[1]]
          /\ Passes(e, notice[d[1]])
          /\ Warnings(<<e>>) \subseteq warned
    BY <1>1 DEF IInv, InvokedInv
  <2>2. Keeps(e)
    BY <1>1, ServedKeeps DEF IInv, TypeOK
  <2>3. ToSet(<<e>>) = {e}
    BY DEF ToSet
  <2>4. /\ e.unauthenticated => <<e.path, "unauthenticated">> \in warned
        /\ e.unrestricted => <<e.path, "unrestricted">> \in warned
    BY <2>1, <2>3 DEF Warnings
  <2>5. ASSUME notice[d[1]].credential = None PROVE e.credentials = {}
    <3>1. e.credentials = {} \/ None \in e.credentials
      BY <2>1, <2>5 DEF Passes, PolicyAt, Service!Authenticates
    <3>2. None \notin e.credentials
      BY <2>2, CliConfigAssumption DEF Keeps
    <3> QED BY <3>1, <3>2
  <2> QED BY <2>1, <2>2, <2>4, <2>5 DEF Keeps
<1> QED BY <1>1, Invariant, PTL

\* Only a handler that has returned is answered with a success.
SuccessInv == \A d \in Deliveries : status[d] = 204 => d \in handled

LEMMA SuccessKeeps ==
  ASSUME IInv, SuccessInv, DeliveredIsHandled, [Next]_vars
  PROVE  SuccessInv' /\ DeliveredIsHandled'
<1> USE DEF SuccessInv, DeliveredIsHandled
<1>1. ASSUME UNCHANGED <<status, handled, acked>> PROVE SuccessInv' /\ DeliveredIsHandled'
  BY <1>1
<1>2. CASE Start \/ CtrlC \/ Exit \/ Kill \/ Restart \/ UNCHANGED vars
  BY <1>1, <1>2 DEF Start, CtrlC, Exit, Kill, Restart, vars, served
\* Other answers than that of a handler are refusals.
<1>3. ASSUME NEW d \in Deliveries, UNCHANGED <<handled, acked>>,
             UNCHANGED status \/ \E code \in {400, 401, 404, 413} : status' = [status EXCEPT ![d] = code]
      PROVE  SuccessInv' /\ DeliveredIsHandled'
  BY <1>3 DEF IInv, TypeOK
<1>4. ASSUME NEW d \in Deliveries, Deliver(d) PROVE SuccessInv' /\ DeliveredIsHandled'
  BY <1>3, <1>4 DEF Deliver, served, Service!Deliver, Service!Answer
<1>5. ASSUME NEW d \in Deliveries, Authenticate(d) PROVE SuccessInv' /\ DeliveredIsHandled'
  BY <1>3, <1>5 DEF Authenticate, Service!Authenticate, Service!Answer
<1>6. ASSUME NEW d \in Deliveries, Read(d) PROVE SuccessInv' /\ DeliveredIsHandled'
  <2>1. CASE Service(PolicyFor(d))!ReadFrame(d)
    BY <1>3, <2>1 DEF Service!ReadFrame, Service!Answer
  <2>2. CASE Service(PolicyFor(d))!ReadError(d)
    BY <1>3, <2>2 DEF Service!ReadError, Service!Answer
  <2>3. CASE Service(PolicyFor(d))!Dispatch(d)
    BY <1>3, <2>3 DEF Service!Dispatch, Service!Answer
  <2> QED BY <1>6, <2>1, <2>2, <2>3 DEF Read, Service!Read
<1>7. ASSUME NEW d \in Deliveries, Succeed(d) PROVE SuccessInv' /\ DeliveredIsHandled'
  BY <1>7 DEF Succeed, Service!Succeed, Service!Answer, IInv, TypeOK
<1>8. ASSUME NEW d \in Deliveries, Disconnect(d) PROVE SuccessInv' /\ DeliveredIsHandled'
  BY <1>1, <1>8 DEF Disconnect, Service!Disconnect
<1>9. ASSUME NEW d \in Deliveries, Acknowledge(d) PROVE SuccessInv' /\ DeliveredIsHandled'
  <2>1. UNCHANGED <<status, handled>>
    BY <1>9 DEF Acknowledge, Service!Acknowledge
  <2>2. acked' = acked \/ (status[d] \in 200..299 /\ acked' = acked \cup {d[1]})
    BY <1>9 DEF Acknowledge, Service!Acknowledge
  <2>3. status[d] \in 200..299 => status[d] = 204
    <3>1. status[d] \in {204, 400, 401, 404, 413, None}
      BY DEF IInv, TypeOK
    <3>2. None \notin 200..599
      BY ServerAssumption
    <3>3. 200..299 \subseteq 200..599
      OBVIOUS
    <3> QED BY <3>1, <3>2, <3>3
  <2> QED BY <2>1, <2>2, <2>3
<1> QED BY <1>2, <1>4, <1>5, <1>6, <1>7, <1>8, <1>9 DEF Next

\* What pretix counts as delivered has been handled: whatever path it was sent to
\* and whenever the process was killed (main.rs: run; lib.rs: respond).
THEOREM DeliveredWasHandled == Spec => []DeliveredIsHandled
<1>1. Init => SuccessInv /\ DeliveredIsHandled
  <2> SUFFICES ASSUME Init PROVE SuccessInv /\ DeliveredIsHandled
    OBVIOUS
  <2>1. None # 204
    BY ServerAssumption
  <2> QED BY <2>1 DEF Init, SuccessInv, DeliveredIsHandled
<1>2. IInv /\ SuccessInv /\ DeliveredIsHandled /\ [Next]_vars => SuccessInv' /\ DeliveredIsHandled'
  BY SuccessKeeps
<1> QED BY <1>1, <1>2, Invariant, PTL DEF Spec

=============================================================================
