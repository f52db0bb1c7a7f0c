--------------------------- MODULE WebhookService ---------------------------
(***************************************************************************)
(* WebhookService (crates/pretix-webhook): what happens to the requests by *)
(* which pretix delivers notifications, from their headers to the answer.  *)
(* Requests are served concurrently; each may break off at any time, and   *)
(* the future that serves it is then dropped, together with the handler's. *)
(*                                                                         *)
(* pretix is external: it may deliver a notification again at any time,    *)
(* and counts it as delivered when it gets a success for an answer.        *)
(***************************************************************************)
EXTENDS WebhookEvents

CONSTANTS
  Notifications,   \* the notifications pretix delivers
  MaxDeliveries,   \* bound: how often it delivers each of them
  Policies,        \* the policies of a service (WebhookServiceBuilder)
  Notices          \* what notifications may look like on the wire

\* An empty set of credentials or slugs does not restrict anything.
Policy(p) ==
  /\ p.organizers \subseteq Slugs
  /\ p.events \subseteq Slugs
  /\ p.body_limit \in Nat

\* The statuses that deliveries are answered with.
Statuses == {204, 400, 401, 404, 413, 500}

ASSUME ServiceAssumption ==
  /\ None \notin Statuses
  /\ None \notin Slugs
  /\ NotAString \notin Slugs \cup {None}
  /\ MaxDeliveries \in Nat
  /\ \A p \in Policies : Policy(p)
  /\ \A n \in Notices : n.size \in Nat

ASSUME ActionAssumption ==
  \A n \in Notices : n.payload.action = None \/ n.payload.action \in Seq(STRING)

Deliveries == Notifications \X (1..MaxDeliveries)

VARIABLES
  policy,     \* of the service; never changes
  notice,     \* of each notification: credential, size of the body, payload
  stage,      \* how far each delivery is
  read,       \* how much of its body has been taken from the connection
  status,     \* the status it was answered with, None before
  invoked,    \* the deliveries whose event was given to the handler
  handled,    \* those of them whose handler has succeeded
  acked       \* the notifications that pretix counts as delivered

vars == <<policy, notice, stage, read, status, invoked, handled, acked>>

Init ==
  /\ policy \in Policies
  /\ notice \in [Notifications -> Notices]
  /\ stage = [d \in Deliveries |-> "none"]
  /\ read = [d \in Deliveries |-> 0]
  /\ status = [d \in Deliveries |-> None]
  /\ invoked = {}
  /\ handled = {}
  /\ acked = {}

NoticeOf(d) == notice[d[1]]

-----------------------------------------------------------------------------
(* The policy.                                                             *)

\* WebhookServiceBuilder::authenticates, of the credential that the headers
\* contain, None if they contain none.
Authenticates(p, credential) == p.credentials = {} \/ credential \in p.credentials

\* WebhookServiceBuilder::allows
Allows(p, event) ==
  /\ p.organizers = {} \/ OrganizerSlug(event) \in p.organizers
  /\ p.events = {} \/ ~IsEventLevel(event) \/ EventSlug(event) \in p.events

-----------------------------------------------------------------------------
(* The service: respond.                                                   *)

\* The delivery is answered with status s.
Answer(d, s) ==
  /\ stage' = [stage EXCEPT ![d] = "answered"]
  /\ status' = [status EXCEPT ![d] = s]

\* Mutation of Authenticate: the credentials are looked at after the body.
AuthenticateLate(d) ==
  /\ stage[d] = "received"
  /\ IF read[d] = NoticeOf(d).size /\ ~Authenticates(policy, NoticeOf(d).credential)
     THEN Answer(d, 401)
     ELSE stage' = [stage EXCEPT ![d] = "reading"] /\ UNCHANGED status
  /\ UNCHANGED <<policy, notice, read, invoked, handled, acked>>

Authenticate(d) ==
  /\ stage[d] = "received"
  /\ IF Authenticates(policy, NoticeOf(d).credential)
     THEN stage' = [stage EXCEPT ![d] = "reading"] /\ UNCHANGED status
     ELSE Answer(d, 401)
  /\ UNCHANGED <<policy, notice, read, invoked, handled, acked>>

\* Mutation of ReadFrame: the frame that exceeds the limit is kept.
ReadFrameFirst(d) ==
  /\ stage[d] = "reading"
  /\ \E n \in 1..(NoticeOf(d).size - read[d]) :
       /\ read' = [read EXCEPT ![d] = @ + n]
       /\ IF read[d] > policy.body_limit
          THEN Answer(d, 413)
          ELSE UNCHANGED <<stage, status>>
  /\ UNCHANGED <<policy, notice, invoked, handled, acked>>

\* Mutation of ReadFrame: each frame is held against the limit by itself.
ReadFrameSingly(d) ==
  /\ stage[d] = "reading"
  /\ \E n \in 1..(NoticeOf(d).size - read[d]) :
       IF n > policy.body_limit
       THEN Answer(d, 413) /\ UNCHANGED read
       ELSE read' = [read EXCEPT ![d] = @ + n] /\ UNCHANGED <<stage, status>>
  /\ UNCHANGED <<policy, notice, invoked, handled, acked>>

\* A frame of the body arrives; Limited refuses the one that exceeds the limit.
ReadFrame(d) ==
  /\ stage[d] = "reading"
  /\ \E n \in 1..(NoticeOf(d).size - read[d]) :
       IF read[d] + n > policy.body_limit
       THEN Answer(d, 413) /\ UNCHANGED read
       ELSE read' = [read EXCEPT ![d] = @ + n] /\ UNCHANGED <<stage, status>>
  /\ UNCHANGED <<policy, notice, invoked, handled, acked>>

\* The body cannot be read to its end.
ReadError(d) ==
  /\ stage[d] = "reading"
  /\ Answer(d, 400)
  /\ UNCHANGED <<policy, notice, read, invoked, handled, acked>>

\* Mutation of Dispatch: the handler runs in a task of its own, and the
\* delivery is answered at once.
DispatchDetached(d) ==
  /\ stage[d] = "reading"
  /\ read[d] = NoticeOf(d).size
  /\ LET event == Deserialize(NoticeOf(d).payload)
     IN  IF event = None
         THEN Answer(d, 400) /\ UNCHANGED invoked
         ELSE IF ~Allows(policy, event)
              THEN Answer(d, 404) /\ UNCHANGED invoked
              ELSE Answer(d, 204) /\ invoked' = invoked \cup {d}
  /\ UNCHANGED <<policy, notice, read, handled, acked>>

\* The body is complete: it is parsed, filtered and given to the handler.
Dispatch(d) ==
  /\ stage[d] = "reading"
  /\ read[d] = NoticeOf(d).size
  /\ LET event == Deserialize(NoticeOf(d).payload)
     IN  \/ event = None /\ Answer(d, 400) /\ UNCHANGED invoked
         \/ /\ event # None
            /\ ~Allows(policy, event)
            /\ Answer(d, 404)
            /\ UNCHANGED invoked
         \/ /\ event # None
            /\ Allows(policy, event)
            /\ stage' = [stage EXCEPT ![d] = "handling"]
            /\ invoked' = invoked \cup {d}
            /\ UNCHANGED status
  /\ UNCHANGED <<policy, notice, read, handled, acked>>

\* Mutation of Succeed: the answer is never produced.
SucceedSilently(d) ==
  /\ stage[d] = "handling"
  /\ d \notin handled
  /\ handled' = handled \cup {d}
  /\ UNCHANGED <<policy, notice, stage, read, status, invoked, acked>>

\* The handler returns.
Succeed(d) ==
  /\ stage[d] = "handling"
  /\ handled' = handled \cup {d}
  /\ Answer(d, 204)
  /\ UNCHANGED <<policy, notice, read, invoked, acked>>

\* Mutation of FailHandler: the event is given to the handler again.
FailHandlerRetried(d) ==
  /\ stage[d] = "handling"
  /\ stage' = [stage EXCEPT ![d] = "reading"]
  /\ UNCHANGED <<policy, notice, read, status, invoked, handled, acked>>

\* It returns an error.
FailHandler(d) ==
  /\ stage[d] = "handling"
  /\ Answer(d, 500)
  /\ UNCHANGED <<policy, notice, read, invoked, handled, acked>>

-----------------------------------------------------------------------------
(* pretix and the network.                                                 *)

\* The headers of a delivery arrive.
Deliver(d) ==
  /\ stage[d] = "none"
  /\ d[2] > 1 => stage[<<d[1], d[2] - 1>>] # "none"
  /\ stage' = [stage EXCEPT ![d] = "received"]
  /\ UNCHANGED <<policy, notice, read, status, invoked, handled, acked>>

\* The connection breaks or pretix gives up waiting: the future is dropped.
Disconnect(d) ==
  /\ stage[d] \in {"received", "reading", "handling"}
  /\ stage' = [stage EXCEPT ![d] = "dropped"]
  /\ UNCHANGED <<policy, notice, read, status, invoked, handled, acked>>

\* The answer arrives, unless the connection breaks first.
Acknowledge(d) ==
  /\ stage[d] = "answered"
  /\ stage' = [stage EXCEPT ![d] = "closed"]
  /\ \/ acked' = IF status[d] \in 200..299 THEN acked \cup {d[1]} ELSE acked
     \/ UNCHANGED acked
  /\ UNCHANGED <<policy, notice, read, status, invoked, handled>>

-----------------------------------------------------------------------------

Read(d) == ReadFrame(d) \/ ReadError(d) \/ Dispatch(d)

Return(d) == Succeed(d) \/ FailHandler(d)

Next ==
  \E d \in Deliveries :
    Deliver(d) \/ Authenticate(d) \/ Read(d) \/ Return(d) \/ Disconnect(d) \/ Acknowledge(d)

Spec == Init /\ [][Next]_vars

\* The service's tasks are polled.  That a body goes on arriving or breaks off
\* and that the handler returns is up to pretix and to the handler: nothing in
\* the service limits the time of either.
Fairness ==
  \A d \in Deliveries : WF_vars(Authenticate(d)) /\ WF_vars(Read(d)) /\ WF_vars(Return(d))

FairSpec == Spec /\ Fairness

-----------------------------------------------------------------------------
(* Properties.                                                             *)

Stages == {"none", "received", "reading", "handling", "dropped", "answered", "closed"}

TypeOK ==
  /\ policy \in Policies
  /\ notice \in [Notifications -> Notices]
  /\ stage \in [Deliveries -> Stages]
  /\ read \in [Deliveries -> Nat]
  /\ status \in [Deliveries -> Statuses \cup {None}]
  /\ invoked \subseteq Deliveries
  /\ handled \subseteq invoked
  /\ acked \subseteq Notifications

\* pretix stops delivering a notification only when the handler has run to its
\* end for a delivery of it: an answer that is lost, a connection that breaks
\* while the handler runs and a failing handler all leave it to be repeated.
AckMeansHandled == \A n \in acked : \E d \in handled : d[1] = n

\* The status of every answer says what has become of the delivery; a handler
\* that succeeds is never answered with a failure that invites a repetition.
AnswerIsTruthful ==
  \A d \in Deliveries :
    /\ status[d] = 204 <=> d \in handled
    /\ status[d] = 500 => d \in invoked
    /\ status[d] \in {400, 401, 404, 413} => d \notin invoked

\* The handler sees only what was presented with an accepted credential.
\* A body whose headers are not accepted is not even read.
RejectedUnread ==
  \A d \in Deliveries :
    read[d] > 0 \/ d \in invoked =>
      policy.credentials = {} \/ NoticeOf(d).credential \in policy.credentials

\* No more of a body is kept than the limit.
BodyBounded == \A d \in Deliveries : read[d] <= policy.body_limit

\* Both, whatever the frames and wherever the connection breaks.
BodiesGuarded == RejectedUnread /\ BodyBounded

\* Actions of customers and gift cards, whose events are an organizer's.
OfOrganizer(action) ==
  \E family \in {"customer", "giftcards"} : StartsWith(action, <<"pretix", family>>)

\* The handler sees only events that pass every applicable filter, told from
\* the payload: an organizer's slug that is allowed, and, if it has an event field
\* and its action is not one of customers or gift cards, a readable slug of an
\* event that is allowed.
FiltersHold ==
  \A d \in invoked :
    LET payload == NoticeOf(d).payload
        fields == payload.fields
        shows(f, slugs) == f \in DOMAIN fields /\ fields[f] \in slugs
    IN  /\ policy.organizers # {} =>
             shows("organizer", policy.organizers) \/ shows("issuer_slug", policy.organizers)
        /\ /\ policy.events # {}
           /\ "event" \in DOMAIN fields
           /\ ~OfOrganizer(payload.action)
           => shows("event", policy.events)

\* The families of event.rs and the prefixes of their actions, as far as they
\* have one.
PrefixFamilies ==
  {<<"Order", <<"pretix", "event", "order">>>>, <<"Voucher", <<"pretix", "voucher">>>>,
   <<"Subevent", <<"pretix", "subevent">>>>, <<"Item", <<"pretix", "event", "item">>>>,
   <<"Item", <<"pretix", "event", "quota">>>>,
   <<"WaitingList", <<"pretix", "event", "orders", "waitinglist">>>>,
   <<"Customer", <<"pretix", "customer">>>>, <<"GiftCard", <<"pretix", "giftcards">>>>,
   <<"GiftCardTransaction", <<"pretix", "giftcards", "transaction">>>>}

\* An event that the handler gets is of the family with the longest prefix that
\* its action has, in whatever order the arms of the match are.
FamilyIsClosest ==
  \A d \in invoked :
    LET payload == NoticeOf(d).payload
        kind == Deserialize(payload).kind
        families == {f \in PrefixFamilies : StartsWith(payload.action, f[2])}
    IN  families # {} =>
          \E f \in families : f[1] = kind /\ \A g \in families : Len(g[2]) <= Len(f[2])

\* What is refused for its credential, its size or its event is refused for good:
\* pretix may deliver it again, but no delivery of it ever gets to the handler,
\* however its body is cut and wherever connections break.
RefusalsAreFinal ==
  \A d, e \in Deliveries :
    d[1] = e[1] /\ status[d] \in {401, 404, 413} => e \notin invoked

\* Every delivery that has been received is answered, or its connection breaks.
EveryDeliveryEnds ==
  \A d \in Deliveries :
    stage[d] = "received" ~> stage[d] \in {"answered", "closed", "dropped"}

\* event.rs, on is_event_level: "A payload that carries an event field is
\* event-level even when the field cannot be read as a slug".
CarriesEventIsEventLevel ==
  \A d \in invoked :
    LET payload == NoticeOf(d).payload
    IN  "event" \in DOMAIN payload.fields => IsEventLevel(Deserialize(payload))

=============================================================================
