------------------------ MODULE WebhookService_proof ------------------------
(***************************************************************************)
(* The service's safety properties hold for any notifications, policies    *)
(* and numbers of deliveries.                                              *)
(*                                                                         *)
(* What a delivery has passed can be told from its stage: the parts of     *)
(* IInv say so, stage by stage, and the properties of the answers and of   *)
(* the handled events follow from them.                                    *)
(***************************************************************************)
EXTENDS WebhookService, TLAPS

\* A delivery has a status exactly when it has been answered.
StatusIsAnswer ==
  \A d \in Deliveries : status[d] # None <=> stage[d] \in {"answered", "closed"}

\* Its body is read only after its headers were accepted.
ReadIsAccepted ==
  \A d \in Deliveries :
    /\ stage[d] \in {"none", "received"} => read[d] = 0
    /\ stage[d] \in {"reading", "handling"} => Authenticates(policy, NoticeOf(d).credential)

\* Its handler runs in the stage "handling" and not before.
HandlerRuns ==
  \A d \in Deliveries :
    /\ stage[d] = "handling" => d \in invoked
    /\ stage[d] \in {"none", "received", "reading"} => d \notin invoked

\* What the handler was given is an event that passed the filters.
InvokedIsAllowed ==
  \A d \in invoked :
    LET event == Deserialize(NoticeOf(d).payload)
    IN  event # None /\ Allows(policy, event)

\* What is refused for good is refused for what all deliveries of it have in
\* common, and the handler gets only what fits the limit.
RefusalIsJust ==
  \A d \in Deliveries :
    LET event == Deserialize(NoticeOf(d).payload)
    IN  /\ status[d] = 401 => ~Authenticates(policy, NoticeOf(d).credential)
        /\ status[d] = 404 => event # None /\ ~Allows(policy, event)
        /\ status[d] = 413 => policy.body_limit < NoticeOf(d).size
        /\ d \in invoked => NoticeOf(d).size <= policy.body_limit

IInv ==
  /\ TypeOK
  /\ StatusIsAnswer
  /\ ReadIsAccepted
  /\ HandlerRuns
  /\ InvokedIsAllowed
  /\ AckMeansHandled
  /\ AnswerIsTruthful
  /\ RejectedUnread
  /\ BodyBounded
  /\ RefusalIsJust

-----------------------------------------------------------------------------
(* The filters, over the fields of a payload.                              *)

\* A slug that passes a filter is that of a field of the event.
LEMMA SlugIsField ==
  ASSUME NEW event, NEW f, NEW slugs \in SUBSET Slugs, Get(event, f) \in slugs
  PROVE  f \in DOMAIN event.fields /\ event.fields[f] \in slugs
BY ServiceAssumption DEF Get, AsStr

\* What Deserialize returns has the payload's fields and its family.
LEMMA Deserialized ==
  ASSUME NEW payload, Deserialize(payload) # None
  PROVE  Deserialize(payload) = [kind |-> KindOf(payload.action), fields |-> payload.fields]
BY DEF Deserialize

\* An event of an allowed organizer says so in one of its two fields.
LEMMA OrganizerShown ==
  ASSUME NEW event, NEW slugs \in SUBSET Slugs, OrganizerSlug(event) \in slugs
  PROVE  \E f \in {"organizer", "issuer_slug"} :
           f \in DOMAIN event.fields /\ event.fields[f] \in slugs
<1>1. Get(event, "organizer") \in slugs \/ Get(event, "issuer_slug") \in slugs
  BY DEF OrganizerSlug
<1> QED BY <1>1, SlugIsField

\* Every family but those of customers and gift cards has an event slug.
LEMMA EventShown ==
  ASSUME NEW event, NEW slugs \in SUBSET Slugs, EventSlug(event) \in slugs
  PROVE  "event" \in DOMAIN event.fields /\ event.fields["event"] \in slugs
<1>1. EventSlug(event) # None
  BY ServiceAssumption
<1>2. Get(event, "event") \in slugs
  BY <1>1 DEF EventSlug
<1> QED BY <1>2, SlugIsField

\* The families are those of WebhookEventKind.
LEMMA KindTyped == ASSUME NEW action PROVE KindOf(action) \in WebhookEventKind
BY DEF KindOf, GiftCardKind, WebhookEventKind, EventKinds, GiftCardKinds

\* Only actions of customers and gift cards are of the families without an event.
LEMMA OrganizersKinds ==
  ASSUME NEW action, KindOf(action) \in GiftCardKinds \cup {"Customer"}
  PROVE  OfOrganizer(action)
BY DEF KindOf, GiftCardKinds, OfOrganizer

\* An event that was parsed and is allowed passes every applicable filter, as
\* FiltersHold tells it from the payload's fields.
LEMMA AllowedPasses ==
  ASSUME NEW p, Policy(p), NEW payload,
         Deserialize(payload) # None, Allows(p, Deserialize(payload))
  PROVE  LET fields == payload.fields
             shows(f, slugs) == f \in DOMAIN fields /\ fields[f] \in slugs
         IN  /\ p.organizers # {} =>
                  shows("organizer", p.organizers) \/ shows("issuer_slug", p.organizers)
             /\ /\ p.events # {}
                /\ "event" \in DOMAIN fields
                /\ ~OfOrganizer(payload.action)
                => shows("event", p.events)
<1> DEFINE event == Deserialize(payload)
<1>1. event.kind = KindOf(payload.action) /\ event.fields = payload.fields
  BY Deserialized
<1>2. p.organizers \in SUBSET Slugs /\ p.events \in SUBSET Slugs
  BY DEF Policy
<1>3. ASSUME p.organizers # {}
      PROVE  \E f \in {"organizer", "issuer_slug"} :
               f \in DOMAIN event.fields /\ event.fields[f] \in p.organizers
  <2>1. OrganizerSlug(event) \in p.organizers
    BY <1>3 DEF Allows
  <2> QED BY <2>1, <1>2, OrganizerShown
<1>4. ASSUME p.events # {}, "event" \in DOMAIN event.fields,
             ~OfOrganizer(payload.action)
      PROVE  event.fields["event"] \in p.events
  <2>1. event.kind \in EventKinds \cup {"Unknown"}
    BY <1>1, <1>4, KindTyped, OrganizersKinds DEF WebhookEventKind
  <2>2. IsEventLevel(event)
    BY <1>4, <2>1 DEF IsEventLevel
  <2>3. EventSlug(event) \in p.events
    BY <1>4, <2>2 DEF Allows
  <2> QED BY <2>3, <1>2, EventShown
<1> QED BY <1>1, <1>3, <1>4

-----------------------------------------------------------------------------
(* The families of actions.                                                *)

\* What an action with a prefix of three or two parts has for its second and
\* third part.
LEMMA ThirdPart ==
  ASSUME NEW action \in Seq(STRING), NEW a, NEW b, StartsWith(action, <<"pretix", a, b>>)
  PROVE  action[2] = a /\ action[3] = b
<1>1. SubSeq(action, 1, 3) = <<"pretix", a, b>> /\ Len(action) > 3
  BY DEF StartsWith
<1>2. SubSeq(action, 1, 3)[2] = action[2] /\ SubSeq(action, 1, 3)[3] = action[3]
  BY <1>1
<1>3. <<"pretix", a, b>>[2] = a /\ <<"pretix", a, b>>[3] = b
  OBVIOUS
<1> QED BY <1>1, <1>2, <1>3, Zenon

LEMMA SecondPart ==
  ASSUME NEW action \in Seq(STRING), NEW a, StartsWith(action, <<"pretix", a>>)
  PROVE  action[2] = a
<1>1. SubSeq(action, 1, 2) = <<"pretix", a>> /\ Len(action) > 2
  BY DEF StartsWith
<1>2. SubSeq(action, 1, 2)[2] = action[2]
  BY <1>1
<1>3. <<"pretix", a>>[2] = a
  OBVIOUS
<1> QED BY <1>1, <1>2, <1>3, Zenon

LEMMA WaitingPart ==
  ASSUME NEW action \in Seq(STRING),
         StartsWith(action, <<"pretix", "event", "orders", "waitinglist">>)
  PROVE  action[2] = "event" /\ action[3] = "orders"
<1> DEFINE p == <<"pretix", "event", "orders", "waitinglist">>
<1>1. SubSeq(action, 1, 4) = p /\ Len(action) > 4
  BY DEF StartsWith
<1>2. SubSeq(action, 1, 4)[2] = action[2] /\ SubSeq(action, 1, 4)[3] = action[3]
  BY <1>1
<1>3. p[2] = "event" /\ p[3] = "orders"
  OBVIOUS
<1> QED BY <1>1, <1>2, <1>3, Zenon

\* Actions of the transactions of gift cards are actions of gift cards.
LEMMA TransactionsToo ==
  ASSUME NEW action \in Seq(STRING), StartsWith(action, <<"pretix", "giftcards", "transaction">>)
  PROVE  StartsWith(action, <<"pretix", "giftcards">>)
<1>1. SubSeq(action, 1, 3) = <<"pretix", "giftcards", "transaction">> /\ Len(action) > 3
  BY DEF StartsWith
<1>2. SubSeq(action, 1, 3)[1] = action[1] /\ SubSeq(action, 1, 3)[2] = action[2]
  BY <1>1
<1>3. action[1] = "pretix" /\ action[2] = "giftcards"
  <2>1. /\ <<"pretix", "giftcards", "transaction">>[1] = "pretix"
        /\ <<"pretix", "giftcards", "transaction">>[2] = "giftcards"
    OBVIOUS
  <2> QED BY <1>1, <1>2, <2>1, Zenon
<1>4. SubSeq(action, 1, 2) = <<"pretix", "giftcards">>
  <2> DEFINE q == SubSeq(action, 1, 2)
  <2>1. q \in Seq(STRING) /\ Len(q) = 2 /\ q[1] = action[1] /\ q[2] = action[2]
    BY <1>1
  <2> HIDE DEF q
  <2>2. q = <<q[1], q[2]>>
    BY <2>1
  <2>3. q = <<"pretix", "giftcards">>
    BY <1>3, <2>1, <2>2, Zenon
  <2> QED BY <2>3 DEF q
<1> QED BY <1>1, <1>4 DEF StartsWith

\* The parts of the actions that are told from others as a whole.
LEMMA WholeParts ==
  ASSUME NEW action
  PROVE  /\ action \in {<<"pretix", "event", "checkin">>,
                        <<"pretix", "event", "checkin", "reverted">>} =>
              action[2] = "event" /\ action[3] = "checkin"
         /\ \A a : action = <<"pretix", "event", a>> => action[2] = "event" /\ action[3] = a
         /\ \A a, b : action = <<"pretix", "event", a, b>> =>
                        action[2] = "event" /\ action[3] = a
<1>1. /\ <<"pretix", "event", "checkin">>[2] = "event"
      /\ <<"pretix", "event", "checkin">>[3] = "checkin"
      /\ <<"pretix", "event", "checkin", "reverted">>[2] = "event"
      /\ <<"pretix", "event", "checkin", "reverted">>[3] = "checkin"
  OBVIOUS
<1>2. \A a : <<"pretix", "event", a>>[2] = "event" /\ <<"pretix", "event", a>>[3] = a
  OBVIOUS
<1>3. \A a, b : <<"pretix", "event", a, b>>[2] = "event" /\ <<"pretix", "event", a, b>>[3] = a
  OBVIOUS
<1>4. ASSUME action \in {<<"pretix", "event", "checkin">>,
                         <<"pretix", "event", "checkin", "reverted">>}
      PROVE  action[2] = "event" /\ action[3] = "checkin"
  BY <1>1, <1>4, Zenon
<1>5. ASSUME NEW a, action = <<"pretix", "event", a>>
      PROVE  action[2] = "event" /\ action[3] = a
  BY <1>2, <1>5, Zenon
<1>6. ASSUME NEW a, NEW b, action = <<"pretix", "event", a, b>>
      PROVE  action[2] = "event" /\ action[3] = a
  BY <1>3, <1>6, Zenon
<1> QED BY <1>4, <1>5, <1>6, Zenon

\* The families whose prefix an action has, with their prefixes.
Families(action) == {f \in PrefixFamilies : StartsWith(action, f[2])}

\* The family that the match selects is the closest of those whose prefix the
\* action has: but for gift cards, no action has two of the prefixes.
LEMMA KindIsClosest ==
  ASSUME NEW action \in Seq(STRING), Families(action) # {}
  PROVE  \E f \in Families(action) :
           f[1] = KindOf(action) /\ \A g \in Families(action) : Len(g[2]) <= Len(f[2])
<1> DEFINE s == action[2]
           t == action[3]
           checkin == action \in {<<"pretix", "event", "checkin">>,
                                  <<"pretix", "event", "checkin", "reverted">>}
           event == \/ \E a \in {"added", "changed", "deleted"} : action = <<"pretix", "event", a>>
                    \/ \E a \in {"live", "testmode"}, b \in {"activated", "deactivated"} :
                         action = <<"pretix", "event", a, b>>
           order == StartsWith(action, <<"pretix", "event", "order">>)
           voucher == StartsWith(action, <<"pretix", "voucher">>)
           subevent == StartsWith(action, <<"pretix", "subevent">>)
           item == StartsWith(action, <<"pretix", "event", "item">>)
           quota == StartsWith(action, <<"pretix", "event", "quota">>)
           waiting == StartsWith(action, <<"pretix", "event", "orders", "waitinglist">>)
           customer == StartsWith(action, <<"pretix", "customer">>)
           giftcard == StartsWith(action, <<"pretix", "giftcards">>)
           transaction == StartsWith(action, <<"pretix", "giftcards", "transaction">>)
<1>1. checkin => s = "event" /\ t = "checkin"
  BY WholeParts
<1>2. event => s = "event" /\ t \in {"added", "changed", "deleted", "live", "testmode"}
  <2>1. ASSUME NEW a \in {"added", "changed", "deleted"}, action = <<"pretix", "event", a>>
        PROVE  s = "event" /\ t = a
    BY <2>1, WholeParts, Zenon
  <2>2. ASSUME NEW a \in {"live", "testmode"}, NEW b \in {"activated", "deactivated"},
               action = <<"pretix", "event", a, b>>
        PROVE  s = "event" /\ t = a
    BY <2>2, WholeParts, Zenon
  <2> QED BY <2>1, <2>2, Zenon
<1>3. /\ order => s = "event" /\ t = "order"
      /\ item => s = "event" /\ t = "item"
      /\ quota => s = "event" /\ t = "quota"
      /\ transaction => s = "giftcards" /\ t = "transaction"
  BY ThirdPart
<1>4. /\ voucher => s = "voucher"
      /\ subevent => s = "subevent"
      /\ customer => s = "customer"
      /\ giftcard => s = "giftcards"
  BY SecondPart
<1>5. waiting => s = "event" /\ t = "orders"
  BY WaitingPart
<1>6. KindOf(action) =
        CASE checkin -> "Checkin" [] order -> "Order" [] event -> "Event" [] voucher -> "Voucher"
          [] subevent -> "Subevent" [] item \/ quota -> "Item" [] waiting -> "WaitingList"
          [] customer -> "Customer"
          [] giftcard -> (IF transaction THEN "GiftCardTransaction" ELSE "GiftCard")
          [] OTHER -> "Unknown"
  BY DEF KindOf, GiftCardKind
<1> HIDE DEF s, t, checkin, event, order, voucher, subevent, item, quota, waiting, customer,
             giftcard, transaction
<1>7. /\ order => KindOf(action) = "Order"
      /\ voucher => KindOf(action) = "Voucher"
      /\ subevent => KindOf(action) = "Subevent"
      /\ item \/ quota => KindOf(action) = "Item"
      /\ waiting => KindOf(action) = "WaitingList"
      /\ customer => KindOf(action) = "Customer"
      /\ giftcard /\ transaction => KindOf(action) = "GiftCardTransaction"
      /\ giftcard /\ ~transaction => KindOf(action) = "GiftCard"
  BY <1>1, <1>2, <1>3, <1>4, <1>5, <1>6
<1>8. transaction => giftcard
  BY TransactionsToo DEF transaction, giftcard
<1>9. ASSUME NEW f \in Families(action)
      PROVE  \/ order /\ f[1] = "Order" /\ Len(f[2]) = 3
             \/ voucher /\ f[1] = "Voucher" /\ Len(f[2]) = 2
             \/ subevent /\ f[1] = "Subevent" /\ Len(f[2]) = 2
             \/ (item \/ quota) /\ f[1] = "Item" /\ Len(f[2]) = 3
             \/ waiting /\ f[1] = "WaitingList" /\ Len(f[2]) = 4
             \/ customer /\ f[1] = "Customer" /\ Len(f[2]) = 2
             \/ giftcard /\ f[1] = "GiftCard" /\ Len(f[2]) = 2
             \/ transaction /\ f[1] = "GiftCardTransaction" /\ Len(f[2]) = 3
  <2>1. CASE f = <<"Order", <<"pretix", "event", "order">>>>
    BY <2>1 DEF Families, order
  <2>2. CASE f = <<"Voucher", <<"pretix", "voucher">>>>
    BY <2>2 DEF Families, voucher
  <2>3. CASE f = <<"Subevent", <<"pretix", "subevent">>>>
    BY <2>3 DEF Families, subevent
  <2>4. CASE f = <<"Item", <<"pretix", "event", "item">>>>
    BY <2>4 DEF Families, item
  <2>5. CASE f = <<"Item", <<"pretix", "event", "quota">>>>
    BY <2>5 DEF Families, quota
  <2>6. CASE f = <<"WaitingList", <<"pretix", "event", "orders", "waitinglist">>>>
    BY <2>6 DEF Families, waiting
  <2>7. CASE f = <<"Customer", <<"pretix", "customer">>>>
    BY <2>7 DEF Families, customer
  <2>8. CASE f = <<"GiftCard", <<"pretix", "giftcards">>>>
    BY <2>8 DEF Families, giftcard
  <2>9. CASE f = <<"GiftCardTransaction", <<"pretix", "giftcards", "transaction">>>>
    BY <2>9 DEF Families, transaction
  <2> QED BY <2>1, <2>2, <2>3, <2>4, <2>5, <2>6, <2>7, <2>8, <2>9 DEF Families, PrefixFamilies
<1>10. \E f \in Families(action) : f[1] = KindOf(action)
  <2>1. PICK g \in Families(action) : TRUE
    OBVIOUS
  <2>2. CASE transaction
    <3>1. <<"GiftCardTransaction", <<"pretix", "giftcards", "transaction">>>> \in Families(action)
      BY <2>2 DEF Families, PrefixFamilies, transaction
    <3> QED BY <3>1, <2>2, <1>7, <1>8
  <2>3. CASE ~transaction
    BY <2>1, <2>3, <1>9, <1>7
  <2> QED BY <2>2, <2>3
<1>11. ASSUME NEW f \in Families(action), f[1] = KindOf(action), NEW g \in Families(action)
       PROVE  Len(g[2]) <= Len(f[2])
  <2> DEFINE m == Len(f[2])
             n == Len(g[2])
  <2>1. \/ f[1] = "Order" /\ m = 3
        \/ f[1] = "Voucher" /\ m = 2
        \/ f[1] = "Subevent" /\ m = 2
        \/ f[1] = "Item" /\ m = 3
        \/ f[1] = "WaitingList" /\ m = 4
        \/ f[1] = "Customer" /\ m = 2
        \/ f[1] = "GiftCard" /\ m = 2
        \/ f[1] = "GiftCardTransaction" /\ m = 3
    BY <1>9
  <2>2. \/ KindOf(action) = "Order" /\ n = 3
        \/ KindOf(action) = "Voucher" /\ n = 2
        \/ KindOf(action) = "Subevent" /\ n = 2
        \/ KindOf(action) = "Item" /\ n = 3
        \/ KindOf(action) = "WaitingList" /\ n = 4
        \/ KindOf(action) = "Customer" /\ n = 2
        \/ KindOf(action) = "GiftCard" /\ n = 2
        \/ KindOf(action) = "GiftCardTransaction" /\ n \in {2, 3}
    BY <1>9, <1>7, <1>8
  <2> HIDE DEF m, n
  <2>3. n <= m
    BY <1>11, <2>1, <2>2
  <2> QED BY <2>3 DEF m, n
<1> QED BY <1>10, <1>11
-----------------------------------------------------------------------------
(* The invariant.                                                          *)

LEMMA Initially == ASSUME Init PROVE IInv
<1>1. TypeOK
  BY DEF Init, TypeOK, Stages
<1>2. StatusIsAnswer /\ ReadIsAccepted /\ HandlerRuns /\ InvokedIsAllowed
  BY DEF Init, StatusIsAnswer, ReadIsAccepted, HandlerRuns, InvokedIsAllowed
<1>3. AckMeansHandled /\ RejectedUnread
  BY DEF Init, AckMeansHandled, RejectedUnread
<1>4. AnswerIsTruthful
  BY ServiceAssumption DEF Init, AnswerIsTruthful, Statuses
<1>5. BodyBounded
  BY ServiceAssumption DEF Init, BodyBounded, Policy
<1>6. RefusalIsJust
  BY ServiceAssumption DEF Init, RefusalIsJust, Statuses
<1> QED BY <1>1, <1>2, <1>3, <1>4, <1>5, <1>6 DEF IInv

\* A step of any delivery preserves the invariant: one lemma per action.

LEMMA DeliverKeeps ==
  ASSUME IInv, NEW d \in Deliveries, Deliver(d)
  PROVE  IInv'
<1> USE ServiceAssumption DEF IInv, Deliver, NoticeOf
<1>1. TypeOK'
  <2>1. policy' \in Policies /\ notice' \in [Notifications -> Notices]
    BY DEF TypeOK
  <2>2. stage' \in [Deliveries -> Stages]
    BY DEF TypeOK, Stages
  <2>3. read' \in [Deliveries -> Nat]
    BY DEF TypeOK
  <2>4. status' \in [Deliveries -> Statuses \cup {None}]
    BY DEF TypeOK, Statuses
  <2>5. invoked' \subseteq Deliveries /\ handled' \subseteq invoked'
    BY DEF TypeOK, HandlerRuns
  <2>6. acked' \subseteq Notifications
    BY DEF TypeOK, Deliveries
  <2> QED BY <2>1, <2>2, <2>3, <2>4, <2>5, <2>6 DEF TypeOK
<1>2. StatusIsAnswer'
  BY DEF StatusIsAnswer, Statuses, TypeOK
<1>3. ReadIsAccepted'
  BY DEF ReadIsAccepted, TypeOK
<1>4. HandlerRuns'
  BY DEF HandlerRuns, TypeOK
<1>5. InvokedIsAllowed'
  BY DEF InvokedIsAllowed, TypeOK
<1>6. AckMeansHandled'
  BY DEF AckMeansHandled, TypeOK
<1>7. AnswerIsTruthful'
  <2> SUFFICES ASSUME NEW e \in Deliveries
               PROVE  /\ status'[e] = 204 <=> e \in handled'
                      /\ status'[e] = 500 => e \in invoked'
                      /\ status'[e] \in {400, 401, 404, 413} => e \notin invoked'
    BY DEF AnswerIsTruthful
  <2>1. CASE e = d
    BY <2>1 DEF AnswerIsTruthful, StatusIsAnswer, HandlerRuns, Statuses, TypeOK
  <2>2. CASE e # d
    BY <2>2 DEF AnswerIsTruthful, Statuses, TypeOK
  <2> QED BY <2>1, <2>2
<1>8. RejectedUnread'
  BY DEF RejectedUnread, TypeOK
<1>9. BodyBounded'
  BY DEF BodyBounded, TypeOK
<1>10. RefusalIsJust'
  <2> SUFFICES ASSUME NEW e \in Deliveries
               PROVE  /\ status'[e] = 401 => ~Authenticates(policy, NoticeOf(e).credential)
                      /\ status'[e] = 404 => /\ Deserialize(NoticeOf(e).payload) # None
                                             /\ ~Allows(policy, Deserialize(NoticeOf(e).payload))
                      /\ status'[e] = 413 => policy.body_limit < NoticeOf(e).size
                      /\ e \in invoked' => NoticeOf(e).size <= policy.body_limit
    BY DEF RefusalIsJust
  <2>1. CASE e = d
    BY <2>1 DEF RefusalIsJust, BodyBounded, Statuses, TypeOK, Policy
  <2>2. CASE e # d
    BY <2>2 DEF RefusalIsJust, TypeOK
  <2> QED BY <2>1, <2>2
<1> QED BY <1>1, <1>2, <1>3, <1>4, <1>5, <1>6, <1>7, <1>8, <1>9, <1>10

LEMMA AuthenticateKeeps ==
  ASSUME IInv, NEW d \in Deliveries, Authenticate(d)
  PROVE  IInv'
<1> USE ServiceAssumption DEF IInv, Authenticate, Answer, NoticeOf
<1>1. TypeOK'
  <2>1. policy' \in Policies /\ notice' \in [Notifications -> Notices]
    BY DEF TypeOK
  <2>2. stage' \in [Deliveries -> Stages]
    BY DEF TypeOK, Stages
  <2>3. read' \in [Deliveries -> Nat]
    BY DEF TypeOK
  <2>4. status' \in [Deliveries -> Statuses \cup {None}]
    BY DEF TypeOK, Statuses
  <2>5. invoked' \subseteq Deliveries /\ handled' \subseteq invoked'
    BY DEF TypeOK, HandlerRuns
  <2>6. acked' \subseteq Notifications
    BY DEF TypeOK, Deliveries
  <2> QED BY <2>1, <2>2, <2>3, <2>4, <2>5, <2>6 DEF TypeOK
<1>2. StatusIsAnswer'
  BY DEF StatusIsAnswer, Statuses, TypeOK
<1>3. ReadIsAccepted'
  BY DEF ReadIsAccepted, TypeOK
<1>4. HandlerRuns'
  BY DEF HandlerRuns, TypeOK
<1>5. InvokedIsAllowed'
  BY DEF InvokedIsAllowed, TypeOK
<1>6. AckMeansHandled'
  BY DEF AckMeansHandled, TypeOK
<1>7. AnswerIsTruthful'
  <2> SUFFICES ASSUME NEW e \in Deliveries
               PROVE  /\ status'[e] = 204 <=> e \in handled'
                      /\ status'[e] = 500 => e \in invoked'
                      /\ status'[e] \in {400, 401, 404, 413} => e \notin invoked'
    BY DEF AnswerIsTruthful
  <2>1. CASE e = d
    BY <2>1 DEF AnswerIsTruthful, StatusIsAnswer, HandlerRuns, Statuses, TypeOK
  <2>2. CASE e # d
    BY <2>2 DEF AnswerIsTruthful, Statuses, TypeOK
  <2> QED BY <2>1, <2>2
<1>8. RejectedUnread'
  BY DEF RejectedUnread, TypeOK
<1>9. BodyBounded'
  BY DEF BodyBounded, TypeOK
<1>10. RefusalIsJust'
  <2> SUFFICES ASSUME NEW e \in Deliveries
               PROVE  /\ status'[e] = 401 => ~Authenticates(policy, NoticeOf(e).credential)
                      /\ status'[e] = 404 => /\ Deserialize(NoticeOf(e).payload) # None
                                             /\ ~Allows(policy, Deserialize(NoticeOf(e).payload))
                      /\ status'[e] = 413 => policy.body_limit < NoticeOf(e).size
                      /\ e \in invoked' => NoticeOf(e).size <= policy.body_limit
    BY DEF RefusalIsJust
  <2>1. CASE e = d
    BY <2>1 DEF RefusalIsJust, BodyBounded, Statuses, TypeOK, Policy
  <2>2. CASE e # d
    BY <2>2 DEF RefusalIsJust, TypeOK
  <2> QED BY <2>1, <2>2
<1> QED BY <1>1, <1>2, <1>3, <1>4, <1>5, <1>6, <1>7, <1>8, <1>9, <1>10

LEMMA ReadFrameKeeps ==
  ASSUME IInv, NEW d \in Deliveries, ReadFrame(d)
  PROVE  IInv'
<1> USE ServiceAssumption DEF IInv, ReadFrame, Answer, NoticeOf
<1>1. TypeOK'
  <2>1. policy' \in Policies /\ notice' \in [Notifications -> Notices]
    BY DEF TypeOK
  <2>2. stage' \in [Deliveries -> Stages]
    BY DEF TypeOK, Stages
  <2>3. read' \in [Deliveries -> Nat]
    BY DEF TypeOK
  <2>4. status' \in [Deliveries -> Statuses \cup {None}]
    BY DEF TypeOK, Statuses
  <2>5. invoked' \subseteq Deliveries /\ handled' \subseteq invoked'
    BY DEF TypeOK, HandlerRuns
  <2>6. acked' \subseteq Notifications
    BY DEF TypeOK, Deliveries
  <2> QED BY <2>1, <2>2, <2>3, <2>4, <2>5, <2>6 DEF TypeOK
<1>2. StatusIsAnswer'
  BY DEF StatusIsAnswer, Statuses, TypeOK
<1>3. ReadIsAccepted'
  BY DEF ReadIsAccepted, TypeOK
<1>4. HandlerRuns'
  BY DEF HandlerRuns, TypeOK
<1>5. InvokedIsAllowed'
  BY DEF InvokedIsAllowed, TypeOK
<1>6. AckMeansHandled'
  BY DEF AckMeansHandled, TypeOK
<1>7. AnswerIsTruthful'
  <2> SUFFICES ASSUME NEW e \in Deliveries
               PROVE  /\ status'[e] = 204 <=> e \in handled'
                      /\ status'[e] = 500 => e \in invoked'
                      /\ status'[e] \in {400, 401, 404, 413} => e \notin invoked'
    BY DEF AnswerIsTruthful
  <2>1. CASE e = d
    BY <2>1 DEF AnswerIsTruthful, StatusIsAnswer, HandlerRuns, Statuses, TypeOK
  <2>2. CASE e # d
    BY <2>2 DEF AnswerIsTruthful, Statuses, TypeOK
  <2> QED BY <2>1, <2>2
<1>8. RejectedUnread'
  BY DEF RejectedUnread, ReadIsAccepted, Authenticates, TypeOK
<1>9. BodyBounded'
  <2> SUFFICES ASSUME NEW e \in Deliveries PROVE read'[e] <= policy.body_limit
    BY DEF BodyBounded
  <2>1. CASE e = d
    BY <2>1 DEF BodyBounded, TypeOK, Policy
  <2>2. CASE e # d
    BY <2>2 DEF BodyBounded, TypeOK
  <2> QED BY <2>1, <2>2
<1>10. RefusalIsJust'
  <2> SUFFICES ASSUME NEW e \in Deliveries
               PROVE  /\ status'[e] = 401 => ~Authenticates(policy, NoticeOf(e).credential)
                      /\ status'[e] = 404 => /\ Deserialize(NoticeOf(e).payload) # None
                                             /\ ~Allows(policy, Deserialize(NoticeOf(e).payload))
                      /\ status'[e] = 413 => policy.body_limit < NoticeOf(e).size
                      /\ e \in invoked' => NoticeOf(e).size <= policy.body_limit
    BY DEF RefusalIsJust
  <2>1. CASE e = d
    <3>1. policy.body_limit \in Nat /\ NoticeOf(d).size \in Nat /\ read[d] \in Nat
      BY DEF TypeOK, Policy, Deliveries
    <3>2. status'[d] = 413 => policy.body_limit < NoticeOf(d).size
      BY <3>1 DEF RefusalIsJust, TypeOK
    <3>3. status'[d] # 413 => status'[d] = status[d]
      BY DEF TypeOK
    <3>4. invoked' = invoked
      OBVIOUS
    <3> QED BY <2>1, <3>2, <3>3, <3>4 DEF RefusalIsJust
  <2>2. CASE e # d
    BY <2>2 DEF RefusalIsJust, TypeOK
  <2> QED BY <2>1, <2>2
<1> QED BY <1>1, <1>2, <1>3, <1>4, <1>5, <1>6, <1>7, <1>8, <1>9, <1>10

LEMMA ReadErrorKeeps ==
  ASSUME IInv, NEW d \in Deliveries, ReadError(d)
  PROVE  IInv'
<1> USE ServiceAssumption DEF IInv, ReadError, Answer, NoticeOf
<1>1. TypeOK'
  <2>1. policy' \in Policies /\ notice' \in [Notifications -> Notices]
    BY DEF TypeOK
  <2>2. stage' \in [Deliveries -> Stages]
    BY DEF TypeOK, Stages
  <2>3. read' \in [Deliveries -> Nat]
    BY DEF TypeOK
  <2>4. status' \in [Deliveries -> Statuses \cup {None}]
    BY DEF TypeOK, Statuses
  <2>5. invoked' \subseteq Deliveries /\ handled' \subseteq invoked'
    BY DEF TypeOK, HandlerRuns
  <2>6. acked' \subseteq Notifications
    BY DEF TypeOK, Deliveries
  <2> QED BY <2>1, <2>2, <2>3, <2>4, <2>5, <2>6 DEF TypeOK
<1>2. StatusIsAnswer'
  BY DEF StatusIsAnswer, Statuses, TypeOK
<1>3. ReadIsAccepted'
  BY DEF ReadIsAccepted, TypeOK
<1>4. HandlerRuns'
  BY DEF HandlerRuns, TypeOK
<1>5. InvokedIsAllowed'
  BY DEF InvokedIsAllowed, TypeOK
<1>6. AckMeansHandled'
  BY DEF AckMeansHandled, TypeOK
<1>7. AnswerIsTruthful'
  <2> SUFFICES ASSUME NEW e \in Deliveries
               PROVE  /\ status'[e] = 204 <=> e \in handled'
                      /\ status'[e] = 500 => e \in invoked'
                      /\ status'[e] \in {400, 401, 404, 413} => e \notin invoked'
    BY DEF AnswerIsTruthful
  <2>1. CASE e = d
    BY <2>1 DEF AnswerIsTruthful, StatusIsAnswer, HandlerRuns, Statuses, TypeOK
  <2>2. CASE e # d
    BY <2>2 DEF AnswerIsTruthful, Statuses, TypeOK
  <2> QED BY <2>1, <2>2
<1>8. RejectedUnread'
  BY DEF RejectedUnread, TypeOK
<1>9. BodyBounded'
  BY DEF BodyBounded, TypeOK
<1>10. RefusalIsJust'
  <2> SUFFICES ASSUME NEW e \in Deliveries
               PROVE  /\ status'[e] = 401 => ~Authenticates(policy, NoticeOf(e).credential)
                      /\ status'[e] = 404 => /\ Deserialize(NoticeOf(e).payload) # None
                                             /\ ~Allows(policy, Deserialize(NoticeOf(e).payload))
                      /\ status'[e] = 413 => policy.body_limit < NoticeOf(e).size
                      /\ e \in invoked' => NoticeOf(e).size <= policy.body_limit
    BY DEF RefusalIsJust
  <2>1. CASE e = d
    BY <2>1 DEF RefusalIsJust, BodyBounded, Statuses, TypeOK, Policy
  <2>2. CASE e # d
    BY <2>2 DEF RefusalIsJust, TypeOK
  <2> QED BY <2>1, <2>2
<1> QED BY <1>1, <1>2, <1>3, <1>4, <1>5, <1>6, <1>7, <1>8, <1>9, <1>10

LEMMA DispatchKeeps ==
  ASSUME IInv, NEW d \in Deliveries, Dispatch(d)
  PROVE  IInv'
<1> USE ServiceAssumption DEF IInv, Dispatch, Answer, NoticeOf
<1>1. TypeOK'
  <2>1. policy' \in Policies /\ notice' \in [Notifications -> Notices]
    BY DEF TypeOK
  <2>2. stage' \in [Deliveries -> Stages]
    BY DEF TypeOK, Stages
  <2>3. read' \in [Deliveries -> Nat]
    BY DEF TypeOK
  <2>4. status' \in [Deliveries -> Statuses \cup {None}]
    BY DEF TypeOK, Statuses
  <2>5. invoked' \subseteq Deliveries /\ handled' \subseteq invoked'
    BY DEF TypeOK, HandlerRuns
  <2>6. acked' \subseteq Notifications
    BY DEF TypeOK, Deliveries
  <2> QED BY <2>1, <2>2, <2>3, <2>4, <2>5, <2>6 DEF TypeOK
<1>2. StatusIsAnswer'
  BY DEF StatusIsAnswer, Statuses, TypeOK
<1>3. ReadIsAccepted'
  BY DEF ReadIsAccepted, TypeOK
<1>4. HandlerRuns'
  BY DEF HandlerRuns, TypeOK
<1>5. InvokedIsAllowed'
  BY DEF InvokedIsAllowed, TypeOK
<1>6. AckMeansHandled'
  BY DEF AckMeansHandled, TypeOK
<1>7. AnswerIsTruthful'
  <2> SUFFICES ASSUME NEW e \in Deliveries
               PROVE  /\ status'[e] = 204 <=> e \in handled'
                      /\ status'[e] = 500 => e \in invoked'
                      /\ status'[e] \in {400, 401, 404, 413} => e \notin invoked'
    BY DEF AnswerIsTruthful
  <2>1. CASE e = d
    BY <2>1 DEF AnswerIsTruthful, StatusIsAnswer, HandlerRuns, Statuses, TypeOK
  <2>2. CASE e # d
    BY <2>2 DEF AnswerIsTruthful, Statuses, TypeOK
  <2> QED BY <2>1, <2>2
<1>8. RejectedUnread'
  BY DEF RejectedUnread, ReadIsAccepted, Authenticates, TypeOK
<1>9. BodyBounded'
  BY DEF BodyBounded, TypeOK
<1>10. RefusalIsJust'
  <2> SUFFICES ASSUME NEW e \in Deliveries
               PROVE  /\ status'[e] = 401 => ~Authenticates(policy, NoticeOf(e).credential)
                      /\ status'[e] = 404 => /\ Deserialize(NoticeOf(e).payload) # None
                                             /\ ~Allows(policy, Deserialize(NoticeOf(e).payload))
                      /\ status'[e] = 413 => policy.body_limit < NoticeOf(e).size
                      /\ e \in invoked' => NoticeOf(e).size <= policy.body_limit
    BY DEF RefusalIsJust
  <2>1. CASE e = d
    BY <2>1 DEF RefusalIsJust, BodyBounded, Statuses, TypeOK, Policy
  <2>2. CASE e # d
    BY <2>2 DEF RefusalIsJust, TypeOK
  <2> QED BY <2>1, <2>2
<1> QED BY <1>1, <1>2, <1>3, <1>4, <1>5, <1>6, <1>7, <1>8, <1>9, <1>10

LEMMA SucceedKeeps ==
  ASSUME IInv, NEW d \in Deliveries, Succeed(d)
  PROVE  IInv'
<1> USE ServiceAssumption DEF IInv, Succeed, Answer, NoticeOf
<1>1. TypeOK'
  <2>1. policy' \in Policies /\ notice' \in [Notifications -> Notices]
    BY DEF TypeOK
  <2>2. stage' \in [Deliveries -> Stages]
    BY DEF TypeOK, Stages
  <2>3. read' \in [Deliveries -> Nat]
    BY DEF TypeOK
  <2>4. status' \in [Deliveries -> Statuses \cup {None}]
    BY DEF TypeOK, Statuses
  <2>5. invoked' \subseteq Deliveries /\ handled' \subseteq invoked'
    BY DEF TypeOK, HandlerRuns
  <2>6. acked' \subseteq Notifications
    BY DEF TypeOK, Deliveries
  <2> QED BY <2>1, <2>2, <2>3, <2>4, <2>5, <2>6 DEF TypeOK
<1>2. StatusIsAnswer'
  BY DEF StatusIsAnswer, Statuses, TypeOK
<1>3. ReadIsAccepted'
  BY DEF ReadIsAccepted, TypeOK
<1>4. HandlerRuns'
  BY DEF HandlerRuns, TypeOK
<1>5. InvokedIsAllowed'
  BY DEF InvokedIsAllowed, TypeOK
<1>6. AckMeansHandled'
  BY DEF AckMeansHandled, TypeOK
<1>7. AnswerIsTruthful'
  <2> SUFFICES ASSUME NEW e \in Deliveries
               PROVE  /\ status'[e] = 204 <=> e \in handled'
                      /\ status'[e] = 500 => e \in invoked'
                      /\ status'[e] \in {400, 401, 404, 413} => e \notin invoked'
    BY DEF AnswerIsTruthful
  <2>1. CASE e = d
    BY <2>1 DEF AnswerIsTruthful, StatusIsAnswer, HandlerRuns, Statuses, TypeOK
  <2>2. CASE e # d
    BY <2>2 DEF AnswerIsTruthful, Statuses, TypeOK
  <2> QED BY <2>1, <2>2
<1>8. RejectedUnread'
  BY DEF RejectedUnread, TypeOK
<1>9. BodyBounded'
  BY DEF BodyBounded, TypeOK
<1>10. RefusalIsJust'
  <2> SUFFICES ASSUME NEW e \in Deliveries
               PROVE  /\ status'[e] = 401 => ~Authenticates(policy, NoticeOf(e).credential)
                      /\ status'[e] = 404 => /\ Deserialize(NoticeOf(e).payload) # None
                                             /\ ~Allows(policy, Deserialize(NoticeOf(e).payload))
                      /\ status'[e] = 413 => policy.body_limit < NoticeOf(e).size
                      /\ e \in invoked' => NoticeOf(e).size <= policy.body_limit
    BY DEF RefusalIsJust
  <2>1. CASE e = d
    BY <2>1 DEF RefusalIsJust, BodyBounded, Statuses, TypeOK, Policy
  <2>2. CASE e # d
    BY <2>2 DEF RefusalIsJust, TypeOK
  <2> QED BY <2>1, <2>2
<1> QED BY <1>1, <1>2, <1>3, <1>4, <1>5, <1>6, <1>7, <1>8, <1>9, <1>10

LEMMA FailHandlerKeeps ==
  ASSUME IInv, NEW d \in Deliveries, FailHandler(d)
  PROVE  IInv'
<1> USE ServiceAssumption DEF IInv, FailHandler, Answer, NoticeOf
<1>1. TypeOK'
  <2>1. policy' \in Policies /\ notice' \in [Notifications -> Notices]
    BY DEF TypeOK
  <2>2. stage' \in [Deliveries -> Stages]
    BY DEF TypeOK, Stages
  <2>3. read' \in [Deliveries -> Nat]
    BY DEF TypeOK
  <2>4. status' \in [Deliveries -> Statuses \cup {None}]
    BY DEF TypeOK, Statuses
  <2>5. invoked' \subseteq Deliveries /\ handled' \subseteq invoked'
    BY DEF TypeOK, HandlerRuns
  <2>6. acked' \subseteq Notifications
    BY DEF TypeOK, Deliveries
  <2> QED BY <2>1, <2>2, <2>3, <2>4, <2>5, <2>6 DEF TypeOK
<1>2. StatusIsAnswer'
  BY DEF StatusIsAnswer, Statuses, TypeOK
<1>3. ReadIsAccepted'
  BY DEF ReadIsAccepted, TypeOK
<1>4. HandlerRuns'
  BY DEF HandlerRuns, TypeOK
<1>5. InvokedIsAllowed'
  BY DEF InvokedIsAllowed, TypeOK
<1>6. AckMeansHandled'
  BY DEF AckMeansHandled, TypeOK
<1>7. AnswerIsTruthful'
  <2> SUFFICES ASSUME NEW e \in Deliveries
               PROVE  /\ status'[e] = 204 <=> e \in handled'
                      /\ status'[e] = 500 => e \in invoked'
                      /\ status'[e] \in {400, 401, 404, 413} => e \notin invoked'
    BY DEF AnswerIsTruthful
  <2>1. CASE e = d
    BY <2>1 DEF AnswerIsTruthful, StatusIsAnswer, HandlerRuns, Statuses, TypeOK
  <2>2. CASE e # d
    BY <2>2 DEF AnswerIsTruthful, Statuses, TypeOK
  <2> QED BY <2>1, <2>2
<1>8. RejectedUnread'
  BY DEF RejectedUnread, TypeOK
<1>9. BodyBounded'
  BY DEF BodyBounded, TypeOK
<1>10. RefusalIsJust'
  <2> SUFFICES ASSUME NEW e \in Deliveries
               PROVE  /\ status'[e] = 401 => ~Authenticates(policy, NoticeOf(e).credential)
                      /\ status'[e] = 404 => /\ Deserialize(NoticeOf(e).payload) # None
                                             /\ ~Allows(policy, Deserialize(NoticeOf(e).payload))
                      /\ status'[e] = 413 => policy.body_limit < NoticeOf(e).size
                      /\ e \in invoked' => NoticeOf(e).size <= policy.body_limit
    BY DEF RefusalIsJust
  <2>1. CASE e = d
    BY <2>1 DEF RefusalIsJust, BodyBounded, Statuses, TypeOK, Policy
  <2>2. CASE e # d
    BY <2>2 DEF RefusalIsJust, TypeOK
  <2> QED BY <2>1, <2>2
<1> QED BY <1>1, <1>2, <1>3, <1>4, <1>5, <1>6, <1>7, <1>8, <1>9, <1>10

LEMMA DisconnectKeeps ==
  ASSUME IInv, NEW d \in Deliveries, Disconnect(d)
  PROVE  IInv'
<1> USE ServiceAssumption DEF IInv, Disconnect, NoticeOf
<1>1. TypeOK'
  <2>1. policy' \in Policies /\ notice' \in [Notifications -> Notices]
    BY DEF TypeOK
  <2>2. stage' \in [Deliveries -> Stages]
    BY DEF TypeOK, Stages
  <2>3. read' \in [Deliveries -> Nat]
    BY DEF TypeOK
  <2>4. status' \in [Deliveries -> Statuses \cup {None}]
    BY DEF TypeOK, Statuses
  <2>5. invoked' \subseteq Deliveries /\ handled' \subseteq invoked'
    BY DEF TypeOK, HandlerRuns
  <2>6. acked' \subseteq Notifications
    BY DEF TypeOK, Deliveries
  <2> QED BY <2>1, <2>2, <2>3, <2>4, <2>5, <2>6 DEF TypeOK
<1>2. StatusIsAnswer'
  BY DEF StatusIsAnswer, Statuses, TypeOK
<1>3. ReadIsAccepted'
  BY DEF ReadIsAccepted, TypeOK
<1>4. HandlerRuns'
  BY DEF HandlerRuns, TypeOK
<1>5. InvokedIsAllowed'
  BY DEF InvokedIsAllowed, TypeOK
<1>6. AckMeansHandled'
  BY DEF AckMeansHandled, TypeOK
<1>7. AnswerIsTruthful'
  <2> SUFFICES ASSUME NEW e \in Deliveries
               PROVE  /\ status'[e] = 204 <=> e \in handled'
                      /\ status'[e] = 500 => e \in invoked'
                      /\ status'[e] \in {400, 401, 404, 413} => e \notin invoked'
    BY DEF AnswerIsTruthful
  <2>1. CASE e = d
    BY <2>1 DEF AnswerIsTruthful, StatusIsAnswer, HandlerRuns, Statuses, TypeOK
  <2>2. CASE e # d
    BY <2>2 DEF AnswerIsTruthful, Statuses, TypeOK
  <2> QED BY <2>1, <2>2
<1>8. RejectedUnread'
  BY DEF RejectedUnread, TypeOK
<1>9. BodyBounded'
  BY DEF BodyBounded, TypeOK
<1>10. RefusalIsJust'
  <2> SUFFICES ASSUME NEW e \in Deliveries
               PROVE  /\ status'[e] = 401 => ~Authenticates(policy, NoticeOf(e).credential)
                      /\ status'[e] = 404 => /\ Deserialize(NoticeOf(e).payload) # None
                                             /\ ~Allows(policy, Deserialize(NoticeOf(e).payload))
                      /\ status'[e] = 413 => policy.body_limit < NoticeOf(e).size
                      /\ e \in invoked' => NoticeOf(e).size <= policy.body_limit
    BY DEF RefusalIsJust
  <2>1. CASE e = d
    BY <2>1 DEF RefusalIsJust, BodyBounded, Statuses, TypeOK, Policy
  <2>2. CASE e # d
    BY <2>2 DEF RefusalIsJust, TypeOK
  <2> QED BY <2>1, <2>2
<1> QED BY <1>1, <1>2, <1>3, <1>4, <1>5, <1>6, <1>7, <1>8, <1>9, <1>10

LEMMA AcknowledgeKeeps ==
  ASSUME IInv, NEW d \in Deliveries, Acknowledge(d)
  PROVE  IInv'
<1> USE ServiceAssumption DEF IInv, Acknowledge, NoticeOf
<1>1. TypeOK'
  <2>1. policy' \in Policies /\ notice' \in [Notifications -> Notices]
    BY DEF TypeOK
  <2>2. stage' \in [Deliveries -> Stages]
    BY DEF TypeOK, Stages
  <2>3. read' \in [Deliveries -> Nat]
    BY DEF TypeOK
  <2>4. status' \in [Deliveries -> Statuses \cup {None}]
    BY DEF TypeOK, Statuses
  <2>5. invoked' \subseteq Deliveries /\ handled' \subseteq invoked'
    BY DEF TypeOK, HandlerRuns
  <2>6. acked' \subseteq Notifications
    BY DEF TypeOK, Deliveries
  <2> QED BY <2>1, <2>2, <2>3, <2>4, <2>5, <2>6 DEF TypeOK
<1>2. StatusIsAnswer'
  BY DEF StatusIsAnswer, Statuses, TypeOK
<1>3. ReadIsAccepted'
  BY DEF ReadIsAccepted, TypeOK
<1>4. HandlerRuns'
  BY DEF HandlerRuns, TypeOK
<1>5. InvokedIsAllowed'
  BY DEF InvokedIsAllowed, TypeOK
<1>6. AckMeansHandled'
  <2>1. status[d] \in 200..299 => d \in handled
    BY DEF AnswerIsTruthful, StatusIsAnswer, Statuses, TypeOK
  <2> QED BY <2>1 DEF AckMeansHandled, TypeOK, Deliveries
<1>7. AnswerIsTruthful'
  <2> SUFFICES ASSUME NEW e \in Deliveries
               PROVE  /\ status'[e] = 204 <=> e \in handled'
                      /\ status'[e] = 500 => e \in invoked'
                      /\ status'[e] \in {400, 401, 404, 413} => e \notin invoked'
    BY DEF AnswerIsTruthful
  <2>1. CASE e = d
    BY <2>1 DEF AnswerIsTruthful, StatusIsAnswer, HandlerRuns, Statuses, TypeOK
  <2>2. CASE e # d
    BY <2>2 DEF AnswerIsTruthful, Statuses, TypeOK
  <2> QED BY <2>1, <2>2
<1>8. RejectedUnread'
  BY DEF RejectedUnread, TypeOK
<1>9. BodyBounded'
  BY DEF BodyBounded, TypeOK
<1>10. RefusalIsJust'
  <2> SUFFICES ASSUME NEW e \in Deliveries
               PROVE  /\ status'[e] = 401 => ~Authenticates(policy, NoticeOf(e).credential)
                      /\ status'[e] = 404 => /\ Deserialize(NoticeOf(e).payload) # None
                                             /\ ~Allows(policy, Deserialize(NoticeOf(e).payload))
                      /\ status'[e] = 413 => policy.body_limit < NoticeOf(e).size
                      /\ e \in invoked' => NoticeOf(e).size <= policy.body_limit
    BY DEF RefusalIsJust
  <2>1. CASE e = d
    BY <2>1 DEF RefusalIsJust, BodyBounded, Statuses, TypeOK, Policy
  <2>2. CASE e # d
    BY <2>2 DEF RefusalIsJust, TypeOK
  <2> QED BY <2>1, <2>2
<1> QED BY <1>1, <1>2, <1>3, <1>4, <1>5, <1>6, <1>7, <1>8, <1>9, <1>10

LEMMA StepKeeps == ASSUME IInv, [Next]_vars PROVE IInv'
<1>1. ASSUME NEW d \in Deliveries,
             Deliver(d) \/ Authenticate(d) \/ Read(d) \/ Return(d) \/ Disconnect(d) \/ Acknowledge(d)
      PROVE  IInv'
  BY <1>1, DeliverKeeps, AuthenticateKeeps, ReadFrameKeeps, ReadErrorKeeps, DispatchKeeps,
     SucceedKeeps, FailHandlerKeeps, DisconnectKeeps, AcknowledgeKeeps DEF Read, Return
<1>2. CASE UNCHANGED vars
  BY <1>2 DEF vars, IInv, TypeOK, StatusIsAnswer, ReadIsAccepted, HandlerRuns, InvokedIsAllowed,
     NoticeOf, AckMeansHandled, AnswerIsTruthful, RejectedUnread, BodyBounded, RefusalIsJust
<1> QED BY <1>1, <1>2 DEF Next

-----------------------------------------------------------------------------
(* The theorems.                                                           *)

THEOREM Invariant == Spec => []IInv
BY Initially, StepKeeps, PTL DEF Spec

\* The state of the service keeps its type; what has been handled was given to
\* the handler.
THEOREM TypeCorrect == Spec => []TypeOK
<1>1. IInv => TypeOK
  BY DEF IInv
<1> QED BY <1>1, Invariant, PTL

\* pretix never counts a notification as delivered that no handler has run for
\* to its end, however deliveries break off and answers get lost.
THEOREM AcknowledgedIsHandled == Spec => []AckMeansHandled
<1>1. IInv => AckMeansHandled
  BY DEF IInv
<1> QED BY <1>1, Invariant, PTL

\* The status of an answer tells what has become of the delivery.
THEOREM TruthfulAnswers == Spec => []AnswerIsTruthful
<1>1. IInv => AnswerIsTruthful
  BY DEF IInv
<1> QED BY <1>1, Invariant, PTL

\* Bodies of unaccepted deliveries are not read, and no more of any body is
\* kept than the limit.
THEOREM BodiesAreGuarded == Spec => []BodiesGuarded
<1>1. IInv => BodiesGuarded
  BY DEF IInv, BodiesGuarded
<1> QED BY <1>1, Invariant, PTL

\* Only events that pass every applicable filter get to the handler, whatever
\* the payloads contain and whatever is allowed.
THEOREM HandledPassFilters == Spec => []FiltersHold
<1>1. IInv => FiltersHold
  <2> SUFFICES ASSUME IInv PROVE FiltersHold
    OBVIOUS
  <2>1. Policy(policy)
    BY ServiceAssumption DEF IInv, TypeOK
  <2>2. ASSUME NEW d \in invoked
        PROVE  Deserialize(NoticeOf(d).payload) # None
                 /\ Allows(policy, Deserialize(NoticeOf(d).payload))
    BY <2>2 DEF IInv, InvokedIsAllowed
  <2> QED BY <2>1, <2>2, AllowedPasses DEF FiltersHold
<1> QED BY <1>1, Invariant, PTL

\* What is refused for its credential, its size or its event never gets to the
\* handler, by whatever delivery of it.
THEOREM RefusedForGood == Spec => []RefusalsAreFinal
<1>1. IInv => RefusalsAreFinal
  <2> SUFFICES ASSUME IInv, NEW d \in Deliveries, NEW e \in Deliveries,
                      d[1] = e[1], status[d] \in {401, 404, 413}, e \in invoked
               PROVE  FALSE
    BY DEF RefusalsAreFinal
  <2>1. NoticeOf(d) = NoticeOf(e)
    BY DEF NoticeOf
  <2>2. CASE status[d] = 401
    BY <2>1, <2>2 DEF IInv, RefusalIsJust, RejectedUnread, Authenticates
  <2>3. CASE status[d] = 404
    BY <2>1, <2>3 DEF IInv, RefusalIsJust, InvokedIsAllowed
  <2>4. CASE status[d] = 413
    <3>1. policy.body_limit \in Nat /\ NoticeOf(d).size \in Nat
      BY ServiceAssumption DEF IInv, TypeOK, Policy, NoticeOf, Deliveries
    <3> QED BY <2>1, <2>4, <3>1 DEF IInv, RefusalIsJust
  <2> QED BY <2>2, <2>3, <2>4
<1> QED BY <1>1, Invariant, PTL

\* The event that a handler gets is of the family with the longest prefix that its
\* action has, whatever the action.
THEOREM FamiliesAreClosest == Spec => []FamilyIsClosest
<1>1. IInv => FamilyIsClosest
  <2> SUFFICES ASSUME IInv, NEW d \in invoked, Families(NoticeOf(d).payload.action) # {}
               PROVE  \E f \in Families(NoticeOf(d).payload.action) :
                        /\ f[1] = Deserialize(NoticeOf(d).payload).kind
                        /\ \A g \in Families(NoticeOf(d).payload.action) : Len(g[2]) <= Len(f[2])
    BY DEF FamilyIsClosest, Families
  <2> DEFINE payload == NoticeOf(d).payload
  <2>1. Deserialize(payload) # None
    BY DEF IInv, InvokedIsAllowed
  <2>2. NoticeOf(d) \in Notices
    BY DEF IInv, TypeOK, NoticeOf, Deliveries
  <2>3. payload.action \in Seq(STRING)
    <3>1. payload.action # None
      BY <2>1 DEF Deserialize
    <3> QED BY <2>2, <3>1, ActionAssumption
  <2>4. Deserialize(payload).kind = KindOf(payload.action)
    BY <2>1, Deserialized
  <2> HIDE DEF payload
  <2>5. \E f \in Families(payload.action) :
          /\ f[1] = KindOf(payload.action)
          /\ \A g \in Families(payload.action) : Len(g[2]) <= Len(f[2])
    <3>1. Families(payload.action) # {}
      BY DEF payload
    <3> QED BY <2>3, <3>1, KindIsClosest
  <2> QED BY <2>4, <2>5 DEF payload
<1> QED BY <1>1, Invariant, PTL

=============================================================================
