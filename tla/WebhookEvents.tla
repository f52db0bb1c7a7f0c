--------------------------- MODULE WebhookEvents ---------------------------
(***************************************************************************)
(* How a payload becomes a typed event, and what filters get to see of it  *)
(* (crates/pretix-webhook-events).                                         *)
(*                                                                         *)
(* A payload is a JSON object.  Of its fields only those that filters look *)
(* at are kept; "complete" stands for all others that its family requires. *)
(* An action is the sequence of its dot-separated parts.                   *)
(***************************************************************************)
EXTENDS Naturals, Sequences

CONSTANTS
  None,        \* Option::None; of a payload's action: missing or no string
  Slugs,       \* the slugs payloads may contain
  NotAString   \* any JSON value but a string

FilterFields == {"organizer", "issuer_slug", "event"}

\* Partial functions from the filter fields to JSON values.
FieldMaps == UNION {[D -> Slugs \cup {NotAString}] : D \in SUBSET FilterFields}

\* Families whose payloads contain an EventEvent or an OrderEvent.
EventKinds == {"Order", "Checkin", "Event", "Voucher", "Subevent", "Item", "WaitingList"}

GiftCardKinds == {"GiftCard", "GiftCardTransaction"}

WebhookEventKind == EventKinds \cup GiftCardKinds \cup {"Customer", "Unknown"}

-----------------------------------------------------------------------------
(* Deserialize for WebhookEvent.                                           *)

\* action.starts_with(prefix + "."), of a prefix given by its parts
StartsWith(action, prefix) ==
  Len(prefix) < Len(action) /\ SubSeq(action, 1, Len(prefix)) = prefix

\* Mutation of GiftCardKind: the arm of all gift card actions comes first.
GiftCardKindFirst(action) == "GiftCard"

\* Of the actions of gift cards, the arm of transactions comes first.
GiftCardKind(action) ==
  IF StartsWith(action, <<"pretix", "giftcards", "transaction">>)
  THEN "GiftCardTransaction" ELSE "GiftCard"

\* The family that the action selects; but for gift cards, no two arms match.
KindOf(action) ==
  CASE action \in {<<"pretix", "event", "checkin">>,
                  <<"pretix", "event", "checkin", "reverted">>} -> "Checkin"
    [] StartsWith(action, <<"pretix", "event", "order">>) -> "Order"
    [] \/ \E a \in {"added", "changed", "deleted"} : action = <<"pretix", "event", a>>
       \/ \E a \in {"live", "testmode"}, b \in {"activated", "deactivated"} :
            action = <<"pretix", "event", a, b>> -> "Event"
    [] StartsWith(action, <<"pretix", "voucher">>) -> "Voucher"
    [] StartsWith(action, <<"pretix", "subevent">>) -> "Subevent"
    [] \E a \in {"item", "quota"} : StartsWith(action, <<"pretix", "event", a>>) -> "Item"
    [] StartsWith(action, <<"pretix", "event", "orders", "waitinglist">>) -> "WaitingList"
    [] StartsWith(action, <<"pretix", "customer">>) -> "Customer"
    [] StartsWith(action, <<"pretix", "giftcards">>) -> GiftCardKind(action)
    [] OTHER -> "Unknown"

\* The filter fields that a family's payload type declares as String.
Required(kind) ==
  CASE kind \in EventKinds -> {"organizer", "event"}
    [] kind = "Customer" -> {"organizer"}
    [] kind \in GiftCardKinds -> {"issuer_slug"}
    [] kind = "Unknown" -> {}

\* The event that a payload is parsed as, None if parsing fails.
Deserialize(payload) ==
  LET kind == KindOf(payload.action)
      fields == payload.fields
  IN  IF /\ payload.action # None
         /\ payload.notification_id
         /\ kind = "Unknown" \/ payload.complete
         /\ \A f \in Required(kind) : f \in DOMAIN fields /\ fields[f] # NotAString
      THEN [kind |-> kind, fields |-> fields]
      ELSE None

-----------------------------------------------------------------------------
(* What filters see.                                                       *)

AsStr(value) == IF value = NotAString THEN None ELSE value

Get(event, f) == IF f \in DOMAIN event.fields THEN AsStr(event.fields[f]) ELSE None

\* For an unknown family issuer_slug stands in for a missing organizer, not
\* for one that is no string.
OrganizerSlug(event) ==
  IF \/ event.kind \in GiftCardKinds
     \/ event.kind = "Unknown" /\ "organizer" \notin DOMAIN event.fields
  THEN Get(event, "issuer_slug")
  ELSE Get(event, "organizer")

EventSlug(event) ==
  IF event.kind \in EventKinds \cup {"Unknown"} THEN Get(event, "event") ELSE None

\* Mutation of IsEventLevel: an event without a readable slug is not one.
IsEventLevelIfReadable(event) == EventSlug(event) # None

IsEventLevel(event) ==
  \/ event.kind \in EventKinds
  \/ event.kind = "Unknown" /\ "event" \in DOMAIN event.fields

=============================================================================
