-------------------------- MODULE MCWebhookService --------------------------
(* Two deliveries of a notification: either any payload within the limit    *)
(* and with good credentials, or any credentials and any size of one that   *)
(* passes the filters.                                                      *)
EXTENDS WebhookService

CONSTANTS a, b, k1, k2

MCPolicies ==
  [organizers : {{a}}, events : {{b}}, credentials : {{k1}}, body_limit : {2}]
    \cup [organizers : {{}}, events : {{}, {b}}, credentials : {{}}, body_limit : {1}]

MCActions ==
  {None, <<"pretix", "event", "checkin">>, <<"pretix", "event", "order", "placed">>,
   <<"pretix", "customer", "created">>, <<"pretix", "giftcards", "created">>,
   <<"pretix", "giftcards", "transaction", "payment">>, <<"pretix", "voucher">>}

\* One action of each of the other arms.
MCOtherActions ==
  {<<"pretix", "event", "checkin", "reverted">>, <<"pretix", "event", "live", "activated">>,
   <<"pretix", "event", "quota", "changed">>, <<"pretix", "event", "orders", "waitinglist", "added">>,
   <<"pretix", "voucher", "added">>, <<"pretix", "subevent", "added">>, <<"pretix", "giftcards", "transaction">>}

Filtered == [organizer |-> a, issuer_slug |-> a, event |-> b]

MCPayloads ==
  [action : MCActions, notification_id : {TRUE}, complete : {TRUE}, fields : FieldMaps]
    \cup [action : MCActions \cup MCOtherActions, notification_id : BOOLEAN, complete : BOOLEAN,
          fields : {Filtered}]

MCNotices ==
  [credential : {k1}, size : {1}, payload : MCPayloads]
    \cup [credential : {None, k1, k2}, size : {1, 2, 3},
          payload : {[action |-> <<"pretix", "event", "checkin">>, notification_id |-> TRUE,
                      complete |-> TRUE, fields |-> Filtered]}]

=============================================================================
