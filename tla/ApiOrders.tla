----------------------------- MODULE ApiOrders ------------------------------
(***************************************************************************)
(* Orders with what belongs to them, invoices, transactions and check-in   *)
(* (crates/pretix/src/resources), as schemas and as records of calls.      *)
(***************************************************************************)
EXTENDS ApiSchema

-----------------------------------------------------------------------------
(* resources/orders/models.rs                                              *)

Order ==
  Model({"code", "event", "status", "testmode", "secret", "sales_channel", "datetime", "expires",
         "total", "checkin_attention", "require_approval", "url", "last_modified"},
        {"email", "phone", "customer", "locale", "payment_date", "payment_provider",
         "tax_rounding_mode", "comment", "custom_followup_at", "checkin_text", "invoice_address",
         "cancellation_date"},
        {"api_meta", "positions", "fees", "downloads", "valid_if_pending", "payments", "refunds",
         "plugin_data", "use_gift_cards"})

InvoiceAddress ==
  Model({},
        {"last_modified", "company", "name", "street", "zipcode", "city", "country", "state",
         "internal_reference", "custom_field", "vat_id", "transmission_type", "transmission_info"},
        {"is_business", "vat_id_validated"})
    ++ OfClass({"name_parts"}, "nullDefault")

OrderFee ==
  Model({"id", "fee_type", "value", "tax_rate", "tax_value"}, {"tax_rule", "tax_code"},
        {"description", "internal_type", "canceled"})

TicketDownload == Model({"output", "url"}, {}, {})

OrderPosition ==
  Model({"id", "order", "positionid", "item", "price", "tax_rate", "tax_value", "secret"},
        {"event", "variation", "attendee_name", "attendee_email", "company", "street", "zipcode",
         "city", "country", "state", "voucher", "voucher_budget_use", "tax_code", "tax_rule",
         "addon_to", "subevent", "discount", "blocked", "valid_from", "valid_until", "seat",
         "pdf_data"},
        {"canceled", "pseudonymization_id", "checkins", "print_logs", "downloads", "answers",
         "plugin_data"})
    ++ OfClass({"attendee_name_parts"}, "nullDefault")

PositionCheckin ==
  Model({"id", "list", "datetime", "type"}, {"gate", "device", "device_id"}, {"auto_checked_in"})

PrintLog == Model({"id", "datetime", "source", "type"}, {"successful", "device_id"}, {"info"})

Answer == Model({"question", "answer"}, {"question_identifier"}, {"options", "option_identifiers"})

AssignedSeat ==
  Model({"id", "name", "seat_guid"}, {"row_label", "seat_label"},
        {"zone_name", "row_name", "seat_number"})

OrderPayment ==
  Model({"local_id", "state", "amount", "created", "provider"}, {"payment_date", "payment_url"},
        {"details"})

OrderRefund ==
  Model({"local_id", "state", "source", "amount", "created", "provider"},
        {"payment", "comment", "execution_date"}, {"details"})

-----------------------------------------------------------------------------
(* resources/orders/create.rs                                              *)

CreateOrder ==
  Body({"positions"},
       {"code", "status", "customer", "testmode", "email", "phone", "locale", "sales_channel",
        "payment_provider", "payment_date", "tax_rounding_mode", "comment",
        "custom_followup_at", "checkin_attention", "checkin_text", "api_meta", "require_approval",
        "valid_if_pending", "expires", "invoice_address", "force", "simulate"})
    ++ OfClass({"consume_carts", "fees", "use_gift_cards"}, "list")
    ++ OfClass({"payment_info"}, "optionalNullish")
    ++ OfClass({"send_email"}, "clearable")

NewOrderPosition ==
  Body({"item"},
       {"positionid", "variation", "price", "seat", "attendee_name", "attendee_name_parts",
        "voucher", "attendee_email", "company", "street", "zipcode", "city", "country", "state",
        "secret", "addon_to", "subevent", "requested_valid_from", "use_reusable_medium",
        "discount"})
    ++ OfClass({"answers"}, "list")
    ++ OfClass({"valid_from", "valid_until"}, "clearable")

NewOrderFee ==
  Body({"fee_type", "value"},
       {"description", "internal_type", "tax_rule", "_treat_value_as_percentage",
        "_split_taxes_like_products"})

-----------------------------------------------------------------------------
(* resources/orders/change.rs                                              *)

ChangeOrder ==
  Body({}, {"recalculate_taxes", "send_email", "reissue_invoice"})
    ++ OfClass({"patch_positions", "cancel_positions", "split_positions", "create_positions",
                "patch_fees", "cancel_fees", "create_fees"}, "list")

PatchPosition == Body({"position", "body"}, {})

PositionChanges ==
  Patch({"item", "subevent", "price", "tax_rule"},
        {"variation", "seat", "valid_from", "valid_until"})

CancelPosition == Body({"position"}, {})

SplitPosition == Body({"position"}, {})

AddPosition ==
  Body({"item"},
       {"addon_to", "variation", "subevent", "seat", "price", "attendee_email", "attendee_name",
        "attendee_name_parts", "company", "street", "zipcode", "city", "country", "state",
        "valid_from", "valid_until"})
    ++ OfClass({"answers"}, "list")

PatchFee == Body({"fee", "body"}, {})

FeeChanges == Body({}, {"value"})

CancelFee == Body({"fee"}, {})

-----------------------------------------------------------------------------
(* resources/orders.rs                                                     *)

ListOrders ==
  Query({"page", "page_size", "ordering", "code", "status", "search", "customer", "item",
         "variation", "testmode", "require_approval", "include_canceled_positions",
         "include_canceled_fees", "email", "locale", "modified_since", "created_since",
         "created_before", "subevent", "subevent_after", "subevent_before", "sales_channel",
         "payment_provider", "pdf_data"}, {})

GetOrder == Query({"include_canceled_positions", "include_canceled_fees", "pdf_data"}, {})

QuotaCheck == Query({"check_quotas"}, {})

CreateInvoiceAddress ==
  Body({},
       {"company", "is_business", "name", "name_parts", "street", "zipcode", "city", "country",
        "state", "internal_reference", "custom_field", "vat_id", "vat_id_validated",
        "transmission_type", "transmission_info"})

CreateAnswer == Body({"question", "answer"}, {}) ++ OfClass({"options"}, "list")

UpdateOrder ==
  Patch({"checkin_attention", "locale", "comment", "api_meta", "valid_if_pending", "expires"},
        {"email", "phone", "checkin_text", "custom_followup_at", "invoice_address"})

MarkPaid == Body({}, {"send_email"})

MarkCanceled == Body({}, {"send_email", "comment", "cancellation_fee"})

ExtendOrder == Body({"expires"}, {"force"})

DenyOrder == Body({}, {"send_email", "comment"})

-----------------------------------------------------------------------------
(* resources/orders/payments.rs                                            *)

CreateOrderPayment ==
  Body({"amount", "provider"}, {"state", "payment_date", "send_email"})
    ++ OfClass({"info"}, "optionalNullish")

ConfirmPayment == Body({}, {"send_email", "force"})

RefundPayment == Body({}, {"amount", "comment", "mark_canceled"})

OrderPayments ==
  LET at == EventPath \o <<"orders", Text, "payments">>
  IN  Lists(at, ListParams, OrderPayment)
        ++ Gets(at, Number, OrderPayment)
        ++ Creates(at, CreateOrderPayment, OrderPayment)
        ++ [confirm |-> Submit(at \o <<Number, "confirm">>, ConfirmPayment, OrderPayment),
            cancel |-> Submit(at \o <<Number, "cancel">>, Nothing, OrderPayment),
            refund |-> Submit(at \o <<Number, "refund">>, RefundPayment, OrderRefund)]

-----------------------------------------------------------------------------
(* resources/orders/refunds.rs                                             *)

CreateOrderRefund ==
  Body({"state", "source", "amount", "provider"},
       {"payment", "execution_date", "comment", "mark_canceled", "mark_pending"})
    ++ OfClass({"info"}, "optionalNullish")

ProcessRefund == Body({"mark_canceled"}, {})

OrderRefunds ==
  LET at == EventPath \o <<"orders", Text, "refunds">>
  IN  Lists(at, ListParams, OrderRefund)
        ++ Gets(at, Number, OrderRefund)
        ++ Creates(at, CreateOrderRefund, OrderRefund)
        ++ [done |-> Submit(at \o <<Number, "done">>, Nothing, OrderRefund),
            process |-> Submit(at \o <<Number, "process">>, ProcessRefund, OrderRefund),
            cancel |-> Submit(at \o <<Number, "cancel">>, Nothing, OrderRefund)]

-----------------------------------------------------------------------------
(* resources/orders/positions.rs                                           *)

ListOrderPositions ==
  Query({"page", "page_size", "ordering", "order", "search", "customer", "item", "variation",
         "attendee_name", "secret", "pseudonymization_id", "order__status", "has_checkin",
         "subevent", "addon_to", "voucher", "voucher__code", "include_canceled_positions",
         "pdf_data"},
        {"item__in", "variation__in", "subevent__in", "addon_to__in"})
    ++ OfClass({"order__status__in"}, "texts")

GetOrderPosition == Query({"include_canceled_positions", "pdf_data"}, {})

CreateOrderPosition ==
  Body({"order", "item"},
       {"addon_to", "variation", "subevent", "seat", "price", "attendee_email", "attendee_name",
        "attendee_name_parts", "company", "street", "zipcode", "city", "country", "state",
        "valid_from", "valid_until"})
    ++ OfClass({"answers"}, "list")

UpdateOrderPosition ==
  Patch({"attendee_name", "attendee_name_parts", "answers", "item", "subevent", "price",
         "tax_rule", "secret"},
        {"attendee_email", "company", "street", "zipcode", "city", "country", "state",
         "variation", "seat", "valid_from", "valid_until"})

CreatePrintLog == Body({"datetime", "source", "type"}, {"successful", "info"})

OrderPositions ==
  LET at == EventPath \o <<"orderpositions">>
  IN  Crud(at, Number, ListOrderPositions, OrderPosition, CreateOrderPosition, UpdateOrderPosition)
        ++ [get_with |-> Fetch(Append(at, Number), GetOrderPosition, OrderPosition),
            create_with |-> Asking(Submit(at, CreateOrderPosition, OrderPosition), QuotaCheck),
            update_with |-> Asking(Change(Append(at, Number), UpdateOrderPosition, OrderPosition),
               QuotaCheck),
            download |-> Fetch(at \o <<Number, "download", Text>>, Nothing, Nothing),
            regenerate_secrets |-> Submit(at \o <<Number, "regenerate_secrets">>, Nothing,
               OrderPosition),
            add_block |-> Submit(at \o <<Number, "add_block">>, Body({"name"}, {}), OrderPosition),
            remove_block |-> Submit(at \o <<Number, "remove_block">>, Body({"name"}, {}),
               OrderPosition),
            printlog |-> Submit(at \o <<Number, "printlog">>, CreatePrintLog, PrintLog)]

OrganizerOrderPositions ==
  LET at == OrganizerPath \o <<"orderpositions">>
  IN  Lists(at, ListOrderPositions, OrderPosition)

-----------------------------------------------------------------------------
(* resources/orders/secrets.rs                                             *)

RevokedSecret == Model({"id", "secret", "created"}, {}, {})

BlockedSecret == Model({"id", "secret", "blocked", "updated"}, {}, {})

ListRevokedSecrets == Query({"page", "page_size", "ordering", "created_since"}, {})

ListBlockedSecrets == Query({"page", "page_size", "updated_since", "blocked"}, {})

RevokedSecrets ==
  LET at == EventPath \o <<"revokedsecrets">>
  IN  Lists(at, ListRevokedSecrets, RevokedSecret)

BlockedSecrets ==
  LET at == EventPath \o <<"blockedsecrets">>
  IN  Lists(at, ListBlockedSecrets, BlockedSecret)

-----------------------------------------------------------------------------
(* resources/invoices.rs                                                   *)

Invoice ==
  Model({"number", "event", "order", "is_cancellation", "invoice_to", "date", "locale"},
        {"invoice_from_name", "invoice_from", "invoice_from_zipcode", "invoice_from_city",
         "invoice_from_state", "invoice_from_country", "invoice_from_tax_id",
         "invoice_from_vat_id", "invoice_to_is_business", "invoice_to_company", "invoice_to_name",
         "invoice_to_street", "invoice_to_zipcode", "invoice_to_city", "invoice_to_state",
         "invoice_to_country", "invoice_to_vat_id", "invoice_to_beneficiary",
         "invoice_to_transmission_info", "custom_field", "refers", "payment_provider_stamp",
         "foreign_currency_display", "foreign_currency_rate", "foreign_currency_rate_date",
         "transmission_type", "transmission_provider", "transmission_status", "transmission_date"},
        {"introductory_text", "additional_text", "payment_provider_text", "footer_text", "lines",
         "internal_reference"})

InvoiceLine ==
  Model({"position", "description", "gross_value", "tax_value", "tax_rate"},
        {"item", "variation", "subevent", "fee_type", "fee_internal_type", "period_start",
         "period_end", "event_date_from", "event_date_to", "event_location", "attendee_name",
         "tax_code"}, {"tax_name"})

ListInvoices ==
  Query({"page", "page_size", "ordering", "is_cancellation", "refers", "locale"},
        {"order", "number"})

Invoices ==
  LET at == EventPath \o <<"invoices">>
  IN  Lists(at, ListInvoices, Invoice) ++ Gets(at, Text, Invoice)
        ++ [download |-> Fetch(at \o <<Text, "download">>, Nothing, Nothing),
            reissue |-> Submit(at \o <<Text, "reissue">>, Nothing, Nothing),
            regenerate |-> Submit(at \o <<Text, "regenerate">>, Nothing, Nothing),
            transmit |-> Submit(at \o <<Text, "transmit">>, Nothing, Nothing),
            retransmit |-> Submit(at \o <<Text, "retransmit">>, Nothing, Nothing)]

OrganizerInvoices ==
  LET at == OrganizerPath \o <<"invoices">>
  IN  Lists(at, ListInvoices, Invoice)

-----------------------------------------------------------------------------
(* resources/orders.rs                                                     *)

Orders ==
  LET at == EventPath \o <<"orders">>
  IN  Crud(at, Text, ListOrders, Order, CreateOrder, UpdateOrder)
        ++ [list_with |-> Asking(Fetch(at, ListOrders, Nothing), FieldSelection),
            get_with |-> Fetch(Append(at, Text), GetOrder, Order),
            download |-> Fetch(at \o <<Text, "download", Text>>, Nothing, Nothing),
            regenerate_secrets |-> Submit(at \o <<Text, "regenerate_secrets">>, Nothing, Order),
            mark_paid |-> Submit(at \o <<Text, "mark_paid">>, MarkPaid, Order),
            mark_canceled |-> Submit(at \o <<Text, "mark_canceled">>, MarkCanceled, Order),
            reactivate |-> Submit(at \o <<Text, "reactivate">>, Nothing, Order),
            mark_pending |-> Submit(at \o <<Text, "mark_pending">>, Nothing, Order),
            mark_expired |-> Submit(at \o <<Text, "mark_expired">>, Nothing, Order),
            extend |-> Submit(at \o <<Text, "extend">>, ExtendOrder, Order),
            approve |-> Submit(at \o <<Text, "approve">>, Nothing, Order),
            deny |-> Submit(at \o <<Text, "deny">>, DenyOrder, Order),
            create_invoice |-> Submit(at \o <<Text, "create_invoice">>, Nothing, Invoice),
            resend_link |-> Submit(at \o <<Text, "resend_link">>, Nothing, Nothing),
            change |-> Submit(at \o <<Text, "change">>, ChangeOrder, Order),
            change_with |-> Asking(Submit(at \o <<Text, "change">>, ChangeOrder, Order),
               QuotaCheck)]

OrganizerOrders ==
  LET at == OrganizerPath \o <<"orders">>
  IN  Lists(at, ListOrders, Order)
        ++ [list_with |-> Asking(Fetch(at, ListOrders, Nothing), FieldSelection)]

-----------------------------------------------------------------------------
(* resources/transactions.rs                                               *)

Transaction ==
  Model({"id", "order", "created", "datetime", "count", "price", "tax_rate", "tax_value"},
        {"event", "positionid", "item", "variation", "subevent", "tax_rule", "tax_code",
         "fee_type", "internal_type"}, {})

ListTransactions ==
  Query({"page", "page_size", "ordering", "event", "order", "datetime_since", "datetime_before",
         "created_since", "created_before", "item", "variation", "subevent", "tax_rule",
         "tax_code", "tax_rate", "fee_type"},
        {"item__in", "variation__in", "subevent__in", "tax_rule__in", "tax_rate__in"})
    ++ OfClass({"tax_code__in", "fee_type__in"}, "texts")

Transactions ==
  LET at == EventPath \o <<"transactions">>
  IN  Lists(at, ListTransactions, Transaction)

OrganizerTransactions ==
  LET at == OrganizerPath \o <<"transactions">>
  IN  Lists(at, ListTransactions, Transaction)

-----------------------------------------------------------------------------
(* resources/checkin.rs                                                    *)

CheckinResult ==
  Model({"status"},
        {"reason", "reason_explanation", "detail", "position", "list", "media_policy",
         "media_type"}, {"require_attention", "checkin_texts", "questions"})

CheckinPosition ==
  Model({},
        {"require_attention", "order__status", "order__valid_if_pending",
         "order__require_approval", "order__locale"}, {})
    ++ OrderPosition

CheckinListExcerpt == Model({"id", "name", "event", "include_pending"}, {"subevent"}, {})

AnnulmentResult == Model({"status"}, {}, {})

Checkin ==
  Model({"id", "successful", "datetime", "created", "list", "auto_checked_in", "type"},
        {"error_reason", "error_explanation", "position", "gate", "device", "device_id"}, {})

SearchTickets ==
  Query({"page", "page_size", "ordering", "search", "ignore_status", "order", "item", "variation",
         "attendee_name", "secret", "order__status", "has_checkin", "subevent", "addon_to",
         "voucher", "voucher__code"},
        {"list", "item__in", "variation__in", "subevent__in", "addon_to__in"})
    ++ OfClass({"order__status__in"}, "texts")

ListCheckins ==
  Query({"page", "page_size", "ordering", "created_since", "created_before", "datetime_since",
         "datetime_before", "successful", "error_reason", "list", "type", "gate", "device",
         "auto_checked_in"}, {})

RedeemTicket ==
  Body({"secret", "lists"},
       {"source_type", "type", "datetime", "force", "questions_supported", "ignore_unpaid",
        "answers", "nonce", "exchange_medium_type", "exchange_medium_identifier",
        "use_order_locale", "simulate"})

AnnulCheckin == Body({"nonce", "lists"}, {"datetime", "error_explanation"})

CheckinRpc ==
  LET at == OrganizerPath \o <<"checkinrpc">>
  IN  [redeem |-> Submit(Append(at, "redeem"), RedeemTicket, CheckinResult),
       redeem_with |-> Asking(Submit(Append(at, "redeem"), RedeemTicket, CheckinResult), Expand),
       search |-> Fetch(Append(at, "search"), SearchTickets, CheckinPosition),
       search_with |-> Asking(Fetch(Append(at, "search"), SearchTickets, Nothing), Expand),
       annul |-> Submit(Append(at, "annul"), AnnulCheckin, AnnulmentResult)]

Checkins ==
  LET at == EventPath \o <<"checkins">>
  IN  Lists(at, ListCheckins, Checkin)

-----------------------------------------------------------------------------
(* resources/checkin_lists.rs                                              *)

CheckinList ==
  Model({"id", "name", "all_products", "include_pending", "allow_multiple_entries",
         "allow_entry_after_exit", "addon_match"},
        {"subevent", "position_count", "checkin_count", "exit_all_at"},
        {"limit_products", "ignore_in_statistics", "consider_tickets_used"})
    ++ OfClass({"rules"}, "nullDefault")

CheckinListStatus ==
  Model({"checkin_count", "position_count", "inside_count", "event"}, {}, {"items"})

CheckinListStatusEvent == Model({"name"}, {}, {})

CheckinListStatusItem ==
  Model({"name", "id", "checkin_count", "admission", "position_count"}, {}, {"variations"})

CheckinListStatusVariation == Model({"value", "id", "checkin_count", "position_count"}, {}, {})

ListCheckinLists ==
  Query({"page", "page_size", "ordering", "subevent", "subevent_match", "ends_after"}, {"expand"})

ListCheckinListPositions ==
  Query({"page", "page_size", "ordering", "ignore_status", "order", "search", "item", "variation",
         "attendee_name", "secret", "order__status", "has_checkin", "subevent", "addon_to",
         "voucher", "voucher__code"},
        {"item__in", "variation__in", "subevent__in", "addon_to__in"})
    ++ OfClass({"order__status__in"}, "texts")

CreateCheckinList ==
  Body({"name"},
       {"all_products", "limit_products", "subevent", "include_pending", "allow_multiple_entries",
        "allow_entry_after_exit", "rules", "exit_all_at", "addon_match", "ignore_in_statistics",
        "consider_tickets_used"})

UpdateCheckinList ==
  Patch({"name", "all_products", "limit_products", "include_pending", "allow_multiple_entries",
         "allow_entry_after_exit", "rules", "addon_match", "ignore_in_statistics",
         "consider_tickets_used"}, {"subevent", "exit_all_at"})

CreateFailedCheckin ==
  Body({"error_reason", "raw_barcode"},
       {"raw_source_type", "datetime", "type", "position", "raw_item", "raw_variation",
        "raw_subevent"})

RedeemPosition ==
  Body({},
       {"questions_supported", "canceled_supported", "datetime", "force", "type", "ignore_unpaid",
        "nonce", "answers"})

CheckinLists ==
  LET at == EventPath \o <<"checkinlists">>
  IN  Crud(at, Number, ListCheckinLists, CheckinList, CreateCheckinList, UpdateCheckinList)
        ++ [list_with |-> Asking(Fetch(at, ListCheckinLists, Nothing), FieldSelection),
            status |-> Fetch(at \o <<Number, "status">>, Nothing, CheckinListStatus),
            failed_checkins |-> Submit(at \o <<Number, "failed_checkins">>, CreateFailedCheckin,
               Nothing)]

CheckinListPositions ==
  LET at == EventPath \o <<"checkinlists", Number, "positions">>
  IN  Lists(at, ListCheckinListPositions, CheckinPosition) ++ Gets(at, Number, CheckinPosition)
        ++ [list_with |-> Asking(Fetch(at, ListCheckinListPositions, Nothing), Expand),
            redeem |-> Submit(at \o <<Number, "redeem">>, RedeemPosition, CheckinResult),
            redeem_secret |-> Fixing(Submit(at \o <<Text, "redeem">>, RedeemPosition,
               CheckinResult), <<"untrusted_input", "true">>)]

-----------------------------------------------------------------------------
(* resources/shipping.rs                                                   *)

ShippingAddress ==
  Model({"company", "name", "street", "zipcode", "city", "country", "state", "gift"}, {}, {})

ShippingStatus == Model({"method", "status", "method_type"}, {}, {})

PrintJob == Model({"event", "order", "method", "status"}, {}, {})

ListPrintJobs == Query({"page", "page_size", "status", "event"}, {"method"})

PollPrintJobs == Query({"status", "event"}, {"method"})

Shipping ==
  LET at == EventPath \o <<"orders">>
  IN  [shipping_address |-> Fetch(at \o <<Text, "shippingaddress">>, Nothing, ShippingAddress),
       shipping_status |-> Fetch(at \o <<Text, "shippingstatus">>, Nothing, ShippingStatus)]

PrintJobs ==
  LET at == OrganizerPath \o <<"printjobs">>
  IN  Lists(at, ListPrintJobs, PrintJob)
        ++ [poll |-> Fetch(Append(at, "poll"), PollPrintJobs, Nothing),
            ack |-> Submit(at \o <<Text, "ack">>, Nothing, Nothing)]

=============================================================================
