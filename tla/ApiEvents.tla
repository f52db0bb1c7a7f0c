----------------------------- MODULE ApiEvents ------------------------------
(***************************************************************************)
(* Events and their dates, seats, layouts, mails, exports and exhibitors   *)
(* (crates/pretix/src/resources), as schemas and as records of calls.      *)
(***************************************************************************)
EXTENDS ApiCatalog

-----------------------------------------------------------------------------
(* resources/events.rs                                                     *)

Event ==
  Model({"name", "slug", "live", "testmode", "currency", "date_from", "is_public",
         "has_subevents", "timezone", "all_sales_channels"},
        {"date_to", "date_admission", "presale_start", "presale_end", "location", "geo_lat",
         "geo_lon", "seating_plan", "valid_keys", "public_url", "best_availability_state"},
        {"meta_data", "plugins", "seat_category_mapping", "item_meta_properties",
         "limit_sales_channels", "sales_channels"})

ListEvents ==
  Query({"page", "page_size", "ordering", "is_public", "live", "testmode", "has_subevents",
         "is_future", "is_past", "date_from_after", "date_from_before", "date_to_after",
         "date_to_before", "ends_after", "sales_channel", "with_availability_for", "search"}, {})

CreateEvent ==
  Body({"name", "slug", "currency", "date_from"},
       {"date_to", "date_admission", "testmode", "is_public", "presale_start", "presale_end",
        "location", "has_subevents", "meta_data", "seating_plan", "seat_category_mapping",
        "timezone", "item_meta_properties", "plugins", "all_sales_channels",
        "limit_sales_channels"})
    ++ OfClass({"geo_lat", "geo_lon"}, "optionalNullish")

UpdateEvent ==
  Patch({"name", "slug", "live", "testmode", "currency", "date_from", "is_public", "meta_data",
         "seat_category_mapping", "timezone", "item_meta_properties", "plugins",
         "all_sales_channels", "limit_sales_channels"},
        {"date_to", "date_admission", "presale_start", "presale_end", "location", "seating_plan"})
    ++ OfClass({"geo_lat", "geo_lon"}, "clearableNullish")

Events ==
  LET at == OrganizerPath \o <<"events">>
  IN  Crud(at, Text, ListEvents, Event, CreateEvent, UpdateEvent)
        ++ [create_from |-> Asking(Submit(at, CreateEvent, Event), Query({"clone_from"}, {})),
            clone_event |-> Submit(at \o <<Text, "clone">>, CreateEvent, Event),
            settings |-> Fetch(at \o <<Text, "settings">>, Nothing, Nothing),
            settings_explained |-> Fixing(Fetch(at \o <<Text, "settings">>, Nothing, Nothing),
               <<"explain", "true">>),
            update_settings |-> Change(at \o <<Text, "settings">>, Anything, Nothing)]

-----------------------------------------------------------------------------
(* resources/subevents.rs                                                  *)

SubEvent ==
  Model({"id", "name", "active", "is_public", "date_from"},
        {"event", "date_to", "date_admission", "presale_start", "presale_end", "frontpage_text",
         "location", "geo_lat", "geo_lon", "seating_plan", "comment", "last_modified",
         "best_availability_state"},
        {"item_price_overrides", "variation_price_overrides", "meta_data",
         "seat_category_mapping"})

SubEventItemPriceOverride ==
  Body({"item"}, {})
    ++ OfClass({"available_from", "available_until", "price"}, "nullable")
    ++ OfClass({"disabled"}, "defaulted")

SubEventVariationPriceOverride ==
  Body({"variation"}, {})
    ++ OfClass({"available_from", "available_until", "price"}, "nullable")
    ++ OfClass({"disabled"}, "defaulted")

ListSubEvents ==
  Query({"page", "page_size", "ordering", "is_public", "active", "is_future", "is_past",
         "date_from_after", "date_from_before", "date_to_after", "date_to_before", "ends_after",
         "search", "modified_since", "with_availability_for"}, {})

ListOrganizerSubEvents ==
  Query({"page", "page_size", "ordering", "is_public", "active", "event__live", "is_future",
         "is_past", "date_from_after", "date_from_before", "date_to_after", "date_to_before",
         "ends_after", "search", "sales_channel", "modified_since", "with_availability_for"}, {})

CreateSubEvent ==
  Body({"name", "date_from", "meta_data"},
       {"active", "is_public", "date_to", "date_admission", "presale_start", "presale_end",
        "frontpage_text", "location", "item_price_overrides", "variation_price_overrides",
        "seating_plan", "seat_category_mapping", "comment"})
    ++ OfClass({"geo_lat", "geo_lon"}, "optionalNullish")

UpdateSubEvent ==
  Patch({"name", "active", "is_public", "date_from", "item_price_overrides",
         "variation_price_overrides", "meta_data", "seat_category_mapping"},
        {"date_to", "date_admission", "presale_start", "presale_end", "frontpage_text",
         "location", "seating_plan", "comment"})
    ++ OfClass({"geo_lat", "geo_lon"}, "clearableNullish")

SubEvents ==
  LET at == EventPath \o <<"subevents">>
  IN  Crud(at, Number, ListSubEvents, SubEvent, CreateSubEvent, UpdateSubEvent)

OrganizerSubEvents ==
  LET at == OrganizerPath \o <<"subevents">>
  IN  Lists(at, ListOrganizerSubEvents, SubEvent)

-----------------------------------------------------------------------------
(* resources/seats.rs                                                      *)

Seat ==
  Model({"id", "zone_name", "row_name", "seat_number", "seat_guid", "blocked"},
        {"subevent", "row_label", "seat_label", "product", "orderposition", "cartposition",
         "voucher"}, {})

ListSeats ==
  Query({"page", "page_size", "zone_name", "row_name", "row_label", "seat_number", "seat_label",
         "seat_guid", "blocked", "is_available"}, {"expand"})

UpdateSeat == Patch({"blocked"}, {})

BulkBlockSeats == Body({}, {}) ++ OfClass({"ids", "seat_guids"}, "list")

Seats(at) ==
  Lists(at, ListSeats, Seat) ++ Gets(at, Number, Seat) ++ Updates(at, Number, UpdateSeat, Seat)
    ++ [get_with |-> Fetch(Append(at, Number), Expand, Seat),
        bulk_block |-> Submit(Append(at, "bulk_block"), BulkBlockSeats, Nothing),
        bulk_unblock |-> Submit(Append(at, "bulk_unblock"), BulkBlockSeats, Nothing)]

-----------------------------------------------------------------------------
(* resources/tax_rules.rs                                                  *)

TaxRule ==
  Model({"id", "name", "rate", "price_includes_tax", "eu_reverse_charge",
         "keep_gross_if_rate_changes"}, {"internal_name", "code", "home_country", "custom_rules"},
        {"default"})

CreateTaxRule ==
  Body({"name", "rate"},
       {"internal_name", "code", "price_includes_tax", "default", "eu_reverse_charge",
        "home_country", "keep_gross_if_rate_changes"})
    ++ OfClass({"custom_rules"}, "optionalNullish")

UpdateTaxRule ==
  Patch({"name", "rate", "price_includes_tax", "default", "eu_reverse_charge",
         "keep_gross_if_rate_changes"}, {"internal_name", "code", "home_country"})
    ++ OfClass({"custom_rules"}, "clearableNullish")

TaxRules ==
  LET at == EventPath \o <<"taxrules">>
  IN  Crud(at, Number, ListParams, TaxRule, CreateTaxRule, UpdateTaxRule)

-----------------------------------------------------------------------------
(* resources/campaigns.rs                                                  *)

Campaign ==
  Model({"id", "code", "description", "external_target", "order_count", "click_count"}, {}, {})

CreateCampaign == Body({"description"}, {"code", "external_target"})

UpdateCampaign == Patch({"code", "description", "external_target"}, {})

Campaigns ==
  LET at == EventPath \o <<"campaigns">>
  IN  Crud(at, Number, ListParams, Campaign, CreateCampaign, UpdateCampaign)

-----------------------------------------------------------------------------
(* resources/exhibitors.rs                                                 *)

Exhibitor ==
  Model({"id", "name", "locale", "access_code", "lead_scanning_access_code",
         "allow_lead_scanning", "allow_lead_access", "allow_voucher_access",
         "lead_scanning_scope_by_device", "comment"},
        {"internal_id", "contact_name", "contact_email", "contact_cc_email", "booth"},
        {"contact_name_parts", "exhibitor_tags"})

Lead ==
  Model({"attendee_order", "attendee_positionid", "notes", "first_upload"},
        {"rating", "device_name", "device_uuid"}, {"tags", "data"})

LeadField == Model({"id", "label"}, {"value"}, {"details"})

LeadFieldDetail == Model({"label"}, {"value"}, {})

ExhibitorVoucher == Model({}, {"exhibitor_comment"}, {}) ++ Voucher

CreateExhibitor ==
  Body({"name"},
       {"internal_id", "contact_name", "contact_name_parts", "contact_email", "contact_cc_email",
        "booth", "locale", "allow_lead_scanning", "allow_lead_access", "allow_voucher_access",
        "lead_scanning_scope_by_device", "comment", "exhibitor_tags"})

UpdateExhibitor ==
  Patch({"name", "contact_name_parts", "locale", "allow_lead_scanning", "allow_lead_access",
         "allow_voucher_access", "lead_scanning_scope_by_device", "comment", "exhibitor_tags"},
        {"internal_id", "contact_name", "contact_email", "contact_cc_email", "booth"})

AttachVoucher == Body({}, {"id", "code", "exhibitor_comment"})

Exhibitors ==
  LET at == EventPath \o <<"exhibitors">>
  IN  Crud(at, Number, ListParams, Exhibitor, CreateExhibitor, UpdateExhibitor)
        ++ [send_access_code |-> Submit(at \o <<Number, "send_access_code">>, Nothing, Nothing),
            leads |-> Fetch(at \o <<Number, "leads">>, ListParams, Lead)]

ExhibitorVouchers ==
  LET at == EventPath \o <<"exhibitors", Number, "vouchers">>
  IN  Lists(at, ListParams, ExhibitorVoucher)
        ++ [attach |-> Submit(Append(at, "attach"), AttachVoucher, Nothing),
            bulk_attach |-> Submit(Append(at, "bulk_attach"), AttachVoucher, Nothing)]

-----------------------------------------------------------------------------
(* resources/digital_contents.rs                                           *)

DigitalContent ==
  Model({"id", "title", "content_type", "all_products", "position"},
        {"internal_name", "url", "file", "description", "available_from", "available_until",
         "subevent", "jwt_template", "jwt_secret", "jwt_validity"}, {"limit_products"})

CreateDigitalContent ==
  Body({"title", "content_type"},
       {"internal_name", "url", "file", "description", "available_from", "available_until",
        "all_products", "limit_products", "position", "subevent", "jwt_template", "jwt_secret",
        "jwt_validity"})

UpdateDigitalContent ==
  Patch({"title", "content_type", "all_products", "limit_products", "position"},
        {"internal_name", "url", "file", "description", "available_from", "available_until",
         "subevent", "jwt_template", "jwt_secret", "jwt_validity"})

DigitalContents ==
  LET at == EventPath \o <<"digitalcontents">>
  IN  Crud(at, Number, ListParams, DigitalContent, CreateDigitalContent, UpdateDigitalContent)

-----------------------------------------------------------------------------
(* resources/auto_checkin_rules.rs                                         *)

AutoCheckinRule ==
  Model({"id", "mode", "all_sales_channels", "all_products", "all_payment_methods"}, {"list"},
        {"limit_sales_channels", "limit_products", "limit_variations", "limit_payment_methods"})

CreateAutoCheckinRule ==
  Body({},
       {"list", "mode", "all_sales_channels", "limit_sales_channels", "all_products",
        "limit_products", "limit_variations", "all_payment_methods", "limit_payment_methods"})

UpdateAutoCheckinRule ==
  Patch({"mode", "all_sales_channels", "limit_sales_channels", "all_products", "limit_products",
         "limit_variations", "all_payment_methods", "limit_payment_methods"}, {"list"})

AutoCheckinRules ==
  LET at == EventPath \o <<"auto_checkin_rules">>
  IN  Crud(at, Number, ListParams, AutoCheckinRule, CreateAutoCheckinRule, UpdateAutoCheckinRule)

-----------------------------------------------------------------------------
(* resources/sendmail_rules.rs                                             *)

SendmailRule ==
  Model({"id", "enabled", "subject", "template", "all_products", "date_is_absolute",
         "offset_to_event_end", "offset_is_after", "send_to"},
        {"include_pending", "checked_in_status", "send_date", "send_offset_days",
         "send_offset_time"}, {"limit_products", "restrict_to_status"})

CreateSendmailRule ==
  Body({"subject", "template"},
       {"enabled", "all_products", "limit_products", "include_pending", "restrict_to_status",
        "checked_in_status", "date_is_absolute", "send_date", "send_offset_days",
        "send_offset_time", "offset_to_event_end", "offset_is_after", "send_to"})

UpdateSendmailRule ==
  Patch({"enabled", "subject", "template", "all_products", "limit_products", "include_pending",
         "restrict_to_status", "date_is_absolute", "offset_to_event_end", "offset_is_after",
         "send_to"}, {"checked_in_status", "send_date", "send_offset_days", "send_offset_time"})

SendmailRules ==
  LET at == EventPath \o <<"sendmail_rules">>
  IN  Crud(at, Number, ListParams, SendmailRule, CreateSendmailRule, UpdateSendmailRule)

-----------------------------------------------------------------------------
(* resources/shredders.rs                                                  *)

Shredder == Model({"identifier", "verbose_name"}, {}, {})

ShredderExport == Model({"download", "shred"}, {}, {})

ShredJob == Model({"status"}, {}, {})

ExportShredders == Body({"shredders"}, {})

Shredders ==
  LET at == EventPath \o <<"shredders">>
  IN  Lists(at, ListParams, Shredder)
        ++ [export |-> Submit(Append(at, "export"), ExportShredders, ShredderExport),
            shred |-> Reading(Follow("POST"), ShredJob),
            status |-> Follow("GET")]

-----------------------------------------------------------------------------
(* resources/exporters.rs                                                  *)

Exporter == Model({"identifier", "verbose_name"}, {}, {"input_parameters"})

ExporterParameter == Model({"name", "required"}, {"choices"}, {})

ExportJob == Model({"download"}, {}, {})

Exporters(at) ==
  Lists(at, ListParams, Exporter)
    ++ [run |-> Submit(at \o <<Text, "run">>, Anything, ExportJob)]

-----------------------------------------------------------------------------
(* resources/scheduled_exports.rs                                          *)

ScheduledExport ==
  Model({"id", "owner", "export_identifier", "locale", "mail_additional_recipients",
         "mail_additional_recipients_cc", "mail_additional_recipients_bcc", "mail_subject",
         "mail_template", "schedule_rrule_time", "error_counter"},
        {"schedule_rrule", "timezone", "schedule_next_run"}, {"export_form_data"})

ListScheduledExports == Query({"page", "page_size", "ordering"}, {})

CreateScheduledExport ==
  Body({"export_identifier", "mail_subject", "mail_template", "schedule_rrule_time"},
       {"export_form_data", "locale", "mail_additional_recipients",
        "mail_additional_recipients_cc", "mail_additional_recipients_bcc", "schedule_rrule",
        "timezone"})

UpdateScheduledExport ==
  Patch({"export_identifier", "export_form_data", "locale", "mail_additional_recipients",
         "mail_additional_recipients_cc", "mail_additional_recipients_bcc", "mail_subject",
         "mail_template", "schedule_rrule_time", "timezone"}, {"schedule_rrule"})

ScheduledExports(at) ==
  Crud(at, Number, ListScheduledExports, ScheduledExport, CreateScheduledExport, UpdateScheduledExport)

-----------------------------------------------------------------------------
(* resources/offline_sales.rs                                              *)

OfflineSalesBatch ==
  Model({"id", "creation", "testmode", "sales_channel", "layout", "item", "amount", "comment"},
        {"subevent", "variation"}, {"orders"})

OfflineSalesBatchCreation == Model({"check"}, {}, {})

CreateOfflineSalesBatch ==
  Body({"item", "layout", "amount"},
       {"testmode", "sales_channel", "subevent", "variation", "comment"})

OfflineSalesBatches ==
  LET at == EventPath \o <<"offlinesalesbatches">>
  IN  Lists(at, ListParams, OfflineSalesBatch)
        ++ Gets(at, Number, OfflineSalesBatch)
        ++ Creates(at, CreateOfflineSalesBatch, OfflineSalesBatchCreation)
        ++ [check |-> Reading(Follow("GET"), OfflineSalesBatch),
            render |-> Submit(at \o <<Number, "render">>, Nothing, ExportJob)]

-----------------------------------------------------------------------------
(* resources/certificates.rs                                               *)

CertificateJob == Model({"download"}, {}, {})

Certificates ==
  LET at == EventPath \o <<"orderpositions">>
  IN  [start |-> Fetch(at \o <<Number, "certificate">>, Nothing, CertificateJob)]

-----------------------------------------------------------------------------
(* resources/badges.rs                                                     *)

BadgeLayout ==
  Model({"id", "name", "default"}, {"background"}, {"item_assignments"})
    ++ OfClass({"layout"}, "nullish")

BadgeLayoutAssignment == Model({"item"}, {}, {})

BadgeItem == Model({"id", "layout", "item"}, {}, {})

BadgeLayouts ==
  LET at == EventPath \o <<"badgelayouts">>
  IN  Lists(at, ListParams, BadgeLayout) ++ Gets(at, Number, BadgeLayout)

BadgeItems ==
  LET at == EventPath \o <<"badgeitems">>
  IN  Lists(at, ListParams, BadgeItem)

-----------------------------------------------------------------------------
(* resources/ticket_layouts.rs                                             *)

TicketLayout ==
  Model({"id", "name", "default"}, {"background"}, {"item_assignments"})
    ++ OfClass({"layout"}, "nullish")

TicketLayoutAssignment == Model({"sales_channel", "item"}, {}, {})

TicketLayoutItem == Model({"id", "layout", "item", "sales_channel"}, {}, {})

CreateTicketLayout ==
  Body({"name"}, {"default", "background"}) ++ OfClass({"layout"}, "nullish")

UpdateTicketLayout ==
  Patch({"name", "default"}, {"background"}) ++ OfClass({"layout"}, "optionalNullish")

RenderBatch == Body({"parts"}, {})

RenderBatchPart == Body({"orderposition"}, {"override_channel", "override_layout"})

TicketLayouts ==
  LET at == EventPath \o <<"ticketlayouts">>
  IN  Crud(at, Number, ListParams, TicketLayout, CreateTicketLayout, UpdateTicketLayout)

TicketLayoutItems ==
  LET at == EventPath \o <<"ticketlayoutitems">>
  IN  Lists(at, ListParams, TicketLayoutItem)

TicketPdfRenderer ==
  LET at == EventPath \o <<"ticketpdfrenderer">>
  IN  [render_batch |-> Submit(Append(at, "render_batch"), RenderBatch, ExportJob)]

=============================================================================
