--------------------------- MODULE ApiOrganizers ----------------------------
(***************************************************************************)
(* The resources of an organizer account, and of resellers                 *)
(* (crates/pretix/src/resources): for each file its requests and responses *)
(* as schemas, and its handles as records of calls.                        *)
(***************************************************************************)
EXTENDS ApiSchema

-----------------------------------------------------------------------------
(* resources/organizers.rs                                                 *)

Organizer == Model({"name", "slug"}, {"public_url"}, {"plugins"})

ListOrganizers == Query({"page", "page_size", "ordering"}, {})

UpdateOrganizer == Patch({"plugins"}, {})

Organizers ==
  LET at == <<"organizers">>
  IN  Lists(at, ListOrganizers, Organizer)
        ++ Gets(at, Text, Organizer)
        ++ Updates(at, Text, UpdateOrganizer, Organizer)
        ++ [settings |-> Fetch(at \o <<Text, "settings">>, Nothing, Nothing),
            settings_explained |-> Fixing(Fetch(at \o <<Text, "settings">>, Nothing, Nothing),
               <<"explain", "true">>),
            update_settings |-> Change(at \o <<Text, "settings">>, Anything, Nothing)]

-----------------------------------------------------------------------------
(* resources/teams.rs                                                      *)

Team ==
  Model({"id", "name", "all_events", "require_2fa", "all_event_permissions",
         "all_organizer_permissions"}, {},
        {"limit_events", "limit_event_permissions", "limit_organizer_permissions"})

TeamMember == Model({"id", "email", "require_2fa"}, {"fullname"}, {})

TeamInvite == Model({"email"}, {"id"}, {})

TeamToken == Model({"id", "name", "active"}, {"token"}, {})

CreateTeam ==
  Body({"name"},
       {"all_events", "limit_events", "require_2fa", "all_event_permissions",
        "limit_event_permissions", "all_organizer_permissions", "limit_organizer_permissions",
        "can_create_events", "can_change_teams", "can_change_organizer_settings",
        "can_manage_customers", "can_manage_reusable_media", "can_manage_gift_cards",
        "can_change_event_settings", "can_change_items", "can_view_orders", "can_change_orders",
        "can_view_vouchers", "can_change_vouchers", "can_checkin_orders"})

UpdateTeam ==
  Patch({"name", "all_events", "limit_events", "require_2fa", "all_event_permissions",
         "limit_event_permissions", "all_organizer_permissions", "limit_organizer_permissions",
         "can_create_events", "can_change_teams", "can_change_organizer_settings",
         "can_manage_customers", "can_manage_reusable_media", "can_manage_gift_cards",
         "can_change_event_settings", "can_change_items", "can_view_orders", "can_change_orders",
         "can_view_vouchers", "can_change_vouchers", "can_checkin_orders"}, {})

CreateTeamInvite == Body({"email"}, {})

CreateTeamToken == Body({"name"}, {})

Teams ==
  LET at == OrganizerPath \o <<"teams">>
  IN  Crud(at, Number, ListParams, Team, CreateTeam, UpdateTeam)

TeamMembers ==
  LET at == OrganizerPath \o <<"teams", Number, "members">>
  IN  Lists(at, ListParams, TeamMember) ++ Gets(at, Number, TeamMember) ++ Deletes(at, Number)

TeamInvites ==
  LET at == OrganizerPath \o <<"teams", Number, "invites">>
  IN  Lists(at, ListParams, TeamInvite)
        ++ Gets(at, Number, TeamInvite)
        ++ Creates(at, CreateTeamInvite, TeamInvite)
        ++ Deletes(at, Number)

TeamTokens ==
  LET at == OrganizerPath \o <<"teams", Number, "tokens">>
  IN  Lists(at, ListParams, TeamToken)
        ++ Gets(at, Number, TeamToken)
        ++ Creates(at, CreateTeamToken, TeamToken)
        ++ [delete |-> Reading(Delete(Append(at, Number)), TeamToken)]

-----------------------------------------------------------------------------
(* resources/devices.rs                                                    *)

Device ==
  Model({"device_id", "unique_serial", "name", "all_events", "created", "revoked",
         "security_profile"},
        {"hardware_brand", "hardware_model", "os_name", "os_version", "software_brand",
         "software_version", "initialized", "initialization_token"}, {"limit_events"})

CreateDevice == Body({"name"}, {"all_events", "limit_events", "security_profile"})

UpdateDevice == Patch({"name", "all_events", "limit_events", "security_profile"}, {})

Devices ==
  LET at == OrganizerPath \o <<"devices">>
  IN  Lists(at, ListParams, Device)
        ++ Gets(at, Number, Device)
        ++ Creates(at, CreateDevice, Device)
        ++ Updates(at, Number, UpdateDevice, Device)

-----------------------------------------------------------------------------
(* resources/customers.rs                                                  *)

Customer ==
  Model({"identifier", "is_active", "is_verified", "date_joined", "locale", "last_modified"},
        {"external_identifier", "email", "phone", "name", "last_login", "notes"}, {})
    ++ OfClass({"name_parts"}, "nullDefault")

ListCustomers == Query({"page", "page_size", "email"}, {})

CreateCustomer ==
  Body({},
       {"external_identifier", "email", "phone", "name_parts", "is_active", "is_verified",
        "locale", "notes", "password", "send_email"})

UpdateCustomer ==
  Patch({"email", "name_parts", "is_active", "is_verified", "locale"},
        {"external_identifier", "phone", "notes"})

Customers ==
  LET at == OrganizerPath \o <<"customers">>
  IN  Lists(at, ListCustomers, Customer)
        ++ Gets(at, Text, Customer)
        ++ Creates(at, CreateCustomer, Customer)
        ++ Updates(at, Text, UpdateCustomer, Customer)
        ++ [anonymize |-> Submit(at \o <<Text, "anonymize">>, Nothing, Customer)]

-----------------------------------------------------------------------------
(* resources/membership_types.rs                                           *)

MembershipType == Model({"id", "name", "transferable", "allow_parallel_usage"}, {"max_usages"}, {})

CreateMembershipType == Body({"name"}, {"transferable", "allow_parallel_usage", "max_usages"})

UpdateMembershipType == Patch({"name", "transferable", "allow_parallel_usage"}, {"max_usages"})

MembershipTypes ==
  LET at == OrganizerPath \o <<"membershiptypes">>
  IN  Crud(at, Number, ListParams, MembershipType, CreateMembershipType, UpdateMembershipType)

-----------------------------------------------------------------------------
(* resources/memberships.rs                                                *)

Membership ==
  Model({"id", "customer", "testmode", "membership_type", "date_start", "date_end"}, {}, {})
    ++ OfClass({"attendee_name_parts"}, "nullDefault")

ListMemberships == Query({"page", "page_size", "customer", "membership_type", "testmode"}, {})

CreateMembership ==
  Body({"membership_type", "customer", "date_start", "date_end"},
       {"testmode", "attendee_name_parts"})

UpdateMembership == Patch({"membership_type", "date_start", "date_end", "attendee_name_parts"}, {})

Memberships ==
  LET at == OrganizerPath \o <<"memberships">>
  IN  Lists(at, ListMemberships, Membership)
        ++ Gets(at, Number, Membership)
        ++ Creates(at, CreateMembership, Membership)
        ++ Updates(at, Number, UpdateMembership, Membership)

-----------------------------------------------------------------------------
(* resources/gift_cards.rs                                                 *)

GiftCard ==
  Model({"id", "secret", "value", "currency", "testmode", "issuer"},
        {"issuance", "expires", "conditions", "owner_ticket"}, {})

GiftCardTransaction ==
  Model({"id", "datetime", "value"}, {"event", "order", "text", "info", "acceptor"}, {})

ListGiftCards ==
  Query({"page", "page_size", "secret", "value", "expired", "testmode", "include_accepted"},
        {"expand"})

CreateGiftCard ==
  Body({"currency", "value"}, {"secret", "testmode", "expires", "conditions", "owner_ticket"})

UpdateGiftCard == Patch({"value"}, {"expires", "conditions", "owner_ticket"})

TransactGiftCard == Body({"value"}, {"text"})

IncludeAccepted == Query({"include_accepted"}, {})

GiftCards ==
  LET at == OrganizerPath \o <<"giftcards">>
  IN  Lists(at, ListGiftCards, GiftCard)
        ++ Gets(at, Number, GiftCard)
        ++ Creates(at, CreateGiftCard, GiftCard)
        ++ Updates(at, Number, UpdateGiftCard, GiftCard)
        ++ [get_with |-> Fetch(Append(at, Number), IncludeAccepted, GiftCard),
            create_with |-> Asking(Submit(at, CreateGiftCard, GiftCard), Expand),
            transact |-> Submit(at \o <<Number, "transact">>, TransactGiftCard, GiftCard),
            transact_with |-> Asking(Submit(at \o <<Number, "transact">>, TransactGiftCard,
               GiftCard), IncludeAccepted),
            transactions |-> Fetch(at \o <<Number, "transactions">>, ListParams,
               GiftCardTransaction)]

-----------------------------------------------------------------------------
(* resources/reusable_media.rs                                             *)

ReusableMedium ==
  Model({"id", "type", "organizer", "identifier", "active", "created", "updated"},
        {"claim_token", "label", "expires", "customer", "linked_orderposition", "linked_giftcard",
         "notes"}, {"linked_orderpositions", "info"})

ListReusableMedia ==
  Query({"page", "page_size", "identifier", "type", "active", "customer", "created_since",
         "updated_since", "linked_orderposition", "linked_giftcard"},
        {"linked_orderpositions", "expand"})

LookupMedium == Body({"identifier", "type"}, {})

CreateReusableMedium ==
  Body({"identifier", "type"},
       {"label", "claim_token", "active", "expires", "customer", "linked_orderpositions",
        "linked_orderposition", "linked_giftcard", "info", "notes"})

UpdateReusableMedium ==
  Patch({"active", "linked_orderpositions", "info"},
        {"label", "claim_token", "expires", "customer", "linked_orderposition", "linked_giftcard",
         "notes"})

ReusableMedia ==
  LET at == OrganizerPath \o <<"reusablemedia">>
  IN  Lists(at, ListReusableMedia, ReusableMedium)
        ++ Gets(at, Number, ReusableMedium)
        ++ Creates(at, CreateReusableMedium, ReusableMedium)
        ++ Updates(at, Number, UpdateReusableMedium, ReusableMedium)
        ++ [get_with |-> Fetch(Append(at, Number), Expand, ReusableMedium),
            lookup |-> Submit(Append(at, "lookup"), LookupMedium, ReusableMedium),
            lookup_with |-> Asking(Submit(Append(at, "lookup"), LookupMedium, ReusableMedium),
               Expand),
            create_with |-> Asking(Submit(at, CreateReusableMedium, ReusableMedium), Expand),
            update_with |-> Asking(Change(Append(at, Number), UpdateReusableMedium, ReusableMedium),
               Expand)]

-----------------------------------------------------------------------------
(* resources/seating_plans.rs                                              *)

SeatingPlan == Model({"id", "name"}, {}, {}) ++ OfClass({"layout"}, "nullish")

CreateSeatingPlan == Body({"name"}, {}) ++ OfClass({"layout"}, "nullish")

UpdateSeatingPlan == Patch({"name"}, {}) ++ OfClass({"layout"}, "optionalNullish")

SeatingPlans ==
  LET at == OrganizerPath \o <<"seatingplans">>
  IN  Crud(at, Number, ListParams, SeatingPlan, CreateSeatingPlan, UpdateSeatingPlan)

-----------------------------------------------------------------------------
(* resources/sales_channels.rs                                             *)

SalesChannel == Model({"identifier", "label", "type", "position"}, {}, {})

CreateSalesChannel == Body({"identifier", "label"}, {"type", "position"})

UpdateSalesChannel == Patch({"label", "position"}, {})

SalesChannels ==
  LET at == OrganizerPath \o <<"saleschannels">>
  IN  Crud(at, Text, ListParams, SalesChannel, CreateSalesChannel, UpdateSalesChannel)

-----------------------------------------------------------------------------
(* resources/webhooks.rs                                                   *)

Webhook ==
  Model({"id", "enabled", "target_url", "all_events"}, {"comment"},
        {"limit_events", "action_types"})

ListWebhooks == Query({"page", "page_size", "enabled"}, {})

CreateWebhook ==
  Body({"target_url", "action_types"}, {"enabled", "all_events", "limit_events", "comment"})

UpdateWebhook ==
  Patch({"enabled", "target_url", "all_events", "limit_events", "action_types"}, {"comment"})

Webhooks ==
  LET at == OrganizerPath \o <<"webhooks">>
  IN  Crud(at, Number, ListWebhooks, Webhook, CreateWebhook, UpdateWebhook)

-----------------------------------------------------------------------------
(* resources/resellers.rs                                                  *)

Reseller ==
  Model({"id", "name", "public_name", "public_url", "support_email", "support_phone",
         "communication_language"}, {}, {})

ResellerOrganizer == Model({"id", "name", "slug"}, {}, {})

CreateOrganizer == Body({"name", "slug"}, {})

Resellers ==
  LET at == <<"var">>
  IN  Lists(at, ListParams, Reseller) ++ Gets(at, Number, Reseller)
        ++ [create_organizer |-> Submit(at \o <<Number, "create_organizer">>, CreateOrganizer,
               ResellerOrganizer)]

-----------------------------------------------------------------------------
(* resources/billing_invoices.rs                                           *)

BillingInvoice == Model({"invoice_number", "date_issued"}, {}, {})

ListBillingInvoices == Query({"page", "page_size", "ordering"}, {})

BillingInvoices ==
  LET at == OrganizerPath \o <<"billing_invoices">>
  IN  Lists(at, ListBillingInvoices, BillingInvoice) ++ Gets(at, Text, BillingInvoice)
        ++ [download |-> Fetch(at \o <<Text, "download">>, Nothing, Nothing)]

-----------------------------------------------------------------------------
(* resources/bank_transfer.rs                                              *)

BankImportJob == Model({"id", "created", "state"}, {"event", "currency"}, {"transactions"})

BankTransaction ==
  Model({"state", "message", "checksum", "payer", "reference", "amount", "iban", "bic", "date",
         "comment"}, {"external_id", "order", "currency"}, {})

ListBankImportJobs == Query({"page", "page_size", "event", "state"}, {})

CreateBankImportJob == Body({"transactions"}, {"event", "currency"})

CreateBankTransaction ==
  Body({"payer", "reference", "amount", "date"},
       {"external_id", "iban", "bic", "comment", "currency"})

BankImportJobs ==
  LET at == OrganizerPath \o <<"bankimportjobs">>
  IN  Lists(at, ListBankImportJobs, BankImportJob)
        ++ Gets(at, Number, BankImportJob)
        ++ Creates(at, CreateBankImportJob, BankImportJob)

-----------------------------------------------------------------------------
(* resources/event_meta_properties.rs                                      *)

EventMetaProperty ==
  Model({"id", "name", "default", "required", "protected", "filter_public", "filter_allowed"},
        {"public_label", "choices"}, {})

EventMetaPropertyChoice == Body({"key"}, {"label"})

CreateEventMetaProperty ==
  Body({"name"},
       {"default", "required", "protected", "filter_public", "public_label", "filter_allowed"})
    ++ OfClass({"choices"}, "nullable")

UpdateEventMetaProperty ==
  Patch({"name", "default", "required", "protected", "filter_public", "filter_allowed"},
        {"public_label", "choices"})

EventMetaProperties ==
  LET at == OrganizerPath \o <<"event_meta_properties">>
  IN  Crud(at, Number, ListParams, EventMetaProperty, CreateEventMetaProperty, UpdateEventMetaProperty)

=============================================================================
