-------------------------------- MODULE Api --------------------------------
(***************************************************************************)
(* All handles of crates/pretix, and what goes over the wire through them. *)
(***************************************************************************)
EXTENDS ApiOrganizers, ApiEvents, ApiOrders

\* By the names of their types; those of two scopes are here twice.
Handles ==
  [Organizers |-> Organizers, Teams |-> Teams, TeamMembers |-> TeamMembers, TeamInvites |->
   TeamInvites, TeamTokens |-> TeamTokens, Devices |-> Devices, Customers |-> Customers,
   MembershipTypes |-> MembershipTypes, Memberships |-> Memberships, GiftCards |-> GiftCards,
   ReusableMedia |-> ReusableMedia, SeatingPlans |-> SeatingPlans, SalesChannels |->
   SalesChannels, Webhooks |-> Webhooks, Resellers |-> Resellers, BillingInvoices |->
   BillingInvoices, BankImportJobs |-> BankImportJobs, EventMetaProperties |->
   EventMetaProperties, ItemVariations |-> ItemVariations, ItemAddOns |-> ItemAddOns,
   ItemBundles |-> ItemBundles, ItemProgramTimes |-> ItemProgramTimes, Items |-> Items,
   Categories |-> Categories, Questions |-> Questions, QuestionOptions |-> QuestionOptions,
   Quotas |-> Quotas, Discounts |-> Discounts, ItemMetaProperties |-> ItemMetaProperties,
   Vouchers |-> Vouchers, WaitingListEntries |-> WaitingListEntries, CartPositions |->
   CartPositions, ImportedSecrets |-> ImportedSecrets, Events |-> Events, SubEvents |->
   SubEvents, OrganizerSubEvents |-> OrganizerSubEvents, Seats |-> Seats(EventPath \o
   <<"seats">>), SubEventSeats |-> Seats(EventPath \o <<"subevents", Number, "seats">>),
   TaxRules |-> TaxRules, Campaigns |-> Campaigns, Exhibitors |-> Exhibitors,
   ExhibitorVouchers |-> ExhibitorVouchers, DigitalContents |-> DigitalContents,
   AutoCheckinRules |-> AutoCheckinRules, SendmailRules |-> SendmailRules, Shredders |->
   Shredders, Exporters |-> Exporters(EventPath \o <<"exporters">>), OrganizerExporters |->
   Exporters(OrganizerPath \o <<"exporters">>), ScheduledExports |->
   ScheduledExports(EventPath \o <<"scheduled_exports">>), OrganizerScheduledExports |->
   ScheduledExports(OrganizerPath \o <<"scheduled_exports">>), OfflineSalesBatches |->
   OfflineSalesBatches, Certificates |-> Certificates, BadgeLayouts |-> BadgeLayouts,
   BadgeItems |-> BadgeItems, TicketLayouts |-> TicketLayouts, TicketLayoutItems |->
   TicketLayoutItems, TicketPdfRenderer |-> TicketPdfRenderer, OrderPayments |->
   OrderPayments, OrderRefunds |-> OrderRefunds, OrderPositions |-> OrderPositions,
   OrganizerOrderPositions |-> OrganizerOrderPositions, RevokedSecrets |-> RevokedSecrets,
   BlockedSecrets |-> BlockedSecrets, Invoices |-> Invoices, OrganizerInvoices |->
   OrganizerInvoices, Orders |-> Orders, OrganizerOrders |-> OrganizerOrders, Transactions |->
   Transactions, OrganizerTransactions |-> OrganizerTransactions, CheckinRpc |-> CheckinRpc,
   Checkins |-> Checkins, CheckinLists |-> CheckinLists, CheckinListPositions |->
   CheckinListPositions, Shipping |-> Shipping, PrintJobs |-> PrintJobs]

\* A method by its name, and the call it makes.
Methods ==
  UNION {{[handle |-> h, name |-> n, call |-> Handles[h][n]] : n \in DOMAIN Handles[h]} :
           h \in DOMAIN Handles}

-----------------------------------------------------------------------------
(* Values within bodies and responses: they have schemas of their own.     *)

\* What pretix makes of one: "POST" of something new, "PATCH" of a change.
Part(name, method, sent, model) ==
  [handle |-> "part", name |-> name, method |-> method, sent |-> sent, model |-> model]

Parts ==
  {Part("badge_layout_assignment", "GET", Nothing, BadgeLayoutAssignment),
   Part("bank_transaction", "POST", CreateBankTransaction, BankTransaction),
   Part("cart_addon", "POST", CreateCartAddon, CartPosition),
   Part("list_of_a_checkin", "GET", Nothing, CheckinListExcerpt),
   Part("event_of_a_checkin_list_status", "GET", Nothing, CheckinListStatusEvent),
   Part("item_of_a_checkin_list_status", "GET", Nothing, CheckinListStatusItem),
   Part("variation_of_a_checkin_list_status", "GET", Nothing, CheckinListStatusVariation),
   Part("choice_of_a_property", "POST", EventMetaPropertyChoice, EventMetaPropertyChoice),
   Part("field_of_a_lead", "GET", Nothing, LeadField),
   Part("details_of_a_field_of_a_lead", "GET", Nothing, LeadFieldDetail),
   Part("parameter_of_an_exporter", "GET", Nothing, ExporterParameter),
   Part("line_of_an_invoice", "GET", Nothing, InvoiceLine),
   Part("invoice_address", "POST", CreateInvoiceAddress, InvoiceAddress),
   Part("answer", "POST", CreateAnswer, Answer),
   Part("position_of_an_order", "POST", NewOrderPosition, OrderPosition),
   Part("fee_of_an_order", "POST", NewOrderFee, OrderFee),
   Part("download_of_an_order", "GET", Nothing, TicketDownload),
   Part("checkin_of_a_position", "GET", Nothing, PositionCheckin),
   Part("seat_of_a_position", "GET", Nothing, AssignedSeat),
   Part("changed_position", "POST", PatchPosition, Nothing),
   Part("changes_of_a_position", "PATCH", PositionChanges, OrderPosition),
   Part("cancelled_position", "POST", CancelPosition, Nothing),
   Part("split_position", "POST", SplitPosition, Nothing),
   Part("added_position", "POST", AddPosition, OrderPosition),
   Part("changed_fee", "POST", PatchFee, Nothing),
   Part("changes_of_a_fee", "PATCH", FeeChanges, OrderFee),
   Part("cancelled_fee", "POST", CancelFee, Nothing),
   Part("item_of_a_date", "POST", SubEventItemPriceOverride, SubEventItemPriceOverride),
   Part("variation_of_a_date", "POST", SubEventVariationPriceOverride, SubEventVariationPriceOverride),
   Part("assignment_of_a_ticket_layout", "GET", Nothing, TicketLayoutAssignment),
   Part("part_of_a_batch", "POST", RenderBatchPart, Nothing)}

\* What is sent and what is read back, method by method and part by part.
Exchanges ==
  {[handle |-> m.handle, name |-> m.name, method |-> m.call.method,
    sent |-> m.call.query ++ m.call.body, model |-> m.call.model] : m \in Methods}
  \cup Parts

=============================================================================
