----------------------------- MODULE ApiCatalog -----------------------------
(***************************************************************************)
(* What an event sells (crates/pretix/src/resources): items, questions,    *)
(* quotas, vouchers, carts and the waiting list, as schemas and as records *)
(* of calls.                                                               *)
(***************************************************************************)
EXTENDS ApiSchema

-----------------------------------------------------------------------------
(* resources/items/variations.rs                                           *)

ItemVariation ==
  Model({"id", "value", "price", "active", "position", "checkin_attention", "require_approval",
         "require_membership", "all_sales_channels", "available_from_mode",
         "available_until_mode", "hide_without_voucher"},
        {"default_price", "free_price_suggestion", "original_price", "description",
         "checkin_text", "available_from", "available_until"},
        {"require_membership_hidden", "require_membership_types", "limit_sales_channels",
         "sales_channels", "meta_data"})

ListItemVariations == Query({"page", "page_size", "search", "active"}, {})

CreateItemVariation ==
  Body({"value"},
       {"default_price", "free_price_suggestion", "original_price", "active", "description",
        "position", "checkin_attention", "checkin_text", "require_approval", "require_membership",
        "require_membership_hidden", "require_membership_types", "all_sales_channels",
        "limit_sales_channels", "available_from", "available_from_mode", "available_until",
        "available_until_mode", "hide_without_voucher", "meta_data"})

UpdateItemVariation ==
  Patch({"value", "active", "position", "checkin_attention", "require_approval",
         "require_membership", "require_membership_hidden", "require_membership_types",
         "all_sales_channels", "limit_sales_channels", "available_from_mode",
         "available_until_mode", "hide_without_voucher", "meta_data"},
        {"default_price", "free_price_suggestion", "original_price", "description",
         "checkin_text", "available_from", "available_until"})

ItemVariations ==
  LET at == EventPath \o <<"items", Number, "variations">>
  IN  Crud(at, Number, ListItemVariations, ItemVariation, CreateItemVariation, UpdateItemVariation)

-----------------------------------------------------------------------------
(* resources/items/addons.rs                                               *)

ItemAddOn ==
  Model({"addon_category", "min_count", "max_count", "position", "multi_allowed",
         "price_included"}, {"id"}, {})

CreateItemAddOn ==
  Body({"addon_category"},
       {"min_count", "max_count", "position", "multi_allowed", "price_included"})

UpdateItemAddOn ==
  Patch({"addon_category", "min_count", "max_count", "position", "multi_allowed",
         "price_included"}, {})

ItemAddOns ==
  LET at == EventPath \o <<"items", Number, "addons">>
  IN  Crud(at, Number, ListParams, ItemAddOn, CreateItemAddOn, UpdateItemAddOn)

-----------------------------------------------------------------------------
(* resources/items/bundles.rs                                              *)

ItemBundle == Model({"bundled_item", "count", "designated_price"}, {"id", "bundled_variation"}, {})

CreateItemBundle == Body({"bundled_item"}, {"bundled_variation", "count", "designated_price"})

UpdateItemBundle == Patch({"bundled_item", "count", "designated_price"}, {"bundled_variation"})

ItemBundles ==
  LET at == EventPath \o <<"items", Number, "bundles">>
  IN  Crud(at, Number, ListParams, ItemBundle, CreateItemBundle, UpdateItemBundle)

-----------------------------------------------------------------------------
(* resources/items/program_times.rs                                        *)

ItemProgramTime == Model({"start", "end"}, {"id", "location"}, {})

CreateItemProgramTime == Body({"start", "end"}, {"location"})

UpdateItemProgramTime == Patch({"start", "end"}, {"location"})

ItemProgramTimes ==
  LET at == EventPath \o <<"items", Number, "program_times">>
  IN  Crud(at, Number, ListParams, ItemProgramTime, CreateItemProgramTime, UpdateItemProgramTime)

-----------------------------------------------------------------------------
(* resources/items.rs                                                      *)

Item ==
  Model({"id", "name", "default_price", "active", "free_price", "tax_rate", "admission",
         "personalized", "position", "all_sales_channels", "available_from_mode",
         "available_until_mode", "require_voucher", "hide_without_voucher", "allow_cancel",
         "checkin_attention", "require_approval", "require_bundling", "require_membership",
         "grant_membership_duration_like_event", "grant_membership_duration_days",
         "grant_membership_duration_months", "validity_dynamic_start_choice", "allow_waitinglist",
         "issue_giftcard", "has_variations"},
        {"internal_name", "category", "description", "free_price_suggestion", "tax_rule",
         "picture", "available_from", "available_until", "hidden_if_available",
         "hidden_if_item_available", "min_per_order", "max_per_order", "checkin_text",
         "original_price", "grant_membership_type", "validity_mode", "validity_fixed_from",
         "validity_fixed_until", "validity_dynamic_duration_minutes",
         "validity_dynamic_duration_hours", "validity_dynamic_duration_days",
         "validity_dynamic_duration_months", "validity_dynamic_start_choice_day_limit",
         "generate_tickets", "media_policy", "media_type", "show_quota_left"},
        {"limit_sales_channels", "sales_channels", "hidden_if_item_available_mode",
         "require_membership_hidden", "require_membership_types", "variations", "addons",
         "bundles", "program_times", "meta_data"})

ListItems ==
  Query({"page", "page_size", "ordering", "search", "active", "category", "admission", "tax_rate",
         "free_price"}, {})

CreateItem ==
  Body({"name", "default_price"},
       {"internal_name", "category", "active", "description", "free_price",
        "free_price_suggestion", "tax_rule", "admission", "personalized", "position", "picture",
        "all_sales_channels", "limit_sales_channels", "available_from", "available_from_mode",
        "available_until", "available_until_mode", "hidden_if_available",
        "hidden_if_item_available", "hidden_if_item_available_mode", "require_voucher",
        "hide_without_voucher", "allow_cancel", "min_per_order", "max_per_order",
        "checkin_attention", "checkin_text", "original_price", "require_approval",
        "require_bundling", "require_membership", "require_membership_hidden",
        "require_membership_types", "grant_membership_type",
        "grant_membership_duration_like_event", "grant_membership_duration_days",
        "grant_membership_duration_months", "validity_mode", "validity_fixed_from",
        "validity_fixed_until", "validity_dynamic_duration_minutes",
        "validity_dynamic_duration_hours", "validity_dynamic_duration_days",
        "validity_dynamic_duration_months", "validity_dynamic_start_choice",
        "validity_dynamic_start_choice_day_limit", "generate_tickets", "allow_waitinglist",
        "issue_giftcard", "media_policy", "media_type", "show_quota_left", "variations", "addons",
        "bundles", "program_times", "meta_data"})

UpdateItem ==
  Patch({"name", "default_price", "active", "free_price", "admission", "personalized", "position",
         "all_sales_channels", "limit_sales_channels", "available_from_mode",
         "available_until_mode", "hidden_if_item_available_mode", "require_voucher",
         "hide_without_voucher", "allow_cancel", "checkin_attention", "require_approval",
         "require_bundling", "require_membership", "require_membership_hidden",
         "require_membership_types", "grant_membership_duration_like_event",
         "grant_membership_duration_days", "grant_membership_duration_months",
         "validity_dynamic_start_choice", "allow_waitinglist", "issue_giftcard", "meta_data"},
        {"internal_name", "category", "description", "free_price_suggestion", "tax_rule",
         "picture", "available_from", "available_until", "hidden_if_available",
         "hidden_if_item_available", "min_per_order", "max_per_order", "checkin_text",
         "original_price", "grant_membership_type", "validity_mode", "validity_fixed_from",
         "validity_fixed_until", "validity_dynamic_duration_minutes",
         "validity_dynamic_duration_hours", "validity_dynamic_duration_days",
         "validity_dynamic_duration_months", "validity_dynamic_start_choice_day_limit",
         "generate_tickets", "media_policy", "media_type", "show_quota_left"})

Items ==
  LET at == EventPath \o <<"items">>
  IN  Crud(at, Number, ListItems, Item, CreateItem, UpdateItem)

-----------------------------------------------------------------------------
(* resources/categories.rs                                                 *)

\* Mutation of Category: the description is not an Option.
CategoryDescribed ==
  Model({"id", "name", "description", "position", "is_addon"},
        {"internal_name", "cross_selling_mode", "cross_selling_condition"},
        {"cross_selling_match_products"})

Category ==
  Model({"id", "name", "position", "is_addon"},
        {"internal_name", "description", "cross_selling_mode", "cross_selling_condition"},
        {"cross_selling_match_products"})

ListCategories == Query({"page", "page_size", "ordering", "is_addon"}, {})

CreateCategory ==
  Body({"name"},
       {"internal_name", "description", "position", "is_addon", "cross_selling_mode",
        "cross_selling_condition", "cross_selling_match_products"})

UpdateCategory ==
  Patch({"name", "position", "is_addon", "cross_selling_match_products"},
        {"internal_name", "description", "cross_selling_mode", "cross_selling_condition"})

Categories ==
  LET at == EventPath \o <<"categories">>
  IN  Crud(at, Number, ListCategories, Category, CreateCategory, UpdateCategory)

-----------------------------------------------------------------------------
(* resources/questions.rs                                                  *)

Question ==
  Model({"id", "question", "type", "required", "position", "identifier", "ask_during_checkin",
         "show_during_checkin", "hidden", "print_on_invoice", "valid_file_portrait"},
        {"help_text", "valid_number_min", "valid_number_max", "valid_date_min", "valid_date_max",
         "valid_datetime_min", "valid_datetime_max", "valid_string_length_min",
         "valid_string_length_max", "dependency_question", "dependency_value"},
        {"items", "options", "dependency_values"})

QuestionOption == Model({"id", "position", "identifier", "answer"}, {}, {})

ListQuestions ==
  Query({"page", "page_size", "ordering", "identifier", "ask_during_checkin", "required"}, {})

ListQuestionOptions == Query({"page", "page_size", "active"}, {})

CreateQuestion ==
  Body({"question", "type"},
       {"help_text", "required", "position", "items", "ask_during_checkin", "show_during_checkin",
        "hidden", "print_on_invoice", "options", "valid_number_min", "valid_number_max",
        "valid_date_min", "valid_date_max", "valid_datetime_min", "valid_datetime_max",
        "valid_file_portrait", "valid_string_length_min", "valid_string_length_max",
        "dependency_question", "dependency_values", "dependency_value"})
    ++ OfClass({"identifier"}, "nullable")

UpdateQuestion ==
  Patch({"question", "type", "required", "position", "items", "identifier", "ask_during_checkin",
         "show_during_checkin", "hidden", "print_on_invoice", "valid_file_portrait",
         "dependency_values"},
        {"help_text", "valid_number_min", "valid_number_max", "valid_date_min", "valid_date_max",
         "valid_datetime_min", "valid_datetime_max", "valid_string_length_min",
         "valid_string_length_max", "dependency_question", "dependency_value"})

CreateQuestionOption == Body({"answer"}, {"position"}) ++ OfClass({"identifier"}, "nullable")

UpdateQuestionOption == Patch({"answer", "identifier", "position"}, {})

Questions ==
  LET at == EventPath \o <<"questions">>
  IN  Crud(at, Number, ListQuestions, Question, CreateQuestion, UpdateQuestion)

QuestionOptions ==
  LET at == EventPath \o <<"questions", Number, "options">>
  IN  Crud(at, Number, ListQuestionOptions, QuestionOption, CreateQuestionOption, UpdateQuestionOption)

-----------------------------------------------------------------------------
(* resources/quotas.rs                                                     *)

Quota ==
  Model({"id", "name", "close_when_sold_out", "closed", "ignore_for_event_availability"},
        {"size", "subevent", "available", "available_number"},
        {"items", "variations", "release_after_exit"})

QuotaAvailability ==
  Model({"available", "pending_orders", "paid_orders", "exited_orders", "cart_positions",
         "blocking_vouchers", "waiting_list"}, {"available_number", "total_size"}, {})

ListQuotas ==
  Query({"page", "page_size", "ordering", "subevent", "with_availability"},
        {"subevent__in", "items__in"})

CreateQuota ==
  Body({"name"},
       {"size", "items", "variations", "subevent", "close_when_sold_out", "closed",
        "release_after_exit", "ignore_for_event_availability"})

UpdateQuota ==
  Patch({"name", "items", "variations", "close_when_sold_out", "closed", "release_after_exit",
         "ignore_for_event_availability"}, {"size", "subevent"})

GetQuota == Query({"with_availability"}, {})

Quotas ==
  LET at == EventPath \o <<"quotas">>
  IN  Crud(at, Number, ListQuotas, Quota, CreateQuota, UpdateQuota)
        ++ [get_with |-> Fetch(Append(at, Number), GetQuota, Quota),
            availability |-> Fetch(at \o <<Number, "availability">>, Nothing, QuotaAvailability)]

-----------------------------------------------------------------------------
(* resources/discounts.rs                                                  *)

Discount ==
  Model({"id", "active", "internal_name", "position", "all_sales_channels", "subevent_mode",
         "condition_all_products", "condition_apply_to_addons",
         "condition_ignore_voucher_discounted", "condition_min_count", "condition_min_value",
         "benefit_discount_matching_percent", "benefit_same_products", "benefit_apply_to_addons",
         "benefit_ignore_voucher_discounted"},
        {"available_from", "available_until", "subevent_date_from", "subevent_date_until",
         "benefit_only_apply_to_cheapest_n_matches"},
        {"limit_sales_channels", "sales_channels", "condition_limit_products",
         "benefit_limit_products"})

ListDiscounts == Query({"page", "page_size", "ordering", "active"}, {})

CreateDiscount ==
  Body({"internal_name"},
       {"active", "position", "all_sales_channels", "limit_sales_channels", "available_from",
        "available_until", "subevent_mode", "subevent_date_from", "subevent_date_until",
        "condition_all_products", "condition_limit_products", "condition_apply_to_addons",
        "condition_ignore_voucher_discounted", "condition_min_count", "condition_min_value",
        "benefit_discount_matching_percent", "benefit_only_apply_to_cheapest_n_matches",
        "benefit_same_products", "benefit_limit_products", "benefit_apply_to_addons",
        "benefit_ignore_voucher_discounted"})

UpdateDiscount ==
  Patch({"internal_name", "active", "position", "all_sales_channels", "limit_sales_channels",
         "subevent_mode", "condition_all_products", "condition_limit_products",
         "condition_apply_to_addons", "condition_ignore_voucher_discounted",
         "condition_min_count", "condition_min_value", "benefit_discount_matching_percent",
         "benefit_same_products", "benefit_limit_products", "benefit_apply_to_addons",
         "benefit_ignore_voucher_discounted"},
        {"available_from", "available_until", "subevent_date_from", "subevent_date_until",
         "benefit_only_apply_to_cheapest_n_matches"})

Discounts ==
  LET at == EventPath \o <<"discounts">>
  IN  Crud(at, Number, ListDiscounts, Discount, CreateDiscount, UpdateDiscount)

-----------------------------------------------------------------------------
(* resources/item_meta_properties.rs                                       *)

ItemMetaProperty == Model({"id", "name", "default", "required"}, {"allowed_values"}, {})

CreateItemMetaProperty ==
  Body({"name"}, {"default", "required"}) ++ OfClass({"allowed_values"}, "nullable")

UpdateItemMetaProperty == Patch({"name", "default", "required"}, {"allowed_values"})

ItemMetaProperties ==
  LET at == EventPath \o <<"item_meta_properties">>
  IN  Crud(at, Number, ListParams, ItemMetaProperty, CreateItemMetaProperty, UpdateItemMetaProperty)

-----------------------------------------------------------------------------
(* resources/vouchers.rs                                                   *)

Voucher ==
  Model({"id", "created", "code", "max_usages", "redeemed", "block_quota", "allow_ignore_quota",
         "price_mode", "tag", "comment", "show_hidden_items", "all_addons_included",
         "all_bundles_included", "budget_used"},
        {"min_usages", "valid_until", "value", "item", "variation", "quota", "seat", "subevent",
         "budget"}, {})

ListVouchers ==
  Query({"page", "page_size", "ordering", "code", "search", "max_usages", "redeemed", "active",
         "block_quota", "allow_ignore_quota", "price_mode", "value", "item", "variation", "quota",
         "tag", "subevent"}, {})

CreateVoucher ==
  Body({},
       {"code", "max_usages", "min_usages", "valid_until", "block_quota", "allow_ignore_quota",
        "price_mode", "value", "item", "variation", "quota", "seat", "tag", "comment", "subevent",
        "show_hidden_items", "all_addons_included", "all_bundles_included", "budget"})

UpdateVoucher ==
  Patch({"code", "max_usages", "min_usages", "block_quota", "allow_ignore_quota", "price_mode",
         "tag", "comment", "show_hidden_items", "all_addons_included", "all_bundles_included"},
        {"valid_until", "value", "item", "variation", "quota", "seat", "subevent", "budget"})

Vouchers ==
  LET at == EventPath \o <<"vouchers">>
  IN  Crud(at, Number, ListVouchers, Voucher, CreateVoucher, UpdateVoucher)
        ++ [batch_create |-> Submit(Append(at, "batch_create"), CreateVoucher, Voucher)]

-----------------------------------------------------------------------------
(* resources/waiting_list.rs                                               *)

WaitingListEntry ==
  Model({"id", "created", "email", "item", "locale"},
        {"name", "name_parts", "phone", "voucher", "variation", "subevent"}, {"priority"})

ListWaitingListEntries ==
  Query({"page", "page_size", "ordering", "email", "locale", "has_voucher", "item", "variation",
         "subevent"}, {})

CreateWaitingListEntry ==
  Body({"email", "item"},
       {"name", "name_parts", "phone", "variation", "locale", "subevent", "priority"})

UpdateWaitingListEntry ==
  Patch({"email", "item", "locale", "priority"},
        {"name", "name_parts", "phone", "variation", "subevent"})

WaitingListEntries ==
  LET at == EventPath \o <<"waitinglistentries">>
  IN  Crud(at, Number, ListWaitingListEntries, WaitingListEntry, CreateWaitingListEntry, UpdateWaitingListEntry)
        ++ [send_voucher |-> Submit(at \o <<Number, "send_voucher">>, Nothing, Nothing)]

-----------------------------------------------------------------------------
(* resources/carts.rs                                                      *)

CartPosition ==
  Model({"id", "cart_id", "datetime", "expires", "item", "price"},
        {"variation", "attendee_name", "attendee_email", "voucher", "addon_to", "subevent",
         "includes_tax", "seat"}, {"is_bundled", "answers", "addons", "bundled"})
    ++ OfClass({"attendee_name_parts"}, "nullDefault")

BulkCreateResult == Model({"success"}, {"errors", "data"}, {})

CreateCartPosition ==
  Body({"item", "price"},
       {"cart_id", "variation", "seat", "attendee_name", "attendee_name_parts", "attendee_email",
        "subevent", "expires", "sales_channel", "voucher"})
    ++ OfClass({"addons", "bundled", "answers"}, "list")

CreateCartAddon ==
  Body({"item", "price"},
       {"variation", "attendee_name", "attendee_name_parts", "attendee_email", "subevent"})
    ++ OfClass({"answers"}, "list")

CartPositions ==
  LET at == EventPath \o <<"cartpositions">>
  IN  Lists(at, ListParams, CartPosition)
        ++ Gets(at, Number, CartPosition)
        ++ Creates(at, CreateCartPosition, CartPosition)
        ++ Deletes(at, Number)
        ++ [bulk_create |-> Submit(Append(at, "bulk_create"), CreateCartPosition, BulkCreateResult)]

-----------------------------------------------------------------------------
(* resources/imported_secrets.rs                                           *)

ImportedSecret == Model({"id", "secret", "used"}, {"item", "variation", "subevent"}, {})

CreateImportedSecret == Body({"secret"}, {"used", "item", "variation", "subevent"})

UpdateImportedSecret == Patch({"secret", "used"}, {"item", "variation", "subevent"})

ImportedSecrets ==
  LET at == EventPath \o <<"imported_secrets">>
  IN  Crud(at, Number, ListParams, ImportedSecret, CreateImportedSecret, UpdateImportedSecret)
        ++ [bulk_create |-> Submit(Append(at, "bulk_create"), CreateImportedSecret, ImportedSecret)]

=============================================================================
