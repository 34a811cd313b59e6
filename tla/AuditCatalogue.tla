--------------------------- MODULE AuditCatalogue ---------------------------
(***************************************************************************)
(* The check catalogue (engine/catalog.ts): for every code its category,   *)
(* its severity, its impact, effort and confidence in hundredths, and the  *)
(* strategy that writes its fix, "none" when a person has to.  Titles and  *)
(* explanations are left out.                                              *)
(***************************************************************************)
EXTENDS Integers

TechnicalDefs == {
   <<"technical", "page_noindex", "critical", 100, 20, 95, "none">>,
   <<"technical", "page_5xx", "critical", 100, 60, 80, "none">>,
   <<"technical", "page_404_linked", "high", 60, 20, 80, "repoint_internal_link">>,
   <<"technical", "redirect_chain", "medium", 40, 30, 80, "flatten_redirect">>,
   <<"technical", "redirect_loop", "critical", 100, 40, 80, "none">>,
   <<"technical", "robots_blocks_important", "critical", 100, 20, 80, "none">>,
   <<"technical", "robots_missing", "low", 25, 10, 80, "generate_robots">>,
   <<"technical", "orphan_page", "medium", 50, 30, 80, "add_internal_link">>,
   <<"technical", "deep_page", "low", 30, 30, 80, "add_internal_link">>,
   <<"technical", "no_sitemap", "high", 60, 30, 80, "generate_sitemap">>,
   <<"technical", "sitemap_contains_non_indexable", "medium", 40, 20, 80, "clean_sitemap">>,
   <<"technical", "sitemap_missing_pages", "medium", 35, 20, 80, "generate_sitemap">>,
   <<"technical", "no_https", "critical", 90, 50, 80, "none">>,
   <<"technical", "mixed_content", "high", 50, 30, 80, "none">>,
   <<"technical", "no_lang_attribute", "low", 20, 10, 80, "set_lang">>,
   <<"technical", "canonical_missing", "medium", 40, 20, 80, "add_self_canonical">>,
   <<"technical", "canonical_mismatch", "high", 70, 20, 80, "none">>}

ContentDefs == {
   <<"content", "duplicate_content", "high", 60, 50, 80, "none">>,
   <<"content", "duplicate_title", "medium", 40, 20, 80, "rewrite_title">>,
   <<"content", "duplicate_meta_description", "low", 25, 20, 80, "rewrite_meta">>,
   <<"content", "title_missing", "high", 80, 10, 80, "rewrite_title">>,
   <<"content", "title_too_long", "low", 25, 10, 80, "rewrite_title">>,
   <<"content", "title_too_short", "low", 25, 10, 80, "rewrite_title">>,
   <<"content", "meta_description_missing", "medium", 35, 10, 80, "rewrite_meta">>,
   <<"content", "meta_description_length", "low", 20, 10, 80, "rewrite_meta">>,
   <<"content", "h1_missing", "medium", 40, 10, 80, "add_h1">>,
   <<"content", "h1_multiple", "low", 20, 20, 80, "fix_heading_hierarchy">>,
   <<"content", "heading_hierarchy_broken", "low", 20, 20, 80, "fix_heading_hierarchy">>,
   <<"content", "thin_content", "high", 60, 70, 80, "none">>,
   <<"content", "no_internal_links_out", "medium", 35, 20, 80, "add_internal_link">>,
   <<"content", "content_stale", "medium", 45, 50, 80, "none">>,
   <<"content", "keyword_cannibalisation", "medium", 50, 40, 80, "none">>,
   <<"content", "no_meaningful_headings", "low", 25, 20, 80, "rewrite_headings">>,
   <<"content", "image_alt_missing", "medium", 30, 10, 80, "write_alt_text">>}

PerformanceDefs == {
   <<"performance", "image_legacy_format", "low", 25, 30, 80, "optimise_image">>,
   <<"performance", "image_no_dimensions", "low", 25, 10, 80, "set_image_dimensions">>,
   <<"performance", "image_no_lazy_loading", "low", 20, 10, 80, "set_image_loading">>,
   <<"performance", "slow_response", "high", 55, 50, 80, "none">>,
   <<"performance", "heavy_page", "medium", 40, 50, 80, "none">>,
   <<"performance", "excessive_javascript", "medium", 40, 70, 80, "none">>,
   <<"performance", "render_blocking_resources", "medium", 40, 50, 80, "none">>}

SchemaDefs == {
   <<"schema", "schema_missing", "medium", 45, 30, 80, "generate_schema">>,
   <<"schema", "schema_invalid", "high", 50, 30, 80, "fix_schema">>,
   <<"schema", "schema_missing_required", "medium", 40, 20, 80, "fix_schema">>,
   <<"schema", "schema_contradicts_page", "high", 70, 30, 80, "none">>,
   <<"schema", "no_organization_schema", "medium", 50, 20, 80, "generate_schema">>,
   <<"schema", "no_breadcrumb_schema", "low", 25, 20, 80, "generate_schema">>}

AEODefs == {
   <<"aeo", "ai_crawler_blocked", "high", 70, 20, 80, "update_robots_ai">>,
   <<"aeo", "no_direct_answer", "medium", 50, 40, 80, "add_answer_block">>,
   <<"aeo", "no_citable_facts", "medium", 45, 60, 80, "none">>,
   <<"aeo", "missing_llms_txt", "low", 20, 20, 80, "generate_llms_txt">>,
   <<"aeo", "content_needs_javascript", "critical", 90, 70, 75, "none">>,
   <<"aeo", "meta_needs_javascript", "high", 70, 40, 70, "none">>,
   <<"aeo", "seo_injection_script", "high", 60, 50, 60, "none">>,
   <<"aeo", "no_author_attribution", "medium", 45, 40, 80, "none">>,
   <<"aeo", "entity_unclear", "medium", 40, 30, 80, "generate_schema">>,
   <<"aeo", "no_faq_structure", "low", 30, 20, 80, "generate_schema">>,
   <<"aeo", "content_not_extractable", "high", 80, 70, 80, "none">>}

LocalDefs == {
   <<"local", "nap_inconsistent", "high", 60, 40, 80, "none">>,
   <<"local", "nap_missing", "high", 60, 20, 80, "add_nap">>,
   <<"local", "gbp_incomplete", "high", 60, 30, 80, "update_gbp">>,
   <<"local", "gbp_no_recent_posts", "medium", 35, 20, 80, "draft_gbp_post">>,
   <<"local", "reviews_unanswered", "medium", 40, 20, 80, "draft_review_reply">>,
   <<"local", "missing_location_page", "medium", 50, 60, 80, "draft_location_page">>,
   <<"local", "no_local_schema", "medium", 45, 20, 80, "generate_schema">>,
   <<"local", "citation_missing", "low", 25, 30, 80, "none">>}

OffpageDefs == {
   <<"offpage", "toxic_backlinks", "high", 50, 40, 80, "none">>,
   <<"offpage", "lost_backlinks", "medium", 40, 40, 80, "none">>,
   <<"offpage", "unlinked_mention", "medium", 40, 20, 80, "none">>,
   <<"offpage", "authority_gap", "medium", 55, 80, 80, "none">>,
   <<"offpage", "no_linkable_asset", "medium", 50, 80, 80, "none">>,
   <<"offpage", "backlinks_not_connected", "high", 60, 10, 80, "none">>}

InternationalDefs == {
   <<"international", "hreflang_missing_return", "high", 50, 30, 80, "fix_hreflang">>,
   <<"international", "hreflang_invalid_code", "medium", 35, 20, 80, "fix_hreflang">>,
   <<"international", "no_x_default", "low", 20, 20, 80, "fix_hreflang">>}

EcommerceDefs == {
   <<"ecommerce", "product_schema_incomplete", "high", 60, 30, 80, "fix_schema">>,
   <<"ecommerce", "faceted_nav_crawl_waste", "high", 60, 50, 80, "none">>,
   <<"ecommerce", "no_product_reviews", "medium", 40, 40, 80, "none">>}

UXDefs == {
   <<"ux", "no_clear_cta", "medium", 50, 30, 80, "none">>,
   <<"ux", "intent_mismatch", "high", 70, 60, 80, "none">>,
   <<"ux", "mobile_unfriendly", "high", 70, 50, 80, "add_viewport">>,
   <<"ux", "no_social_preview", "low", 25, 10, 80, "generate_og">>}

ComplianceDefs == {
   <<"compliance", "ymyl_no_credentials", "high", 70, 40, 80, "none">>,
   <<"compliance", "unsubstantiated_claim", "high", 50, 20, 80, "none">>,
   <<"compliance", "missing_disclosure", "medium", 50, 10, 80, "add_disclosure">>,
   <<"compliance", "no_privacy_policy", "medium", 35, 20, 80, "none">>}

AnalyticsDefs == {
   <<"analytics", "analytics_missing", "high", 60, 20, 80, "none">>,
   <<"analytics", "gsc_not_connected", "high", 80, 10, 80, "none">>,
   <<"analytics", "ga4_not_connected", "medium", 50, 10, 80, "none">>,
   <<"analytics", "conversion_tracking_missing", "medium", 50, 40, 80, "none">>}

AllDefs == TechnicalDefs \cup ContentDefs \cup PerformanceDefs \cup SchemaDefs \cup
           AEODefs \cup LocalDefs \cup OffpageDefs \cup InternationalDefs \cup
           EcommerceDefs \cup UXDefs \cup ComplianceDefs \cup AnalyticsDefs

Codes == {d[2] : d \in AllDefs}

\* The catalogue by code.
CATALOG == [c \in Codes |->
              LET d == CHOOSE x \in AllDefs : x[2] = c
              IN [category |-> d[1], severity |-> d[3], impact |-> d[4], effort |-> d[5],
                  confidence |-> d[6], strategy |-> d[7]]]

=============================================================================
