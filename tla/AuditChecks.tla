----------------------------- MODULE AuditChecks -----------------------------
(***************************************************************************)
(* The checks an audit runs over a crawl (engine/checks.ts): what each     *)
(* page and the site as a whole is reported for, and how the drafts become *)
(* findings.  A page is a record of what the parser reads from it, the     *)
(* patterns it matches in prose (advice, claims, disclosures) as Booleans. *)
(***************************************************************************)
EXTENDS AuditCatalogue, FiniteSets, Sequences, SequencesExt

When(condition, code) == IF condition THEN {code} ELSE {}

\* How a fetch of the page ended.  Only an answer below 400 with HTML in it
\* has signals; a page that was blocked, looped or failed has no status.
Outcomes == {"html", "asset", "denied", "robots", "loop", "5xx", "gone", "failed"}
HasSignals(p) == p.fetch = "html"
Fetched(p) == p.fetch \notin {"robots", "loop", "failed"}
isIndexable(p) == p.fetch \in {"html", "asset"} /\ ~p.noindex

\* A node of a page's structured data, and a page: how it was reached and
\* answered, and what the parser reads from it.
Node == [type : STRING, id : STRING, has : SUBSET STRING, claim : STRING,
         merchant : BOOLEAN, identified : BOOLEAN, sameAs : BOOLEAN, rated : BOOLEAN]
Page == [url : STRING, order : Nat, depth : Nat, fetch : Outcomes, inlinks : SUBSET STRING,
         hops : Nat, https : BOOLEAN, noindex : BOOLEAN, canonical : STRING, lang : BOOLEAN,
         title : STRING, titleLength : Nat, head : STRING, description : STRING,
         descriptionLength : Nat, h1 : Nat, skipsLevel : BOOLEAN, headings : Nat, generic : Nat,
         words : Nat, scripts : Nat, sheets : Nat, bytes : Nat, inlineBytes : Nat,
         paragraphs : Nat, path : STRING, links : SUBSET STRING, monthsOld : Nat, noAlt : Nat,
         noDimensions : Nat, legacyImages : Nat, eager : Nat, elapsedMs : Nat,
         insecureImages : BOOLEAN, viewport : BOOLEAN, preview : BOOLEAN, nodes : Seq(Node),
         schemaErrors : BOOLEAN, microdata : BOOLEAN, asksInHeading : BOOLEAN,
         asksInText : BOOLEAN, answersFirst : BOOLEAN, figures : Nat, citations : Nat,
         questions : Nat, author : BOOLEAN, ctas : Nat, ymyl : BOOLEAN, advises : BOOLEAN,
         superlative : BOOLEAN, affiliate : BOOLEAN, disclosed : BOOLEAN,
         hreflang : SUBSET STRING, injector : BOOLEAN, analytics : BOOLEAN, hash : STRING,
         privacy : BOOLEAN, phone : BOOLEAN, address : BOOLEAN, targets : STRING,
         citable : BOOLEAN, faqPairs : Nat, images : Nat]

\* The types of the page's structured data.
jsonLdTypes(p) == {n.type : n \in ToSet(p.nodes)}

Required == [Product |-> {"name", "image", "offers"},
             Article |-> {"headline", "datePublished"},
             BlogPosting |-> {"headline", "datePublished"},
             NewsArticle |-> {"headline", "datePublished", "author"},
             Recipe |-> {"name", "recipeIngredient", "recipeInstructions"},
             Event |-> {"name", "startDate", "location"},
             JobPosting |-> {"title", "datePosted", "hiringOrganization"},
             LocalBusiness |-> {"name", "address"}, Organization |-> {"name", "url"},
             FAQPage |-> {"mainEntity"},
             VideoObject |-> {"name", "thumbnailUrl", "uploadDate"},
             Course |-> {"name", "description", "provider"},
             SoftwareApplication |-> {"name", "applicationCategory"}]
ContentBearing == {"Article", "BlogPosting", "NewsArticle", "Product", "Recipe", "HowTo",
                   "Event", "JobPosting", "VideoObject", "QAPage"}

\* Every named node of the site, by its richest definition.
buildSchemaGraph(pages) ==
  LET named == {n \in UNION {ToSet(p.nodes) : p \in {q \in pages : HasSignals(q)}} : n.id # "none"}
  IN [i \in {n.id : n \in named} |->
        CHOOSE n \in {m \in named : m.id = i} :
          \A m \in named : m.id = i => Cardinality(m.has) <= Cardinality(n.has)]

\* What a node lacks of its type, once its reference is resolved.
Missing(n, graph) ==
  Required[n.type] \ (n.has \cup (IF n.id \in DOMAIN graph THEN graph[n.id].has ELSE {}))

\* A bare reference to a node of the site is complete by design.
Incomplete(n, graph) ==
  /\ n.type \in DOMAIN Required
  /\ Missing(n, graph) # {}
  /\ n.id \in DOMAIN graph => Missing(n, graph) # Required[n.type]

\* Of the nodes that are the page, the first with a headline is compared with it.
schemaRequirements(p, graph) ==
  LET nodes == ToSet(p.nodes)
      Claims(n) == n.type \in ContentBearing /\ n.claim # "none"
      claims == SelectSeq(p.nodes, Claims)
  IN UNION {When(\E n \in nodes : Incomplete(n, graph), "schema_missing_required"),
            When(\E n \in nodes : /\ n.type = "Product"
                                  /\ Incomplete(n, graph) \/ Missing(n, graph) = {}
                                  /\ ~n.merchant \/ ~n.identified,
                 "product_schema_incomplete"),
            When(\/ "FAQPage" \in jsonLdTypes(p) /\ p.questions = 0 /\ ~p.asksInText
                 \/ p.words > 0 /\ claims # <<>> /\ claims[1].claim = "not on the page",
                 "schema_contradicts_page")}

\* The annotations of a page in several languages.
hreflangChecks(p) ==
  IF p.hreflang = {} THEN {}
  ELSE UNION {When("invalid" \in p.hreflang, "hreflang_invalid_code"),
              When("x-default" \notin p.hreflang, "no_x_default"),
              When("self" \notin p.hreflang, "hreflang_missing_return")}

\* A shell without words, and a page its scripts outweigh.
Shell(p) == p.words < 50 /\ p.scripts >= 1 /\ p.bytes >= 3000
ScriptHeavy(p) == /\ p.words < 150 /\ p.paragraphs <= 1 /\ p.scripts >= 3
                  /\ p.inlineBytes + p.scripts * 2000 > 30000

\* What of the page exists before its scripts run.
javascriptChecks(p) ==
  UNION {When(Shell(p) \/ ScriptHeavy(p), "content_needs_javascript"),
         When(p.title = "none" /\ p.words > 100 /\ p.scripts > 0, "meta_needs_javascript"),
         When(p.injector, "seo_injection_script")}

\* Headings and copy.
ContentCodes(p) ==
  UNION {When(p.title = "none", "title_missing"),
         When(p.title # "none" /\ p.titleLength > 65, "title_too_long"),
         When(p.title # "none" /\ p.titleLength < 25, "title_too_short"),
         When(p.description = "none", "meta_description_missing"),
         When(p.description # "none" /\ (p.descriptionLength > 170 \/ p.descriptionLength < 70),
              "meta_description_length"),
         When(p.h1 = 0, "h1_missing"), When(p.h1 > 1, "h1_multiple"),
         When(p.skipsLevel, "heading_hierarchy_broken"),
         When(p.headings >= 4 /\ p.generic >= 2, "no_meaningful_headings"),
         When(/\ p.words < 250 /\ p.path # "utility" /\ isIndexable(p)
              /\ p.words < 60 /\ p.scripts > 3, "content_not_extractable"),
         When(/\ p.words < 250 /\ p.path # "utility" /\ isIndexable(p)
              /\ ~(p.words < 60 /\ p.scripts > 3), "thin_content"),
         When(p.links = {} /\ p.words > 100, "no_internal_links_out"),
         When(p.monthsOld > 18 /\ p.words > 300, "content_stale")}

\* Images, weight and speed.
WeightCodes(p) ==
  UNION {When(p.noAlt > 0, "image_alt_missing"),
         When(p.noDimensions >= 3, "image_no_dimensions"),
         When(p.legacyImages >= 4, "image_legacy_format"),
         When(p.eager >= 5, "image_no_lazy_loading"),
         When(p.elapsedMs > 1800, "slow_response"), When(p.bytes > 2500000, "heavy_page"),
         When(p.inlineBytes > 400000, "excessive_javascript"),
         When(p.sheets + p.scripts > 25, "render_blocking_resources"),
         When(p.https /\ p.insecureImages, "mixed_content"),
         When(~p.viewport, "mobile_unfriendly"), When(~p.preview, "no_social_preview")}

\* Structured data, answers, conversion, compliance and measurement.
MeaningCodes(p, graph) ==
  UNION {When(p.schemaErrors, "schema_invalid"),
         When(p.nodes = <<>> /\ ~p.microdata /\ p.words > 150, "schema_missing"),
         schemaRequirements(p, graph),
         When("BreadcrumbList" \notin jsonLdTypes(p) /\ p.depth >= 2, "no_breadcrumb_schema"),
         When(p.asksInHeading /\ ~p.answersFirst, "no_direct_answer"),
         When(p.words > 400 /\ p.figures < 2 /\ p.citations < 1, "no_citable_facts"),
         When(p.questions >= 3 /\ "FAQPage" \notin jsonLdTypes(p), "no_faq_structure"),
         When(p.words > 600 /\ p.path = "editorial" /\ ~p.author, "no_author_attribution"),
         When(p.ctas = 0 /\ p.words > 150 /\ p.path # "utility", "no_clear_cta"),
         When(p.path # "legal" /\ p.ymyl /\ p.advises /\ ~p.author /\ p.words > 400,
              "ymyl_no_credentials"),
         When(p.superlative /\ p.citations = 0, "unsubstantiated_claim"),
         When(p.affiliate /\ ~p.disclosed, "missing_disclosure"),
         When(p.path = "facet" /\ isIndexable(p) /\ p.canonical # "query",
              "faceted_nav_crawl_waste"),
         hreflangChecks(p), javascriptChecks(p),
         When(p.depth = 0 /\ ~p.analytics, "analytics_missing")}

\* One page's codes: a page that was not read says only why.
pageChecks(p, graph) ==
  CASE p.fetch = "robots" -> {"robots_blocks_important"}
    [] p.fetch = "loop" -> {"redirect_loop"}
    [] p.fetch \in {"5xx", "failed"} -> {"page_5xx"}
    [] p.fetch = "gone" -> When(p.inlinks # {}, "page_404_linked")
    [] p.fetch \in {"asset", "denied"} -> {}
    [] OTHER -> UNION {When(p.hops > 1, "redirect_chain"), When(~p.https, "no_https"),
                       When(p.noindex, "page_noindex"),
                       When(p.canonical = "none", "canonical_missing"),
                       When(p.canonical = "other", "canonical_mismatch"),
                       When(p.depth > 4, "deep_page"), When(~p.lang, "no_lang_attribute"),
                       ContentCodes(p), WeightCodes(p), MeaningCodes(p, graph)}

\* A fetch that brought nothing, and a page that only leans on its scripts,
\* are reported one step milder than the catalogue says.
severityOverride(p, code) ==
  IF \/ code = "page_5xx" /\ p.fetch = "failed"
     \/ code = "content_needs_javascript" /\ ~Shell(p)
  THEN "high" ELSE CATALOG[code].severity

-----------------------------------------------------------------------------
\* A draft names a page or, with url "none", the site.
SiteDraft(code, affected) ==
  [code |-> code, url |-> "none", severity |-> CATALOG[code].severity, affected |-> affected,
   at |-> 0]
SiteWhen(condition, code, affected) == IF condition THEN {SiteDraft(code, affected)} ELSE {}

\* The groups of pages that share a key, "none" counting for nothing.
Groups(key) ==
  {g \in {{p \in DOMAIN key : key[p] = k} : k \in {key[p] : p \in DOMAIN key} \ {"none"}} :
     Cardinality(g) >= 2}
Urls(pages) == {p.url : p \in pages}

duplicateChecks(indexable) ==
  LET pages == {p \in indexable : HasSignals(p)}
      hash == [p \in pages |-> IF p.words > 120 THEN p.hash ELSE "none"]
      title == [p \in pages |-> p.title]
      description == [p \in pages |-> p.description]
      head == [p \in pages |-> IF p.title = "none" THEN "none" ELSE p.head]
      Drafts(code, groups) == {[SiteDraft(code, Urls(g)) EXCEPT !.at = Min({p.order : p \in g})] :
                                 g \in groups}
  IN UNION {Drafts("duplicate_content", Groups(hash)),
            Drafts("duplicate_title", Groups(title)),
            Drafts("duplicate_meta_description", Groups(description)),
            Drafts("keyword_cannibalisation",
                   {g \in Groups(head) :
                      Cardinality({p.hash : p \in g}) = Cardinality(g)})}

\* The pages nothing links to: those the crawl reached without a link, and
\* those the sitemap declares that no page it read links to.
Orphans(pages, files, base) ==
  LET linked == UNION {p.links : p \in {q \in pages : HasSignals(q)}}
      reached == {p \in pages : isIndexable(p) /\ p.depth > 0 /\ p.inlinks = {}}
  IN (Urls(reached) \cup (files.entries \ linked)) \ {base}

OrgTypes == {"Organization", "LocalBusiness", "Corporation", "OnlineBusiness",
             "ProfessionalService", "Store", "Restaurant", "MedicalBusiness", "LegalService"}

\* The sitemap, the crawlers and the brand's entity.
DiscoveryDrafts(pages, files, base) ==
  LET indexable == {p \in pages : isIndexable(p)}
      bad == files.entries \cap Urls(pages \ indexable)
      unlisted == {p \in indexable : p.url \notin files.entries}
      home == {p \in pages : p.depth = 0 /\ HasSignals(p)}
      nodes == UNION {ToSet(p.nodes) : p \in home}
      OfHome(drafts) == {[d EXCEPT !.url = base] : d \in drafts}
  IN UNION {SiteWhen(~files.robots, "robots_missing", {base}),
            SiteWhen(~files.sitemap, "no_sitemap", {base}),
            SiteWhen(files.sitemap /\ bad # {}, "sitemap_contains_non_indexable", bad),
            SiteWhen(files.sitemap /\ files.entries # {} /\ Cardinality(unlisted) >= 3,
                     "sitemap_missing_pages", Urls(unlisted)),
            SiteWhen(files.blocksAi, "ai_crawler_blocked", {base}),
            SiteWhen(~files.llms, "missing_llms_txt", {base}),
            OfHome(SiteWhen({n.type : n \in nodes} \cap OrgTypes = {}, "no_organization_schema",
                            {base})),
            OfHome(SiteWhen(\A n \in nodes : ~n.sameAs, "entity_unclear", {base}))}

\* The site's business: local presence, authority, products.
BusinessDrafts(pages, options, base) ==
  LET fetched == {p \in pages : Fetched(p)}
      read == {p \in pages : HasSignals(p)}
      local == options.local \/ options.locations # {}
      products == {p \in read : "Product" \in jsonLdTypes(p)}
      unreviewed == {p \in products : \A n \in ToSet(p.nodes) : ~n.rated}
  IN UNION {SiteWhen(\A p \in fetched : ~p.privacy, "no_privacy_policy", {base}),
            SiteWhen(local /\ \A p \in read : jsonLdTypes(p) \cap OrgTypes = {},
                     "no_local_schema", {base}),
            SiteWhen(local /\ ~(/\ \E p \in read : p.phone
                                /\ \E p \in read : p.address), "nap_missing", {base}),
            SiteWhen(\E l \in options.locations : \A p \in fetched : p.targets # l,
                     "missing_location_page", {base}),
            SiteWhen(TRUE, "backlinks_not_connected", {base}),
            SiteWhen(/\ \A p \in read : ~p.citable /\ p.words <= 1200
                     /\ Cardinality(fetched) > 4, "no_linkable_asset", {base}),
            SiteWhen(/\ options.ecommerce \/ Cardinality(products) >= 2
                     /\ unreviewed # {}, "no_product_reviews", Urls(unreviewed))}

siteChecks(pages, files, options, base) ==
  UNION {DiscoveryDrafts(pages, files, base),
         duplicateChecks({p \in pages : isIndexable(p)}),
         SiteWhen(Orphans(pages, files, base) # {}, "orphan_page",
                  Orphans(pages, files, base)),
         BusinessDrafts(pages, options, base)}

runChecks(pages, files, options, base) ==
  LET graph == buildSchemaGraph(pages)
  IN siteChecks(pages, files, options, base) \cup
     UNION {{[code |-> c, url |-> p.url, severity |-> severityOverride(p, c),
              affected |-> {p.url}, at |-> 0] : c \in pageChecks(p, graph)} : p \in pages}

\* What only a connection can tell.
ConnectionDrafts(connected, options, base) ==
  UNION {SiteWhen("gsc" \notin connected, "gsc_not_connected", {base}),
         SiteWhen("ga4" \notin connected, "ga4_not_connected", {base}),
         SiteWhen("gbp" \notin connected /\ (options.local \/ options.locations # {}),
                  "gbp_incomplete", {base})}

-----------------------------------------------------------------------------
\* Mutant: the severity is part of a finding's identity.
fingerprintBySeverity(d) == <<d.code, d.url, d.severity>>

\* A finding is known by its code and its page: drafts that share them are one
\* finding, over all the pages they name.  The hash of the two is taken as
\* one to one.
fingerprint(d) == <<d.code, d.url>>

\* In tenths of a point: impact by confidence over effort, and the breadth.
priorityOf(def, affected) ==
  LET points == def.impact * def.confidence * (50 + Min({affected, 50})) * 24
      per == 1000 * Max({def.effort, 5})
  IN Min({1000, (2 * points + per) \div (2 * per)})

\* The severity and the priority are those of the first draft.
materialise(drafts) ==
  {LET same == {d \in drafts : fingerprint(d) = i}
       first == CHOOSE d \in same : \A e \in same : d.at <= e.at
   IN [id |-> i, code |-> i[1], url |-> i[2], affected |-> UNION {d.affected : d \in same},
       severity |-> first.severity, category |-> CATALOG[i[1]].category,
       priority |-> priorityOf(CATALOG[i[1]], Cardinality(first.affected))]
   : i \in {fingerprint(d) : d \in drafts}}
=============================================================================
