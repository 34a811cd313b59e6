------------------------------ MODULE AuditFixes ------------------------------
(***************************************************************************)
(* The fixes an audit writes for its findings (engine/fixes.ts) and the    *)
(* gate that decides which of them are kept (fixIsComplete, run.ts).  Of a *)
(* fix's text the model keeps whether there is any, whether it parses as   *)
(* JSON, and the placeholders in it: "REPLACE:" with a hint, or the bare   *)
(* word.                                                                   *)
(***************************************************************************)
EXTENDS AuditChecks

Text(kind, label, risk, marks) ==
  [kind |-> kind, label |-> label, risk |-> risk, reversible |-> TRUE,
   empty |-> FALSE, marks |-> marks, parses |-> kind # "jsonld"]
NoFix == [kind |-> "none"]

\* The page a finding's fix is written from: its own, or the first it names.
PageOf(finding, pages) ==
  LET named == IF finding.url # "none" THEN {p \in pages : p.url = finding.url}
               ELSE {p \in pages : p.url \in finding.affected}
  IN {p \in named : \A q \in named : p.order <= q.order}
Written(finding, pages, fix) ==
  IF \E p \in PageOf(finding, pages) : HasSignals(p) THEN fix ELSE NoFix

\* The pairs of question and answer a page really has.
faqPairsForPage(p) == IF p.faqPairs >= 2 THEN p.faqPairs
                      ELSE IF p.paragraphs > 0 THEN Min({p.questions, 10}) ELSE 0

\* The markup of a page, of the organisation for the homepage and the entity
\* codes; a local business's address, and an article's author when the page
\* names none, are left to fill in.  All of it is wrapped in a script
\* element, so none of it is JSON.
schemaFix(finding, pages, options) ==
  LET named == PageOf(finding, pages)
      source == IF named # {} THEN named ELSE {p \in pages : p.depth = 0}
      local == options.local \/ options.locations # {}
      Markup(label, marks) == Text("jsonld", label, "low", marks)
  IN IF source = {} THEN NoFix
     ELSE LET p == CHOOSE q \in source : TRUE
          IN IF finding.code \in {"no_organization_schema", "entity_unclear"} \/ p.depth = 0
             THEN Markup("organization", IF local THEN {"REPLACE:"} ELSE {})
             ELSE CASE finding.code = "no_faq_structure" ->
                         IF faqPairsForPage(p) < 2 THEN NoFix ELSE Markup("faq", {})
                    [] finding.code = "no_breadcrumb_schema" -> Markup("breadcrumb", {})
                    [] finding.code = "no_local_schema" -> Markup("local", {"REPLACE:", "REPLACE"})
                    [] OTHER -> Markup("page", IF p.path = "editorial" /\ ~p.author
                                               THEN {"REPLACE:"} ELSE {})

\* What can be said of a missing property from the page itself.
suggestValue(key, p) ==
  CASE key \in {"name", "headline", "title", "datePublished", "uploadDate", "datePosted",
                "description", "url", "provider", "hiringOrganization"} -> {}
    [] key \in {"image", "thumbnailUrl"} -> IF p.images > 0 THEN {} ELSE {"REPLACE:"}
    [] key = "author" -> IF p.author THEN {} ELSE {"REPLACE:"}
    [] key = "address" -> {"REPLACE"}
    [] OTHER -> {"REPLACE:"}

\* The existing markup with what it lacks filled in.
schemaPatchFix(finding, pages) ==
  LET graph == buildSchemaGraph(pages)
      p == CHOOSE q \in PageOf(finding, pages) : TRUE
      lacking == SelectSeq(p.nodes, LAMBDA n : Incomplete(n, graph))
      missing == IF lacking = <<>> THEN {} ELSE Missing(lacking[1], graph)
  IN Written(finding, pages,
       Text("jsonld", "patch", "low",
            (IF finding.code = "product_schema_incomplete" THEN {"REPLACE:"} ELSE {})
              \cup UNION {suggestValue(k, p) : k \in missing}))

\* Links from pages near the homepage to each target the crawl read; a plan
\* none of whose targets was read is empty.
linkPlanFix(finding, pages) ==
  LET targets == IF finding.url # "none" THEN {finding.url} ELSE finding.affected
      read == {p \in pages : p.url \in targets /\ HasSignals(p)}
  IN [Text("link_plan", "links", "low", {}) EXCEPT !.empty = (read = {})]

\* One generator per strategy; five of the catalogue's strategies have none.
generateFix(finding, pages, options) ==
  LET strategy == CATALOG[finding.code].strategy
  IN CASE strategy \in {"rewrite_title", "rewrite_meta"} ->
            Written(finding, pages, Text("meta", strategy, "low", {}))
       [] strategy \in {"add_h1", "generate_og", "fix_heading_hierarchy", "set_image_loading"} ->
            Written(finding, pages, Text("html", strategy, "low", {}))
       [] strategy = "set_image_dimensions" ->
            Written(finding, pages, Text("html", strategy, "low", {"REPLACE"}))
       [] strategy \in {"add_self_canonical", "set_lang"} ->
            IF PageOf(finding, pages) = {} THEN NoFix ELSE Text("html", strategy, "low", {})
       [] strategy = "add_viewport" -> Text("html", strategy, "low", {})
       [] strategy = "generate_schema" -> schemaFix(finding, pages, options)
       [] strategy = "fix_schema" -> schemaPatchFix(finding, pages)
       [] strategy \in {"generate_sitemap", "clean_sitemap", "generate_llms_txt"} ->
            Text("file", strategy, "low", {})
       [] strategy \in {"generate_robots", "update_robots_ai"} ->
            Text("file", "robots.txt", "high", {})
       [] strategy \in {"write_alt_text", "rewrite_headings"} ->
            Written(finding, pages, Text("copy", strategy, "low", {}))
       [] strategy = "add_disclosure" -> Text("copy", strategy, "low", {})
       [] strategy = "draft_location_page" -> Text("copy", strategy, "medium", {})
       [] strategy = "add_answer_block" ->
            Written(finding, pages, Text("copy", strategy, "medium", {"REPLACE:"}))
       [] strategy = "add_nap" -> Text("html", strategy, "low", {"REPLACE:"})
       [] strategy = "add_internal_link" -> linkPlanFix(finding, pages)
       [] strategy = "repoint_internal_link" -> Text("redirect", strategy, "low", {})
       [] strategy = "flatten_redirect" -> Text("redirect", strategy, "medium", {})
       [] OTHER -> NoFix

\* Mutant: the placeholders are not looked for.
fixIsCompleteUnread(fix) == fix # NoFix /\ ~fix.empty /\ fix.parses

\* The gate: some text, no placeholder with a hint, and markup that parses.
fixIsComplete(fix) ==
  /\ fix # NoFix
  /\ ~fix.empty
  /\ "REPLACE:" \notin fix.marks
  /\ fix.kind = "jsonld" => fix.parses

\* The findings with the fixes that passed the gate.
WithFixes(findings, pages, options) ==
  {[id |-> f.id, code |-> f.code, url |-> f.url, affected |-> f.affected,
    severity |-> f.severity, category |-> f.category, priority |-> f.priority,
    fix |-> LET fix == generateFix(f, pages, options)
            IN IF fixIsComplete(fix) THEN fix ELSE NoFix] : f \in findings}
=============================================================================
