----------------------------- MODULE AuditReview -----------------------------
(***************************************************************************)
(* What a person is shown of an audit: the approvals its fixes ask for     *)
(* (lib/store.ts), the batches they are grouped in (engine/batches.ts),    *)
(* the difference from the run before (engine/diff.ts) and the stage the   *)
(* programme is at (engine/progress.ts).                                   *)
(***************************************************************************)
EXTENDS AuditFixes, AuditScores

riskOf(f) ==
  CASE f.fix.label = "robots.txt" -> "critical"
    [] f.fix.label # "robots.txt" /\ (\/ Cardinality(f.affected) > 20
                                      \/ f.fix.kind \in {"redirect", "file"}) -> "high"
    [] Cardinality(f.affected) <= 20 /\ f.fix.kind = "copy" -> "medium"
    [] OTHER -> f.fix.risk

AUTONOMY_FLOOR == [low |-> {"assist", "operate", "autopilot"},
                   medium |-> {"operate", "autopilot"}, high |-> {"autopilot"},
                   critical |-> {}]

autoApproves(risk, autonomy, kind) ==
  kind \notin {"content", "outreach"} /\ autonomy \in AUTONOMY_FLOOR[risk]

\* One approval for each finding with a fix, and whether it carries a time at
\* which it would be approved without a person.
approvalsFromResult(findings, autonomy) ==
  {[id |-> f.id, status |-> "pending", risk |-> riskOf(f), fix |-> f.fix,
    timed |-> autoApproves(riskOf(f), autonomy, "fix")] : f \in {g \in findings : g.fix # NoFix}}

-----------------------------------------------------------------------------
\* Mutant: only what cannot be undone is read on its own.
isStructuralReversible(fix) == ~fix.reversible

isStructural(fix) == ~fix.reversible \/ fix.risk \in {"critical", "high"}

EDITORIAL == {"no_direct_answer", "no_citable_facts", "thin_content", "no_meaningful_headings",
              "heading_hierarchy_broken", "missing_location_page", "nap_missing",
              "no_clear_cta", "intent_mismatch", "unsubstantiated_claim",
              "ymyl_no_credentials"}
ROOT_FILES == {"no_sitemap", "missing_llms_txt"}

\* The decision a finding belongs to.
BatchOf(f) ==
  CASE f.fix = NoFix -> <<"manual">>
    [] f.fix # NoFix /\ isStructural(f.fix) -> <<"structural", f.id>>
    [] f.fix # NoFix /\ ~isStructural(f.fix) /\ f.code \in ROOT_FILES -> <<"root", f.code>>
    [] f.fix # NoFix /\ ~isStructural(f.fix) /\ f.code \in EDITORIAL -> <<"editorial">>
    [] OTHER -> IF CATALOG[f.code].confidence < 80 THEN <<"single", f.id>>
                ELSE <<"mechanical", f.fix.kind>>

\* The batches, and those one click may answer.
buildBatches(findings) ==
  {[id |-> b, batchable |-> b[1] \in {"root", "mechanical"},
    findings |-> {f \in findings : BatchOf(f) = b}] : b \in {BatchOf(f) : f \in findings}}

-----------------------------------------------------------------------------
SEVERITY_RANK == [info |-> 0, low |-> 1, medium |-> 2, high |-> 3, critical |-> 4]

\* Two runs compared by the findings' ids and the pages' addresses.  The
\* baseline of a first run is itself.
diffRuns(current, previous) ==
  LET Ids(run) == {f.id : f \in run.findings}
      Before(f) == CHOOSE g \in previous.findings : g.id = f.id
      both == {f \in current.findings : f.id \in Ids(previous)}
  IN [fixed |-> Ids(previous) \ Ids(current),
      appeared |-> Ids(current) \ Ids(previous),
      worsened |-> {f.id : f \in {g \in both : SEVERITY_RANK[g.severity]
                                                 > SEVERITY_RANK[Before(g).severity]}},
      added |-> Urls(current.pages) \ Urls(previous.pages),
      removed |-> Urls(previous.pages) \ Urls(current.pages),
      health |-> current.scores.health - previous.scores.health]

-----------------------------------------------------------------------------
Stages == <<"crawlable", "understood", "answerable", "competitive", "known", "compounding">>

\* Mutant: pages that answer with an error are left to another stage.
STAGE_CODES_NoErrors(stage, f) ==
  CASE stage = "crawlable" -> f.code \in {"page_noindex", "robots_blocks_important"}
    [] stage = "compounding" -> FALSE
    [] OTHER -> f.category \in {"schema", "aeo", "content"}

\* The findings of a stage, by the codes the table lists for it.
STAGE_CODES(stage, f) ==
  CASE stage = "crawlable" ->
         f.code \in {"page_noindex", "robots_blocks_important", "redirect_loop", "page_5xx",
                     "page_404_linked", "canonical_mismatch", "sitemap_missing",
                     "noindex_in_sitemap", "orphan_page", "content_needs_javascript"}
    [] stage = "understood" ->
         \/ f.category = "schema"
         \/ f.code \in {"title_missing", "title_too_long", "title_too_short",
                        "meta_description_missing", "h1_missing", "heading_skip",
                        "image_alt_missing", "entity_unclear"}
    [] stage = "answerable" -> f.category = "aeo"
    [] stage = "competitive" ->
         /\ f.category = "content"
         /\ f.code \notin {"title_missing", "title_too_long", "title_too_short"}
    [] stage = "known" -> f.category \in {"offpage", "local"}
    [] stage = "compounding" -> FALSE

\* The status of a stage.  Every finding of a run is open, so that the first
\* three are done only with nothing of theirs found.
StageStatus(stage, findings, input) ==
  LET own == {f \in findings : STAGE_CODES(stage, f)}
      Of(tenths) == CASE tenths >= 20 -> "done" [] tenths \in 1..19 -> "in_progress"
                      [] OTHER -> "not_started"
  IN CASE stage = "competitive" ->
            IF ~input.hasSearchData THEN "blocked"
            ELSE IF own = {} THEN "done" ELSE "in_progress"
       [] stage = "known" -> Of(input.mentionsTracked + input.linksVerified)
       [] stage = "compounding" ->
            Of((IF input.scheduled THEN 10 ELSE 0) + Min({10, 5 * input.cleanRuns}))
       [] OTHER -> IF own = {} THEN "done" ELSE "in_progress"

\* The programme: its stages, and the first that is neither done nor blocked.
assessProgramme(findings, input) ==
  LET status == [s \in ToSet(Stages) |-> StageStatus(s, findings, input)]
      open == SelectSeq(Stages, LAMBDA s : status[s] \notin {"done", "blocked"})
  IN [status |-> status, current |-> IF open = <<>> THEN "compounding" ELSE open[1]]

\* What is worth telling: a stage that became done, or is not any more.
milestonesBetween(before, after) ==
  {<<"stage_complete", s>> : s \in {t \in ToSet(Stages) :
                                      before.status[t] # "done" /\ after.status[t] = "done"}}
  \cup {<<"regression", s>> : s \in {t \in ToSet(Stages) :
                                      before.status[t] = "done" /\ after.status[t] # "done"}}
=============================================================================
