--------------------------- MODULE MCMissionEngine ---------------------------
(* Four steps in three waves: crawl and facts side by side, then audit,    *)
(* then report.  facts may fail, crawl may not, audit goes to the resolver *)
(* and report fails without stopping anything.                             *)
EXTENDS MissionEngine

CONSTANTS crawl, audit, facts, report

MCSteps == {crawl, audit, facts, report}
MCNeeds == [s \in MCSteps |->
  CASE s \in {crawl, facts} -> {} [] s = audit -> {crawl} [] s = report -> {audit, facts}]
MCOnError == [s \in MCSteps |->
  CASE s \in {crawl, facts} -> "fail" [] s = audit -> "resolve" [] s = report -> "retry"]
MCOptional == {facts}
MCConditional == {facts}
=============================================================================
