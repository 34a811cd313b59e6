------------------------------- MODULE AuditRun -------------------------------
(***************************************************************************)
(* A site, its owner and its audits.  The owner edits pages; a run reads   *)
(* what it can of the site, checks it, writes and gates the fixes, scores  *)
(* the result, compares it with the run before and brings the approval     *)
(* queue up to date (engine/run.ts, lib/runner.ts); a person decides.  How *)
(* a crawl comes to read some pages and not others is module SiteCrawl's;  *)
(* here each page but the homepage is read, fails or is left unread.       *)
(***************************************************************************)
EXTENDS AuditReview

CONSTANTS Pages,        \* the addresses of the site
          Base,         \* its homepage
          Variants,     \* what a page may hold: a function to page records
          Sites,        \* the sites a behaviour may start from: [Pages -> DOMAIN Variants]
          Files,        \* robots.txt, sitemap and llms.txt as the crawl finds them
          Options,      \* the business the site was added as
          Autonomy,     \* the level of autonomy the owner chose
          MaxRuns, MaxEdits, MaxDecisions

ASSUME AuditAssumption ==
  /\ Base \in Pages
  /\ \A v \in DOMAIN Variants : Variants[v] \in Page
  /\ Sites \subseteq [Pages -> DOMAIN Variants]
  /\ Autonomy \in {"assist", "operate", "autopilot"}
  /\ {MaxRuns, MaxEdits, MaxDecisions} \subseteq Nat

VARIABLES site,       \* what each page holds now
          result,     \* the latest result: findings, pages, scores, coverage
          diff,       \* how it differs from the one before
          approvals,  \* by finding: what was asked about it, and the answer
          programme,  \* the stages as last shown
          told,       \* the milestones of the latest showing
          runs, edits, decisions

auditVars == <<site, result, diff, approvals, programme, told, runs, edits, decisions>>

NoResult == [findings |-> {}, pages |-> {}, scores |-> [health |-> 0], coverage |-> <<>>]
NoDiff == [fixed |-> {}, appeared |-> {}, worsened |-> {}]
NoProgramme == [status |-> <<>>, current |-> "none"]

-----------------------------------------------------------------------------
\* What a crawl that ended so has of each page: its content where it was
\* read, only its address where the fetch failed.
Readings == {r \in [Pages -> {"read", "failed", "unread"}] : r[Base] = "read"}
Order == CHOOSE o \in [Pages -> 1..Cardinality(Pages)] :
           o[Base] = 1 /\ \A p, q \in Pages : o[p] = o[q] => p = q
Crawled(reading) ==
  LET content(u) == Variants[site[u]]
      linking(u) == {v \in Pages \ {u} : reading[v] = "read" /\ HasSignals(content(v))
                                          /\ u \in content(v).links}
  IN {[content(u) EXCEPT !.url = u, !.order = Order[u], !.depth = IF u = Base THEN 0 ELSE 1,
                         !.fetch = IF reading[u] = "read" THEN @ ELSE "failed",
                         !.inlinks = linking(u)] : u \in {v \in Pages : reading[v] # "unread"}}

\* An audit of what was crawled, its pages kept by address and outcome.  Search
\* Console is not connected.
runAudit(pages, capped) ==
  LET drafts == runChecks(pages, Files, Options, Base) \cup ConnectionDrafts({}, Options, Base)
      findings == WithFixes(materialise(drafts), pages, Options)
  IN [findings |-> findings, pages |-> {[url |-> p.url, fetch |-> p.fetch] : p \in pages},
      scores |-> scoreAll(findings, Cardinality(pages)),
      coverage |-> assessCoverage(pages, Files, capped)]

\* Mutant: only what is new since the run before is queued.
MergedAppeared(now, changed) ==
  LET built == {a \in approvalsFromResult(now.findings, Autonomy) :
                  a.id \in changed.appeared \ DOMAIN approvals}
      open == {f.id : f \in now.findings}
  IN [i \in DOMAIN approvals \cup {a.id : a \in built} |->
        IF i \notin DOMAIN approvals
        THEN CHOOSE a \in built : a.id = i
        ELSE IF approvals[i].status = "pending" /\ i \notin open
             THEN [approvals[i] EXCEPT !.status = "withdrawn"] ELSE approvals[i]]

\* The queue after a run: what is pending and no longer found is withdrawn,
\* what was ever queued is kept, and the rest of the fixes are queued.
Merged(now, changed) ==
  LET built == {a \in approvalsFromResult(now.findings, Autonomy) : a.id \notin DOMAIN approvals}
      open == {f.id : f \in now.findings}
  IN [i \in DOMAIN approvals \cup {a.id : a \in built} |->
        IF i \notin DOMAIN approvals THEN CHOOSE a \in built : a.id = i
        ELSE IF approvals[i].status = "pending" /\ i \notin open
             THEN [approvals[i] EXCEPT !.status = "withdrawn"] ELSE approvals[i]]

\* What the progress screen knows besides the findings: nothing is connected
\* or scheduled, and whether the run brought nothing severe.  Unscheduled, one
\* clean run says as much as several.
ShownWith(now, changed) ==
  LET severe == {f \in now.findings : f.severity \in {"critical", "high"}}
  IN [hasSearchData |-> FALSE, mentionsTracked |-> 0, linksVerified |-> 0, scheduled |-> FALSE,
      cleanRuns |-> IF {f.id : f \in severe} \cap changed.appeared = {} THEN 1 ELSE 0]

AuditInit ==
  /\ site \in Sites
  /\ result = NoResult /\ diff = NoDiff /\ approvals = <<>>
  /\ programme = NoProgramme /\ told = {}
  /\ runs = 0 /\ edits = 0 /\ decisions = 0

\* The owner changes a page, by hand or by applying what was approved.
Edit(u, v) ==
  /\ edits < MaxEdits /\ runs > 0 /\ site[u] # v
  /\ site' = [site EXCEPT ![u] = v]
  /\ edits' = edits + 1
  /\ UNCHANGED <<result, diff, approvals, programme, told, runs, decisions>>

\* A run ends with the pages its crawl has, and the progress screen is shown.
Run(reading) ==
  /\ runs < MaxRuns
  /\ HasSignals(Variants[site[Base]])
  /\ \E now \in {runAudit(Crawled(reading), \E u \in Pages : reading[u] = "unread")} :
     \E changed \in {IF runs = 0
                     THEN [NoDiff EXCEPT !.appeared = {f.id : f \in now.findings}]
                     ELSE diffRuns(now, result)} :
     \E shown \in {assessProgramme(now.findings, ShownWith(now, changed))} :
       /\ result' = now
       /\ diff' = [k \in DOMAIN NoDiff |-> changed[k]]
       /\ approvals' = Merged(now, changed)
       /\ programme' = shown
       /\ told' = IF runs = 0 THEN {} ELSE milestonesBetween(programme, shown)
  /\ runs' = runs + 1
  /\ UNCHANGED <<site, edits, decisions>>

\* A person approves or rejects what is pending.  The queue treats both alike.
Decide(i) ==
  /\ decisions < MaxDecisions
  /\ i \in DOMAIN approvals /\ approvals[i].status = "pending"
  /\ approvals' = [approvals EXCEPT ![i].status = "decided"]
  /\ decisions' = decisions + 1
  /\ UNCHANGED <<site, result, diff, programme, told, runs, edits>>

AuditNext ==
  \/ \E u \in Pages, v \in DOMAIN Variants : Edit(u, v)
  \/ \E reading \in Readings : Run(reading)
  \/ \E i \in DOMAIN approvals : Decide(i)

AuditSpec == AuditInit /\ [][AuditNext]_auditVars

-----------------------------------------------------------------------------
\* What an audit that read every page would find now.
Everything == [u \in Pages |-> "read"]
Truth == {f.id : f \in runAudit(Crawled(Everything), FALSE).findings}

\* The codes of a page whose conditions look at other pages too: a link to it,
\* or the definition its markup refers to.
CrossPage == {"page_404_linked", "schema_missing_required", "product_schema_incomplete"}

\* diffRuns calls every finding that is absent now fixed.  Whatever a run
\* reports as fixed is really gone from the site, or the run could not see it:
\* its page was not read, or it is about several pages and one was not.
FixedIsExplained ==
  [][runs' # runs =>
       LET unread == Pages \ {p.url : p \in {q \in result'.pages : q.fetch # "failed"}}
       IN \A i \in diff'.fixed :
            \/ i[1] \notin {j[1] : j \in {k \in Truth : k[2] = i[2]}}
            \/ i[2] \in unread
            \/ unread # {} /\ (i[2] = "none" \/ i[1] \in CrossPage)]_auditVars

\* The gate promises that what is queued can ship as it is.  It keeps the
\* promise but for one generator, the image dimensions, whose placeholder has
\* no colon; and because all generated markup is wrapped in a script element,
\* which is not JSON, no structured data is ever queued.
QueueCanShip ==
  \A i \in DOMAIN approvals :
    LET fix == approvals[i].fix
    IN /\ fix.marks # {} => fix.label = "set_image_dimensions" /\ fix.marks = {"REPLACE"}
       /\ fix.kind # "jsonld"

\* Every finding of the latest run that has a fix has been asked about, so the
\* panel that offers to queue what is outstanding never has anything to queue;
\* and what is pending is a finding of that run.
QueueFollowsRun ==
  /\ \A f \in result.findings : f.fix # NoFix => f.id \in DOMAIN approvals
  /\ \A i \in DOMAIN approvals : approvals[i].status = "pending" =>
       i \in {f.id : f \in result.findings}

\* What one click may answer and what time alone may approve: nothing in a
\* batch, and nothing with a deadline, is critical; a batch holds a change the
\* queue calls high only where it is a file at the root, a redirect or a
\* change to more than twenty pages.
NothingCriticalInBulk ==
  /\ \A i \in DOMAIN approvals : approvals[i].timed => approvals[i].risk # "critical"
  /\ \A b \in buildBatches(result.findings) : b.batchable =>
       \A f \in b.findings :
         /\ riskOf(f) # "critical"
         /\ riskOf(f) = "high" => \/ f.fix.kind \in {"file", "redirect"}
                                  \/ Cardinality(f.affected) > 20

\* "Can it be found" is done: nothing technical that is critical or high is
\* left on the pages read, but for the three codes the stage does not list.
FoundMeansFindable ==
  runs > 0 /\ programme.status["crawlable"] = "done" =>
    \A f \in result.findings :
      f.category = "technical" /\ f.severity \in {"critical", "high"} =>
        f.code \in {"no_https", "mixed_content", "no_sitemap"}
=============================================================================
