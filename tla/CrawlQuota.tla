----------------------------- MODULE CrawlQuota -----------------------------
(***************************************************************************)
(* A crawl beside the webhook that changes the plan it runs under: the     *)
(* Worker reads the plan for every batch (app/api/engine/fetch/route.ts),  *)
(* so an upgrade, a cancellation or a half-applied event changes the page  *)
(* ceiling of a crawl under way.                                           *)
(***************************************************************************)
EXTENDS SiteCrawl, Billing

VARIABLE granted   \* history: the largest ceiling a batch was answered under

vars == <<crawlVars, billingVars, granted>>

Init == CrawlInit /\ BillingInit /\ granted = Ceiling["free"]

\* allowanceFor never throws: a caller who is not signed in, or an account
\* layer that cannot be read, has the free plan's ceiling.
Allowances == {pagesPerRun, Ceiling["free"]}

CrawlOn == \E ceiling \in Allowances :
             /\ CrawlStep(ceiling)
             /\ granted' = IF ceiling > granted THEN ceiling ELSE granted
             /\ UNCHANGED billingVars

Bill == BillingNext /\ UNCHANGED <<crawlVars, granted>>

Next == CrawlOn \/ Bill

\* The browser's event loop and the Worker make progress, and a request that
\* is never answered is reported to the caller as failed.
Fairness == WF_vars(CrawlOn)

Spec == Init /\ [][Next]_vars /\ Fairness

-----------------------------------------------------------------------------
\* The crawl implements what a crawl promises: each page at most once and
\* only after it was discovered, never more than maxPages, nothing discovered
\* but by the site files or a page that was read (crawlSite).
Promise == INSTANCE CrawlPromise WITH
  Limit <- maxPages,
  links <- [u \in Url |-> Range(Reads[site][u])],
  files <- Range(sitemapEntries(site)),
  read <- Recorded,
  known <- seen,
  ended <- phase \in {"done", "failed"}

PromiseKept == Promise!Spec

\* No page is recorded twice, and the depth a page is shown at is that of its
\* shortest way in: no page that was read and linked to it was nearer the
\* homepage by more than one level, whatever the order of the answers.
DepthIsShortest ==
  \A i, j \in DOMAIN pages :
    /\ i # j => pages[i].url # pages[j].url
    /\ (pages[j].how = "fetched" /\ pages[i].url \in Range(Reads[site][pages[j].url]))
         => pages[i].depth <= pages[j].depth + 1

\* A crawl that returns without calling itself capped has a page for every
\* address it discovered, but for those the last round took off the frontier
\* beyond the room that was left, which nothing accounts for.
UncappedIsComplete ==
  (phase = "done" /\ ~capped) => seen \ Recorded \subseteq truncated

\* The pages fetched exceed the largest ceiling any batch was answered under
\* by less than one round, although the browser drives the crawl and the plan
\* changes beneath it.
FetchedWithinPlan ==
  Cardinality({i \in DOMAIN pages : pages[i].how = "fetched"})
    < granted + BATCH * PARALLEL

\* A crawl that is begun returns or throws.
CrawlEnds == <>(phase \in {"done", "failed"})
=============================================================================
