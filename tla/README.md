# SEO OS: a TLA+ verification project

SEO OS is an autonomous search-growth platform. A Python back end
(`src/packages/seoos`) runs *missions*: graphs of steps in which agents call
tools, some of which change the client's site and therefore wait for a person.
A web application (`src/apps/web`, one Cloudflare Worker with a SQL database
and an audit engine that runs in the browser) holds accounts, stored audits,
schedules and plans. This directory holds models of the parts of both in which
the order of events decides whether they are correct, the TLC runs that check
them on small instances, and TLAPS proofs of their main properties for every
instance.

Run them in this directory:

    tlc -workers 2 -config MCApprovals.cfg MCApprovals     # a run: its cfg and its MC module
    tlapm ApprovalsProofs.tla                              # the proofs of one component

`PROJECT.json` lists the components, runs, mutants, hazards and theorems, and
maps every definition to the lines it models.

## 1. Inventory

Paths are relative to `src/packages/seoos` (Python) or `src/apps/web/src` (TypeScript).

### The Python back end

| Component | State it keeps | Operations | What makes it correct |
|---|---|---|---|
| Approval queue (`services/approvals.py`, `api/routes/approvals.py`) | `approvals` rows: status, risk, stored tool call, `auto_approve_at`, `expires_at`, `executed_at` | create, decide, bulk decide, execute, sweep, expire | a stored action runs once, only if somebody or a standing instruction let it; a refusal means nothing was done; no row waits for ever |
| Scheduler and worker (`missions/scheduler.py`) | `schedules` rows with a lease, failure count, next run; per-worker list of claims | claim, run, advance, back off, disable, housekeeping; `upsert_schedule` in the API | one worker per schedule, no hot loop, a crash does not lose a schedule |
| Mission engine (`missions/engine.py`, `missions/spec.py`) | the `mission_runs` row with its checkpoint; in memory: wave, results, spend | waves, retries, on_error, checkpoint, resume, verdict | dependencies first, checkpointed work not redone, honest verdict, bounded cost, the run ends |
| Tool executor and policy (`tools/registry.py`, `agents/policy.py`) | site policy, mission autonomy; approvals and notifications of the step's session | evaluate, execute, request approval, notify | only what the policy permits runs unattended; a call told to wait is in the queue once |
| Agent runtime (`agents/runtime.py`) | turns, pending calls, cost of each run | run, delegate, conclude | ceilings hold, and every cost is counted once |
| Model router, spend guard (`llm/router.py`) | provider cooldowns, the one guard of all runs | complete with retries and fallback, check, record | checked before, recorded after, in the right guard |
| Content lifecycle, publishing (`services/content.py`, `tools/content_tools.py`, `tools/publish_tools.py`, `api/routes/content.py`) | content rows, versions, external ids; posts in the CMS | brief, draft, submit, review, edit, publish | nothing reaches review with a failing gate; one post per item; nothing unseen goes live |
| Sessions and tenancy (`core/db.py`) | transactions | `session_scope`, scoped queries | all or nothing per session |
| Resolver, findings, organisation ledger, credentials, security, endpoints, crawler, analysis, connectors, tools, CLI | rows, or nothing | per request | see section 6 |

### The web application

| Component | State it keeps | Operations | What makes it correct |
|---|---|---|---|
| Schedules and cron (`server/schedules.ts`, `server/scheduler.ts`, `app/api/schedule/route.ts`) | `schedules`, `milestones`, `measurements` rows; the invocation's list of jobs | save, dueNow, tick, sample, deliver, completeRun, markJobRan, post milestones | the clock follows the cadence; one reading per firing, one mail per milestone; a failing tenant does not stop others |
| Identity and runs (`server/session.ts`, `server/runs.ts`, `app/api/auth/*`, `app/api/runs`) | the person, workspaces, sessions, anonymous and owned audits, sign-in links, the claim cookie | save an audit, set out, sign in, claim, sweep, sign out | a visitor's audit reaches the workspace; one workspace per person |
| Approvals and publishing (`app/api/approvals`, `app/api/publish`, `server/wordpress.ts`) | approval and `publishes` rows, the live page | decide, publish | what is published can be undone |
| Billing and quota (`app/api/billing/webhook`, `server/quota.ts`) | events, subscription, plan | webhook, ceiling | the plan follows the latest event, in both places |
| Crawl (`engine/crawl.ts`, `engine/fetcher.ts`, `app/api/engine/fetch`) | frontier, seen, pages, batches in flight | discover, round, answer, finish | each page once and at its depth, within the limits, complete unless said otherwise |
| Audit engine (`engine/checks.ts`, `fixes.ts`, `score.ts`, `batches.ts`, `diff.ts`, `progress.ts`, `run.ts`) | findings, fixes, queue of a run | check, fix, gate, score, batch, compare | what is queued can ship; what is called fixed is |
| Browser workspace (`lib/store.ts`, `lib/sync.ts`, `lib/runner.ts`, `app/api/workspace`) | each tab's copy, the browser's storage, the account's copy with a revision | update, run, decide, push, pull, reset | no decision lost; a revision stands for its content |
| Link programme (`lib/links.ts`, `engine/backlinks.ts`, `engine/link-risk.ts`, `components/link-programme.tsx`) | links, candidates, approaches in one stored record | pull, verify, approach, review | confirmed means seen; recorded work survives |

### How they interact

The worker claims schedules and calls `run_mission`, as does a background task
of the API; both drive the engine. The engine runs the steps of a wave
concurrently, each in a database session of its own but all over one router; a
step calls an agent or a tool through the executor, which asks the policy and
may file an approval. A person decides approvals through the API, and the
worker's housekeeping decides the rest; both replay the stored call, which may
publish content. All of these share nothing but the database, at READ
COMMITTED, and nothing in the code locks a row before reading it. In the web
application every statement commits on its own, and requests and the cron
interleave between any two of them; the browser's tabs share one storage key
they read once, and the account's copy is compared and written in two statements.

### The hard behaviours

* *Read, wait, write.* Almost every record is read in one statement and written
  whole in a later one (approvals, schedules, digests, content, milestones, the
  workspace, the link programme).
* *Effects outside the database.* A replayed action, a post, a sent mail and
  money spent are not undone by a rollback, a thrown statement or a killed process.
* *Crashes and deploys* between claim and advance, within a wave, between a
  mail and its mark, between the statements of a first sign-in.
* *Answers out of order*, lost or repeated: batches of a crawl, webhook
  deliveries, pushes of a workspace.
* *Leases, timers and timeouts* that run out while their owner is still at work.
* *Lock queues and deadlocks* between bulk decisions and housekeeping.
* *Limits*: concurrency of a wave, budgets, claims per pass, jobs per
  invocation, pages per plan.

`PROJECT.json` gives the line of each and the properties that watch it.

## 2. Plan

Built, in this order: Approvals, MissionScheduler, MissionEngine, ToolPolicy
and ToolGate, CronSchedules; then SiteCrawl with its abstract specification
CrawlPromise, Billing and their composition CrawlQuota; Workspace; the audit
modules composed by AuditRun; LinkProgramme; WebAccounts and WebPublishing
composed by WebServer; ContentLifecycle; AgentRuns, composed with ToolGate by
MissionWave.

Left, in this order: the organisation's ledger (month-to-date spend written by
concurrent missions, reset on day 1); the reconciliation of findings; the
refresh of Google tokens; a lock service as an abstract specification
MissionScheduler implements outside its two accidents.

## 3. Modules

A component has a module `X` (constants, variables, one action per operation
or statement, properties) and `MCX` (values for TLC). The proofs are in modules
of their own, some of them about several components (section 5). History variables record the accidents the properties are
stated relative to; no guard reads them. A definition called a mutant is a
version of the one after it with a plausible bug: under it TLC finds the
property violated that `PROJECT.json` pairs it with.

### Approvals

Actors are transactions (`Sessions`): API requests and worker housekeeping
passes (`Workers`). `row` is the committed table; `tx[s]` is what a transaction
has read as pending (`read`), is queued for (`waits`), has written (`wrote`,
which holds the row's lock) and has executed (`ran`).

| Action | Code |
|---|---|
| `Create` | `ApprovalsService.create` with the expiry and the auto-approval time |
| `BeginDecide`, `BeginBulk`, `LookUp` | the two endpoints, the SELECT, the 404/409 and the skip of high-risk rows |
| `QueueForLock`, `Flush` | the UPDATE at the flush, which waits for a row lock (external) and then writes without reading again |
| `Execute` | `execute`: replay by the tool executor, `executed_at`, executed or failed |
| `BeginSweep`, `SelectExpired` | `sweep_auto_approvals` and `expire_stale` in one housekeeping transaction |
| `Commit`, `Abort`, `DeadlockAbort` | `session_scope`; a failure; the database's deadlock detector (external) |

The replay is not gated again: neither the API's nor housekeeping's executor
carries a policy. `replays` counts to 2, which stands for "several".

### MissionScheduler

`sched` is the table, `worker` what each process remembers. `SelectDue` and
`CommitClaim` are the two halves of `claim_due_schedules`; `RunMission`,
`MissionReturns` and `Advance` are the loop of `tick` with `advance_schedule` whole
(failure count, backoff, disabling, release); `Crash` loses the process,
`Shutdown` is cancellation, where the `finally` clause still advances; `Upsert`
is the API's edit. A cron expression is a period (`NextFiring`, external).

### MissionEngine

One run. `db` is the committed row, `engine` and `step` the process. Waves are
computed from `Needs` as `execution_order` does; the model takes the next wave
from the waves already passed. `OpenWave`, `SettleUnrun`, `StartStep`,
`FinishStep`, `FailAttempt`, `RaiseStep`, `CloseWave` are the body of a wave
with its semaphore, condition, budget, retries, `on_error` and checkpoint;
`StopEarly`, `Conclude`, `FinishRun` end it; `FailCheckpoint`, `AbortRun`,
`Interrupt` are the failures outside steps; `ResumeRun` is the resumption that
`_start_or_resume` provides. The blackboard's values, templates and conditions
are abstracted to "the condition may be false or fail to evaluate".

### ToolPolicy and ToolGate

`ToolPolicy` is `ApprovalPolicy.evaluate` rule by rule, as pure operators over
records of a tool, a call and a site policy. `ToolGate` puts it behind
`ToolExecutor.execute` in the concurrent steps of a mission: `BeginStep` reads
the site, `CallTool` decides and files the approval, `Notify` looks for the
day's digest, `RetryStep` repeats a failed call in the same session,
`CommitStep` and `RollBackStep` end the session, `EditPolicy` is the client.

### AgentRuns and MissionWave

`AgentRuns` is `AgentRuntime.run` over `ModelRouter.complete`, in one event
loop: an action is what happens between two suspensions, and a run that has
ended is returned from before anything else is resumed (`Quiet`), since the
recorder awaits nothing. `run[r]` is a run of a step or of a helper it
delegated to: its turn, the providers left for the completion under way, the
calls of the turn it has not made, its cost. `Begin` is the part up to the
first completion: the run's new `SpendGuard` replaces the router's, whoever's
that was. `Asked` is the check, `Complete`, `RetryProvider`, `GiveUpProvider`,
`FailRun` what a provider does, with the fall to the echo provider and the
forced conclusion; `UseTool`, `Delegate`, `RefuseDelegation`, `Return`,
`NextTurn` the calls of a turn; `StartStep`, `SkipStep`, `FinishStep`,
`TimeOutStep` what `_execute_step` and `_dispatch` do around a run.
`MissionWave` runs tool steps (ToolGate) and agent steps side by side.

The model assumes a configured provider, and that a completion costs no more
than was projected for the provider that answers. What it brings out:
a guard is replaced by a delegated run even without concurrency, so the agent
that delegated goes on under the ceiling of its helper; tools pass no guard, and
the cost of a tool *step* is in no budget at all; a timeout loses the cost of
the run and its helpers; a retry does not look at the budget; the ceiling on
tool calls is advice to the model only; the echo provider's placeholder is a
success for an agent that owes no JSON, and nobody reads `degraded`.

### ContentLifecycle

One item, `item`, with the versions taken of it, and the sessions that work on
it. `Call` reads it and works (brief, draft with its gates, submission, the
client's decision or edit), `Write` flushes the columns that changed and takes
the row's lock, `Commit` and `Abort` end the session; `Publish`, `Claim`,
`Post`, `PostRefused`, `PostRaises`, `Record` are `publish_content` around its
call of the CMS. `CallRaises` is an executor that reports an error and lets the
session commit what was assigned. `Look` is the client reading the queue. A
draft stands for the body with its metadata; `Sound` and `Complete` are the
drafts that pass the two kinds of gate.

The unique version number is the only optimistic lock: moves to `qa`,
`publishing` and back to `approved` take no snapshot and can overtake a
decision (`overtaken`). A text may be stored in any status (`late`), one whose
gates raise is committed unscored (`loose`), and an item sent back for changes
or rejected can never move again, since no tool and no request makes the moves
the table allows it.

### CronSchedules

`cron` is the invocation (the rows it read, the job under way, the milestones
about to be mailed), `tab` a request of a browser tab. Actions follow the
statements of `tick`, `sample`, `deliver`, `completeRun`, `markJobRan` and the
schedule route. `saveSchedule` is an upsert that replaces the row's id, so a
`completeRun` for the row read before finds nothing to update. Time is in
hours; a cadence is a period.

### SiteCrawl, CrawlPromise, Billing, CrawlQuota

`SiteCrawl` is `crawlSite`: discovery from the homepage and the sitemaps, a
FIFO frontier, rounds of `PARALLEL` requests of `BATCH` addresses that are
answered, lost or refused in any order and applied in the order they were made,
each page at the depth of the first way in, the limits, and the
flag that says the crawl was capped. A site is a record of links, redirects,
files and addresses that do not answer; robots.txt is the set of addresses it
disallows (in the code a pattern ending in `$` matches nothing).
`CrawlPromise` is the abstract specification: a crawl begins, reads discovered
pages each at most once up to a limit, and ends with a report that stays.
`PromiseKept` says SiteCrawl implements it, under the mapping `Promise`.
`Billing` is the webhook route statement by statement; deliveries repeat,
overlap, overtake one another and die (`unordered` records the first two).
`CrawlQuota` composes them: the Worker reads the plan for every batch, so the
ceiling changes under a crawl, and addresses beyond the room left in the last
round vanish without the crawl calling itself capped (`truncated`).

### Workspace

`cache[t]` is a tab's copy, `storage[b]` the browser's, `account` the server's
with its revision, `request[q]` a push. `save` is every write (the whole copy
to storage, and a timer for a push), `Update` one that changes the copy the tab
holds; `CompleteRun` merges a run's findings and
approvals; `ReadAccount` and `ApplyPull` are hydration, with the choice between
two copies; `SelectRevision` and `WriteAccount` are the route's two statements;
an answer may be lost. The trimming of `save` when storage is full is left out.

### The audit modules

`AuditCatalogue` is the table of codes. `AuditChecks` is every check of
`checks.ts` as a condition on the record of a page, and the site-wide ones on
the set of pages; what the parser reads from HTML and which prose patterns
match is data. `AuditFixes` is the generator each code names with what matters
of its text (is there any, is it JSON, which placeholders are in it) and the
gate. `AuditScores`, `AuditReview` (approvals, batches, difference, programme)
follow, and `AuditRun` runs the pipeline twice on a site that is edited, read
in part and decided about in between.

The model brings out that structured-data fixes never pass the gate (the
generator wraps them in a script element, the gate parses them as JSON), that a
bare `REPLACE` passes in image dimensions, that five strategies have no
generator and two always withhold theirs, and that the stages of the programme
name codes no check produces and leave out three that one does. Two rules
grade a fix: `riskOf` raises what touches more than twenty pages to high, and
`isStructural`, which keeps fixes out of the batches, does not look at that. A
plan that links twenty-one orphans is therefore high in the queue, timed on
autopilot, and batchable. `NothingCriticalInBulk` says so; without the exception
it held as long as the instance had no more than three addresses, and its proof
failed.

### LinkProgramme

`stored` is the record in the browser's storage, `panels[p]` a mounting of the
page with the copy it read and the operation it has under way. `Start` captures
the copy, `FinishPull`, `FinishGap`, `VerifyBatch`, `FinishVerify`, `FailOp` end
or advance it and write the whole copy back; the desk's approaches read afresh.
The risk assessment is modelled as far as the panel feeds it: the panel passes
none of what `assessLink` weighs, so it judges nothing. Ties in a sort are left
open, and what a page says is a constant.

### WebAccounts, WebPublishing, WebServer

Requests of one person, one statement per action. WebAccounts: audits saved
anonymously or owned, sign-in links and Google trips that carry a claim, the
rows of a first sign-in, the claim moving a run to a workspace, the cookie.
WebPublishing: decisions, and a publish that reads the live value, writes the
new one, inserts the row that undoes it and marks the approval, each of which
may throw. WebServer serves both and lets a request die anywhere. The DELETE
that spends a link or a trip is not checked for having deleted anything, so a
link can be used twice at once.

## 4. Runs

| Run | Instance | Shows |
|---|---|---|
| `approvals` | one API transaction, one housekeeping pass, two rows of three kinds, one outside failure; symmetric in the rows | `ReplayedOnceUnlessRaced`: a second replay needs overlapping reads or a rollback; `DecisionsStick` |
| `approvals_live` | the same parties, two rows | `EveryApprovalSettles`: no pending row waits for ever |
| `scheduler` | two workers, two schedules, three time units, one edit | `ExclusiveUnlessRacedOrOutlived`; `DueSchedulesRun` |
| `engine` | four steps in three waves, every `on_error` but `continue`, one optional and conditional step, a retry, two slots, budget 2, two faults, one resumption | `DependenciesFirst`; `OverrunBounded`; `CheckpointedNotRedone`; `RunEnds` |
| `wave` | two tool steps: eight tools, three calls, five policies, one edit, one retry; or two agent steps: an agent that may delegate and is retried and one that is neither, two providers of different price, ceilings 2 and 1, 3 left to the organisation, two faults | `UnattendedIsPermitted`; `QueuedAsAnswered`; `CeilingsHoldUnlessShared`; `SpendIsAccounted` |
| `cron` | two sites, both jobs, cadences of one and three hours, one job per invocation, one tab, one milestone, two saves, one fault | `ReadOnceUnlessReopened`; `MailedOnceUnlessUnmarked`; `OverdueJobsMove` |
| `crawl` | two sites of seven addresses (one wide, one deep), four pages, depth two, rounds of two, two events by two deliveries, one death | `PromiseKept` (the refinement); `DepthIsShortest`; `UncappedIsComplete`; `FetchedWithinPlan`; `PlanFollowsEvents`; `CrawlEnds` |
| `workspace` | two tabs of one browser or of two, one finding, two pushes, one fault | `DecisionsSurvive`; `AccountLossExplained`; `RevisionMeansContent`; `RunningHasATab` |
| `audit` | three pages of eight kinds and twenty addresses only the sitemap lists, two runs, one edit, one decision, every partial reading | `QueueCanShip`; `QueueFollowsRun`; `NothingCriticalInBulk`; `FoundMeansFindable`; `FixedIsExplained` |
| `links` | two mountings, two sources of two domains, three operations, one approach | `ConfirmedWasRead`; `LossExplained`; `NothingIsJudged` |
| `web` | two requests at a time, four in all, two audits, two trips, one death | `RunsStayClaimable`; `WorkspaceIsOne`; `UndoIsRecorded` |
| `content` | two agents and a client, a good and a bad draft, six operations (publications up to eight), one fault | `ReviewedPassed`; `PostedOnceUnlessUnrecorded`; `LiveWasShown` |

A property "X unless Y" is stated relative to Y, a history variable set where
the accident happens. Several of them are at odds with
what a document or a comment says:

* `execute` is called idempotent (`services/approvals.py:165`); a decision and a
  sweep that both read the row as pending replay it twice.
* Two workers "never run the same schedule" (`docs/OPERATIONS.md:14`); both may
  SELECT before either UPDATE commits.
* The budget is enforced before each step (`missions/engine.py:9`); the steps of
  a wave look before any has recorded its cost, and retries do not look.
* A deploy mid-run resumes (`docs/OPERATIONS.md:120`); nothing calls the engine
  with the id of an interrupted run.
* One notification per batch and day (`services/approvals.py:79`); two steps look
  before either commits, and the lookup raises from then on.
* A re-rendered page must not manufacture news (`app/api/schedule/route.ts:102`);
  crossing requests store a text twice.
* What keeps a fix out of the batches is to stop a site-wide change quietly
  becoming batchable (`engine/batches.ts:74`); a reversible low-risk plan for more
  than twenty pages is batchable, though the queue calls it high
  (`lib/store.ts:429`).
* The sweep's docstring (`services/approvals.py:220`) speaks of low-risk items;
  the content gate (`agents/policy.py:218`) gives a waiting period to copy it
  rates medium.

### Bounds, and why they are enough

Each race here is between two parties over one row; the instances have two of
each party that matters, or one of each kind, and a second row for lock cycles
and limits. Clocks run long enough for a lease, an expiry or a backoff to pass
and something to happen after it (`MaxTime`); `MaxAborts`, `MaxFaults`,
`MaxCrashes`, `MaxDeaths`, `MaxEdits`, `MaxSaves`, `MaxResumes`, `MaxUpdates`,
`MaxPushes`, `MaxOps`, `MaxCalls`, `MaxUses`, `MaxRequests` bound what the environment does and
appear only in the guards of its actions. In MissionScheduler `Crash` and
`Shutdown` are bounded so that the abandoned lease can expire before the clock
stops. `Create` is bounded so that a row can expire. Four web requests are
enough for two sign-ins and a publish that is tried twice; six operations on an
item (`MaxCalls`) for a draft, its review, its publication and an agent that
overtakes one of them, and two more publications (`MaxOps`) for a second post. In `wave` a step waits for one call at a time (`MaxUses = 1`): the
interleavings of interest, between runs, come from the two steps and the helper;
waves that mix tool steps and agent steps are left out of the instance because
the two kinds share no state of the models. The crawl's constants are
smaller than the code's (`maxPages`, `BATCH`, `PARALLEL`, depth) so that every
limit is reached. The safety theorems do not depend on the bounds: they hold
for every value of these constants. The runs do not check for
deadlock: a finished run, an empty queue or a stopped clock are legitimate ends.

### Fairness

* Approvals: the worker loop calls housekeeping again and again, an open
  transaction executes its next statement, the database breaks deadlocks, and a
  released lock goes to one of those who wait for it (strong fairness of
  `Flush`: PostgreSQL queues lock requests). Nobody has to file or decide anything.
* MissionScheduler: workers loop and missions end: a mission is a finite graph of
  steps, each attempted a few times under a timeout, with a deadline between
  waves. No mission has to succeed.
* MissionEngine: a live process takes its next step; every attempt runs under
  a timeout. Failures, interruptions and raised sessions are never forced.
* CronSchedules: the trigger fires each hour and an invocation that is not
  killed takes its next statement. Kills are bounded: a job that kills every
  invocation would starve the others (`server/schedules.ts:136`), which the
  model does not hide but the property excludes.
* CrawlQuota: the browser's event loop and the Worker make progress; a request
  that is never answered is reported as failed. The webhook owes nothing.

## 5. Proofs

All theorems hold for every value of the constants that satisfies the named
assumptions: `ConstantsAssumption` of Approvals, MissionEngine (whose steps are
finitely many), ToolGate and CronSchedules, `SchedulerAssumption`,
`NoneAssumption`, `AgentAssumption` (a completion has a greatest cost),
`WaveAssumption`, `ContentAssumption`, `AccountsAssumption`,
`BillingAssumption` (a plan's ceiling is at least one page), `CrawlAssumption`
(at least one page, one address to a batch and one batch to a round),
`SitesAssumption`, `LinkAssumption`, `WorkspaceAssumption`, `AuditAssumption`
(a site has a page at every address, and a page is a record of `Page`, the
signals the parser reads), and `NeedsAcyclic`: `MissionSpec.from_dict` refuses a
cyclic graph.

* **ApprovalsProofs.** `IInv` adds to the types: `Bookkeeping` (how the parts of
  one transaction fit), `Exclusive` (outside recorded overlaps a row is in the
  hands of one transaction and is still pending), `Counted` (replays against
  what is committed and what is open), `Entitled` (a sweep or a bulk approval
  holds only rows it may act on). `Exclusive` is what makes the replay count
  inductive: without it a commit could meet a row decided meanwhile.
  Results: `AtMostOnceUnlessRaced`, `RefusalsHold`, `RecordsAndAuthority`,
  `DecisionsAreFinal`.
  The second part is about the queue a browser fills from its audits, for every
  site, edit, reading and decision. `Shippable` is what the gate leaves of what
  the generators write, generator by generator; `QueueInv` says that what is
  asked is shippable and has no deadline when critical, and with `After` (what a
  run makes of the queue) gives `QueueShips` and `QueueFollows`. `BulkIsSafe`
  follows from the two gradings of one fix. `FoundIsFindable` goes through the
  table of codes: the severe technical ones are listed by the first stage or
  excepted. `FixesAreExplained`: a page read alike (`Alike`) is reported alike,
  but for the codes about several pages (`AlikePages`), so what a later run no
  longer reports was not read, is about several pages, or is gone.
* **MissionProofs.** The engine: `Flight`, `Closed`, `Stopped`, `Honest` (what is in
  flight belongs to the open wave; completed sets are closed under `Needs`; a
  fatal failure has ended the run; what "succeeded" stands for). Results:
  `DependenciesHold`, `FatalFailuresStop`, `SuccessIsClean`, `CheckpointsHold`.
  `OverrunHolds` rests on `Affordable`: what is spent, with a reserve of the
  attempts every running step has left, stays below the limit and the cost of
  as many steps as the semaphore admits. The bound on the money spent is not
  inductive by itself: a step adds to it long after its budget was looked at.
  The scheduler: `Tidy` describes a worker's memory, `Owned` says
  that outside the two accidents a working claim is the one on the row and its
  lease is set. Results: `LeaseExclusion` (with `ClaimKeepsItsLease`),
  `FailuresDisable`, `AdvancingDefers`; the last needs that the next firing and
  the backoff are strictly later than now.
* **MissionWaveProofs.** About `evaluate`: `MoreAutonomyAsksLess` (monotone in
  the autonomy level) and `TimersAreForCopyOrLowRisk`. About the gate:
  `UnattendedPermitted`, `ObserveHolds`, `QueueMatchesAnswers`, from `Judged`,
  `Silent` and `Counted` (how many approvals a step has written at each point of
  its call). About the agents: `SpendAccounted`, whose induction is over sums of
  the costs of runs under way, and `CeilingsHold`, from `Guarded` (a run whose
  guard nobody replaced finds its own completions recorded in it) and `OneByOne`
  (as long as nothing of what the property excepts has happened, one run is
  under way, and the guard's share of the organisation and the budget's differ
  by what it spent). `Family` (a helper's parent is waiting in a turn of its
  own) is what keeps a run from being ended under its helper. `WaveIsGated`: a
  behaviour of MissionWave is one of ToolGate, and `WaveKeepsTheGate` what
  follows.
* **ContentLifecycleProofs.** A session writes what it worked out from an item
  read earlier onto a row that may have changed. `Worked` is what an operation
  may make of what it read, `Grown` how a row may have changed since: not
  below the version read, and with that version only in its status and in a text
  stored without a snapshot. A write that takes a snapshot therefore lands on
  the row it was worked out from, or is refused by the unique version number.
  With `OneHolder` (the row's lock), `InHand`, `Coherent` (every session's read
  has `Grown` into what it would write to), `Scored` and `Gated`: `ReviewIsGated`;
  with `PostsKept` (a post is in the row, on its way there or an orphan):
  `PostedOnce`; with `Shown`: `LiveIsShown`.
* **WebServerProofs.** Three invariants, the later two relative to the first:
  `Typed` (what a sign-in knows at each of its statements), `Alone` (what it
  knows while no other is under way), `Undoable` (where the value to put back
  is, from before the write). Results: `ClaimsAreKept`, `OneWorkspace`,
  `PublishedCanBeUndone`.
  Billing: `InOrder` and `Applied` follow an event through its three statements
  and its deaths, where the property itself says nothing. Result: `PlanIsLatest`.
  Schedules: `ClockInv` (a job read earlier has the cadence of the row that still
  has its id) gives `ClockFollows`; `MailInv` gives `NewsMailedOnce`; `PostInv`
  gives `PostedOnce`; `HeldInv` and `ReadInv` (which firings the invocation
  holds, and where the clock stands relative to every recorded reading) give
  `MeasuredOnce`.
* **BrowserProofs.** Link programme: `IInv` follows the copies: what storage
  holds, a panel shows or an operation captured was made of verdicts fetches
  gave, by operations already started. Needed because a copy captured long ago
  may be what storage holds next. Results: `ConfirmedByAFetch`,
  `LossIsExplained`, `ReviewJudgesNothing`.
  Workspace: `InStep` (a tab that no sibling overtook holds what storage holds)
  and `Sited` (no approval without a site), with the two ways a tab changes
  storage, `Editing` and `Replacing`, give `DecisionsAreKept`. `Rooted` (a copy
  that shows a run of a tab, be it sent or on its way back, comes from a site in
  the tab's browser, so that no pull replaces what the browser has) gives
  `RunsHaveTabs`. `Ordered` (while a browser has not overwritten another's copy,
  what it holds, has sent or is about to adopt contains every decision of the
  revision it refers to) gives `AccountLosses`. `Settled` (while nothing is
  waiting to be sent, storage is the copy of the revision remembered) gives
  `RevisionsTell`; it needs `Ordered` where a push is answered.
* **CrawlProofs.** About the crawl beside the webhook, for every site, limit,
  plan and order of answers. `CrawlInv`: an address that was discovered is
  recorded, in flight, waiting in the frontier, or lost to the crawl, and in one
  of these places only (`Queued`, `Accounted`); the queue that the batches in
  flight and the frontier make up goes down level by level, and nothing held is
  more than a level below what is still to be read (`Queued`, `Levels`); there is
  room for what is in flight (`Room`); a batch was fetched only if the pages it
  stated were below some ceiling (`Answered`). The depth property is not
  inductive by itself: that a page is no more than a level below one that links
  to it follows from the order in which the two left the queue. Results:
  `DepthsAreShortest`, `UncappedAreComplete`, `FetchesAreWithinPlan`, and
  `CrawlKeepsPromise`, the refinement of `CrawlPromise`: `Discover` is its
  `Begin`, `StartRound` and `FinishRound` are its `Read`, the three ends its
  `End`, everything else a stutter. The sequences are cut from one another by
  filter, slice and flat. What the proofs need of them, which elements the
  result has and that it keeps their order (`SiftFollows`, `BatchesAre`,
  `FlattenIs`, `EnqueueIs`), is proved of positions, `FlattenIs` and the chains
  of redirects by a smallest counterexample.
* **SetSums.** Lemmas about `SumFunctionOnSet` of the community modules: what
  changing, adding or moving one term does to a sum, when sums are equal, and a
  bound from the bound of the terms. Induction over finite sets is done by a
  smallest counterexample, as the library's induction theorems take an operator
  as a parameter.

Some theorems state properties no run repeats; TLC agreed before they were proved, and
the proof covers every instance: `RefusedMeansUntouched`,
`RecordedMeansReplayed` and `ReplayWasAuthorised` (Approvals),
`ClaimKeepsItsLease`, `RepeatedFailureDisables` and `AdvanceDefers`
(MissionScheduler), `FatalStops` and `SucceededMeansClean` (MissionEngine),
`ObserveMissionChangesNothing` (ToolGate), `ClockMatchesCadence`,
`NotifiedWasMailed` and `PostedOnceUnlessCrossed` (CronSchedules), and the type
invariants.

Only model-checked: the liveness properties (`EveryApprovalSettles`,
`DueSchedulesRun`, `RunEnds`, `OverdueJobsMove`, `CrawlEnds`), which need fairness
and are out of the prover's reach.

## 6. Not modelled

The map covers about a tenth of the implementation's lines. Well over half of
the rest is presentation: pages, components, illustrations, marketing copy,
generated rosters and catalogues of text. What else is left out:

* *Planned*: the organisation's ledger (a mission adds its cost to the sum it
  loaded when it began, so overlapping missions lose one another's; beside the
  schedules it needs a smaller instance than the ones used here), the
  reconciliation of findings, the refresh of tokens (section 2).
* *Resolver*: one sequential climb of a ladder, which MissionEngine keeps as
  its outcome (`Exhausted`); its memory of routes matters only to `foreach`
  steps, which no mission uses.
* *Per-request code without state shared between requests*: authentication,
  roles, most CRUD endpoints, brand and report endpoints, checkout.
* *Pure I/O*: connectors, tool handlers other than the content and publishing
  ones (the gate in front of them is modelled).
* *Functions of text and numbers*: parsing, the Python crawler's checks and
  scores (the browser's are modelled), strategy, advertising, social and voice
  analysis, writing, templates, prompts.
* *Cryptography, the command line.*
* *Within the modelled components*: wording, previews and reasons of approvals;
  tenant scoping; calendar arithmetic; the contents of the blackboard; `seen_at`
  and other columns that are only displayed; the credential notices and the
  month-to-date reset of housekeeping; `update_meta` and the other publish
  tools; session expiry; the undo of a publish, which nothing calls; the
  trimming of a workspace that outgrows the browser's storage.
