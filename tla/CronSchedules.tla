---------------------------- MODULE CronSchedules ----------------------------
(***************************************************************************)
(* The schedules of the web application (server/schedules.ts), run by an   *)
(* hourly cron invocation (server/scheduler.ts, tick) while open browser   *)
(* tabs edit them, report jobs they ran themselves and post milestones     *)
(* (app/api/schedule/route.ts).                                            *)
(*                                                                         *)
(* There are no transactions: every statement commits on its own and other *)
(* requests run between any two of them.  The invocation works from the    *)
(* rows it read at its start, and the platform may kill it at any point.   *)
(***************************************************************************)
EXTENDS Integers, FiniteSets

CONSTANTS
  Sites,        \* tenants' sites
  Tabs,         \* browser tabs (API requests) at work at the same time
  Milestones,   \* ids of milestone rows
  News,         \* the texts of milestones
  Null,         \* SQL NULL, and "none"
  Periods,      \* the cadences, in hours
  Off,          \* a cadence: switched off
  DueLimit,     \* limit of dueNow (25 in the code)
  NewsLimit,    \* limit of unnotified (20 in the code)
  MaxTime,      \* bound: the clock stops here
  MaxSaves,     \* bound: calls of saveSchedule, each of which makes a new id
  MaxFaults     \* bound: killed invocations and statements that fail

ASSUME ConstantsAssumption ==
  /\ Null \notin Nat /\ Null \notin News /\ Off \notin Nat
  /\ Periods \subseteq Nat \ {0}
  /\ DueLimit \in Nat \ {0} /\ NewsLimit \in Nat \ {0}
  /\ MaxTime \in Nat /\ MaxSaves \in Nat /\ MaxFaults \in Nat

\* The schedules the cron runs: one row per site and job.
Keys == Sites \X {"measure", "report"}

VARIABLES
  now,        \* the clock, in hours
  rows,       \* the schedules table
  news,       \* the milestones table
  cron,       \* what the invocation holds
  tab,        \* what each tab's request holds
  readings,   \* the firings <<site, nextAt>> that have recorded a measurement
  saves,      \* calls of saveSchedule so far: the newest row id
  faults,     \* kills and failed statements so far
  mails,      \* how often each milestone was mailed: 0, 1 or 2 ("several")
  reread,     \* history: the firings that recorded a measurement again
  reopened,   \* history: the firings begun and left due, or read and made due again
  unmarked,   \* history: milestones mailed by a report that did not mark them
  crossed     \* history: texts that two requests were posting at the same time

vars == <<now, rows, news, cron, tab, readings, saves, faults, mails,
          reread, reopened, unmarked, crossed>>

\* id 0 is a job that was never configured.
Rows == [id : Nat, cadence : Periods \cup {Off}, nextAt : Nat \cup {Null}]
Jobs == [key : Keys, id : Nat, cadence : Periods \cup {Off}, nextAt : Nat \cup {Null}]
DueJobs == {j \in Jobs : j.nextAt # Null}
MilestoneRows == [what : News \cup {Null}, by : {"tab", "cron"}, notified : BOOLEAN]
Crons == [phase : {"off", "loop", "acting", "sampled", "collected", "sent", "closing"},
          at : Nat,                         \* the now of tick
          todo : SUBSET DueJobs,            \* due jobs not begun yet
          job : SUBSET DueJobs,             \* the job under way, if any
          batch : SUBSET Milestones,        \* what the report is about to carry
          failed : BOOLEAN]                 \* the outcome to record is "failed"
TabStates == [posting : SUBSET News,        \* checked against the table, not yet inserted
              ran : SUBSET Jobs,            \* the row markJobRan has read
              at : Nat]

TypeOK ==
  /\ now \in Nat
  /\ rows \in [Keys -> Rows]
  /\ news \in [Milestones -> MilestoneRows]
  /\ cron \in Crons
  /\ tab \in [Tabs -> TabStates]
  /\ readings \subseteq Sites \X Nat
  /\ saves \in Nat
  /\ faults \in Nat
  /\ mails \in [Milestones -> 0..2]
  /\ reread \subseteq Sites \X Nat
  /\ reopened \subseteq Keys \X Nat
  /\ unmarked \subseteq Milestones
  /\ crossed \subseteq News

-----------------------------------------------------------------------------
CronOff == [phase |-> "off", at |-> 0, todo |-> {}, job |-> {}, batch |-> {},
            failed |-> FALSE]
TabIdle == [posting |-> {}, ran |-> {}, at |-> 0]
NoMilestone == [what |-> Null, by |-> "tab", notified |-> FALSE]

\* nextRunAt: the first firing strictly after t, or none when switched off.
nextRunAt(cadence, t) == IF cadence = Off THEN Null ELSE ((t \div cadence) + 1) * cadence

Snapshot(k) == [key |-> k, id |-> rows[k].id, cadence |-> rows[k].cadence,
                nextAt |-> rows[k].nextAt]

\* The firing a job stands for.
Firing(j) == <<j.key, j.nextAt>>
\* The firing a measurement was recorded for.
Measuring(f) == <<<<f[1], "measure">>, f[2]>>

Init ==
  /\ now = 0
  /\ rows = [k \in Keys |-> [id |-> 0, cadence |-> Off, nextAt |-> Null]]
  /\ news = [m \in Milestones |-> NoMilestone]
  /\ cron = CronOff
  /\ tab = [t \in Tabs |-> TabIdle]
  /\ readings = {}
  /\ saves = 0
  /\ faults = 0
  /\ mails = [m \in Milestones |-> 0]
  /\ reread = {}
  /\ reopened = {}
  /\ unmarked = {}
  /\ crossed = {}

Tick ==
  /\ now < MaxTime
  /\ now' = now + 1
  /\ UNCHANGED <<rows, news, cron, tab, readings, saves, faults, mails,
                 reread, reopened, unmarked, crossed>>

-----------------------------------------------------------------------------
\* Mutants of the operators below.
MovedIfOk(j, t) ==
  [k \in Keys |-> IF rows[k].id = j.id /\ ~cron.failed
                  THEN [rows[k] EXCEPT !.nextAt = nextRunAt(j.cadence, t)] ELSE rows[k]]
SavedAndDue(k, c) == [id |-> saves + 1, cadence |-> c, nextAt |-> IF c = Off THEN Null ELSE now]
unnotifiedOrNot == {m \in Milestones : news[m].what # Null}

\* saveSchedule, the upsert: the conflicting row is updated in every column of
\* the new one, its id included.
Saved(k, c) == [id |-> saves + 1, cadence |-> c, nextAt |-> nextRunAt(c, now)]

\* completeRun, the UPDATE ... WHERE id = the job's id: the clock moves by the
\* cadence the job was read with.
Moved(j, t) ==
  [k \in Keys |-> IF rows[k].id = j.id
                  THEN [rows[k] EXCEPT !.nextAt = nextRunAt(j.cadence, t)] ELSE rows[k]]

\* unnotified, before its limit.
unnotified == {m \in Milestones : news[m].what # Null /\ ~news[m].notified}

\* The texts that POST has not found in the table.
Novel(N) == {n \in N : \A m \in Milestones : news[m].what # n}

\* markNotified
Marked(B) ==
  [m \in Milestones |-> IF m \in B THEN [news[m] EXCEPT !.notified = TRUE] ELSE news[m]]

\* addMilestone: the next free id.
Added(n, by) ==
  \E m \in Milestones :
    /\ news[m].what = Null
    /\ news' = [news EXCEPT ![m] = [what |-> n, by |-> by, notified |-> FALSE]]

-----------------------------------------------------------------------------
\* PUT: saveSchedule.
Save(k, c) ==
  /\ saves < MaxSaves
  /\ rows' = [rows EXCEPT ![k] = Saved(k, c)]
  /\ saves' = saves + 1
  /\ UNCHANGED <<now, news, cron, tab, readings, faults, mails, reread, reopened,
                 unmarked, crossed>>

\* POST with ran: markJobRan reads the row of any job, if there is one.
ReadRan(t, k) ==
  /\ tab[t] = TabIdle /\ rows[k].id # 0
  /\ tab' = [tab EXCEPT ![t] = [TabIdle EXCEPT !.ran = {Snapshot(k)}, !.at = now]]
  /\ UNCHANGED <<now, rows, news, cron, readings, saves, faults, mails, reread,
                 reopened, unmarked, crossed>>

\* ... and completes it, with the now of the request: one that the cron has
\* overtaken puts the clock back.
CompleteRan(t) ==
  /\ \E j \in tab[t].ran : rows' = Moved(j, tab[t].at)
  /\ tab' = [tab EXCEPT ![t] = TabIdle]
  /\ reopened' = reopened \cup
       {Measuring(f) : f \in {g \in readings :
          /\ rows'[Measuring(g)[1]].nextAt \notin {Null, rows[Measuring(g)[1]].nextAt}
          /\ rows'[Measuring(g)[1]].nextAt <= g[2]}}
  /\ UNCHANGED <<now, news, cron, readings, saves, faults, mails, reread, unmarked, crossed>>

\* POST with milestones: the texts already stored are dropped.
ReadNews(t, N) ==
  /\ tab[t] = TabIdle
  /\ tab' = [tab EXCEPT ![t].posting = Novel(N)]
  /\ crossed' = crossed \cup
       {n \in Novel(N) : \E u \in Tabs : n \in tab[u].posting}
  /\ UNCHANGED <<now, rows, news, cron, readings, saves, faults, mails, reread,
                 reopened, unmarked>>

\* ... and the others are inserted one by one.
PostNews(t, n) ==
  /\ n \in tab[t].posting
  /\ Added(n, "tab")
  /\ tab' = [tab EXCEPT ![t].posting = @ \ {n}]
  /\ UNCHANGED <<now, rows, cron, readings, saves, faults, mails, reread, reopened,
                 unmarked, crossed>>

\* ... unless an insert throws: the request ends, the rest is not stored.
PostThrows(t) ==
  /\ tab[t].posting # {}
  /\ tab' = [tab EXCEPT ![t] = TabIdle]
  /\ UNCHANGED <<now, rows, news, cron, readings, saves, faults, mails, reread,
                 reopened, unmarked, crossed>>

-----------------------------------------------------------------------------
Due(k) == rows[k].nextAt # Null /\ rows[k].nextAt <= now

\* dueNow: the longest overdue rows, up to the limit.
Fire ==
  /\ cron.phase = "off"
  /\ LET due == {k \in Keys : Due(k)}
     IN \E A \in SUBSET due \ {{}} :
          /\ Cardinality(A) <= DueLimit
          /\ A = due \/ Cardinality(A) = DueLimit
          /\ \A k \in A, l \in due \ A : rows[k].nextAt <= rows[l].nextAt
          /\ cron' = [CronOff EXCEPT !.phase = "loop", !.at = now,
                                     !.todo = {Snapshot(k) : k \in A}]
  /\ UNCHANGED <<now, rows, news, tab, readings, saves, faults, mails, reread,
                 reopened, unmarked, crossed>>

\* The loop of tick takes the next job, in the order of next_run_at.
TakeJob(j) ==
  /\ cron.phase = "loop"
  /\ j \in cron.todo /\ \A i \in cron.todo : j.nextAt <= i.nextAt
  /\ cron' = [cron EXCEPT !.phase = "acting", !.todo = @ \ {j}, !.job = {j}]
  /\ UNCHANGED <<now, rows, news, tab, readings, saves, faults, mails, reread,
                 reopened, unmarked, crossed>>

\* Nothing is connected to measure, or there is nobody to send a report to, or
\* the mail service refuses it: the outcome is "skipped".
Skip ==
  /\ cron.phase \in {"acting", "collected"}
  /\ cron' = [cron EXCEPT !.phase = "closing", !.batch = {}]
  /\ UNCHANGED <<now, rows, news, tab, readings, saves, faults, mails, reread,
                 reopened, unmarked, crossed>>

\* sample: recordMeasurement, for whichever services have a property chosen:
\* at least one is connected, but none of them may have one.
Sample(j) ==
  /\ cron.phase = "acting" /\ j \in cron.job /\ j.key[2] = "measure"
  /\ \E taken \in SUBSET {<<j.key[1], j.nextAt>>} :
       /\ readings' = readings \cup taken
       /\ reread' = reread \cup (taken \cap readings)
  /\ cron' = [cron EXCEPT !.phase = "sampled"]
  /\ UNCHANGED <<now, rows, news, tab, saves, faults, mails, reopened, unmarked, crossed>>

\* sample, checkForDrop: no fall (or no room for a row in the bounded table).
SampleOk ==
  /\ cron.phase = "sampled"
  /\ cron' = [cron EXCEPT !.phase = "closing"]
  /\ UNCHANGED <<now, rows, news, tab, readings, saves, faults, mails, reread,
                 reopened, unmarked, crossed>>

\* sample, checkForDrop: a fall in the stored readings adds a milestone,
\* whatever the table holds already.
SampleDrop(n) ==
  /\ cron.phase = "sampled"
  /\ Added(n, "cron")
  /\ cron' = [cron EXCEPT !.phase = "closing"]
  /\ UNCHANGED <<now, rows, tab, readings, saves, faults, mails, reread, reopened,
                 unmarked, crossed>>

\* deliver: the milestones not mailed yet, up to the limit.
Collect(j) ==
  /\ cron.phase = "acting" /\ j \in cron.job /\ j.key[2] = "report"
  /\ \E B \in SUBSET unnotified :
       /\ Cardinality(B) <= NewsLimit
       /\ B = unnotified \/ Cardinality(B) = NewsLimit
       /\ cron' = [cron EXCEPT !.phase = "collected", !.batch = B]
  /\ UNCHANGED <<now, rows, news, tab, readings, saves, faults, mails, reread,
                 reopened, unmarked, crossed>>

\* deliver: send.
Send ==
  /\ cron.phase = "collected"
  /\ cron' = [cron EXCEPT !.phase = "sent"]
  /\ mails' = [m \in Milestones |->
       IF m \in cron.batch /\ mails[m] < 2 THEN mails[m] + 1 ELSE mails[m]]
  /\ UNCHANGED <<now, rows, news, tab, readings, saves, faults, reread, reopened,
                 unmarked, crossed>>

\* deliver: markNotified.
Mark ==
  /\ cron.phase = "sent"
  /\ news' = Marked(cron.batch)
  /\ cron' = [cron EXCEPT !.phase = "closing", !.batch = {}]
  /\ UNCHANGED <<now, rows, tab, readings, saves, faults, mails, reread, reopened,
                 unmarked, crossed>>

\* The milestones an interruption leaves mailed and not marked.
Unmarked == IF cron.phase = "sent" THEN cron.batch ELSE {}

\* A service or a statement throws: the catch clause of tick.
Throw ==
  /\ cron.phase \in {"acting", "sampled", "collected", "sent"}
  /\ cron' = [cron EXCEPT !.phase = "closing", !.failed = TRUE, !.batch = {}]
  /\ unmarked' = unmarked \cup Unmarked
  /\ UNCHANGED <<now, rows, news, tab, readings, saves, faults, mails, reread,
                 reopened, crossed>>

\* The job is over and the loop goes on, or the invocation ends.
GoOn ==
  cron' = IF cron.todo = {} THEN CronOff
          ELSE [cron EXCEPT !.phase = "loop", !.job = {}, !.failed = FALSE]

\* completeRun, whatever the outcome.
Complete(j) ==
  /\ cron.phase = "closing" /\ j \in cron.job
  /\ rows' = Moved(j, cron.at)
  /\ GoOn
  /\ UNCHANGED <<now, news, tab, readings, saves, faults, mails, reread, reopened,
                 unmarked, crossed>>

\* completeRun throws: the catch clause tries it once more, as failed, and
\* swallows a second error.
CompleteThrows(j) ==
  /\ cron.phase = "closing" /\ j \in cron.job
  /\ faults < MaxFaults
  /\ faults' = faults + 1
  /\ IF cron.failed THEN GoOn /\ reopened' = reopened \cup {Firing(j)}
     ELSE cron' = [cron EXCEPT !.failed = TRUE] /\ UNCHANGED reopened
  /\ UNCHANGED <<now, rows, news, tab, readings, saves, mails, reread, unmarked, crossed>>

\* The platform kills the invocation (CPU or wall-clock limit, a deploy).
Kill ==
  /\ cron.phase # "off"
  /\ faults < MaxFaults
  /\ faults' = faults + 1
  /\ cron' = CronOff
  /\ reopened' = reopened \cup {Firing(j) : j \in cron.job}
  /\ unmarked' = unmarked \cup Unmarked
  /\ UNCHANGED <<now, rows, news, tab, readings, saves, mails, reread, crossed>>

-----------------------------------------------------------------------------
\* The steps of the invocation itself.
Work ==
  \/ Fire \/ Skip \/ SampleOk \/ Send \/ Mark \/ Throw
  \/ \E j \in cron.todo : TakeJob(j)
  \/ \E j \in cron.job : Sample(j) \/ Collect(j) \/ Complete(j)
  \/ \E n \in News : SampleDrop(n)

Next ==
  \/ Tick \/ Work \/ Kill
  \/ \E j \in cron.job : CompleteThrows(j)
  \/ \E k \in Keys, c \in Periods \cup {Off} : Save(k, c)
  \/ \E t \in Tabs :
       \/ \E k \in Keys : ReadRan(t, k)
       \/ CompleteRan(t) \/ PostThrows(t)
       \/ \E N \in SUBSET News : ReadNews(t, N)
       \/ \E n \in News : PostNews(t, n)

Spec == Init /\ [][Next]_vars

\* The trigger fires every hour and an invocation that is not killed gets on;
\* nothing obliges a service to answer well or a tab to do anything.
FairSpec == Spec /\ WF_vars(Tick) /\ WF_vars(Work)

-----------------------------------------------------------------------------
\* ClockMatchesCadence.  Whatever is saved while a job runs, and whichever of
\* them writes last, next_run_at belongs to the cadence the user sees: none
\* when the job is off, one of its firings when it is on.
ClockMatchesCadence ==
  \A k \in Keys :
    /\ rows[k].cadence = Off <=> rows[k].nextAt = Null
    /\ rows[k].cadence # Off => rows[k].nextAt % rows[k].cadence = 0

\* ReadOnceUnlessReopened.  A firing records its measurement twice only if an
\* earlier attempt at it was cut off before the clock moved, or a tab's late
\* request put the clock back: a job that fails half way is not sampled again.
ReadOnceUnlessReopened ==
  \A f \in reread : Measuring(f) \in reopened

\* NotifiedWasMailed.  A milestone is marked as notified only after a report
\* that carried it went out ("only once it has actually gone out",
\* server/scheduler.ts).
NotifiedWasMailed == \A m \in Milestones : news[m].notified => mails[m] > 0

\* MailedOnceUnlessUnmarked.  A milestone is mailed again only if a report
\* that carried it went out and was interrupted before markNotified.
MailedOnceUnlessUnmarked == \A m \in Milestones : mails[m] > 1 => m \in unmarked

\* PostedOnceUnlessCrossed.  Two rows of the same posted text exist only if
\* two requests checked for it before either had stored it.
PostedOnceUnlessCrossed ==
  \A l, m \in Milestones :
    /\ l # m /\ news[l].what # Null /\ news[l].what = news[m].what
    /\ news[l].by = "tab" /\ news[m].by = "tab"
    => news[l].what \in crossed

\* OverdueJobsMove.  Every due schedule is run and its clock moved, or it is
\* edited, though other tenants' jobs are ahead of it and fail each time: "one
\* broken connection cannot stop every other tenant's schedule behind it".
OverdueJobsMove ==
  \A k \in Keys : \A t \in 0..MaxTime :
    (rows[k].nextAt = t /\ t <= now) ~> rows[k].nextAt # t
=============================================================================
