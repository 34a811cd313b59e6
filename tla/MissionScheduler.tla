--------------------------- MODULE MissionScheduler ---------------------------
(***************************************************************************)
(* The database-backed scheduler of missions/scheduler.py: several worker  *)
(* processes run worker_loop, each pass claiming due schedules under a     *)
(* lease (claim_due_schedules), running their missions one after the other *)
(* and advancing each schedule in a transaction of its own                 *)
(* (advance_schedule), while the API edits schedules (upsert_schedule).    *)
(*                                                                         *)
(* The claim is a plain SELECT followed by an UPDATE by primary key in one *)
(* transaction: between the two, another worker can read the same rows.    *)
(* A mission takes any amount of time.                                     *)
(***************************************************************************)
EXTENDS Integers, FiniteSets

CONSTANTS
  Workers,       \* worker processes
  Schedules,     \* rows of the schedules table
  Null,          \* SQL NULL, and "no schedule"
  Period,        \* the cron cadence: a schedule fires at its multiples
  Lease,         \* LEASE_MINUTES
  ClaimLimit,    \* limit of claim_due_schedules
  BackoffAfter,  \* consecutive failures before backing off (3 in the code)
  DisableAfter,  \* consecutive failures before disabling (8 in the code)
  BackoffCap,    \* ceiling of the backoff (48 hours in the code)
  MaxTime,       \* bound: the clock stops here
  MaxEdits       \* bound: calls of upsert_schedule

ASSUME SchedulerAssumption ==
  /\ Null \notin Nat /\ Null \notin Schedules
  /\ Period \in Nat \ {0} /\ Lease \in Nat /\ ClaimLimit \in Nat \ {0}
  /\ BackoffAfter \in Nat /\ DisableAfter \in Nat \ {0} /\ BackoffCap \in Nat \ {0}
  /\ MaxTime \in Nat /\ MaxEdits \in Nat

VARIABLES
  now,        \* the clock
  sched,      \* the committed schedules table
  worker,     \* what each worker process remembers
  edits,      \* calls of upsert_schedule so far
  raced,      \* history: schedules two workers read as due before either claim committed
  outlived    \* history: schedules whose lease ran out on a worker that still had them

schedulerVars == <<now, sched, worker, edits, raced, outlived>>

Rows == [enabled : BOOLEAN, nextAt : Nat \cup {Null}, lockedBy : Workers \cup {Null},
         lockedUntil : Nat \cup {Null}, failures : Nat]
Memories == [mode : {"idle", "selected", "working"},
             seenAt : Nat,                   \* now of the claim's SELECT
             claims : SUBSET Schedules,      \* rows of the claim not started yet
             current : Schedules \cup {Null},
             outcome : {"running", "ok", "failed"}]

Resting == [mode |-> "idle", seenAt |-> 0, claims |-> {}, current |-> Null,
            outcome |-> "running"]

SchedulerTypeOK ==
  /\ now \in Nat
  /\ sched \in [Schedules -> Rows]
  /\ worker \in [Workers -> Memories]
  /\ edits \in Nat
  /\ raced \subseteq Schedules
  /\ outlived \subseteq Schedules

-----------------------------------------------------------------------------
\* croniter(cron, now).get_next: the first firing strictly after now.
NextFiring(n) == ((n \div Period) + 1) * Period

\* w has j to run or is running it.
Has(w, j) == j \in worker[w].claims \/ worker[w].current = j

SchedulerInit ==
  /\ now = 0
  /\ sched = [j \in Schedules |->
       [enabled |-> TRUE, nextAt |-> NextFiring(0), lockedBy |-> Null,
        lockedUntil |-> Null, failures |-> 0]]
  /\ worker = [w \in Workers |-> Resting]
  /\ edits = 0
  /\ raced = {}
  /\ outlived = {}

\* Mutants of Claimable.
ClaimableWhileLocked(j) ==
  /\ sched[j].enabled
  /\ sched[j].nextAt # Null /\ sched[j].nextAt <= now
ClaimableIfNeverLocked(j) ==
  /\ sched[j].enabled
  /\ sched[j].nextAt # Null /\ sched[j].nextAt <= now
  /\ sched[j].lockedUntil = Null

\* The WHERE clause of claim_due_schedules.
Claimable(j) ==
  /\ sched[j].enabled
  /\ sched[j].nextAt # Null /\ sched[j].nextAt <= now
  /\ sched[j].lockedUntil = Null \/ sched[j].lockedUntil < now

\* claim_due_schedules, the SELECT: the earliest due rows, up to the limit.
SelectDue(w) ==
  /\ worker[w].mode = "idle"
  /\ LET due == {j \in Schedules : Claimable(j)}
     IN \E A \in SUBSET due \ {{}} :
          /\ Cardinality(A) <= ClaimLimit
          /\ A = due \/ Cardinality(A) = ClaimLimit
          /\ \A j \in A, k \in due \ A : sched[j].nextAt <= sched[k].nextAt
          /\ worker' = [worker EXCEPT ![w] =
               [Resting EXCEPT !.mode = "selected", !.seenAt = now, !.claims = A]]
          /\ raced' = raced \cup
               {j \in A : \E v \in Workers \ {w} : worker[v].mode = "selected" /\ Has(v, j)}
          /\ outlived' = outlived \cup
               {j \in A : /\ sched[j].lockedUntil # Null /\ sched[j].lockedUntil < now
                          /\ \E v \in Workers \ {w} : worker[v].mode = "working" /\ Has(v, j)}
  /\ UNCHANGED <<now, sched, edits>>

\* claim_due_schedules, the UPDATE and the commit: by primary key, so a claim
\* committed in the meantime is overwritten.
CommitClaim(w) ==
  /\ worker[w].mode = "selected"
  /\ sched' = [j \in Schedules |->
       IF j \in worker[w].claims
       THEN [sched[j] EXCEPT !.lockedBy = w, !.lockedUntil = worker[w].seenAt + Lease]
       ELSE sched[j]]
  /\ worker' = [worker EXCEPT ![w].mode = "working"]
  /\ UNCHANGED <<now, edits, raced, outlived>>

\* tick: run_mission for the next claimed schedule.  The row is not read again.
RunMission(w, j) ==
  /\ worker[w].mode = "working" /\ worker[w].current = Null
  /\ j \in worker[w].claims
  /\ worker' = [worker EXCEPT ![w].claims = @ \ {j}, ![w].current = j,
                              ![w].outcome = "running"]
  /\ UNCHANGED <<now, sched, edits, raced, outlived>>

\* run_mission returns a run, or raises (org inactive or gone, engine error).
MissionReturns(w, outcome) ==
  /\ worker[w].current # Null /\ worker[w].outcome = "running"
  /\ worker' = [worker EXCEPT ![w].outcome = outcome]
  /\ UNCHANGED <<now, sched, edits, raced, outlived>>

FailuresAfter(row, outcome) == IF outcome = "ok" THEN 0 ELSE row.failures + 1

\* min(2 ** failures, 48)
Backoff(failures) ==
  LET doubled == 2 ^ failures IN IF doubled \in 1..BackoffCap THEN doubled ELSE BackoffCap

\* The next run: the next firing, or the backoff once failures repeat.
NextRunAfter(row) ==
  IF row.failures >= BackoffAfter
  THEN now + Backoff(row.failures)
  ELSE NextFiring(now)

DisabledAfter(failures) == failures >= DisableAfter

\* advance_schedule on the row as it is now: it releases whatever lease is on
\* the row, and a schedule disabled through the API stays disabled.
Advance(w) ==
  LET j == worker[w].current
      row == [sched[j] EXCEPT !.failures = FailuresAfter(sched[j], worker[w].outcome)]
  IN /\ j # Null /\ worker[w].outcome # "running"
     /\ sched' = [sched EXCEPT ![j] =
          [row EXCEPT !.lockedBy = Null, !.lockedUntil = Null,
                      !.nextAt = NextRunAfter(row),
                      !.enabled = @ /\ ~DisabledAfter(row.failures)]]
     /\ worker' = [worker EXCEPT ![w] =
          IF @.claims = {} THEN Resting
          ELSE [@ EXCEPT !.current = Null, !.outcome = "running"]]
     /\ UNCHANGED <<now, edits, raced, outlived>>

\* The worker process dies: what it had stays locked until the lease expires.
\* Bound: only while the lease can still expire before the clock stops.
Crash(w) ==
  /\ worker[w].mode # "idle"
  /\ now + Lease < MaxTime
  /\ worker' = [worker EXCEPT ![w] = Resting]
  /\ UNCHANGED <<now, sched, edits, raced, outlived>>

\* The worker is cancelled during a run: tick's finally clause still advances
\* the current schedule, as a failure; the other claims are abandoned.
Shutdown(w) ==
  /\ worker[w].current # Null /\ worker[w].outcome = "running"
  /\ now + Lease < MaxTime
  /\ worker' = [worker EXCEPT ![w].outcome = "failed", ![w].claims = {}]
  /\ UNCHANGED <<now, sched, edits, raced, outlived>>

\* upsert_schedule: the lease columns are left alone.
Upsert(j, on) ==
  /\ edits < MaxEdits
  /\ edits' = edits + 1
  /\ sched' = [sched EXCEPT ![j].enabled = on, ![j].failures = 0,
                            ![j].nextAt = IF on THEN NextFiring(now) ELSE Null]
  /\ UNCHANGED <<now, worker, raced, outlived>>

Tick ==
  /\ now < MaxTime
  /\ now' = now + 1
  /\ UNCHANGED <<sched, worker, edits, raced, outlived>>

SchedulerNext ==
  \/ Tick
  \/ \E w \in Workers : SelectDue(w) \/ CommitClaim(w) \/ Advance(w) \/ Crash(w) \/ Shutdown(w)
  \/ \E w \in Workers, j \in Schedules : RunMission(w, j)
  \/ \E w \in Workers, outcome \in {"ok", "failed"} : MissionReturns(w, outcome)
  \/ \E j \in Schedules, on \in BOOLEAN : Upsert(j, on)

SchedulerSpec == SchedulerInit /\ [][SchedulerNext]_schedulerVars

\* Workers keep looping and missions end (a mission is a finite graph of steps,
\* each attempted a few times under a timeout); nothing obliges a mission to
\* succeed, a worker to crash or a user to edit.
Fairness ==
  /\ WF_schedulerVars(Tick)
  /\ \A w \in Workers :
       /\ WF_schedulerVars(SelectDue(w)) /\ WF_schedulerVars(CommitClaim(w)) /\ WF_schedulerVars(Advance(w))
       /\ WF_schedulerVars(\E j \in Schedules : RunMission(w, j))
       /\ WF_schedulerVars(\E outcome \in {"ok", "failed"} : MissionReturns(w, outcome))

SchedulerFairSpec == SchedulerSpec /\ Fairness

-----------------------------------------------------------------------------
\* What the lease does guarantee: two workers have the same schedule only if
\* both read it as due before either committed its claim, or if one of them
\* still had it when its lease ran out.
ExclusiveUnlessRacedOrOutlived ==
  \A j \in Schedules : \A v, w \in Workers :
    Has(v, j) /\ Has(w, j) /\ v # w => j \in raced \cup outlived

\* Until one of these happens, a worker that has claimed a schedule owns its
\* lease: no edit and no other worker's bookkeeping takes it away.
ClaimKeepsItsLease ==
  \A j \in Schedules \ (raced \cup outlived) : \A w \in Workers :
    worker[w].mode = "working" /\ Has(w, j) => sched[j].lockedBy = w

\* A schedule that keeps failing is switched off, whatever mixture of workers
\* and edits produced the failures.
RepeatedFailureDisables ==
  \A j \in Schedules : sched[j].enabled => sched[j].failures < DisableAfter

\* Finishing a run never leaves the schedule due at once (no hot loop on a
\* broken integration), and nothing but an edit switches a schedule back on.
AdvanceDefers ==
  [][\A j \in Schedules :
       /\ \A w \in Workers : worker[w].current = j /\ Advance(w)
                             => ~sched'[j].enabled \/ sched'[j].nextAt > now
       /\ ~sched[j].enabled /\ sched'[j].enabled => edits' # edits]_schedulerVars

\* A due schedule is run or switched off, though workers crash and lease it
\* into the void: the lease expires.
DueSchedulesRun ==
  \A j \in Schedules :
    sched[j].enabled /\ sched[j].nextAt # Null /\ sched[j].nextAt <= now
    ~> \/ \E w \in Workers : worker[w].current = j
       \/ ~sched[j].enabled
       \/ sched[j].nextAt > now
=============================================================================
