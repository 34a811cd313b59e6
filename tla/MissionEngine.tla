---------------------------- MODULE MissionEngine ----------------------------
(***************************************************************************)
(* One mission run of missions/engine.py, from the row the API queues or   *)
(* the worker creates, through the dependency waves of MissionSpec, to the *)
(* status run_mission commits.  A wave runs its steps concurrently under a *)
(* semaphore; progress is committed only at wave boundaries, so a process  *)
(* that dies takes the current wave with it.                               *)
(*                                                                         *)
(* The model keeps the committed row (db) apart from what the process      *)
(* holds (engine, step, tries).  Money is counted in small whole units.    *)
(***************************************************************************)
EXTENDS Integers, FiniteSets

CONSTANTS
  Steps,        \* spec.steps
  Needs,        \* Step.needs
  OnError,      \* Step.on_error
  Optional,     \* the steps with Step.optional
  Conditional,  \* the steps with a Step.when
  Retries,      \* Step.retries, the same for every step
  Concurrency,  \* MissionSpec.concurrency
  Limit,        \* run_limit_usd of the run's SpendGuard
  MaxCost,      \* bound: the most one agent attempt reports
  MaxFaults,    \* bound: interruptions and errors outside the steps
  MaxResumes    \* bound: calls of MissionEngine.run with the id of an interrupted run

ASSUME ConstantsAssumption ==
  /\ IsFiniteSet(Steps)
  /\ Needs \in [Steps -> SUBSET Steps]
  /\ OnError \in [Steps -> {"fail", "continue", "resolve", "retry"}]
  /\ Optional \subseteq Steps /\ Conditional \subseteq Steps
  /\ Retries \in Nat /\ Concurrency \in Nat \ {0} /\ Limit \in Nat \ {0}
  /\ MaxCost \in Nat /\ MaxFaults \in Nat /\ MaxResumes \in Nat

\* MissionSpec.from_dict calls execution_order, which refuses a cycle.
ASSUME NeedsAcyclic ==
  \A done \in SUBSET Steps : done # Steps => \E s \in Steps \ done : Needs[s] \subseteq done

VARIABLES
  trigger,   \* who launched the run
  db,        \* the committed mission_runs row
  engine,    \* the memory of the process that runs it
  step,      \* where each step stands in that process
  tries,     \* attempts of each step
  faults,    \* interruptions and errors so far
  resumes    \* resumptions so far

vars == <<trigger, db, engine, step, tries, faults, resumes>>

Verdicts == {"succeeded", "partial", "failed"}
Results == {"succeeded", "skipped", "degraded", "failed"}
InFlight == {"waiting", "running"}

TypeOK ==
  /\ trigger \in {"manual", "schedule"}
  /\ db \in [status : {"none", "queued", "running"} \cup Verdicts, completed : SUBSET Steps]
  /\ engine \in [phase : {"down", "between", "wave", "ending"}, passed : SUBSET Steps,
                 completed : SUBSET Steps, spent : Nat, verdict : {"none"} \cup Verdicts]
  /\ step \in [Steps -> {"idle"} \cup InFlight \cup Results]
  /\ tries \in [Steps -> Nat]
  /\ faults \in Nat
  /\ resumes \in Nat

-----------------------------------------------------------------------------
\* Mutants of the operators below.
WaveOfAnyDependency(passed) ==
  {s \in Steps \ passed : Needs[s] = {} \/ Needs[s] \cap passed # {}}
PendingWholeWave(wave, completed) == wave
HasBudgetAlways == TRUE

\* execution_order: the wave that follows the waves already passed.
Wave(passed) == {s \in Steps \ passed : Needs[s] \subseteq passed}

\* The steps of the wave that the run has not completed.
Pending(wave, completed) == wave \ completed

\* The wave's semaphore has a free slot.
Room == Cardinality({s \in Steps : step[s] = "running"}) < Concurrency

\* step_budget > 0, and the check between waves.
HasBudget == engine.spent < Limit

\* The result of a step whose attempts are used up.  The ladder of
\* _alternative_routes ends in record_gap, which cannot fail: the step is
\* resolved or degraded, which _final_status treats alike.
Exhausted(s) ==
  IF OnError[s] = "resolve" THEN "degraded"
  ELSE IF s \in Optional \/ OnError[s] = "continue" THEN "skipped" ELSE "failed"

\* This result stops the mission.
Fatal(s, result) == result = "failed" /\ OnError[s] = "fail" /\ s \notin Optional

\* _final_status
FinalStatus(results) ==
  IF results \cap {"failed", "degraded"} # {} THEN "partial" ELSE "succeeded"

-----------------------------------------------------------------------------
Down == [phase |-> "down", passed |-> {}, completed |-> {}, spent |-> 0, verdict |-> "none"]

Init ==
  /\ trigger \in {"manual", "schedule"}
  /\ db = [status |-> IF trigger = "manual" THEN "queued" ELSE "none", completed |-> {}]
  /\ engine = Down
  /\ step = [s \in Steps |-> "idle"]
  /\ tries = [s \in Steps |-> 0]
  /\ faults = 0
  /\ resumes = 0

\* _start_or_resume: the row is committed as running; what it had completed is
\* read back, its results and its spend are not.
Begin ==
  /\ db' = [db EXCEPT !.status = "running"]
  /\ engine' = [Down EXCEPT !.phase = "between", !.completed = db.completed]
  /\ step' = [s \in Steps |-> "idle"]
  /\ tries' = [s \in Steps |-> 0]
  /\ UNCHANGED <<trigger, faults>>

\* A worker's new run, or the background task of a run the API queued.
StartRun ==
  /\ engine.phase = "down" /\ db.status \in {"none", "queued"}
  /\ Begin
  /\ UNCHANGED resumes

\* MissionEngine.run(resume_run_id = an interrupted run).
ResumeRun ==
  /\ engine.phase = "down" /\ db.status = "running"
  /\ resumes < MaxResumes
  /\ resumes' = resumes + 1
  /\ Begin

\* Every step of the wave was completed before the interruption.
SkipWave ==
  /\ engine.phase = "between"
  /\ LET wave == Wave(engine.passed)
     IN /\ wave # {} /\ Pending(wave, engine.completed) = {}
        /\ engine' = [engine EXCEPT !.passed = @ \cup wave]
  /\ UNCHANGED <<trigger, db, step, tries, faults, resumes>>

\* asyncio.gather over the wave's pending steps.
OpenWave ==
  /\ engine.phase = "between" /\ HasBudget
  /\ LET pending == Pending(Wave(engine.passed), engine.completed)
     IN /\ pending # {}
        /\ step' = [s \in Steps |-> IF s \in pending THEN "waiting" ELSE step[s]]
  /\ engine' = [engine EXCEPT !.phase = "wave"]
  /\ UNCHANGED <<trigger, db, tries, faults, resumes>>

\* The deadline has passed, which can be at any wave, or the budget is spent.
StopEarly ==
  /\ engine.phase = "between"
  /\ Pending(Wave(engine.passed), engine.completed) # {}
  /\ engine' = [engine EXCEPT !.phase = "ending", !.verdict = "partial"]
  /\ UNCHANGED <<trigger, db, step, tries, faults, resumes>>

\* The loop over the waves ran to its end.
Conclude ==
  /\ engine.phase = "between" /\ engine.passed = Steps
  /\ engine' = [engine EXCEPT !.phase = "ending",
                              !.verdict = FinalStatus({step[s] : s \in Steps})]
  /\ UNCHANGED <<trigger, db, step, tries, faults, resumes>>

-----------------------------------------------------------------------------
\* Mutant of SettleUnrun: a step that finds the budget spent is not settled.
SettleUnrunIfConditional(s, result) ==
  /\ step[s] = "waiting" /\ Room
  /\ s \in Conditional /\ result \in {"skipped", "failed"}
  /\ step' = [step EXCEPT ![s] = result]
  /\ UNCHANGED <<trigger, db, engine, tries, faults, resumes>>

\* _execute_step before its first attempt: the condition is false, or cannot be
\* evaluated, or no budget is left.
SettleUnrun(s, result) ==
  /\ step[s] = "waiting" /\ Room
  /\ \/ s \in Conditional /\ result \in {"skipped", "failed"}
     \/ ~HasBudget /\ result = "skipped"
  /\ step' = [step EXCEPT ![s] = result]
  /\ UNCHANGED <<trigger, db, engine, tries, faults, resumes>>

\* The first attempt: _dispatch under the step's timeout.
StartStep(s) ==
  /\ step[s] = "waiting" /\ Room /\ HasBudget
  /\ step' = [step EXCEPT ![s] = "running"]
  /\ tries' = [tries EXCEPT ![s] = 1]
  /\ UNCHANGED <<trigger, db, engine, faults, resumes>>

\* An attempt succeeds.  An agent's cost is recorded once it has answered.
FinishStep(s, cost) ==
  /\ step[s] = "running"
  /\ step' = [step EXCEPT ![s] = "succeeded"]
  /\ engine' = [engine EXCEPT !.spent = @ + cost]
  /\ UNCHANGED <<trigger, db, tries, faults, resumes>>

\* An attempt fails, or times out, which loses the cost of an agent that has
\* not answered: another one follows, without a new look at the budget, or the
\* step is settled.
FailAttempt(s, cost) ==
  /\ step[s] = "running"
  /\ engine' = [engine EXCEPT !.spent = @ + cost]
  /\ \/ /\ tries[s] <= Retries
        /\ tries' = [tries EXCEPT ![s] = @ + 1]
        /\ UNCHANGED step
     \/ /\ tries[s] > Retries
        /\ step' = [step EXCEPT ![s] = Exhausted(s)]
        /\ UNCHANGED tries
  /\ UNCHANGED <<trigger, db, faults, resumes>>

\* The step's task raises (its session cannot open, or cannot commit after the
\* last attempt): gather returns the exception and the step counts as failed,
\* whatever its on_error.
RaiseStep(s, cost) ==
  /\ \/ step[s] = "waiting" /\ Room /\ cost = 0
     \/ step[s] = "running"
  /\ step' = [step EXCEPT ![s] = "failed"]
  /\ engine' = [engine EXCEPT !.spent = @ + cost]
  /\ UNCHANGED <<trigger, db, tries, faults, resumes>>

\* The wave is over: every one of its steps counts as completed, failed ones
\* too, and the checkpoint is committed.
CloseWave ==
  /\ engine.phase = "wave" /\ \A s \in Steps : step[s] \notin InFlight
  /\ LET wave == Wave(engine.passed)
         completed == engine.completed \cup Pending(wave, engine.completed)
         stop == \E s \in Pending(wave, engine.completed) : Fatal(s, step[s])
     IN /\ db' = [db EXCEPT !.completed = completed]
        /\ engine' = [engine EXCEPT !.phase = IF stop THEN "ending" ELSE "between",
                                    !.passed = @ \cup wave,
                                    !.completed = completed,
                                    !.verdict = IF stop THEN "failed" ELSE @]
  /\ UNCHANGED <<trigger, step, tries, faults, resumes>>

\* The checkpoint's commit fails: the engine's last except clause.
FailCheckpoint ==
  /\ engine.phase = "wave" /\ \A s \in Steps : step[s] \notin InFlight
  /\ faults < MaxFaults
  /\ faults' = faults + 1
  /\ engine' = [engine EXCEPT !.phase = "ending", !.verdict = "failed",
       !.completed = @ \cup Pending(Wave(engine.passed), @)]
  /\ UNCHANGED <<trigger, db, step, tries, resumes>>

\* run_mission commits the status, with the spend and the ledger.
FinishRun ==
  /\ engine.phase = "ending"
  /\ db' = [status |-> engine.verdict, completed |-> engine.completed]
  /\ engine' = [engine EXCEPT !.phase = "down"]
  /\ UNCHANGED <<trigger, step, tries, faults, resumes>>

\* run_mission raises: the org is not active, or the session is beyond use at a
\* checkpoint or at the end.  The API's _execute then marks the row, a worker does not.
AbortRun ==
  /\ \/ engine.phase = "down" /\ db.status \in {"none", "queued"}
     \/ engine.phase \in {"between", "ending"}
     \/ engine.phase = "wave" /\ \A s \in Steps : step[s] \notin InFlight
  /\ faults < MaxFaults
  /\ faults' = faults + 1
  /\ db' = IF trigger = "manual" THEN [db EXCEPT !.status = "failed"] ELSE db
  /\ engine' = [engine EXCEPT !.phase = "down"]
  /\ UNCHANGED <<trigger, step, tries, resumes>>

\* The process dies or its task is cancelled (a deploy).  The cancelled status
\* is set on a row whose transaction is not committed.
Interrupt ==
  /\ engine.phase # "down"
  /\ faults < MaxFaults
  /\ faults' = faults + 1
  /\ engine' = Down
  /\ step' = [s \in Steps |-> "idle"]
  /\ UNCHANGED <<trigger, db, tries, resumes>>

\* The run's own steps; they happen in every process that stays alive.
Work ==
  \/ StartRun \/ SkipWave \/ OpenWave \/ StopEarly \/ Conclude \/ CloseWave \/ FinishRun
  \/ \E s \in Steps :
       \/ \E result \in {"skipped", "failed"} : SettleUnrun(s, result)
       \/ StartStep(s)
       \/ \E cost \in 0..MaxCost :
            FinishStep(s, cost) \/ FailAttempt(s, cost)

Next ==
  \/ Work \/ ResumeRun \/ FailCheckpoint \/ AbortRun \/ Interrupt
  \/ \E s \in Steps, cost \in 0..MaxCost : RaiseStep(s, cost)

Spec == Init /\ [][Next]_vars

\* Every attempt ends by its timeout, so a live process always gets on; nothing
\* obliges a session to fail.
FairSpec == Spec /\ WF_vars(Work)

-----------------------------------------------------------------------------
Ended == db.status \in Verdicts

\* DependenciesFirst.  A step is attempted only when every step it needs has
\* been completed, and the committed checkpoint is closed under needs, so
\* that this still holds for a run resumed from it.
DependenciesFirst ==
  /\ \A s \in Steps : step[s] = "running" => Needs[s] \subseteq engine.completed
  /\ \A s \in db.completed : Needs[s] \subseteq db.completed

\* FatalStops.  Once a step with on_error "fail" has failed its wave, no step
\* is in flight any more in that process, and the run can only end as failed
\* (engine.py, the fatal branch after the checkpoint).
FatalStops ==
  (\E s \in engine.completed \ Optional : step[s] = "failed" /\ OnError[s] = "fail") =>
    /\ engine.phase \in {"ending", "down"} /\ engine.verdict = "failed"
    /\ \A s \in Steps : step[s] \notin InFlight

\* SucceededMeansClean.  A run that was never resumed and is recorded as
\* succeeded completed every step, none of them failed or degraded.
SucceededMeansClean ==
  db.status = "succeeded" /\ resumes = 0 =>
    /\ db.completed = Steps
    /\ \A s \in Steps : step[s] \in {"succeeded", "skipped"}

\* OverrunBounded.  The budget is looked at before a step's first attempt
\* only: a run overspends by at most what the steps then under way can cost
\* over all their attempts.
OverrunBounded ==
  engine.spent < Limit + Concurrency * (Retries + 1) * MaxCost

\* CheckpointedNotRedone.  A step whose completion has been committed is never
\* attempted again, by this process or by one that resumes the run.
CheckpointedNotRedone ==
  [][\A s \in db.completed : step'[s] \in InFlight => step[s] \in InFlight]_vars

\* RunEnds.  A run whose process is left alone ends with a recorded verdict.
RunEnds == <>(Ended \/ faults > 0)
=============================================================================
