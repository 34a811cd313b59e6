---------------------------- MODULE MissionProofs ----------------------------
(***************************************************************************)
(* Proofs about missions.  MissionEngine: for any mission graph, any       *)
(* concurrency, any number of retries and any number of interruptions and  *)
(* resumptions.  MissionScheduler: for any number of workers and schedules *)
(* and any lease, cadence and failure thresholds.                          *)
(***************************************************************************)
EXTENDS MissionEngine, MissionScheduler, SetSums, TLAPS

(***************************************************************************)
(* The inductive invariant.                                                *)
(* Flight: steps are in flight only inside a wave, and only the wave's     *)
(* pending ones, none of which is left out.                                *)
(* Closed: the waves passed are complete, and what is complete, in the     *)
(* process and in the row, is closed under needs.                          *)
(* Stopped: a fatal failure among the completed steps has ended the run.   *)
(* Honest: what the verdict "succeeded" stands for, before and after its   *)
(* commit, in a run that has not been resumed.                             *)
(***************************************************************************)
Flight ==
  /\ engine.phase # "wave" => \A s \in Steps : step[s] \notin InFlight
  /\ engine.phase = "wave" =>
       \A s \in Steps : /\ step[s] \in InFlight => s \in Wave(engine.passed) \ engine.completed
                        /\ s \in Wave(engine.passed) \ engine.completed => step[s] # "idle"

Closed ==
  /\ engine.passed \subseteq engine.completed
  /\ \A s \in engine.completed : Needs[s] \subseteq engine.completed
  /\ \A s \in db.completed : Needs[s] \subseteq db.completed
  /\ engine.phase # "down" => db.completed \subseteq engine.completed /\ db.status = "running"

Stopped ==
  (\E s \in engine.completed : Fatal(s, step[s])) =>
    engine.phase \in {"ending", "down"} /\ engine.verdict = "failed"

Honest ==
  /\ db.status \in {"none", "queued"} => db.completed = {} /\ engine.phase = "down"
  /\ engine.phase # "down" /\ resumes = 0 =>
       \A s \in engine.completed : step[s] \in Results
  /\ engine.phase = "ending" =>
       /\ engine.verdict \in Verdicts
       /\ engine.verdict = "succeeded" =>
            /\ engine.completed = Steps
            /\ \A s \in Steps : step[s] \notin {"failed", "degraded"}
  /\ SucceededMeansClean

\* The invariant without its types.
Parts == Flight /\ Closed /\ Stopped /\ Honest

Engines == [phase : {"down", "between", "wave", "ending"}, passed : SUBSET Steps,
            completed : SUBSET Steps, spent : Nat, verdict : {"none"} \cup Verdicts]
DbRows == [status : {"none", "queued", "running"} \cup Verdicts, completed : SUBSET Steps]

-----------------------------------------------------------------------------
\* The operators of the engine return values of their types.
LEMMA OperatorTypes ==
  /\ Down \in Engines
  /\ \A s \in Steps : Exhausted(s) \in Results
  /\ \A R \in SUBSET Results : FinalStatus(R) \in Verdicts
  /\ \A P \in SUBSET Steps : Wave(P) \subseteq Steps
  BY ConstantsAssumption
  DEF Down, Engines, Verdicts, Exhausted, Results, FinalStatus, Wave

\* Every variable keeps its type.
THEOREM TypeCorrect == Spec => []TypeOK
<1> USE DEF Engines, DbRows
<1>1. Init => TypeOK
  BY OperatorTypes DEF Init, TypeOK
<1>2. TypeOK /\ [Next]_vars => TypeOK'
  <2> SUFFICES ASSUME TypeOK, [Next]_vars PROVE TypeOK'
    OBVIOUS
  <2>1. CASE StartRun
    <3>1. [db EXCEPT !.status = "running"] \in DbRows
      BY DEF TypeOK
    <3>2. [Down EXCEPT !.phase = "between", !.completed = db.completed] \in Engines
      BY OperatorTypes DEF TypeOK
    <3> QED
      BY <2>1, <3>1, <3>2 DEF TypeOK, StartRun, Begin
  <2>2. CASE ResumeRun
    <3>1. [db EXCEPT !.status = "running"] \in DbRows
      BY DEF TypeOK
    <3>2. [Down EXCEPT !.phase = "between", !.completed = db.completed] \in Engines
      BY OperatorTypes DEF TypeOK
    <3> QED
      BY <2>2, <3>1, <3>2 DEF TypeOK, ResumeRun, Begin
  <2>3. CASE SkipWave
    BY <2>3, OperatorTypes, ConstantsAssumption DEF TypeOK, SkipWave, Pending, Verdicts, Results, InFlight
  <2>4. CASE OpenWave
    BY <2>4, OperatorTypes, ConstantsAssumption DEF TypeOK, OpenWave, Pending, Verdicts, Results, InFlight
  <2>5. CASE StopEarly
    BY <2>5, OperatorTypes, ConstantsAssumption DEF TypeOK, StopEarly, Pending, Verdicts, Results, InFlight
  <2>6. CASE Conclude
    <3>1. FinalStatus({step[s] : s \in Steps}) \in Verdicts
      BY DEF FinalStatus, Verdicts
    <3> QED
      BY <2>6, <3>1 DEF TypeOK, Conclude
  <2>7. CASE CloseWave
    BY <2>7, OperatorTypes, ConstantsAssumption DEF TypeOK, CloseWave, Pending, Verdicts, Results, InFlight
  <2>8. CASE FinishRun
    BY <2>8, OperatorTypes, ConstantsAssumption DEF TypeOK, FinishRun, Pending, Verdicts, Results, InFlight
  <2>9. CASE FailCheckpoint
    <3>1. engine.completed \cup Pending(Wave(engine.passed), engine.completed) \subseteq Steps
      BY OperatorTypes DEF TypeOK, Pending
    <3>2. engine' = [engine EXCEPT !.phase = "ending", !.verdict = "failed",
            !.completed = engine.completed \cup Pending(Wave(engine.passed), engine.completed)]
      BY <2>9 DEF FailCheckpoint
    <3>3. engine' \in Engines
      BY <3>1, <3>2 DEF TypeOK, Verdicts
    <3> QED
      BY <2>9, <3>3 DEF TypeOK, FailCheckpoint
  <2>10. CASE AbortRun
    BY <2>10, OperatorTypes, ConstantsAssumption DEF TypeOK, AbortRun, Pending, Verdicts, Results, InFlight
  <2>11. CASE Interrupt
    BY <2>11, OperatorTypes, ConstantsAssumption DEF TypeOK, Interrupt, Pending, Verdicts, Results, InFlight
  <2>12. ASSUME NEW s \in Steps, NEW r \in {"skipped", "failed"}, SettleUnrun(s, r) PROVE TypeOK'
    BY <2>12, OperatorTypes, ConstantsAssumption DEF TypeOK, SettleUnrun, Pending, Verdicts, Results, InFlight
  <2>13. ASSUME NEW s \in Steps, StartStep(s) PROVE TypeOK'
    BY <2>13, OperatorTypes, ConstantsAssumption DEF TypeOK, StartStep, Pending, Verdicts, Results, InFlight
  <2>14. ASSUME NEW s \in Steps, NEW c \in 0..MaxCost, FinishStep(s, c) PROVE TypeOK'
    BY <2>14, OperatorTypes, ConstantsAssumption DEF TypeOK, FinishStep, Pending, Verdicts, Results, InFlight
  <2>15. ASSUME NEW s \in Steps, NEW c \in 0..MaxCost, FailAttempt(s, c) PROVE TypeOK'
    BY <2>15, OperatorTypes, ConstantsAssumption DEF TypeOK, FailAttempt, Pending, Verdicts, Results, InFlight
  <2>16. ASSUME NEW s \in Steps, NEW cost \in 0..MaxCost, RaiseStep(s, cost) PROVE TypeOK'
    BY <2>16, OperatorTypes, ConstantsAssumption DEF TypeOK, RaiseStep, Pending, Verdicts, Results, InFlight
  <2>17. CASE UNCHANGED vars
    BY <2>17 DEF TypeOK, vars
  <2> QED
    BY <2>1, <2>2, <2>3, <2>4, <2>5, <2>6, <2>7, <2>8, <2>9, <2>10, <2>11, <2>12, <2>13, <2>14, <2>15, <2>16, <2>17 DEF Next, Work
<1> QED
  BY <1>1, <1>2, PTL DEF Spec

-----------------------------------------------------------------------------
\* The parts of the invariant hold in every reachable state.
THEOREM Invariant == Spec => []Parts
<1>1. Init => Parts
  BY DEF Init, Down, Parts, Flight, Closed, Stopped, Honest, SucceededMeansClean, InFlight, Fatal, Verdicts
<1>2. TypeOK /\ TypeOK' /\ Parts /\ [Next]_vars => Parts'
  <2> SUFFICES ASSUME TypeOK, TypeOK', Parts, [Next]_vars PROVE Parts'
    OBVIOUS
  <2>0. Flight /\ Closed /\ Stopped /\ Honest
    BY DEF Parts
  <2> USE <2>0
  <2>1. CASE StartRun
    <3>1. Flight'
      BY <2>1 DEF StartRun, Begin, Down, TypeOK, Flight, InFlight, Results, Verdicts
    <3>2. Closed'
      BY <2>1 DEF StartRun, Begin, Down, TypeOK, Flight, Closed, Wave, Pending
    <3>3. Stopped'
      BY <2>1 DEF StartRun, Begin, Down, TypeOK, Flight, Stopped, Fatal, InFlight, Results, Pending
    <3>4. Honest'
      BY <2>1 DEF StartRun, Begin, Down, TypeOK, Flight, Closed, Honest, SucceededMeansClean, InFlight, Results, Verdicts, Pending
    <3> QED
      BY <3>1, <3>2, <3>3, <3>4 DEF Parts
  <2>2. CASE ResumeRun
    <3>1. Flight'
      BY <2>2 DEF ResumeRun, Begin, Down, TypeOK, Flight, InFlight, Results, Verdicts
    <3>2. Closed'
      BY <2>2 DEF ResumeRun, Begin, Down, TypeOK, Flight, Closed, Wave, Pending
    <3>3. Stopped'
      BY <2>2 DEF ResumeRun, Begin, Down, TypeOK, Flight, Stopped, Fatal, InFlight, Results, Pending
    <3>4. Honest'
      BY <2>2 DEF ResumeRun, Begin, Down, TypeOK, Flight, Closed, Honest, SucceededMeansClean, InFlight, Results, Verdicts, Pending
    <3> QED
      BY <3>1, <3>2, <3>3, <3>4 DEF Parts
  <2>3. CASE SkipWave
    <3>1. Flight'
      BY <2>3 DEF SkipWave, TypeOK, Flight, InFlight, Results, Verdicts
    <3>2. Closed'
      BY <2>3 DEF SkipWave, TypeOK, Flight, Closed, Wave, Pending
    <3>3. Stopped'
      BY <2>3 DEF SkipWave, TypeOK, Flight, Stopped, Fatal, InFlight, Results, Pending
    <3>4. Honest'
      BY <2>3 DEF SkipWave, TypeOK, Flight, Closed, Honest, SucceededMeansClean, InFlight, Results, Verdicts, Pending
    <3> QED
      BY <3>1, <3>2, <3>3, <3>4 DEF Parts
  <2>4. CASE OpenWave
    <3>1. Flight'
      <4>1. engine' = [engine EXCEPT !.phase = "wave"]
        BY <2>4 DEF OpenWave
      <4>2. \A s \in Steps : s \in Wave(engine.passed) \ engine.completed => step'[s] = "waiting"
        BY <2>4 DEF OpenWave, Pending
      <4>3. \A s \in Steps : s \notin Wave(engine.passed) \ engine.completed => step'[s] = step[s]
        BY <2>4 DEF OpenWave, Pending
      <4>4. engine'.phase = "wave" /\ engine'.passed = engine.passed
            /\ engine'.completed = engine.completed
        BY <4>1 DEF TypeOK
      <4>5. Wave(engine'.passed) = Wave(engine.passed)
        BY <4>4
      <4> QED
        BY <2>4, <4>2, <4>3, <4>4, <4>5 DEF Flight, InFlight, OpenWave
    <3>2. Closed'
      BY <2>4 DEF OpenWave, TypeOK, Flight, Closed, Wave, Pending
    <3>3. Stopped'
      BY <2>4 DEF OpenWave, TypeOK, Flight, Stopped, Fatal, InFlight, Results, Pending
    <3>4. Honest'
      BY <2>4 DEF OpenWave, TypeOK, Flight, Closed, Honest, SucceededMeansClean, InFlight, Results, Verdicts, Pending
    <3> QED
      BY <3>1, <3>2, <3>3, <3>4 DEF Parts
  <2>5. CASE StopEarly
    <3>1. Flight'
      BY <2>5 DEF StopEarly, TypeOK, Flight, InFlight, Results, Verdicts
    <3>2. Closed'
      BY <2>5 DEF StopEarly, TypeOK, Flight, Closed, Wave, Pending
    <3>3. Stopped'
      BY <2>5 DEF StopEarly, TypeOK, Flight, Stopped, Fatal, InFlight, Results, Pending
    <3>4. Honest'
      BY <2>5 DEF StopEarly, TypeOK, Flight, Closed, Honest, SucceededMeansClean, InFlight, Results, Verdicts, Pending
    <3> QED
      BY <3>1, <3>2, <3>3, <3>4 DEF Parts
  <2>6. CASE Conclude
    <3>1. Flight'
      BY <2>6 DEF Conclude, TypeOK, Flight, InFlight, Results, Verdicts
    <3>2. Closed'
      BY <2>6 DEF Conclude, TypeOK, Flight, Closed, Wave, Pending
    <3>3. Stopped'
      BY <2>6 DEF Conclude, TypeOK, Flight, Stopped, Fatal, InFlight, Results, Pending
    <3>4. Honest'
      <4>1. engine.completed = Steps
        BY <2>6 DEF Conclude, Closed, TypeOK
      <4>2. FinalStatus({step[s] : s \in Steps}) = "succeeded"
            => \A s \in Steps : step[s] \notin {"failed", "degraded"}
        BY DEF FinalStatus
      <4>3. FinalStatus({step[s] : s \in Steps}) \in Verdicts
        BY DEF FinalStatus, Verdicts
      <4>4. /\ engine'.phase = "ending" /\ engine'.completed = Steps
            /\ engine'.verdict = FinalStatus({step[s] : s \in Steps})
        BY <2>6, <4>1 DEF Conclude, TypeOK
      <4> QED
        BY <2>6, <4>1, <4>2, <4>3, <4>4 DEF Conclude, Honest, SucceededMeansClean, Closed
    <3> QED
      BY <3>1, <3>2, <3>3, <3>4 DEF Parts
  <2>7. CASE CloseWave
    <3>1. Flight'
      BY <2>7 DEF CloseWave, TypeOK, Flight, InFlight, Results, Verdicts
    <3>2. Closed'
      BY <2>7 DEF CloseWave, TypeOK, Flight, Closed, Wave, Pending
    <3>3. Stopped'
      BY <2>7 DEF CloseWave, TypeOK, Flight, Stopped, Fatal, InFlight, Results, Pending
    <3>4. Honest'
      <4>1. \A s \in Pending(Wave(engine.passed), engine.completed) : step[s] \in Results
        BY <2>7 DEF CloseWave, Pending, Flight, Wave, TypeOK, InFlight
      <4>2. /\ db'.status = "running" /\ engine'.phase # "down"
            /\ engine'.completed = engine.completed \cup Pending(Wave(engine.passed), engine.completed)
        BY <2>7 DEF CloseWave, TypeOK, Closed
      <4>3. engine'.phase = "ending" => engine'.verdict = "failed"
        BY <2>7 DEF CloseWave, TypeOK
      <4> QED
        BY <2>7, <4>1, <4>2, <4>3 DEF CloseWave, Honest, SucceededMeansClean, Verdicts
    <3> QED
      BY <3>1, <3>2, <3>3, <3>4 DEF Parts
  <2>8. CASE FinishRun
    <3>1. Flight'
      BY <2>8 DEF FinishRun, TypeOK, Flight, InFlight, Results, Verdicts
    <3>2. Closed'
      BY <2>8 DEF FinishRun, TypeOK, Flight, Closed, Wave, Pending
    <3>3. Stopped'
      BY <2>8 DEF FinishRun, TypeOK, Flight, Stopped, Fatal, InFlight, Results, Pending
    <3>4. Honest'
      BY <2>8 DEF FinishRun, TypeOK, Flight, Closed, Honest, SucceededMeansClean, InFlight, Results, Verdicts, Pending
    <3> QED
      BY <3>1, <3>2, <3>3, <3>4 DEF Parts
  <2>9. CASE FailCheckpoint
    <3>1. Flight'
      BY <2>9 DEF FailCheckpoint, TypeOK, Flight, InFlight, Results, Verdicts
    <3>2. Closed'
      BY <2>9 DEF FailCheckpoint, TypeOK, Flight, Closed, Wave, Pending
    <3>3. Stopped'
      BY <2>9 DEF FailCheckpoint, TypeOK, Flight, Stopped, Fatal, InFlight, Results, Pending
    <3>4. Honest'
      BY <2>9 DEF FailCheckpoint, TypeOK, Flight, Closed, Honest, SucceededMeansClean, InFlight, Results, Verdicts, Pending
    <3> QED
      BY <3>1, <3>2, <3>3, <3>4 DEF Parts
  <2>10. CASE AbortRun
    <3>1. Flight'
      BY <2>10 DEF AbortRun, TypeOK, Flight, InFlight, Results, Verdicts
    <3>2. Closed'
      BY <2>10 DEF AbortRun, TypeOK, Flight, Closed, Wave, Pending
    <3>3. Stopped'
      BY <2>10 DEF AbortRun, TypeOK, Flight, Stopped, Fatal, InFlight, Results, Pending
    <3>4. Honest'
      BY <2>10 DEF AbortRun, TypeOK, Flight, Closed, Honest, SucceededMeansClean, InFlight, Results, Verdicts, Pending
    <3> QED
      BY <3>1, <3>2, <3>3, <3>4 DEF Parts
  <2>11. CASE Interrupt
    <3>1. Flight'
      BY <2>11 DEF Interrupt, Down, TypeOK, Flight, InFlight, Results, Verdicts
    <3>2. Closed'
      BY <2>11 DEF Interrupt, Down, TypeOK, Flight, Closed, Wave, Pending
    <3>3. Stopped'
      BY <2>11 DEF Interrupt, Down, TypeOK, Flight, Stopped, Fatal, InFlight, Results, Pending
    <3>4. Honest'
      BY <2>11 DEF Interrupt, Down, TypeOK, Flight, Closed, Honest, SucceededMeansClean, InFlight, Results, Verdicts, Pending
    <3> QED
      BY <3>1, <3>2, <3>3, <3>4 DEF Parts
  <2>12. ASSUME NEW s \in Steps, NEW r \in {"skipped", "failed"}, SettleUnrun(s, r) PROVE Parts'
    <3>1. Flight'
      BY <2>12 DEF SettleUnrun, TypeOK, Flight, InFlight, Results, Verdicts
    <3>2. Closed'
      BY <2>12 DEF SettleUnrun, TypeOK, Flight, Closed, Wave, Pending
    <3>3. Stopped'
      BY <2>12 DEF SettleUnrun, TypeOK, Flight, Stopped, Fatal, InFlight, Results, Pending
    <3>4. Honest'
      BY <2>12 DEF SettleUnrun, TypeOK, Flight, Closed, Honest, SucceededMeansClean, InFlight, Results, Verdicts, Pending
    <3> QED
      BY <3>1, <3>2, <3>3, <3>4 DEF Parts
  <2>13. ASSUME NEW s \in Steps, StartStep(s) PROVE Parts'
    <3>1. Flight'
      BY <2>13 DEF StartStep, TypeOK, Flight, InFlight, Results, Verdicts
    <3>2. Closed'
      BY <2>13 DEF StartStep, TypeOK, Flight, Closed, Wave, Pending
    <3>3. Stopped'
      BY <2>13 DEF StartStep, TypeOK, Flight, Stopped, Fatal, InFlight, Results, Pending
    <3>4. Honest'
      BY <2>13 DEF StartStep, TypeOK, Flight, Closed, Honest, SucceededMeansClean, InFlight, Results, Verdicts, Pending
    <3> QED
      BY <3>1, <3>2, <3>3, <3>4 DEF Parts
  <2>14. ASSUME NEW s \in Steps, NEW c \in 0..MaxCost, FinishStep(s, c) PROVE Parts'
    <3>1. Flight'
      BY <2>14 DEF FinishStep, TypeOK, Flight, InFlight, Results, Verdicts
    <3>2. Closed'
      BY <2>14 DEF FinishStep, TypeOK, Flight, Closed, Wave, Pending
    <3>3. Stopped'
      BY <2>14 DEF FinishStep, TypeOK, Flight, Stopped, Fatal, InFlight, Results, Pending
    <3>4. Honest'
      BY <2>14 DEF FinishStep, TypeOK, Flight, Closed, Honest, SucceededMeansClean, InFlight, Results, Verdicts, Pending
    <3> QED
      BY <3>1, <3>2, <3>3, <3>4 DEF Parts
  <2>15. ASSUME NEW s \in Steps, NEW c \in 0..MaxCost, FailAttempt(s, c) PROVE Parts'
    <3>1. Flight'
      <4>1. Exhausted(s) \in Results
        BY OperatorTypes
      <4>2. \A u \in Steps : u # s => step'[u] = step[u]
        BY <2>15 DEF FailAttempt, TypeOK
      <4>3. step'[s] = step[s] \/ step'[s] \in Results
        BY <2>15, <4>1 DEF FailAttempt, TypeOK
      <4>4. engine'.phase = engine.phase /\ engine'.passed = engine.passed
            /\ engine'.completed = engine.completed
        BY <2>15 DEF FailAttempt, TypeOK
      <4>5. Wave(engine'.passed) = Wave(engine.passed)
        BY <4>4
      <4> QED
        BY <4>2, <4>3, <4>4, <4>5 DEF Flight, InFlight, Results
    <3>2. Closed'
      BY <2>15 DEF FailAttempt, TypeOK, Flight, Closed, Wave, Pending
    <3>3. Stopped'
      BY <2>15 DEF FailAttempt, TypeOK, Flight, Stopped, Fatal, InFlight, Results, Pending
    <3>4. Honest'
      BY <2>15 DEF FailAttempt, TypeOK, Flight, Closed, Honest, SucceededMeansClean, InFlight, Results, Verdicts, Pending
    <3> QED
      BY <3>1, <3>2, <3>3, <3>4 DEF Parts
  <2>16. ASSUME NEW s \in Steps, NEW cost \in 0..MaxCost, RaiseStep(s, cost) PROVE Parts'
    <3>1. Flight'
      BY <2>16 DEF RaiseStep, TypeOK, Flight, InFlight, Results, Verdicts
    <3>2. Closed'
      BY <2>16 DEF RaiseStep, TypeOK, Flight, Closed, Wave, Pending
    <3>3. Stopped'
      BY <2>16 DEF RaiseStep, TypeOK, Flight, Stopped, Fatal, InFlight, Results, Pending
    <3>4. Honest'
      BY <2>16 DEF RaiseStep, TypeOK, Flight, Closed, Honest, SucceededMeansClean, InFlight, Results, Verdicts, Pending
    <3> QED
      BY <3>1, <3>2, <3>3, <3>4 DEF Parts
  <2>17. CASE UNCHANGED vars
    BY <2>17 DEF vars, Parts, Flight, Closed, Stopped, Honest, SucceededMeansClean, Wave, Fatal
  <2> QED
    BY <2>1, <2>2, <2>3, <2>4, <2>5, <2>6, <2>7, <2>8, <2>9, <2>10, <2>11, <2>12, <2>13, <2>14, <2>15, <2>16, <2>17 DEF Next, Work
<1> QED
  BY <1>1, <1>2, TypeCorrect, PTL DEF Spec

-----------------------------------------------------------------------------
\* Steps run after what they need, and every checkpoint is closed under needs.
THEOREM DependenciesHold == Spec => []DependenciesFirst
<1>1. TypeOK /\ Parts => DependenciesFirst
  BY DEF TypeOK, Parts, Flight, Closed, InFlight, Wave, DependenciesFirst
<1> QED
  BY <1>1, TypeCorrect, Invariant, PTL

\* A fatal failure ends the run as failed.
THEOREM FatalFailuresStop == Spec => []FatalStops
<1>1. Parts => FatalStops
  BY DEF Parts, Stopped, Flight, FatalStops, Fatal
<1> QED
  BY <1>1, Invariant, PTL

\* A run recorded as succeeded, and never resumed, had no failed or degraded step.
THEOREM SuccessIsClean == Spec => []SucceededMeansClean
<1>1. Parts => SucceededMeansClean
  BY DEF Parts, Honest
<1> QED
  BY <1>1, Invariant, PTL

\* No step whose completion was committed is attempted again, whatever is
\* interrupted and resumed.
THEOREM CheckpointsHold == Spec => CheckpointedNotRedone
<1>1. TypeOK /\ Parts /\ [Next]_vars
      => [\A s \in db.completed : step'[s] \in InFlight => step[s] \in InFlight]_vars
  <2> DEFINE Kept == \A s \in db.completed : step'[s] \in InFlight => step[s] \in InFlight
  <2> SUFFICES ASSUME TypeOK, Parts, [Next]_vars PROVE Kept \/ UNCHANGED vars
    OBVIOUS
  <2>0. db.completed \subseteq Steps /\ (engine.phase # "down" => db.completed \subseteq engine.completed)
    BY DEF TypeOK, Parts, Closed
  <2>1. CASE StartRun
    BY <2>1, <2>0 DEF StartRun, Begin, TypeOK, InFlight
  <2>2. CASE ResumeRun
    BY <2>2, <2>0 DEF ResumeRun, Begin, TypeOK, InFlight
  <2>3. CASE SkipWave
    BY <2>3, <2>0 DEF SkipWave, TypeOK, InFlight
  <2>4. CASE OpenWave
    BY <2>4, <2>0 DEF OpenWave, TypeOK, InFlight, Pending
  <2>5. CASE StopEarly
    BY <2>5, <2>0 DEF StopEarly, TypeOK, InFlight
  <2>6. CASE Conclude
    BY <2>6, <2>0 DEF Conclude, TypeOK, InFlight
  <2>7. CASE CloseWave
    BY <2>7, <2>0 DEF CloseWave, TypeOK, InFlight
  <2>8. CASE FinishRun
    BY <2>8, <2>0 DEF FinishRun, TypeOK, InFlight
  <2>9. CASE FailCheckpoint
    BY <2>9, <2>0 DEF FailCheckpoint, TypeOK, InFlight
  <2>10. CASE AbortRun
    BY <2>10, <2>0 DEF AbortRun, TypeOK, InFlight
  <2>11. CASE Interrupt
    BY <2>11, <2>0 DEF Interrupt, TypeOK, InFlight
  <2>12. ASSUME NEW s \in Steps, NEW r \in {"skipped", "failed"}, SettleUnrun(s, r) PROVE Kept
    BY <2>12, <2>0 DEF SettleUnrun, TypeOK, InFlight
  <2>13. ASSUME NEW s \in Steps, StartStep(s) PROVE Kept
    BY <2>13, <2>0 DEF StartStep, TypeOK, InFlight
  <2>14. ASSUME NEW s \in Steps, NEW c \in 0..MaxCost, FinishStep(s, c) PROVE Kept
    BY <2>14, <2>0 DEF FinishStep, TypeOK, InFlight
  <2>15. ASSUME NEW s \in Steps, NEW c \in 0..MaxCost, FailAttempt(s, c) PROVE Kept
    BY <2>15, <2>0 DEF FailAttempt, TypeOK, InFlight, Exhausted
  <2>16. ASSUME NEW s \in Steps, NEW cost \in 0..MaxCost, RaiseStep(s, cost) PROVE Kept
    BY <2>16, <2>0 DEF RaiseStep, TypeOK, InFlight
  <2>17. CASE UNCHANGED vars
    BY <2>17
  <2> QED
    BY <2>1, <2>2, <2>3, <2>4, <2>5, <2>6, <2>7, <2>8, <2>9, <2>10, <2>11, <2>12, <2>13, <2>14, <2>15, <2>16, <2>17 DEF Next, Work
<1> QED
  BY <1>1, TypeCorrect, Invariant, PTL DEF Spec, CheckpointedNotRedone

-----------------------------------------------------------------------------
(***************************************************************************)
(* The budget.  What the attempts of the steps under way may still cost is *)
(* counted with what has been spent.                                       *)
(***************************************************************************)
Running(at) == {s \in Steps : at[s] = "running"}

\* What the n-th attempt of a step and those after it may cost.
Allowance(n) == (Retries + 2 - n) * MaxCost

Reserve(at, made) == [s \in Steps |-> IF at[s] = "running" THEN Allowance(made[s]) ELSE 0]

\* A step under way has made some of its attempts.
Counted(at, made) == \A s \in Running(at) : made[s] \in 1..(Retries + 1)

Ceiling == Limit + Concurrency * ((Retries + 1) * MaxCost)

Affordable ==
  /\ Counted(step, tries)
  /\ engine.spent + SumFunctionOnSet(Reserve(step, tries), Steps) < Ceiling

\* The allowance of a step pays for an attempt and leaves the next one's.
LEMMA AllowanceIs ==
  ASSUME NEW n \in 1..(Retries + 1)
  PROVE  /\ Allowance(n) \in 0..((Retries + 1) * MaxCost) /\ MaxCost <= Allowance(n)
         /\ Allowance(n + 1) = Allowance(n) - MaxCost
<1> DEFINE k == Retries + 1 - n
<1>1. k \in Nat /\ n - 1 \in Nat /\ MaxCost \in Nat /\ n \in Nat /\ Retries \in Nat
  BY ConstantsAssumption
<1>2. /\ Retries + 2 - n = k + 1 /\ Retries + 2 - (n + 1) = k
      /\ Retries + 1 = k + 1 + (n - 1)
  BY <1>1
<1> HIDE DEF k
<1>3. /\ (k + 1) * MaxCost = k * MaxCost + MaxCost
      /\ (k + 1 + (n - 1)) * MaxCost = k * MaxCost + MaxCost + (n - 1) * MaxCost
      /\ k * MaxCost \in Nat /\ (n - 1) * MaxCost \in Nat
  BY <1>1
<1> QED
  BY <1>1, <1>2, <1>3 DEF Allowance

\* The reserve is a natural number for every step, and so is its sum.
LEMMA ReserveTyped ==
  ASSUME NEW at, NEW made, Counted(at, made)
  PROVE  /\ IsFiniteSet(Steps) /\ \A s \in Steps : Reserve(at, made)[s] \in Nat
         /\ SumFunctionOnSet(Reserve(at, made), Steps) \in Nat
<1>1. IsFiniteSet(Steps)
  BY ConstantsAssumption
<1>2. ASSUME NEW s \in Steps PROVE Reserve(at, made)[s] \in Nat
  BY AllowanceIs DEF Reserve, Running, Counted
<1> QED
  BY <1>1, <1>2, SumType

\* Only the steps under way have one, and each at most all its attempts.
LEMMA ReserveBounded ==
  ASSUME NEW at, NEW made, Counted(at, made)
  PROVE  /\ SumFunctionOnSet(Reserve(at, made), Steps) <= Cardinality(Running(at)) * ((Retries + 1) * MaxCost)
         /\ Cardinality(Running(at)) \in Nat
<1> DEFINE K == (Retries + 1) * MaxCost
           zero == [s \in Steps |-> 0]
<1>1. IsFiniteSet(Steps) /\ (\A s \in Steps : Reserve(at, made)[s] \in Nat) /\ K \in Nat
  BY ReserveTyped, ConstantsAssumption
<1>2. Running(at) \in SUBSET Steps /\ IsFiniteSet(Running(at)) /\ Cardinality(Running(at)) \in Nat
  BY <1>1, FS_Subset, FS_CardinalityType DEF Running
<1>3. SumFunctionOnSet(Reserve(at, made), Steps) = SumFunctionOnSet(zero, Steps) + SumFunctionOnSet(Reserve(at, made), Running(at))
  <2>1. \A s \in Steps : zero[s] = IF s \in Running(at) THEN 0 ELSE Reserve(at, made)[s]
    BY DEF Reserve, Running
  <2> QED BY <1>1, <1>2, <2>1, SumCleared
<1>4. SumFunctionOnSet(zero, Steps) = 0
  <2>1. \A s \in Steps : zero[s] \in 0..0
    OBVIOUS
  <2>2. SumFunctionOnSet(zero, Steps) <= Cardinality(Steps) * 0 /\ Cardinality(Steps) \in Nat
    BY <1>1, <2>1, SumBounded, FS_CardinalityType
  <2>3. SumFunctionOnSet(zero, Steps) \in Nat
    BY <1>1, <2>1, SumType
  <2> QED BY <2>2, <2>3
<1>5. SumFunctionOnSet(Reserve(at, made), Running(at)) <= Cardinality(Running(at)) * K
  <2>1. \A s \in Running(at) : Reserve(at, made)[s] \in 0..K
    BY AllowanceIs DEF Reserve, Running, Counted
  <2> HIDE DEF K
  <2> QED BY <1>1, <1>2, <2>1, SumBounded
<1>6. SumFunctionOnSet(Reserve(at, made), Running(at)) \in Nat
  BY <1>1, <1>2, SumType
<1> QED
  BY <1>2, <1>3, <1>4, <1>5, <1>6

\* When nothing is in flight nothing is reserved.
LEMMA NothingReserved ==
  ASSUME NEW at, NEW made, \A s \in Steps : at[s] # "running"
  PROVE  SumFunctionOnSet(Reserve(at, made), Steps) = 0 /\ Running(at) = {}
<1>1. Running(at) = {}
  BY DEF Running
<1>2. /\ SumFunctionOnSet(Reserve(at, made), Steps) <= Cardinality(Running(at)) * ((Retries + 1) * MaxCost)
      /\ SumFunctionOnSet(Reserve(at, made), Steps) \in Nat /\ Cardinality(Running(at)) = 0
  <2>1. Counted(at, made)
    BY <1>1 DEF Counted
  <2> QED BY <1>1, <2>1, ReserveBounded, ReserveTyped, FS_EmptySet
<1> QED
  BY <1>1, <1>2, ConstantsAssumption

\* A running step whose attempt cost something has reserved that.
LEMMA PaidFromReserve ==
  ASSUME TypeOK, TypeOK', Affordable, NEW s \in Steps, step[s] = "running", NEW cost \in 0..MaxCost,
         engine'.spent = engine.spent + cost,
         \A u \in Steps : u # s => step'[u] = step[u] /\ tries'[u] = tries[u],
         \/ step'[s] # "running"
         \/ step'[s] = "running" /\ tries[s] <= Retries /\ tries'[s] = tries[s] + 1
  PROVE  Affordable'
<1>0. Counted(step, tries)
  BY DEF Affordable
<1>1. Counted(step', tries')
  BY <1>0, ConstantsAssumption DEF Running, Counted
<1> DEFINE f == Reserve(step, tries)
           g == Reserve(step', tries')
<1>2. IsFiniteSet(Steps) /\ (\A u \in Steps : f[u] \in Nat) /\ SumFunctionOnSet(f, Steps) \in Nat
  BY <1>0, ReserveTyped
<1>3. \A u \in Steps : g[u] \in Nat
  BY <1>1, AllowanceIs DEF Reserve, Running, Counted
<1>4. \A u \in Steps : u # s => g[u] = f[u]
  BY DEF Reserve
<1>5. g[s] + cost <= f[s]
  <2>1. f[s] = Allowance(tries[s]) /\ tries[s] \in 1..(Retries + 1)
    BY <1>0 DEF Reserve, Running, Counted
  <2>2. MaxCost <= Allowance(tries[s]) /\ Allowance(tries[s] + 1) = Allowance(tries[s]) - MaxCost
    BY <2>1, AllowanceIs
  <2>3. g[s] = 0 \/ g[s] = Allowance(tries[s] + 1)
    BY DEF Reserve
  <2> HIDE DEF f, g
  <2> QED BY <1>2, <1>3, <2>1, <2>2, <2>3, ConstantsAssumption
<1> HIDE DEF f, g
<1>6. SumFunctionOnSet(g, Steps) = SumFunctionOnSet(f, Steps) - f[s] + g[s]
  BY <1>2, <1>3, <1>4, SumChanged
<1>7. engine.spent \in Nat /\ Ceiling \in Nat /\ engine.spent + SumFunctionOnSet(f, Steps) < Ceiling
  BY ConstantsAssumption DEF TypeOK, Affordable, Ceiling, f
<1>8. f[s] \in Nat /\ g[s] \in Nat
  BY <1>2, <1>3
<1>9. engine.spent + cost + SumFunctionOnSet(g, Steps) < Ceiling
  BY <1>2, <1>5, <1>6, <1>7, <1>8
<1> QED
  BY <1>1, <1>9 DEF Affordable, g

\* A first attempt is begun while the budget is not spent and the semaphore
\* has a slot, which is where the bound comes from.
LEMMA StartAffordable ==
  ASSUME TypeOK, Affordable, NEW s \in Steps, StartStep(s)
  PROVE  Affordable'
<1> DEFINE K == (Retries + 1) * MaxCost
<1>1. /\ s \notin Running(step) /\ Cardinality(Running(step)) < Concurrency /\ engine.spent < Limit
      /\ step' = [step EXCEPT ![s] = "running"] /\ tries' = [tries EXCEPT ![s] = 1]
      /\ engine' = engine
  BY DEF StartStep, Running, Room, HasBudget
<1>2. Running(step') = Running(step) \cup {s}
  BY <1>1 DEF Running, TypeOK
<1>3. Counted(step', tries')
  BY <1>1, <1>2, ConstantsAssumption DEF Affordable, TypeOK, Running, Counted
<1>4. SumFunctionOnSet(Reserve(step', tries'), Steps) <= Cardinality(Running(step')) * K
  BY <1>3, ReserveBounded
<1>5. Cardinality(Running(step')) <= Concurrency /\ Cardinality(Running(step')) \in Nat
  <2>1. IsFiniteSet(Running(step))
    BY ConstantsAssumption, FS_Subset DEF Running
  <2>2. Cardinality(Running(step')) = Cardinality(Running(step)) + 1 /\ Cardinality(Running(step)) \in Nat
    BY <1>1, <1>2, <2>1, FS_AddElement, FS_CardinalityType
  <2> QED BY <1>1, <2>2, ConstantsAssumption
<1>6. K \in Nat
  BY ConstantsAssumption
<1> HIDE DEF K
<1>7. Cardinality(Running(step')) * K <= Concurrency * K
  BY <1>5, <1>6, ConstantsAssumption, Scaled
<1>8. /\ engine.spent \in Nat /\ Limit \in Nat /\ SumFunctionOnSet(Reserve(step', tries'), Steps) \in Nat
      /\ Concurrency * K \in Nat /\ Cardinality(Running(step')) * K \in Nat
  BY <1>3, <1>5, <1>6, ConstantsAssumption, ReserveTyped DEF TypeOK
<1>9. engine.spent + SumFunctionOnSet(Reserve(step', tries'), Steps) < Limit + Concurrency * K
  BY <1>1, <1>4, <1>7, <1>8
<1> QED
  BY <1>1, <1>3, <1>9 DEF Affordable, Ceiling, K

\* What a step that neither begins nor ends an attempt leaves alone.
LEMMA BudgetLeftAlone ==
  ASSUME TypeOK, Affordable, engine'.spent = engine.spent, tries' = tries,
         step \in [Steps -> {"idle"} \cup InFlight \cup Results],
         step' \in [Steps -> {"idle"} \cup InFlight \cup Results],
         \A s \in Steps : step'[s] = "running" <=> step[s] = "running"
  PROVE  Affordable'
<1>1. Running(step') = Running(step) /\ Reserve(step', tries') = Reserve(step, tries)
  BY DEF Running, Reserve
<1> QED
  BY <1>1 DEF Affordable, Counted

\* A process that begins, or has been interrupted, has spent nothing yet.
LEMMA NothingSpent ==
  ASSUME engine'.spent = 0, \A s \in Steps : step'[s] # "running"
  PROVE  Affordable'
<1>1. SumFunctionOnSet(Reserve(step', tries'), Steps) = 0 /\ Running(step') = {}
  BY NothingReserved
<1>2. 0 < Ceiling
  BY ConstantsAssumption DEF Ceiling
<1> QED
  BY <1>1, <1>2 DEF Affordable, Counted

\* Every step of the engine keeps what is reserved within the bound.
LEMMA StepAffordable ==
  ASSUME TypeOK, TypeOK', Flight, Affordable, [Next]_vars
  PROVE  Affordable'
<1>1. CASE StartRun \/ ResumeRun
  <2>1. engine' = [Down EXCEPT !.phase = "between", !.completed = db.completed]
    BY <1>1 DEF StartRun, ResumeRun, Begin
  <2>2. engine'.spent = 0 /\ \A s \in Steps : step'[s] # "running"
    BY <1>1, <2>1 DEF StartRun, ResumeRun, Begin, Down
  <2> QED BY <2>2, NothingSpent
<1>2. CASE Interrupt
  BY <1>2, NothingSpent DEF Interrupt, Down
<1>3. CASE SkipWave \/ StopEarly \/ Conclude \/ FinishRun \/ FailCheckpoint \/ AbortRun
  <2>1. engine'.spent = engine.spent /\ tries' = tries /\ step' = step
    BY <1>3 DEF SkipWave, StopEarly, Conclude, FinishRun, FailCheckpoint, AbortRun, TypeOK
  <2> QED BY <2>1, BudgetLeftAlone DEF TypeOK
<1>4. CASE CloseWave
  <2>1. engine'.spent = engine.spent /\ tries' = tries /\ step' = step
    BY <1>4 DEF CloseWave, TypeOK
  <2> QED BY <2>1, BudgetLeftAlone DEF TypeOK
<1>5. CASE OpenWave
  <2>1. engine'.spent = engine.spent /\ tries' = tries
    BY <1>5 DEF OpenWave, TypeOK
  <2>2. \A s \in Steps : step'[s] # "running" /\ step[s] # "running"
    BY <1>5 DEF OpenWave, Flight, InFlight
  <2> QED BY <2>1, <2>2, BudgetLeftAlone DEF TypeOK
<1>6. ASSUME NEW s \in Steps, NEW r \in {"skipped", "failed"}, SettleUnrun(s, r) PROVE Affordable'
  <2>1. engine'.spent = engine.spent /\ tries' = tries
    BY <1>6 DEF SettleUnrun
  <2>2. \A u \in Steps : step'[u] = "running" <=> step[u] = "running"
    BY <1>6 DEF SettleUnrun, TypeOK
  <2> QED BY <2>1, <2>2, BudgetLeftAlone DEF TypeOK
<1>7. ASSUME NEW s \in Steps, StartStep(s) PROVE Affordable'
  BY <1>7, StartAffordable
<1>8. ASSUME NEW s \in Steps, NEW cost \in 0..MaxCost,
             FinishStep(s, cost) \/ FailAttempt(s, cost) \/ RaiseStep(s, cost)
      PROVE  Affordable'
  <2>1. CASE step[s] = "running"
    <3>1. engine'.spent = engine.spent + cost
      BY <1>8 DEF FinishStep, FailAttempt, RaiseStep, TypeOK
    <3>2. \A u \in Steps : u # s => step'[u] = step[u] /\ tries'[u] = tries[u]
      BY <1>8 DEF FinishStep, FailAttempt, RaiseStep, TypeOK
    <3>3. \/ step'[s] # "running"
          \/ step'[s] = "running" /\ tries[s] <= Retries /\ tries'[s] = tries[s] + 1
      BY <1>8, <2>1 DEF FinishStep, FailAttempt, RaiseStep, TypeOK, Exhausted
    <3> QED BY <2>1, <3>1, <3>2, <3>3, PaidFromReserve
  <2>2. CASE step[s] # "running"
    <3>1. step' = [step EXCEPT ![s] = "failed"] /\ cost = 0 /\ tries' = tries
          /\ engine' = [engine EXCEPT !.spent = @ + cost]
      BY <1>8, <2>2 DEF FinishStep, FailAttempt, RaiseStep
    <3>2. engine'.spent = engine.spent
      BY <3>1 DEF TypeOK
    <3>3. \A u \in Steps : step'[u] = "running" <=> step[u] = "running"
      BY <2>2, <3>1 DEF TypeOK
    <3> QED BY <3>1, <3>2, <3>3, BudgetLeftAlone DEF TypeOK
  <2> QED BY <2>1, <2>2
<1>9. CASE UNCHANGED vars
  BY <1>9, BudgetLeftAlone DEF vars, TypeOK
<1> QED
  BY <1>1, <1>2, <1>3, <1>4, <1>5, <1>6, <1>7, <1>8, <1>9 DEF Next, Work

\* However many steps run side by side and however often each is retried, a
\* run overspends by less than their attempts cost.
THEOREM OverrunHolds == Spec => []OverrunBounded
<1>1. Init => Affordable
  <2> SUFFICES ASSUME Init PROVE Affordable
    OBVIOUS
  <2>1. SumFunctionOnSet(Reserve(step, tries), Steps) = 0 /\ Running(step) = {}
    BY NothingReserved DEF Init
  <2>2. 0 < Ceiling /\ engine.spent = 0
    BY ConstantsAssumption DEF Ceiling, Init, Down
  <2> QED BY <2>1, <2>2 DEF Affordable, Counted
<1>2. TypeOK /\ TypeOK' /\ Parts /\ Affordable /\ [Next]_vars => Affordable'
  BY StepAffordable DEF Parts
<1>3. TypeOK /\ Affordable => OverrunBounded
  <2> SUFFICES ASSUME TypeOK, Affordable PROVE OverrunBounded
    OBVIOUS
  <2>1. SumFunctionOnSet(Reserve(step, tries), Steps) \in Nat
    BY ReserveTyped DEF Affordable
  <2>2. Ceiling = Limit + Concurrency * (Retries + 1) * MaxCost /\ Ceiling \in Nat
    BY ConstantsAssumption DEF Ceiling
  <2>3. engine.spent \in Nat /\ engine.spent + SumFunctionOnSet(Reserve(step, tries), Steps) < Ceiling
    BY DEF TypeOK, Affordable
  <2>4. engine.spent < Ceiling
    BY <2>1, <2>2, <2>3
  <2> QED BY <2>2, <2>4 DEF OverrunBounded
<1> QED
  BY <1>1, <1>2, <1>3, TypeCorrect, Invariant, PTL DEF Spec

-----------------------------------------------------------------------------
(***************************************************************************)
(* The scheduler and its workers.  The inductive invariant: Tidy describes *)
(* a worker's memory; Owned says that outside the recorded accidents a     *)
(* schedule is with one worker, whose committed claim is the one on the    *)
(* row.                                                                    *)
(***************************************************************************)
Tidy ==
  \A w \in Workers :
    /\ worker[w].mode = "idle" => worker[w].claims = {}
    /\ worker[w].mode # "working" => worker[w].current = Null
    /\ worker[w].current \notin worker[w].claims

Owned ==
  \A j \in Schedules \ (raced \cup outlived) :
    /\ \A v, w \in Workers : Has(v, j) /\ Has(w, j) => v = w
    /\ \A w \in Workers : worker[w].mode = "working" /\ Has(w, j)
                          => sched[j].lockedBy = w /\ sched[j].lockedUntil # Null

IInv ==
  /\ SchedulerTypeOK
  /\ Tidy
  /\ Owned
  /\ RepeatedFailureDisables

-----------------------------------------------------------------------------
\* The cron's next firing is a time after now.
LEMMA NextFiringIsLater ==
  ASSUME NEW n \in Nat
  PROVE  NextFiring(n) \in Nat /\ NextFiring(n) > n
  BY SchedulerAssumption DEF NextFiring

\* The backoff is at least one hour, whatever the exponent.
LEMMA BackoffIsPositive ==
  ASSUME NEW f \in Nat
  PROVE  Backoff(f) \in Nat \ {0}
  BY SchedulerAssumption DEF Backoff

\* The firing advance_schedule computes lies in the future.
LEMMA NextRunIsLater ==
  ASSUME SchedulerTypeOK, NEW r \in Rows
  PROVE  NextRunAfter(r) \in Nat /\ NextRunAfter(r) > now
<1>1. r.failures \in Nat /\ now \in Nat
  BY DEF SchedulerTypeOK, Rows
<1>2. Backoff(r.failures) \in Nat \ {0}
  BY <1>1, BackoffIsPositive
<1> QED
  BY <1>1, <1>2, NextFiringIsLater DEF NextRunAfter

\* A worker that remembers nothing is a value of its type.
LEMMA RestingType == Resting \in Memories
  BY DEF Resting, Memories

\* What advance_schedule makes of a row.
LEMMA AdvancedRow ==
  ASSUME SchedulerTypeOK, NEW w \in Workers, Advance(w)
  PROVE  LET j == worker[w].current
         IN  /\ j \in Schedules
             /\ sched'[j] \in Rows
             /\ sched'[j].nextAt > now /\ sched'[j].nextAt \in Nat
             /\ sched'[j].enabled => sched[j].enabled
             /\ sched'[j].enabled => sched'[j].failures < DisableAfter
             /\ sched' = [sched EXCEPT ![j] = sched'[j]]
<1> DEFINE j == worker[w].current
           row == [sched[j] EXCEPT !.failures = FailuresAfter(sched[j], worker[w].outcome)]
           on == row.enabled /\ ~DisabledAfter(row.failures)
           new == [row EXCEPT !.lockedBy = Null, !.lockedUntil = Null,
                              !.nextAt = NextRunAfter(row), !.enabled = on]
<1>1. j \in Schedules
  BY DEF Advance, SchedulerTypeOK, Memories
<1>2. sched[j] \in Rows
  BY <1>1 DEF SchedulerTypeOK
<1>3. FailuresAfter(sched[j], worker[w].outcome) \in Nat
  BY <1>2 DEF FailuresAfter, Rows
<1>4. row \in Rows /\ row.enabled = sched[j].enabled
  BY <1>2, <1>3 DEF Rows
<1>5. sched' = [sched EXCEPT ![j] = new]
  BY DEF Advance
<1>6. sched'[j] = new
  BY <1>1, <1>5 DEF SchedulerTypeOK
<1>7. on \in BOOLEAN /\ (on => row.enabled) /\ (on => ~DisabledAfter(row.failures))
  OBVIOUS
<1> HIDE DEF j, row, on
<1>8. NextRunAfter(row) \in Nat /\ NextRunAfter(row) > now
  BY <1>4, NextRunIsLater
<1>9. new \in Rows /\ new.nextAt = NextRunAfter(row) /\ new.enabled = on
      /\ new.failures = row.failures
  BY <1>4, <1>7, <1>8 DEF Rows
<1>10. on => row.failures < DisableAfter
  BY <1>4, <1>7, SchedulerAssumption DEF DisabledAfter, Rows
<1> HIDE DEF new
<1>11. sched' = [sched EXCEPT ![j] = sched'[j]]
  BY <1>5, <1>6
<1> QED
  BY <1>1, <1>4, <1>6, <1>7, <1>8, <1>9, <1>10, <1>11 DEF j

-----------------------------------------------------------------------------
\* Every variable keeps its type.
THEOREM SchedulerTypeCorrect == SchedulerSpec => []SchedulerTypeOK
<1>1. SchedulerInit => SchedulerTypeOK
  BY NextFiringIsLater, RestingType DEF SchedulerInit, SchedulerTypeOK, Rows
<1>2. SchedulerTypeOK /\ [SchedulerNext]_schedulerVars => SchedulerTypeOK'
  <2> SUFFICES ASSUME SchedulerTypeOK, [SchedulerNext]_schedulerVars PROVE SchedulerTypeOK'
    OBVIOUS
  <2>1. CASE Tick
    BY <2>1 DEF SchedulerTypeOK, Tick
  <2>2. ASSUME NEW w \in Workers, SelectDue(w) PROVE SchedulerTypeOK'
    <3>1. PICK A \in SUBSET Schedules :
            worker' = [worker EXCEPT ![w] =
              [Resting EXCEPT !.mode = "selected", !.seenAt = now, !.claims = A]]
      BY <2>2 DEF SelectDue
    <3>2. [Resting EXCEPT !.mode = "selected", !.seenAt = now, !.claims = A] \in Memories
      BY RestingType DEF SchedulerTypeOK, Memories
    <3> QED
      BY <2>2, <3>1, <3>2 DEF SelectDue, SchedulerTypeOK
  <2>3. ASSUME NEW w \in Workers, CommitClaim(w) PROVE SchedulerTypeOK'
    <3>1. worker[w] \in Memories /\ [worker[w] EXCEPT !.mode = "working"] \in Memories
      BY DEF SchedulerTypeOK, Memories
    <3>2. worker[w].seenAt + Lease \in Nat
      BY <3>1, SchedulerAssumption DEF Memories
    <3>3. ASSUME NEW j \in Schedules PROVE sched'[j] \in Rows
      BY <2>3, <3>2 DEF CommitClaim, SchedulerTypeOK, Rows
    <3>4. sched' \in [Schedules -> Rows]
      BY <2>3, <3>3 DEF CommitClaim
    <3> QED
      BY <2>3, <3>1, <3>4 DEF CommitClaim, SchedulerTypeOK
  <2>4. ASSUME NEW w \in Workers, NEW j \in Schedules, RunMission(w, j) PROVE SchedulerTypeOK'
    <3>1. [worker[w] EXCEPT !.claims = @ \ {j}, !.current = j, !.outcome = "running"] \in Memories
      BY DEF SchedulerTypeOK, Memories
    <3> QED
      BY <2>4, <3>1 DEF RunMission, SchedulerTypeOK
  <2>5. ASSUME NEW w \in Workers, NEW o \in {"ok", "failed"}, MissionReturns(w, o) PROVE SchedulerTypeOK'
    <3>1. [worker[w] EXCEPT !.outcome = o] \in Memories
      BY DEF SchedulerTypeOK, Memories
    <3> QED
      BY <2>5, <3>1 DEF MissionReturns, SchedulerTypeOK
  <2>6. ASSUME NEW w \in Workers, Advance(w) PROVE SchedulerTypeOK'
    <3>1. sched' \in [Schedules -> Rows]
      BY <2>6, AdvancedRow DEF SchedulerTypeOK
    <3>2. [worker[w] EXCEPT !.current = Null, !.outcome = "running"] \in Memories
      BY DEF SchedulerTypeOK, Memories
    <3> QED
      BY <2>6, <3>1, <3>2, RestingType DEF Advance, SchedulerTypeOK
  <2>7. ASSUME NEW w \in Workers, Crash(w) PROVE SchedulerTypeOK'
    BY <2>7, RestingType DEF Crash, SchedulerTypeOK
  <2>8. ASSUME NEW w \in Workers, Shutdown(w) PROVE SchedulerTypeOK'
    <3>1. [worker[w] EXCEPT !.outcome = "failed", !.claims = {}] \in Memories
      BY DEF SchedulerTypeOK, Memories
    <3> QED
      BY <2>8, <3>1 DEF Shutdown, SchedulerTypeOK
  <2>9. ASSUME NEW j \in Schedules, NEW on \in BOOLEAN, Upsert(j, on) PROVE SchedulerTypeOK'
    <3>1. (IF on THEN NextFiring(now) ELSE Null) \in Nat \cup {Null}
      BY NextFiringIsLater DEF SchedulerTypeOK
    <3>2. [sched[j] EXCEPT !.enabled = on, !.failures = 0,
                           !.nextAt = IF on THEN NextFiring(now) ELSE Null] \in Rows
      BY <3>1 DEF SchedulerTypeOK, Rows
    <3> QED
      BY <2>9, <3>2 DEF Upsert, SchedulerTypeOK
  <2>10. CASE UNCHANGED schedulerVars
    BY <2>10 DEF schedulerVars, SchedulerTypeOK
  <2> QED
    BY <2>1, <2>2, <2>3, <2>4, <2>5, <2>6, <2>7, <2>8, <2>9, <2>10 DEF SchedulerNext
<1> QED
  BY <1>1, <1>2, PTL DEF SchedulerSpec

-----------------------------------------------------------------------------
\* The initial states satisfy the invariant.
LEMMA InitIInv == SchedulerInit => IInv
<1> SUFFICES ASSUME SchedulerInit PROVE IInv
  OBVIOUS
<1>1. SchedulerTypeOK
  BY NextFiringIsLater, RestingType DEF SchedulerInit, SchedulerTypeOK, Rows
<1> QED
  BY <1>1, SchedulerAssumption
  DEF SchedulerInit, IInv, Tidy, Owned, RepeatedFailureDisables, Resting, Has

\* A claim's SELECT: whoever else has one of the rows is recorded.
LEMMA SelectDueIInv ==
  ASSUME IInv, SchedulerTypeOK', NEW w \in Workers, SelectDue(w)
  PROVE  IInv'
<1>1. PICK A \in SUBSET Schedules :
        /\ \A j \in A : Claimable(j)
        /\ worker' = [worker EXCEPT ![w] =
             [Resting EXCEPT !.mode = "selected", !.seenAt = now, !.claims = A]]
        /\ raced' = raced \cup
             {j \in A : \E v \in Workers \ {w} : worker[v].mode = "selected" /\ Has(v, j)}
        /\ outlived' = outlived \cup
             {j \in A : /\ sched[j].lockedUntil # Null /\ sched[j].lockedUntil < now
                        /\ \E v \in Workers \ {w} : worker[v].mode = "working" /\ Has(v, j)}
  BY DEF SelectDue
<1>2. /\ worker'[w].mode = "selected" /\ worker'[w].claims = A /\ worker'[w].current = Null
      /\ \A v \in Workers : v # w => worker'[v] = worker[v]
      /\ sched' = sched
  BY <1>1, RestingType DEF SelectDue, IInv, SchedulerTypeOK, Resting
<1>3. \A j \in Schedules : /\ ~Has(w, j)
                           /\ Has(w, j)' <=> j \in A
                           /\ \A v \in Workers : v # w => (Has(v, j)' <=> Has(v, j))
  BY <1>2, SchedulerAssumption DEF SelectDue, IInv, Tidy, Has
<1>4. \A v \in Workers, j \in Schedules : Has(v, j) => worker[v].mode \in {"selected", "working"}
  BY SchedulerAssumption DEF IInv, SchedulerTypeOK, Memories, Tidy, Has
<1>5. \A j \in A \ (raced' \cup outlived') : \A v \in Workers : Has(v, j) => v = w
  <2> SUFFICES ASSUME NEW j \in A, j \notin raced', j \notin outlived',
                      NEW v \in Workers, Has(v, j), v # w
               PROVE  FALSE
    OBVIOUS
  <2>1. j \notin raced \cup outlived /\ worker[v].mode = "working"
    BY <1>1, <1>4
  <2>2. sched[j].lockedUntil # Null
    BY <2>1 DEF IInv, Owned
  <2> QED
    BY <1>1, <2>1, <2>2 DEF Claimable
<1>6. raced \cup outlived \subseteq raced' \cup outlived'
  BY <1>1
<1>7. Owned'
  <2> SUFFICES ASSUME NEW j \in Schedules, j \notin raced' \cup outlived'
               PROVE  /\ \A u, v \in Workers : Has(u, j)' /\ Has(v, j)' => u = v
                      /\ \A v \in Workers : worker'[v].mode = "working" /\ Has(v, j)'
                           => sched[j].lockedBy = v /\ sched[j].lockedUntil # Null
    BY <1>2 DEF Owned
  <2>1. j \notin raced \cup outlived
    BY <1>6
  <2> QED
    BY <1>2, <1>3, <1>5, <2>1 DEF IInv, Owned
<1>8. Tidy'
  BY <1>2, SchedulerAssumption DEF IInv, Tidy
<1> QED
  BY <1>2, <1>7, <1>8 DEF IInv, RepeatedFailureDisables

\* A committed claim is on the row, or one of the two accidents is recorded.
LEMMA CommitClaimIInv ==
  ASSUME IInv, SchedulerTypeOK', NEW w \in Workers, CommitClaim(w)
  PROVE  IInv'
<1>1. /\ worker'[w].mode = "working" /\ worker'[w].claims = worker[w].claims
      /\ worker'[w].current = worker[w].current
      /\ \A v \in Workers : v # w => worker'[v] = worker[v]
      /\ UNCHANGED <<raced, outlived>>
  BY DEF CommitClaim, IInv, SchedulerTypeOK, Memories
<1>2. \A v \in Workers, j \in Schedules : Has(v, j)' <=> Has(v, j)
  BY <1>1 DEF Has
<1>3. worker[w].seenAt + Lease # Null
  BY SchedulerAssumption DEF IInv, SchedulerTypeOK, Memories
<1>4. \A j \in Schedules :
        /\ j \in worker[w].claims => sched'[j].lockedBy = w /\ sched'[j].lockedUntil # Null
        /\ j \notin worker[w].claims => sched'[j] = sched[j]
        /\ sched'[j].enabled = sched[j].enabled /\ sched'[j].failures = sched[j].failures
  BY <1>3 DEF CommitClaim, IInv, SchedulerTypeOK, Rows
<1>5. worker[w].current = Null
  BY DEF CommitClaim, IInv, Tidy
<1>6. Owned'
  <2> SUFFICES ASSUME NEW j \in Schedules, j \notin raced \cup outlived
               PROVE  /\ \A u, v \in Workers : Has(u, j)' /\ Has(v, j)' => u = v
                      /\ \A v \in Workers : worker'[v].mode = "working" /\ Has(v, j)'
                           => sched'[j].lockedBy = v /\ sched'[j].lockedUntil # Null
    BY <1>1 DEF Owned
  <2>1. \A v \in Workers : j \in worker[w].claims /\ Has(v, j) => v = w
    BY DEF IInv, Owned, Has
  <2>2. Has(w, j) => j \in worker[w].claims
    BY <1>5, SchedulerAssumption DEF Has
  <2> QED
    BY <1>1, <1>2, <1>4, <2>1, <2>2 DEF IInv, Owned
<1>7. Tidy'
  BY <1>1 DEF IInv, Tidy
<1> QED
  BY <1>4, <1>6, <1>7 DEF IInv, RepeatedFailureDisables

\* Steps that leave the table alone and give no worker a schedule it did not have.
LEMMA WorkerStepIInv ==
  ASSUME IInv, SchedulerTypeOK', UNCHANGED <<sched, raced, outlived>>, Tidy',
         \A w \in Workers, j \in Schedules : Has(w, j)' => Has(w, j),
         \A w \in Workers : worker'[w].mode = "working" => worker[w].mode = "working"
  PROVE  IInv'
  BY DEF IInv, Owned, RepeatedFailureDisables

\* Advancing a schedule gives up the claim on it.
LEMMA AdvanceIInv ==
  ASSUME IInv, SchedulerTypeOK', NEW w \in Workers, Advance(w)
  PROVE  IInv'
<1>1. PICK j \in Schedules :
      /\ j = worker[w].current
      /\ \A k \in Schedules : k # j => sched'[k] = sched[k]
      /\ sched'[j].enabled => sched'[j].failures < DisableAfter
  BY AdvancedRow DEF IInv, SchedulerTypeOK
<1>2. /\ worker'[w].claims = worker[w].claims /\ worker'[w].current = Null
      /\ worker'[w].mode = "working" => worker[w].mode = "working"
      /\ worker'[w].mode = "idle" => worker'[w].claims = {}
      /\ worker'[w].mode # "selected"
      /\ \A v \in Workers : v # w => worker'[v] = worker[v]
      /\ UNCHANGED <<raced, outlived>>
  <2>1. worker[w].mode = "working"
    BY <1>1, SchedulerAssumption DEF IInv, Tidy
  <2> QED
    <3>1. worker' = [worker EXCEPT ![w] =
            IF worker[w].claims = {} THEN Resting
            ELSE [worker[w] EXCEPT !.current = Null, !.outcome = "running"]]
      BY DEF Advance
    <3>2. worker[w] \in Memories /\ UNCHANGED <<raced, outlived>>
      BY DEF Advance, IInv, SchedulerTypeOK
    <3>3. CASE worker[w].claims = {}
      BY <2>1, <3>1, <3>2, <3>3 DEF IInv, SchedulerTypeOK, Resting
    <3>4. CASE worker[w].claims # {}
      BY <2>1, <3>1, <3>2, <3>4 DEF IInv, SchedulerTypeOK, Memories
    <3> QED
      BY <3>3, <3>4
<1>3. \A v \in Workers, k \in Schedules : Has(v, k)' => Has(v, k) /\ (k = j => v # w)
  BY <1>1, <1>2, SchedulerAssumption DEF IInv, Tidy, Has
<1>4. j \notin raced \cup outlived => \A v \in Workers : ~Has(v, j)'
  BY <1>1, <1>3 DEF IInv, Owned, Has
<1>5. \A v \in Workers : worker'[v].mode = "working" => worker[v].mode = "working"
  BY <1>2
<1>6. Owned'
  <2> SUFFICES ASSUME NEW k \in Schedules, k \notin raced \cup outlived
               PROVE  /\ \A u, v \in Workers : Has(u, k)' /\ Has(v, k)' => u = v
                      /\ \A v \in Workers : worker'[v].mode = "working" /\ Has(v, k)'
                           => sched'[k].lockedBy = v /\ sched'[k].lockedUntil # Null
    BY <1>2 DEF Owned
  <2> QED
    BY <1>1, <1>3, <1>4, <1>5 DEF IInv, Owned
<1>7. Tidy'
  BY <1>2, SchedulerAssumption DEF IInv, Tidy, SchedulerTypeOK, Memories
<1> QED
  BY <1>1, <1>6, <1>7 DEF IInv, RepeatedFailureDisables

\* An edit of a schedule leaves the claims of the others alone.
LEMMA UpsertIInv ==
  ASSUME IInv, SchedulerTypeOK', NEW j \in Schedules, NEW on \in BOOLEAN, Upsert(j, on)
  PROVE  IInv'
<1>1. \A k \in Schedules :
        /\ k # j => sched'[k] = sched[k]
        /\ sched'[k].lockedBy = sched[k].lockedBy
        /\ sched'[k].lockedUntil = sched[k].lockedUntil
  BY DEF Upsert, IInv, SchedulerTypeOK, Rows
<1>2. sched'[j].failures = 0
  BY DEF Upsert, IInv, SchedulerTypeOK, Rows
<1>3. UNCHANGED <<worker, raced, outlived>>
  BY DEF Upsert
<1>4. Owned' /\ Tidy'
  BY <1>1, <1>3 DEF IInv, Owned, Tidy, Has
<1> QED
  BY <1>1, <1>2, <1>4, SchedulerAssumption DEF IInv, RepeatedFailureDisables

\* The invariant is inductive.
THEOREM SchedulerInvariant == SchedulerSpec => []IInv
<1>1. SchedulerTypeOK' /\ IInv /\ [SchedulerNext]_schedulerVars => IInv'
  <2> SUFFICES ASSUME SchedulerTypeOK', IInv, [SchedulerNext]_schedulerVars PROVE IInv'
    OBVIOUS
  <2>1. CASE Tick
    BY <2>1, WorkerStepIInv DEF Tick, IInv, Tidy, Has
  <2>2. ASSUME NEW w \in Workers, NEW j \in Schedules, RunMission(w, j) PROVE IInv'
    <3>1. /\ worker'[w].claims = worker[w].claims \ {j} /\ worker'[w].current = j
          /\ worker'[w].mode = worker[w].mode
          /\ \A v \in Workers : v # w => worker'[v] = worker[v]
      BY <2>2 DEF RunMission, IInv, SchedulerTypeOK, Memories
    <3>2. /\ worker[w].mode = "working" /\ j \in worker[w].claims
          /\ UNCHANGED <<sched, raced, outlived>>
      BY <2>2 DEF RunMission
    <3>3. Tidy'
      BY <3>1, <3>2 DEF IInv, Tidy
    <3>4. \A v \in Workers, k \in Schedules : Has(v, k)' => Has(v, k)
      BY <3>1, <3>2 DEF Has
    <3> QED
      BY <3>1, <3>2, <3>3, <3>4, WorkerStepIInv
  <2>3. ASSUME NEW w \in Workers, NEW o \in {"ok", "failed"}, MissionReturns(w, o) PROVE IInv'
    <3>1. \A v \in Workers : /\ worker'[v].claims = worker[v].claims
                             /\ worker'[v].current = worker[v].current
                             /\ worker'[v].mode = worker[v].mode
      BY <2>3 DEF MissionReturns, IInv, SchedulerTypeOK, Memories
    <3> QED
      BY <2>3, <3>1, WorkerStepIInv DEF MissionReturns, IInv, Tidy, Has
  <2>4. ASSUME NEW w \in Workers, Crash(w) PROVE IInv'
    <3>1. /\ worker'[w] = Resting /\ \A v \in Workers : v # w => worker'[v] = worker[v]
          /\ UNCHANGED <<sched, raced, outlived>>
      BY <2>4 DEF Crash, IInv, SchedulerTypeOK
    <3>2. /\ Resting.mode = "idle" /\ Resting.claims = {} /\ Resting.current = Null
      BY DEF Resting
    <3>3. Tidy'
      BY <3>1, <3>2 DEF IInv, Tidy
    <3>4. \A v \in Workers, k \in Schedules : Has(v, k)' => Has(v, k)
      BY <3>1, <3>2, SchedulerAssumption DEF Has
    <3>5. \A v \in Workers : worker'[v].mode = "working" => worker[v].mode = "working"
      BY <3>1, <3>2
    <3> QED
      BY <3>1, <3>3, <3>4, <3>5, WorkerStepIInv
  <2>5. ASSUME NEW w \in Workers, Shutdown(w) PROVE IInv'
    <3>1. /\ worker'[w].claims = {} /\ worker'[w].current = worker[w].current
          /\ worker'[w].mode = worker[w].mode
          /\ \A v \in Workers : v # w => worker'[v] = worker[v]
      BY <2>5 DEF Shutdown, IInv, SchedulerTypeOK, Memories
    <3> QED
      BY <2>5, <3>1, WorkerStepIInv DEF Shutdown, IInv, Tidy, Has
  <2>6. CASE UNCHANGED schedulerVars
    BY <2>6, WorkerStepIInv DEF schedulerVars, IInv, Tidy, Has
  <2> QED
    BY ONLY SchedulerTypeOK', IInv, [SchedulerNext]_schedulerVars, <2>1, <2>2, <2>3, <2>4, <2>5, <2>6, SelectDueIInv,
       CommitClaimIInv, AdvanceIInv, UpsertIInv
    DEF SchedulerNext
<1> QED
  BY <1>1, InitIInv, SchedulerTypeCorrect, PTL DEF SchedulerSpec

\* Two workers have the same schedule only after a raced claim or an outlived
\* lease; until then the claimant owns the lease on the row (claim_due_schedules
\* and advance_schedule of missions/scheduler.py).
THEOREM LeaseExclusion ==
  SchedulerSpec => [](ExclusiveUnlessRacedOrOutlived /\ ClaimKeepsItsLease)
<1>1. IInv => ExclusiveUnlessRacedOrOutlived /\ ClaimKeepsItsLease
  BY DEF IInv, Owned, ExclusiveUnlessRacedOrOutlived, ClaimKeepsItsLease
<1> QED
  BY <1>1, SchedulerInvariant, PTL

\* An enabled schedule has failed fewer than DisableAfter times in a row.
THEOREM FailuresDisable == SchedulerSpec => []RepeatedFailureDisables
<1>1. IInv => RepeatedFailureDisables
  BY DEF IInv
<1> QED
  BY <1>1, SchedulerInvariant, PTL

\* Advancing a schedule puts its next run after now or leaves it switched off,
\* for every cadence and backoff, and only an edit switches a schedule on.
THEOREM AdvancingDefers == SchedulerSpec => AdvanceDefers
<1> DEFINE A == \A j \in Schedules :
       /\ \A w \in Workers : worker[w].current = j /\ Advance(w)
                             => ~sched'[j].enabled \/ sched'[j].nextAt > now
       /\ ~sched[j].enabled /\ sched'[j].enabled => edits' # edits
<1>1. IInv /\ [SchedulerNext]_schedulerVars => [A]_schedulerVars
  <2> SUFFICES ASSUME IInv, SchedulerNext PROVE A
    OBVIOUS
  <2>1. ASSUME NEW j \in Schedules, NEW w \in Workers, worker[w].current = j, Advance(w)
        PROVE  ~sched'[j].enabled \/ sched'[j].nextAt > now
    BY <2>1, AdvancedRow DEF IInv
  <2>2. ASSUME NEW j \in Schedules, ~sched[j].enabled, sched'[j].enabled
        PROVE  edits' # edits
    <3>1. CASE sched' = sched
      BY <2>2, <3>1
    <3>2. ASSUME NEW w \in Workers, CommitClaim(w) PROVE FALSE
      BY <2>2, <3>2 DEF CommitClaim, IInv, SchedulerTypeOK, Rows
    <3>3. ASSUME NEW w \in Workers, Advance(w) PROVE FALSE
      <4>1. sched'[worker[w].current].enabled => sched[worker[w].current].enabled
        BY <3>3, AdvancedRow DEF IInv
      <4>2. \A k \in Schedules : k # worker[w].current => sched'[k] = sched[k]
        BY <3>3, AdvancedRow DEF IInv, SchedulerTypeOK
      <4> QED
        BY <2>2, <4>1, <4>2
    <3>4. ASSUME NEW k \in Schedules, NEW on \in BOOLEAN, Upsert(k, on) PROVE edits' # edits
      BY <3>4 DEF Upsert, IInv, SchedulerTypeOK
    <3> QED
      BY <3>1, <3>2, <3>3, <3>4
      DEF SchedulerNext, Tick, SelectDue, RunMission, MissionReturns, Crash, Shutdown
  <2> QED
    BY <2>1, <2>2
<1> QED
  BY <1>1, SchedulerInvariant, PTL DEF SchedulerSpec, AdvanceDefers
=============================================================================
