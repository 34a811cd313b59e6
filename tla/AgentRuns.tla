------------------------------- MODULE AgentRuns -------------------------------
(***************************************************************************)
(* The agents of one mission's wave (agents/runtime.py) and the model      *)
(* router they share (llm/router.py).  A step runs an agent; an agent      *)
(* takes turns, each one completion and the tool calls it asks for, and a  *)
(* call may hand work to another agent.  Everything runs in one event      *)
(* loop: an action is what happens between two suspensions.                *)
(*                                                                         *)
(* Every run makes a spend guard of its own and puts it in the router,     *)
(* where it replaces the one that was there; completions of all runs are   *)
(* then checked against it and recorded in it.  Money is in small units.   *)
(***************************************************************************)
EXTENDS Integers, Sequences, FiniteSets, FiniteSetsExt, Functions

CONSTANTS
  Steps, Helpers,   \* runs a step makes, and runs agents delegate to
  Nobody,           \* no run
  AgentKeys,
  AgentOf,          \* the agent each step names
  Ceiling,          \* AgentSpec.cost_ceiling_usd
  Turns,            \* AgentSpec.max_iterations
  Delegates,        \* AgentSpec.delegates_to
  Providers,        \* the providers with a credential, the preferred one first
  Costs,            \* per provider: what a completion may cost
  Attempts,         \* max_attempts of a completion, 3 in the code
  MaxDepth,         \* settings.max_agent_depth
  RunLimit,         \* run_limit_usd of the mission's own guard
  OrgRemaining,     \* what the organisation has left when the mission begins
  StepRetries,      \* Step.retries of each step
  ToolCosts,        \* what a call of a tool may cost
  MaxUses,          \* bound: calls one completion asks for
  MaxFaults         \* bound: provider errors and step timeouts

ASSUME AgentAssumption ==
  /\ AgentOf \in [Steps -> AgentKeys] /\ Delegates \in [AgentKeys -> SUBSET AgentKeys]
  /\ StepRetries \in [Steps -> Nat]
  /\ Ceiling \in [AgentKeys -> Nat] /\ Turns \in [AgentKeys -> Nat \ {0}]
  /\ Providers \in Seq(Range(Providers)) /\ Len(Providers) > 0
  /\ \A p \in Range(Providers) :           \* a completion has a greatest cost
       Costs[p] \subseteq Nat /\ \E c \in Costs[p] : \A d \in Costs[p] : c >= d
  /\ Attempts \in Nat \ {0} /\ MaxDepth \in Nat \ {0}
  /\ OrgRemaining \in Nat /\ ToolCosts \subseteq Nat
  /\ IsFiniteSet(Steps) /\ IsFiniteSet(Helpers) /\ Steps \cap Helpers = {}
  /\ Nobody \notin Steps \cup Helpers

VARIABLES
  run,       \* the runs under way
  stage,     \* per step: "todo", "running" or "over"
  tries,     \* per step: attempts made
  guard,     \* router.spend_guard
  cooling,   \* providers that failed or limited us lately
  budget,    \* the mission's own guard
  faults,    \* provider errors and timeouts so far
  spend,     \* history: what completions and tools cost, and what of it was lost
  mishaps    \* history: "shared", a guard was replaced while its run was under
             \* way; "dearer", a provider dearer than the projected one answered;
             \* "timeout", a step timed out

agentVars == <<run, stage, tries, guard, cooling, budget, faults, spend, mishaps>>

Runs == Steps \cup Helpers
Uses == {"tool"} \cup AgentKeys

\* A run: its agent, who delegated to it, its step, its depth and turn, the
\* providers left to try for its completion and the attempts with the first
\* of them, the calls it has not made yet, its cost, whether it succeeded;
\* and, as history, what its own completions cost, whether its guard is still
\* the router's, and whether a provider dearer than the projected one answered.
Idle == [pc |-> "idle"]
Fresh(a, parent, step, depth) ==
  [pc |-> "asking", agent |-> a, parent |-> parent, step |-> step, depth |-> depth,
   turn |-> 1, queue |-> <<>>, projected |-> 0, attempt |-> 1, todo |-> {}, cost |-> 0, ok |-> FALSE,
   own |-> 0, alone |-> TRUE, dearer |-> FALSE]

UnderWay == {r \in Runs : run[r].pc # "idle"}

\* What each run has cost so far.
Outstanding == [r \in Runs |-> IF run[r].pc = "idle" THEN 0 ELSE run[r].cost]

Children(r) == {h \in Helpers : run[h].pc # "idle" /\ run[h].parent = r}

AgentInit ==
  /\ run = [r \in Runs |-> Idle]
  /\ stage = [s \in Steps |-> "todo"]
  /\ tries = [s \in Steps |-> 0]
  /\ guard = [owner |-> Nobody, limit |-> 0, spent |-> 0, org |-> 0]
  /\ cooling = {}
  /\ budget = [spent |-> 0, org |-> OrgRemaining]
  /\ faults = 0
  /\ spend = [completions |-> 0, tools |-> 0, lost |-> 0]
  /\ mishaps = {}

-----------------------------------------------------------------------------
\* The providers in S, the preferred ones first.
Preferred(S) ==
  LET upTo[n \in 0..Len(Providers)] ==
        IF n = 0 THEN <<>>
        ELSE IF Providers[n] \in S THEN Append(upTo[n - 1], Providers[n])
        ELSE upTo[n - 1]
  IN upTo[Len(Providers)]

\* available_providers: those that cool down come last.
available_providers == Preferred(Range(Providers) \ cooling) \o Preferred(cooling)

\* _project_cost: the most a completion costs.
Price(p) == Max(Costs[p])

\* Mutant of check.
checkRunLimitLate(g, projected) == g.spent <= g.limit /\ projected <= g.org

\* SpendGuard.check and SpendGuard.record
check(g, projected) == g.spent + projected <= g.limit /\ projected <= g.org

record(g, usd) == [g EXCEPT !.spent = @ + usd, !.org = @ - usd]

\* ModelRouter.complete up to its first suspension, under guard g: it raises
\* BudgetExceeded, which ends the run, or turns to the first provider.
Asked(r, g) ==
  LET queue == available_providers
      projected == Price(Head(queue))
  IN IF check(g, projected)
     THEN [r EXCEPT !.pc = "provider", !.queue = queue, !.attempt = 1,
                    !.projected = projected]
     ELSE [r EXCEPT !.pc = "ended", !.ok = FALSE]

\* The guard AgentRuntime.run makes for an agent.
GuardOf(r, a) == [owner |-> r, limit |-> Ceiling[a], spent |-> 0, org |-> budget.org]

\* AgentRuntime.run up to its first suspension: its guard replaces the
\* router's, and the first turn asks for its completion.
Begin(r, fresh, before) ==
  LET others == {q \in Runs : before[q].pc \notin {"idle", "ended"}}
  IN /\ guard' = GuardOf(r, fresh.agent)
     /\ run' = [[q \in Runs |-> IF q \in others THEN [before[q] EXCEPT !.alone = FALSE]
                                ELSE before[q]]
                  EXCEPT ![r] = Asked(fresh, guard')]
     /\ mishaps' = IF others # {} THEN mishaps \cup {"shared"} ELSE mishaps

\* _execute_step: the first attempt looks at the mission's budget, a retry
\* does not.
StartStep(s) ==
  /\ stage[s] = "todo" /\ run[s].pc = "idle"
  /\ tries[s] = 0 => budget.spent < RunLimit
  /\ stage' = [stage EXCEPT ![s] = "running"]
  /\ tries' = [tries EXCEPT ![s] = @ + 1]
  /\ Begin(s, Fresh(AgentOf[s], Nobody, s, 0), run)
  /\ UNCHANGED <<cooling, budget, faults, spend>>

\* "no budget remaining"
SkipStep(s) ==
  /\ stage[s] = "todo" /\ tries[s] = 0 /\ budget.spent >= RunLimit
  /\ stage' = [stage EXCEPT ![s] = "over"]
  /\ UNCHANGED <<run, tries, guard, cooling, budget, faults, spend, mishaps>>

-----------------------------------------------------------------------------
\* The provider answers, with a final text, which may not be the JSON the
\* agent owes, or with the calls it wants made.  The text of the turn after
\* the last, _force_conclusion, is final: no tools are offered.
Complete(r, cost, uses, ok) ==
  /\ run[r].pc = "provider"
  /\ LET p == Head(run[r].queue)
     IN /\ cost \in Costs[p]
        /\ run[r].turn > Turns[run[r].agent] => uses = {}
        /\ run' = [run EXCEPT ![r] =
                     [run[r] EXCEPT !.pc = IF uses = {} THEN "ended" ELSE "tools",
                                    !.ok = ok, !.todo = uses,
                                    !.queue = <<>>, !.attempt = 1, !.projected = 0,
                                    !.cost = @ + cost, !.own = @ + cost,
                                    !.dearer = @ \/ Price(p) > run[r].projected]]
        /\ guard' = record(guard, cost)
        /\ mishaps' = IF Price(p) > run[r].projected THEN mishaps \cup {"dearer"} ELSE mishaps
  /\ ok => uses = {}
  /\ spend' = [spend EXCEPT !.completions = @ + cost]
  /\ UNCHANGED <<stage, tries, cooling, budget, faults>>

\* The provider is given up for this completion; when none is left the echo
\* provider's placeholder is the final text, at no cost.
NextProvider(r, ok) ==
  LET left == Tail(run[r].queue)
  IN run' = [run EXCEPT ![r] =
       IF left # <<>> THEN [@ EXCEPT !.queue = left, !.attempt = 1]
       ELSE [@ EXCEPT !.queue = left, !.pc = "ended", !.ok = ok]]

\* RateLimited, or the last of the attempts raising ProviderError.
GiveUpProvider(r, ok) ==
  /\ run[r].pc = "provider" /\ faults < MaxFaults
  /\ faults' = faults + 1
  /\ cooling' = cooling \cup {Head(run[r].queue)}
  /\ NextProvider(r, ok)
  /\ UNCHANGED <<stage, tries, guard, budget, spend, mishaps>>

\* ProviderError, with attempts left.
RetryProvider(r) ==
  /\ run[r].pc = "provider" /\ run[r].attempt < Attempts /\ faults < MaxFaults
  /\ faults' = faults + 1
  /\ run' = [run EXCEPT ![r].attempt = @ + 1]
  /\ UNCHANGED <<stage, tries, guard, cooling, budget, spend, mishaps>>

\* An answer that cannot be read: an exception the router does not know ends
\* the run.
FailRun(r) ==
  /\ run[r].pc = "provider" /\ faults < MaxFaults
  /\ faults' = faults + 1
  /\ run' = [run EXCEPT ![r].pc = "ended"]
  /\ UNCHANGED <<stage, tries, guard, cooling, budget, spend, mishaps>>

\* The cooldown of a provider passes.
CoolDown(p) ==
  /\ p \in cooling
  /\ cooling' = cooling \ {p}
  /\ UNCHANGED <<run, stage, tries, guard, budget, faults, spend, mishaps>>

-----------------------------------------------------------------------------
\* A tool answers; what it cost is the run's, and no guard looks at it.
UseTool(r, cost) ==
  /\ run[r].pc = "tools" /\ "tool" \in run[r].todo
  /\ run' = [run EXCEPT ![r].todo = @ \ {"tool"}, ![r].cost = @ + cost]
  /\ spend' = [spend EXCEPT !.tools = @ + cost]
  /\ UNCHANGED <<stage, tries, guard, cooling, budget, faults, mishaps>>

MayDelegate(r, a) == a \in Delegates[run[r].agent] /\ run[r].depth + 1 < MaxDepth

\* _delegate
Delegate(r, a, h) ==
  /\ run[r].pc = "tools" /\ a \in run[r].todo \cap AgentKeys /\ MayDelegate(r, a)
  /\ run[h].pc = "idle"
  /\ Begin(h, Fresh(a, r, run[r].step, run[r].depth + 1),
           [run EXCEPT ![r].todo = @ \ {a}])
  /\ UNCHANGED <<stage, tries, cooling, budget, faults, spend>>

RefuseDelegation(r, a) ==
  /\ run[r].pc = "tools" /\ a \in run[r].todo \cap AgentKeys /\ ~MayDelegate(r, a)
  /\ run' = [run EXCEPT ![r].todo = @ \ {a}]
  /\ UNCHANGED <<stage, tries, guard, cooling, budget, faults, spend, mishaps>>

\* Mutant of Return: the outcome does not carry what the helper cost.
ReturnFree(h) ==
  /\ run[h].pc = "ended"
  /\ run' = [run EXCEPT ![h] = Idle]
  /\ UNCHANGED <<stage, tries, guard, cooling, budget, faults, spend, mishaps>>

\* The run an agent delegated returns, its cost with it.
Return(h) ==
  /\ run[h].pc = "ended"
  /\ run' = [run EXCEPT ![h] = Idle, ![run[h].parent].cost = @ + run[h].cost]
  /\ UNCHANGED <<stage, tries, guard, cooling, budget, faults, spend, mishaps>>

\* All calls of the turn are answered: the next turn, or the forced
\* conclusion, asks for its completion; or the wall clock limit has passed,
\* which is only looked at before a turn.
NextTurn(r, late) ==
  /\ run[r].pc = "tools" /\ run[r].todo = {} /\ Children(r) = {}
  /\ late => run[r].turn < Turns[run[r].agent]
  /\ LET next == [run[r] EXCEPT !.turn = @ + 1]
     IN run' = [run EXCEPT ![r] = IF late THEN [next EXCEPT !.pc = "ended"]
                                  ELSE Asked(next, guard)]
  /\ UNCHANGED <<stage, tries, guard, cooling, budget, faults, spend, mishaps>>

-----------------------------------------------------------------------------
\* The step is tried again or is over.
Settled(s, ok) == IF ~ok /\ tries[s] <= StepRetries[s] THEN "todo" ELSE "over"

\* _dispatch records the cost of the run in the mission's guard.
FinishStep(s) ==
  /\ run[s].pc = "ended"
  /\ budget' = record(budget, run[s].cost)
  /\ stage' = [stage EXCEPT ![s] = Settled(s, run[s].ok)]
  /\ run' = [run EXCEPT ![s] = Idle]
  /\ UNCHANGED <<tries, guard, cooling, faults, spend, mishaps>>

\* asyncio.wait_for cancels the run and those it delegated, and with them the
\* record of what they cost.
TimeOutStep(s) ==
  /\ stage[s] = "running" /\ run[s].pc # "ended" /\ faults < MaxFaults
  /\ LET tree == {r \in UnderWay : run[r].step = s}
     IN /\ run' = [r \in Runs |-> IF r \in tree THEN Idle ELSE run[r]]
        /\ spend' = [spend EXCEPT !.lost = @ + SumFunctionOnSet(Outstanding, tree)]
  /\ stage' = [stage EXCEPT ![s] = Settled(s, FALSE)]
  /\ faults' = faults + 1
  /\ mishaps' = mishaps \cup {"timeout"}
  /\ UNCHANGED <<tries, guard, cooling, budget>>

\* A run that has ended is returned from before anything else is resumed.
Quiet == \A r \in Runs : run[r].pc # "ended"

AgentStep(s) ==
  \/ FinishStep(s)
  \/ Quiet /\ (StartStep(s) \/ SkipStep(s) \/ TimeOutStep(s))

RunStep(r) ==
  \/ \E cost \in UNION Range(Costs), ok \in BOOLEAN :
       \E uses \in {U \in SUBSET Uses : Cardinality(U) <= MaxUses} : Complete(r, cost, uses, ok)
  \/ \E ok \in BOOLEAN : GiveUpProvider(r, ok)
  \/ RetryProvider(r) \/ FailRun(r)
  \/ \E cost \in ToolCosts : UseTool(r, cost)
  \/ \E a \in AgentKeys : RefuseDelegation(r, a) \/ \E h \in Helpers : Delegate(r, a, h)
  \/ \E late \in BOOLEAN : NextTurn(r, late)

AgentWork ==
  \/ \E h \in Helpers : Return(h)
  \/ Quiet /\ \E r \in Runs : RunStep(r)
  \/ Quiet /\ \E p \in cooling : CoolDown(p)

-----------------------------------------------------------------------------
\* CeilingsHoldUnlessShared.  The completions of a run cost no more than its
\* agent's ceiling, and those of the mission no more than the organisation
\* had left, for which runtime.py and router.py check every call beforehand: but
\* for a guard that a run begun meanwhile, delegated runs included, replaced,
\* a provider dearer than the one the cost was projected for, and, for the
\* organisation, the runs whose cost a timeout lost.
CeilingsHoldUnlessShared ==
  /\ \A r \in UnderWay : run[r].alone /\ ~run[r].dearer => run[r].own <= Ceiling[run[r].agent]
  /\ spend.completions <= OrgRemaining \/ mishaps # {}

\* SpendIsAccounted.  Whatever the order in which agents, the helpers they
\* delegate to and their tools answer, fail or are retried, all that has been
\* spent is in the mission's budget, in a run under way, or was lost with a
\* step that timed out: nothing is counted twice or dropped.
SpendIsAccounted ==
  spend.completions + spend.tools =
    budget.spent + spend.lost + SumFunctionOnSet(Outstanding, Runs)
=============================================================================
