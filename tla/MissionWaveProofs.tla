---------------------------- MODULE MissionWaveProofs --------------------------
(***************************************************************************)
(* Proofs about the steps of a wave: the approval policy and the tool gate *)
(* for every set of tools, arguments and policies, the agents and their    *)
(* spend for every set of agents, providers and prices, and any number of  *)
(* concurrent steps.                                                       *)
(***************************************************************************)
EXTENDS MissionWave, SetSums, SequenceTheorems, TLAPS

\* What must be true of a call that runs without a person.
Permitted(t, c, p) ==
  /\ t.tag = "plain" /\ ~c.protected /\ t.type \notin p.reviewed
  /\ t.risk # "internal" =>
       \/ t.type \in ContentTypes /\ c.preApproved /\ Order[p.autonomy] >= 3
       \/ t.type = "review_reply" /\ c.rating >= p.minRating /\ Order[p.autonomy] >= 3
       \/ t.type = "outreach_send" /\ p.outreach = "autonomous" /\ Order[p.autonomy] = 4
       \/ /\ t.type \notin ContentTypes \cup ThirdPartyTypes
          /\ Required(t) # None /\ Order[p.autonomy] >= Order[Required(t)]

\* The inductive invariant: a step whose handler ran unattended was permitted
\* to and keeps its call, and an observe mission has written nothing.
Judged ==
  \A k \in unattended :
    /\ task[k].phase \in {"answered", "over"}
    /\ task[k].phase = "answered" => task[k].answer = "ran"
    /\ Permitted(task[k].tool, task[k].args, task[k].seen)

Silent ==
  autonomy = "observe" =>
    unattended = {} /\ \A k \in Tasks : task[k].asked = 0 /\ queued[k] = 0

\* Until some batch is announced twice: how many approvals a step has written
\* at each point of its call.
Single == \A b \in Keys : digests[b] <= 1

Counted ==
  Single =>
    \A k \in Tasks :
      /\ task[k].phase \in {"idle", "calling"} => task[k].asked = 0
      /\ task[k].phase = "asking" => task[k].asked = 1 /\ task[k].answer = "awaiting"
      /\ task[k].phase \in {"idle", "calling", "asking"} => task[k].notified = {}
      /\ task[k].phase = "answered" =>
           task[k].asked = IF task[k].answer = "awaiting" THEN 1 ELSE 0
      /\ task[k].phase = "answered" /\ task[k].answer # "awaiting" => task[k].notified = {}
      /\ task[k].phase # "over" => queued[k] = 0
      /\ task[k].phase = "over" =>
           queued[k] = IF task[k].answer = "awaiting" THEN 1 ELSE 0

Parts == Judged /\ Silent /\ Counted

-----------------------------------------------------------------------------
\* The autonomy levels are numbered in their order.
LEMMA Levels ==
  /\ \A a \in Autonomies : Order[a] \in 0..4
  /\ Order["managed"] = 3 /\ Order["autopilot"] = 4
  /\ \A a \in Autonomies : a # None
  BY NoneAssumption DEF Autonomies, Order

\* The level a tool requires is one of them, or none will do.
LEMMA RequiredType ==
  ASSUME NEW t \in ToolRecords
  PROVE  Required(t) \in Autonomies \cup {None}
  BY DEF Required, RiskFloor, ToolRecords, RiskLevels, Autonomies

\* The three makers of a decision.
LEMMA Makers ==
  ASSUME NEW rule, NEW risk, NEW timer, NEW batch
  PROVE  /\ Ask(rule, risk, timer, batch).ask = TRUE
         /\ Ask(rule, risk, timer, batch).timer = timer
         /\ Run(rule, risk).ask = FALSE /\ Run(rule, risk).timer = FALSE
         /\ Refuse(rule).refuse = TRUE /\ Refuse(rule).ask = FALSE
         /\ Refuse(rule).timer = FALSE
  BY DEF Ask, Run, Refuse

\* Each of the open rules lets through only what the categories allow.
LEMMA ContentRuleRuns ==
  ASSUME NEW c \in Calls, NEW p \in Policies, ~ContentRule(c, p).ask
  PROVE  c.preApproved /\ Order[p.autonomy] >= 3
  BY Makers, Levels DEF ContentRule, autonomy_allows

\* When the third-party rule lets a call run.
LEMMA ThirdPartyRuleRuns ==
  ASSUME NEW t \in ToolRecords, NEW c \in Calls, NEW p \in Policies,
         ~ThirdPartyRule(t, c, p).ask
  PROVE  \/ t.type = "review_reply" /\ c.rating >= p.minRating /\ Order[p.autonomy] >= 3
         \/ t.type = "outreach_send" /\ p.outreach = "autonomous" /\ Order[p.autonomy] = 4
<1>1. p.autonomy \in Autonomies
  BY DEF Policies
<1> QED
  BY <1>1, Levels DEF ThirdPartyRule, autonomy_allows, Ask, Run

\* When the autonomy rule lets a call run.
LEMMA AutonomyRuleRuns ==
  ASSUME NEW t \in ToolRecords, NEW p \in Policies, ~AutonomyRule(t, p).ask
  PROVE  Required(t) # None /\ Order[p.autonomy] >= Order[Required(t)]
  BY DEF AutonomyRule, autonomy_allows, Ask, Run

\* A decision neither to ask nor to refuse is within the categories.
LEMMA EvaluateRuns ==
  ASSUME NEW t \in ToolRecords, NEW c \in Calls, NEW p \in Policies,
         ~evaluate(t, c, p).ask, ~evaluate(t, c, p).refuse
  PROVE  Permitted(t, c, p)
<1>1. /\ t.tag # "never_allowed" /\ ~c.protected /\ t.tag # "always_human"
      /\ t.type \notin p.reviewed
  BY Makers DEF evaluate
<1>2. t.tag = "plain"
  BY <1>1 DEF ToolRecords
<1>3. ~OpenRule(t, c, p).ask
  BY <1>1 DEF evaluate
<1>4. CASE t.type \in ContentTypes
  BY <1>1, <1>2, <1>3, <1>4, ContentRuleRuns DEF OpenRule, Permitted
<1>5. CASE t.type \notin ContentTypes /\ t.type \in ThirdPartyTypes
  BY <1>1, <1>2, <1>3, <1>5, ThirdPartyRuleRuns DEF OpenRule, Permitted
<1>6. CASE t.type \notin ContentTypes /\ t.type \notin ThirdPartyTypes /\ t.risk # "internal"
  BY <1>1, <1>2, <1>3, <1>6, AutonomyRuleRuns DEF OpenRule, Permitted
<1>7. CASE t.risk = "internal"
  BY <1>1, <1>2, <1>7 DEF Permitted
<1> QED
  BY <1>4, <1>5, <1>6, <1>7

-----------------------------------------------------------------------------
\* Raising a site's autonomy, everything else unchanged, never makes the policy
\* ask about a call it would have let through.
THEOREM MoreAutonomyAsksLess ==
  ASSUME NEW t \in ToolRecords, NEW c \in Calls, NEW p \in Policies, NEW a \in Autonomies,
         Order[a] >= Order[p.autonomy], ~evaluate(t, c, p).ask
  PROVE  ~evaluate(t, c, [p EXCEPT !.autonomy = a]).ask
<1> DEFINE q == [p EXCEPT !.autonomy = a]
<1>1. /\ q \in Policies /\ q.autonomy = a /\ q.reviewed = p.reviewed
      /\ q.outreach = p.outreach /\ q.minRating = p.minRating /\ q.hours = p.hours
  BY DEF Policies
<1> HIDE DEF q
<1>2. /\ Order[a] \in 0..4 /\ Order[p.autonomy] \in 0..4
      /\ \A r \in Autonomies : Order[r] \in 0..4
      /\ \A r \in Autonomies : autonomy_allows(p.autonomy, r) => autonomy_allows(a, r)
  BY Levels DEF Policies, autonomy_allows
<1>3. CASE t.tag = "never_allowed"
  BY <1>3, Makers DEF evaluate, q
<1>4. CASE t.tag # "never_allowed"
  <2>1. /\ ~c.protected /\ t.tag # "always_human" /\ t.type \notin p.reviewed
        /\ ~OpenRule(t, c, p).ask
    BY <1>4, Makers DEF evaluate
  <2>2. ASSUME ~ContentRule(c, p).ask PROVE ~ContentRule(c, q).ask
    BY <1>1, <1>2, <2>2, Makers DEF ContentRule, Autonomies
  <2>3. ASSUME ~ThirdPartyRule(t, c, p).ask PROVE ~ThirdPartyRule(t, c, q).ask
    <3>1. \/ /\ t.type = "review_reply" /\ c.rating >= q.minRating
             /\ autonomy_allows(q.autonomy, "managed")
          \/ /\ t.type = "outreach_send" /\ q.outreach = "autonomous"
             /\ autonomy_allows(q.autonomy, "autopilot")
      BY <2>3, <1>1, <1>2, ThirdPartyRuleRuns, Levels DEF autonomy_allows, Autonomies
    <3> QED
      BY <3>1 DEF ThirdPartyRule, Run
  <2>4. ASSUME ~AutonomyRule(t, p).ask PROVE ~AutonomyRule(t, q).ask
    <3>1. Required(t) # None /\ autonomy_allows(p.autonomy, Required(t))
      BY <2>4, AutonomyRuleRuns DEF autonomy_allows
    <3>2. autonomy_allows(q.autonomy, Required(t))
      BY <1>1, <1>2, <3>1, RequiredType
    <3> QED
      BY <3>1, <3>2, Makers DEF AutonomyRule
  <2>5. ~OpenRule(t, c, q).ask
    BY <2>1, <2>2, <2>3, <2>4, Makers DEF OpenRule
  <2> QED
    BY <1>1, <1>4, <2>1, <2>5 DEF evaluate, q
<1> QED
  BY <1>3, <1>4

\* A waiting period is attached only to published copy or to low-risk
\* technical work; never to what always needs a person, to a protected path,
\* or to what the client reviews.
THEOREM TimersAreForCopyOrLowRisk ==
  ASSUME NEW t \in ToolRecords, NEW c \in Calls, NEW p \in Policies, evaluate(t, c, p).timer
  PROVE  /\ t.tag = "plain" /\ ~c.protected /\ t.type \notin p.reviewed /\ p.hours > 0
         /\ t.type \in ContentTypes \/ t.risk \in {"none", "low"}
<1>1. /\ t.tag # "never_allowed" /\ ~c.protected /\ t.tag # "always_human"
      /\ t.type \notin p.reviewed /\ OpenRule(t, c, p).timer
  BY DEF evaluate, Ask, Refuse, Run
<1>2. t.tag = "plain"
  BY <1>1 DEF ToolRecords
<1>3. CASE t.type \in ContentTypes
  BY <1>1, <1>2, <1>3 DEF OpenRule, ContentRule, Ask, Run
<1>4. CASE t.type \notin ContentTypes
  <2>1. ~ThirdPartyRule(t, c, p).timer
    BY Makers DEF ThirdPartyRule
  <2>2. t.risk # "internal" /\ AutonomyRule(t, p).timer
    BY <1>1, <1>4, <2>1, Makers DEF OpenRule
  <2>3. p.hours > 0 /\ t.risk \in {"none", "low"}
    BY <2>2 DEF AutonomyRule, Ask, Run
  <2> QED
    BY <1>1, <1>2, <2>3
<1> QED
  BY <1>3, <1>4
-----------------------------------------------------------------------------
\* The batch of a decision to ask is one of the keys.
LEMMA AskedKey ==
  ASSUME NEW t \in ToolRecords, NEW c \in Calls, NEW p \in Policies, evaluate(t, c, p).ask
  PROVE  evaluate(t, c, p).batch \in Keys
<1>1. t.type \in ApprovalTypes
  BY DEF ToolRecords
<1>2. ThirdPartyRule(t, c, p).ask => ThirdPartyRule(t, c, p).batch = t.type
  BY DEF ThirdPartyRule, Ask, Run
<1>3. ContentRule(c, p).ask => ContentRule(c, p).batch = "content"
  BY DEF ContentRule, Ask, Run
<1>4. AutonomyRule(t, p).ask => AutonomyRule(t, p).batch \in {t.type, "technical"}
  BY DEF AutonomyRule, Ask, Run
<1>5. OpenRule(t, c, p).ask => OpenRule(t, c, p).batch \in {t.type, "technical", "content"}
  BY <1>2, <1>3, <1>4 DEF OpenRule, Run
<1> QED
  BY <1>1, <1>5 DEF evaluate, Ask, Refuse, Run, Keys

\* The fields of a task have their types.
LEMMA TaskParts ==
  ASSUME TypeOK, NEW k \in Tasks
  PROVE  /\ task[k] \in TaskStates
         /\ task[k].tool \in ToolRecords /\ task[k].args \in Calls /\ task[k].seen \in Policies
         /\ Answer(k) \in Answers
  BY ConstantsAssumption DEF TypeOK, TaskStates, Answer, Answers

\* A step waits for its notification only after a decision to ask.
Asking == \A k \in Tasks : task[k].phase = "asking" => Decision(k).ask

\* Every step keeps Asking.
LEMMA AskingKept ==
  ASSUME TypeOK, Asking, [Next]_vars
  PROVE  Asking'
<1>1. CASE EditPolicy
  BY <1>1 DEF EditPolicy, Asking, Decision
<1>2. ASSUME NEW k \in Tasks, NEW t \in Tools, NEW c \in CallArgs, BeginStep(k, t, c)
      PROVE  Asking'
  BY <1>2 DEF BeginStep, Asking, Decision, TypeOK
<1>3. ASSUME NEW k \in Tasks, CallTool(k) PROVE Asking'
  <2>1. /\ task'[k].tool = task[k].tool /\ task'[k].args = task[k].args
        /\ task'[k].seen = task[k].seen
        /\ task'[k].phase = "asking" => Answer(k) = "awaiting"
        /\ \A l \in Tasks : l # k => task'[l] = task[l]
    BY <1>3, TaskParts DEF CallTool, TypeOK, TaskStates
  <2>2. Answer(k) = "awaiting" => Decision(k).ask
    BY DEF Answer
  <2>3. Decision(k)' = Decision(k)
    BY <2>1 DEF Decision
  <2>4. \A l \in Tasks : l # k => Decision(l)' = Decision(l)
    BY <2>1 DEF Decision
  <2> QED
    BY <2>1, <2>2, <2>3, <2>4 DEF Asking
<1>4. ASSUME NEW k \in Tasks, Notify(k) \/ RetryStep(k) \/ CommitStep(k) \/ RollBackStep(k)
      PROVE  Asking'
  <2>1. task'[k].phase # "asking" /\ \A l \in Tasks : l # k => task'[l] = task[l]
    BY <1>4, TaskParts DEF Notify, RetryStep, CommitStep, RollBackStep, TypeOK, TaskStates
  <2>2. \A l \in Tasks : l # k => Decision(l)' = Decision(l)
    BY <2>1 DEF Decision
  <2> QED
    BY <2>1, <2>2 DEF Asking
<1>5. CASE UNCHANGED vars
  BY <1>5 DEF vars, Asking, Decision
<1> QED
  BY <1>1, <1>2, <1>3, <1>4, <1>5 DEF Next

\* Every variable keeps its type.
THEOREM TypeCorrect == Spec => [](TypeOK /\ Asking)
<1>1. Init => TypeOK /\ Asking
  <2> SUFFICES ASSUME Init PROVE TypeOK /\ Asking
    OBVIOUS
  <2>1. site \in SitePolicies /\ autonomy \in Autonomies
    BY ConstantsAssumption DEF Init, Policies
  <2>2. PICK t \in Tools, c \in CallArgs :
          task = [k \in Tasks |-> [phase |-> "idle", seen |-> site, tool |-> t, args |-> c,
                   answer |-> "none", tries |-> 0, asked |-> 0, notified |-> {}]]
    BY DEF Init
  <2>3. task \in [Tasks -> TaskStates]
    BY <2>1, <2>2 DEF TaskStates, Answers
  <2>4. Asking
    BY <2>2 DEF Asking
  <2> QED
    BY <2>1, <2>3, <2>4 DEF Init, TypeOK
<1>2. TypeOK /\ Asking /\ [Next]_vars => TypeOK' /\ Asking'
  <2> SUFFICES ASSUME TypeOK, Asking, [Next]_vars PROVE TypeOK'
    BY AskingKept
  <2>1. CASE EditPolicy
    BY <2>1 DEF EditPolicy, TypeOK
  <2>2. ASSUME NEW k \in Tasks, NEW t \in Tools, NEW c \in CallArgs, BeginStep(k, t, c)
        PROVE  TypeOK'
    <3>1. [task[k] EXCEPT !.phase = "calling", !.seen = site, !.tool = t, !.args = c]
            \in TaskStates
      BY TaskParts DEF TaskStates, TypeOK
    <3> QED
      BY <2>2, <3>1 DEF BeginStep, TypeOK
  <2>3. ASSUME NEW k \in Tasks, CallTool(k) PROVE TypeOK'
    <3>1. ASSUME NEW ph \in {"asking", "answered"}, NEW m \in Nat, NEW n \in Nat,
                 NEW an \in Answers
          PROVE  [task[k] EXCEPT !.phase = ph, !.answer = an, !.tries = m, !.asked = n]
                   \in TaskStates
      BY TaskParts DEF TaskStates
    <3>2. task[k].asked \in Nat /\ task[k].asked + 1 \in Nat /\ task[k].tries + 1 \in Nat
          /\ Answer(k) \in Answers
      BY TaskParts DEF TaskStates
    <3>3. [task[k] EXCEPT !.phase = IF Answer(k) = "awaiting" THEN "asking" ELSE "answered",
                          !.answer = Answer(k), !.tries = @ + 1,
                          !.asked = IF Answer(k) = "awaiting" THEN @ + 1 ELSE @] \in TaskStates
      BY <3>1, <3>2
    <3> QED
      BY <2>3, <3>3 DEF CallTool, TypeOK
  <2>4. ASSUME NEW k \in Tasks, Notify(k) PROVE TypeOK'
    <3>1. Key(k) \in Keys
      BY <2>4, TaskParts, AskedKey DEF Notify, Asking, Decision, Key
    <3>2. ASSUME NEW an \in {"error", task[k].answer}, NEW N \in SUBSET Keys
          PROVE  [task[k] EXCEPT !.phase = "answered", !.answer = an, !.notified = N]
                   \in TaskStates
      BY TaskParts DEF TaskStates, Answers
    <3>3. task[k].notified \cup {Key(k)} \in SUBSET Keys /\ task[k].notified \in SUBSET Keys
      BY <3>1, TaskParts DEF TaskStates
    <3> QED
      BY <2>4, <3>2, <3>3 DEF Notify, TypeOK
  <2>5. ASSUME NEW k \in Tasks, RetryStep(k) PROVE TypeOK'
    <3>1. [task[k] EXCEPT !.phase = "calling"] \in TaskStates
      BY TaskParts DEF TaskStates
    <3> QED
      BY <2>5, <3>1 DEF RetryStep, TypeOK
  <2>6. ASSUME NEW k \in Tasks, CommitStep(k) PROVE TypeOK'
    <3>1. [task[k] EXCEPT !.phase = "over"] \in TaskStates /\ task[k].asked \in Nat
      BY TaskParts DEF TaskStates
    <3> QED
      BY <2>6, <3>1 DEF CommitStep, TypeOK
  <2>7. ASSUME NEW k \in Tasks, RollBackStep(k) PROVE TypeOK'
    <3>1. [task[k] EXCEPT !.phase = "over", !.answer = "error"] \in TaskStates
      BY TaskParts DEF TaskStates, Answers
    <3> QED
      BY <2>7, <3>1 DEF RollBackStep, TypeOK
  <2>8. CASE UNCHANGED vars
    BY <2>8 DEF vars, TypeOK
  <2> QED
    BY <2>1, <2>2, <2>3, <2>4, <2>5, <2>6, <2>7, <2>8 DEF Next
<1> QED
  BY <1>1, <1>2, PTL DEF Spec

-----------------------------------------------------------------------------
\* The other parts of the invariant.
THEOREM Invariant == Spec => []Parts
<1>1. Init => Parts
  BY DEF Init, Parts, Judged, Silent, Counted
<1>2. TypeOK /\ Asking /\ TypeOK' /\ Parts /\ [Next]_vars => Parts'
  <2> SUFFICES ASSUME TypeOK, Asking, TypeOK', Parts, [Next]_vars PROVE Parts'
    OBVIOUS
  <2>0. Judged /\ Silent /\ Counted
    BY DEF Parts
  <2> USE <2>0
  <2>1. CASE EditPolicy
    BY <2>1 DEF EditPolicy, Parts, Judged, Silent, Counted, Single
  <2>2. ASSUME NEW k \in Tasks, NEW t \in Tools, NEW c \in CallArgs, BeginStep(k, t, c)
        PROVE  Parts'
    <3>1. /\ task[k].phase = "idle" /\ task'[k].phase = "calling"
          /\ task'[k].asked = task[k].asked /\ task'[k].notified = task[k].notified
          /\ \A l \in Tasks : l # k => task'[l] = task[l]
      BY <2>2, TaskParts DEF BeginStep, TypeOK, TaskStates
    <3>2. UNCHANGED <<autonomy, queued, digests, unattended>>
      BY <2>2 DEF BeginStep
    <3>3. Judged'
      BY <3>1, <3>2 DEF Judged, TypeOK
    <3>4. Silent'
      BY <3>1, <3>2 DEF Silent
    <3>5. Counted'
      BY <3>1, <3>2 DEF Counted, Single
    <3> QED
      BY <3>3, <3>4, <3>5 DEF Parts
  <2>3. ASSUME NEW k \in Tasks, CallTool(k) PROVE Parts'
    <3>1. /\ task[k].phase = "calling" /\ task'[k].answer = Answer(k)
          /\ task'[k].tool = task[k].tool /\ task'[k].args = task[k].args
          /\ task'[k].seen = task[k].seen /\ task'[k].notified = task[k].notified
          /\ Answer(k) = "awaiting" => task'[k].phase = "asking" /\ task'[k].asked = task[k].asked + 1
          /\ Answer(k) # "awaiting" => task'[k].phase = "answered" /\ task'[k].asked = task[k].asked
          /\ \A l \in Tasks : l # k => task'[l] = task[l]
      BY <2>3, TaskParts DEF CallTool, TypeOK, TaskStates
    <3>2. UNCHANGED <<autonomy, queued, digests>>
          /\ unattended' = IF Answer(k) = "ran" /\ task[k].tool.mutates
                           THEN unattended \cup {k} ELSE unattended
      BY <2>3 DEF CallTool
    <3>3. /\ autonomy = "observe" => Answer(k) # "awaiting"
                                    /\ ~(Answer(k) = "ran" /\ task[k].tool.mutates)
          /\ Answer(k) = "ran" /\ task[k].tool.mutates
             => Permitted(task[k].tool, task[k].args, task[k].seen)
      BY TaskParts, EvaluateRuns DEF Answer, Decision
    <3>4. Judged'
      BY <3>1, <3>2, <3>3 DEF Judged, TypeOK
    <3>5. Silent'
      BY <3>1, <3>2, <3>3 DEF Silent
    <3>6. Counted'
      BY <3>1, <3>2 DEF Counted, Single
    <3> QED
      BY <3>4, <3>5, <3>6 DEF Parts
  <2>4. ASSUME NEW k \in Tasks, Notify(k) PROVE Parts'
    <3>1. /\ task[k].phase = "asking" /\ task'[k].phase = "answered"
          /\ task'[k].asked = task[k].asked
          /\ \A l \in Tasks : l # k => task'[l] = task[l]
      BY <2>4, TaskParts DEF Notify, TypeOK, TaskStates
    <3>2. UNCHANGED <<autonomy, queued, digests, unattended>>
      BY <2>4 DEF Notify
    <3>3. Key(k) \in Keys
      BY <3>1, TaskParts, AskedKey DEF Asking, Decision, Key
    <3>4. ASSUME Single PROVE task'[k].answer = "awaiting" /\ task[k].asked = 1
      <4>1. task[k].answer = "awaiting" /\ task[k].notified = {} /\ task[k].asked = 1
        BY <3>1, <3>4 DEF Counted
      <4>2. digests[Key(k)] \in Nat /\ digests[Key(k)] <= 1
        BY <3>3, <3>4 DEF Single, TypeOK
      <4>3. ~Fails(digests[Key(k)] + 0)
        BY <4>2 DEF Fails
      <4> QED
        BY <2>4, <4>1, <4>3, TaskParts DEF Notify, TypeOK, TaskStates
    <3>5. Judged'
      BY <3>1, <3>2 DEF Judged, TypeOK
    <3>6. Silent'
      BY <3>1, <3>2 DEF Silent
    <3>7. Counted'
      BY <3>1, <3>2, <3>4 DEF Counted, Single
    <3> QED
      BY <3>5, <3>6, <3>7 DEF Parts
  <2>5. ASSUME NEW k \in Tasks, RetryStep(k) PROVE Parts'
    <3>1. /\ task[k].phase = "answered" /\ task[k].answer \in {"refused", "denied", "error"}
          /\ task' = [task EXCEPT ![k].phase = "calling"]
          /\ UNCHANGED <<autonomy, queued, digests, unattended>>
      BY <2>5 DEF RetryStep
    <3>2. /\ task'[k].phase = "calling" /\ task'[k].asked = task[k].asked
          /\ task'[k].notified = task[k].notified
          /\ \A l \in Tasks : l # k => task'[l] = task[l]
      BY <3>1, TaskParts DEF TypeOK, TaskStates
    <3>3. Judged'
      BY <3>1, <3>2 DEF Judged, TypeOK
    <3>4. Silent'
      BY <3>1, <3>2 DEF Silent
    <3>5. Counted'
      BY <3>1, <3>2 DEF Counted, Single
    <3> QED
      BY <3>3, <3>4, <3>5 DEF Parts
  <2>6. ASSUME NEW k \in Tasks, CommitStep(k) PROVE Parts'
    <3>1. /\ task[k].phase = "answered" /\ task'[k].phase = "over"
          /\ task'[k].asked = task[k].asked /\ task'[k].answer = task[k].answer
          /\ task'[k].tool = task[k].tool /\ task'[k].args = task[k].args
          /\ task'[k].seen = task[k].seen /\ queued'[k] = task[k].asked
          /\ \A l \in Tasks : l # k => task'[l] = task[l] /\ queued'[l] = queued[l]
      BY <2>6, TaskParts DEF CommitStep, TypeOK, TaskStates
    <3>2. UNCHANGED <<autonomy, unattended>>
      BY <2>6 DEF CommitStep
    <3>3. Single' => Single
      <4>1. ASSUME NEW b \in Keys PROVE digests[b] <= digests'[b] /\ digests[b] \in Nat
                                        /\ digests'[b] \in Nat
        BY <2>6 DEF CommitStep, TypeOK
      <4> QED
        BY <4>1 DEF Single
    <3>4. Judged'
      BY <3>1, <3>2 DEF Judged, TypeOK
    <3>5. Silent'
      BY <3>1, <3>2 DEF Silent
    <3>6. Counted'
      BY <3>1, <3>3 DEF Counted
    <3> QED
      BY <3>4, <3>5, <3>6 DEF Parts
  <2>7. ASSUME NEW k \in Tasks, RollBackStep(k) PROVE Parts'
    <3>1. /\ task[k].phase \in {"calling", "asking", "answered"} /\ task'[k].phase = "over"
          /\ task'[k].answer = "error" /\ task'[k].asked = task[k].asked
          /\ task'[k].tool = task[k].tool /\ task'[k].args = task[k].args
          /\ task'[k].seen = task[k].seen
          /\ \A l \in Tasks : l # k => task'[l] = task[l]
      BY <2>7, TaskParts DEF RollBackStep, TypeOK, TaskStates
    <3>2. UNCHANGED <<autonomy, queued, digests, unattended>>
      BY <2>7 DEF RollBackStep
    <3>3. Judged'
      BY <3>1, <3>2 DEF Judged, TypeOK
    <3>4. Silent'
      BY <3>1, <3>2 DEF Silent
    <3>5. Counted'
      BY <3>1, <3>2 DEF Counted, Single
    <3> QED
      BY <3>3, <3>4, <3>5 DEF Parts
  <2>8. CASE UNCHANGED vars
    BY <2>8 DEF vars, Parts, Judged, Silent, Counted, Single
  <2> QED
    BY <2>1, <2>2, <2>3, <2>4, <2>5, <2>6, <2>7, <2>8 DEF Next
<1> QED
  BY <1>1, <1>2, TypeCorrect, PTL DEF Spec

\* Whatever the tools, the arguments and the policies: a handler runs without a
\* person only where the categories of policy.py allow it.
THEOREM UnattendedPermitted == Spec => []UnattendedIsPermitted
<1>1. Parts => UnattendedIsPermitted
  BY DEF Parts, Judged, Permitted, UnattendedIsPermitted
<1> QED
  BY <1>1, Invariant, PTL

\* An observe mission changes nothing and queues nothing.
THEOREM ObserveHolds == Spec => []ObserveMissionChangesNothing
<1>1. Parts => ObserveMissionChangesNothing
  BY DEF Parts, Silent, ObserveMissionChangesNothing
<1> QED
  BY <1>1, Invariant, PTL

\* The queue holds what the steps were told, until a batch is announced twice.
THEOREM QueueMatchesAnswers == Spec => []QueuedAsAnswered
<1>1. Parts => QueuedAsAnswered
  BY DEF Parts, Counted, Single, QueuedAsAnswered
<1> QED
  BY <1>1, Invariant, PTL

-----------------------------------------------------------------------------
(***************************************************************************)
(* The agents of a wave.                                                   *)
(***************************************************************************)
RunRecords ==
  [pc : {"provider", "tools", "ended"}, agent : AgentKeys, parent : Runs \cup {Nobody},
   step : Steps, depth : Nat, turn : Nat, queue : Seq(Range(Providers)), projected : Nat,
   attempt : Nat, todo : SUBSET Uses, cost : Nat, ok : BOOLEAN,
   own : Nat, alone : BOOLEAN, dearer : BOOLEAN]

AgentTypes ==
  /\ run \in [Runs -> {Idle} \cup RunRecords]
  /\ guard \in [owner : Runs \cup {Nobody}, limit : Nat, spent : Nat, org : Int]
  /\ budget \in [spent : Nat, org : Int]
  /\ spend \in [completions : Nat, tools : Nat, lost : Nat]
  /\ cooling \subseteq Range(Providers)

Active(r) == run[r].pc \in {"provider", "tools"}

\* A completion under way has a provider; what a run's own completions cost is
\* part of its cost; and what was checked of the projection still holds while
\* the guard is the run's.
Served ==
  \A r \in UnderWay :
    /\ run[r].pc = "provider" => run[r].queue # <<>>
    /\ run[r].own <= run[r].cost

\* The run whose guard nobody has replaced finds it in the router, with all
\* that its own completions cost recorded, and others' perhaps.
Guarded ==
  \A r \in UnderWay :
    run[r].alone =>
      /\ Active(r) => /\ guard.owner = r /\ guard.limit = Ceiling[run[r].agent]
                      /\ run[r].own <= guard.spent
      /\ run[r].pc = "provider" => run[r].own + run[r].projected <= Ceiling[run[r].agent]
      /\ ~run[r].dearer => run[r].own <= Ceiling[run[r].agent]

\* While nothing of what the property excepts has happened, runs are one at a
\* time, and the guard's share of the organisation is what the mission's guard
\* has, less what the run under way has spent.
OneByOne ==
  mishaps = {} =>
    /\ spend.completions <= OrgRemaining
    /\ UnderWay = {} => spend.completions <= budget.spent
    /\ \A r \in UnderWay :
         /\ r \in Steps /\ UnderWay = {r}
         /\ spend.completions <= budget.spent + run[r].own
         /\ guard.org = budget.org - run[r].own
         /\ run[r].pc = "provider" => run[r].projected <= guard.org

Booked == budget.org = OrgRemaining - budget.spent

\* A helper's parent waits for it in a turn of its own, in the same step.
Family ==
  \A h \in Helpers :
    run[h].pc # "idle" =>
      /\ run[h].parent \in Runs \ {h}
      /\ run[run[h].parent].pc = "tools"
      /\ run[run[h].parent].step = run[h].step

AgentInv == AgentTypes /\ Served /\ Guarded /\ OneByOne /\ Booked /\ Family

-----------------------------------------------------------------------------
\* The function Preferred is computed by, up to m.
Sifts(g, S, m) ==
  g = [n \in 0..m |-> IF n = 0 THEN <<>>
                      ELSE IF Providers[n] \in S THEN Append(g[n - 1], Providers[n])
                      ELSE g[n - 1]]

\* What the filtered list of providers is at each position.
LEMMA SiftAt ==
  ASSUME NEW g, NEW S, NEW m \in Nat, Sifts(g, S, m), NEW n \in 0..m
  PROVE  g[n] = IF n = 0 THEN <<>>
                ELSE IF Providers[n] \in S THEN Append(g[n - 1], Providers[n])
                ELSE g[n - 1]
  BY DEF Sifts

\* Such a function exists.
LEMMA SiftExists ==
  ASSUME NEW S, NEW m \in Nat
  PROVE  \E g : Sifts(g, S, m)
<1> DEFINE Bad == {k \in Nat : ~\E g : Sifts(g, S, k)}
<1>1. SUFFICES ASSUME Bad # {} PROVE FALSE
  BY <1>1
<1>2. PICK k \in Bad : \A j \in Bad : k <= j
  <2>1. Bad \in SUBSET Nat
    OBVIOUS
  <2> HIDE DEF Bad
  <2> QED BY <1>1, <2>1, SmallestNumber
<1>3. k # 0
  <2> DEFINE g == [n \in 0..0 |-> <<>>]
  <2>1. Sifts(g, S, 0)
    BY DEF Sifts
  <2> QED BY <2>1
<1>4. k - 1 \in Nat /\ k - 1 \notin Bad
  BY <1>2, <1>3
<1>5. PICK h : Sifts(h, S, k - 1)
  BY <1>4
<1> DEFINE v(n) == IF Providers[n] \in S THEN Append(h[n - 1], Providers[n]) ELSE h[n - 1]
           g == [n \in 0..k |-> IF n = k THEN v(k) ELSE h[n]]
<1>6. ASSUME NEW n \in 0..k
      PROVE  g[n] = IF n = 0 THEN <<>>
                    ELSE IF Providers[n] \in S THEN Append(g[n - 1], Providers[n])
                    ELSE g[n - 1]
  <2>1. CASE n = k
    <3>1. g[k] = v(k) /\ g[k - 1] = h[k - 1]
      BY <1>3, <1>4
    <3> HIDE DEF g
    <3> QED BY <1>3, <2>1, <3>1
  <2>2. CASE n # k
    <3>1. n \in 0..(k - 1)
      BY <1>4, <2>2
    <3>2. h[n] = IF n = 0 THEN <<>>
                 ELSE IF Providers[n] \in S THEN Append(h[n - 1], Providers[n]) ELSE h[n - 1]
      BY <1>4, <1>5, <3>1, SiftAt
    <3>3. g[n] = h[n] /\ (n # 0 => g[n - 1] = h[n - 1])
      BY <2>2, <3>1
    <3> HIDE DEF g
    <3> QED BY <3>2, <3>3
  <2> QED BY <2>1, <2>2
<1>7. g = [n \in 0..k |-> g[n]]
  OBVIOUS
<1>8. Sifts(g, S, k)
  <2> HIDE DEF g
  <2> QED BY <1>6, <1>7 DEF Sifts
<1> QED
  <2> HIDE DEF g
  <2> QED BY <1>2, <1>8

\* The providers a run tries are providers, and there is one if S has one.
LEMMA PreferredIsSequence ==
  ASSUME NEW S
  PROVE  /\ Preferred(S) \in Seq(Range(Providers))
         /\ (\E p \in Range(Providers) : p \in S) => Preferred(S) # <<>>
<1> DEFINE g == CHOOSE h : Sifts(h, S, Len(Providers))
           R == Range(Providers)
           Good(n) == /\ g[n] \in Seq(R)
                      /\ (\E i \in 1..n : Providers[i] \in S) => g[n] # <<>>
           Bad == {n \in Nat : n <= Len(Providers) /\ ~Good(n)}
<1>1. Len(Providers) \in Nat /\ \A i \in 1..Len(Providers) : Providers[i] \in R
  BY AgentAssumption
<1>2. Sifts(g, S, Len(Providers))
  BY <1>1, SiftExists
<1>3. Preferred(S) = g[Len(Providers)]
  BY DEF Preferred, Sifts
<1>4. Bad = {}
  <2> SUFFICES ASSUME Bad # {} PROVE FALSE
    OBVIOUS
  <2>1. PICK n \in Bad : \A m \in Bad : n <= m
    <3>1. Bad \in SUBSET Nat
      OBVIOUS
    <3> HIDE DEF Bad
    <3> QED BY <3>1, SmallestNumber
  <2>2. n \in 0..Len(Providers) /\ ~Good(n)
    BY <1>1
  <2> HIDE DEF g
  <2>3. g[n] = IF n = 0 THEN <<>>
               ELSE IF Providers[n] \in S THEN Append(g[n - 1], Providers[n])
               ELSE g[n - 1]
    BY <1>1, <1>2, <2>2, SiftAt
  <2>4. n # 0
    BY <2>2, <2>3
  <2>5. Good(n - 1)
    <3>1. n - 1 \in Nat /\ n - 1 <= Len(Providers) /\ ~(n <= n - 1)
      BY <1>1, <2>2, <2>4
    <3> QED BY <2>1, <3>1
  <2>6. Providers[n] \in R
    BY <1>1, <2>2, <2>4
  <2>7. g[n] \in Seq(R)
    BY <2>3, <2>4, <2>5, <2>6
  <2>8. ASSUME NEW i \in 1..n, Providers[i] \in S PROVE g[n] # <<>>
    <3>1. CASE i = n
      BY <2>3, <2>4, <2>5, <2>6, <2>8, <3>1
    <3>2. CASE i # n
      <4>1. i \in 1..(n - 1)
        BY <2>2, <3>2
      <4>2. g[n - 1] # <<>> /\ g[n - 1] \in Seq(R)
        BY <2>5, <2>8, <4>1
      <4> QED BY <2>3, <2>4, <2>6, <4>2
    <3> QED BY <3>1, <3>2
  <2> QED BY <2>2, <2>7, <2>8
<1>5. Good(Len(Providers))
  <2> HIDE DEF Good
  <2> QED BY <1>1, <1>4
<1>6. ASSUME NEW p \in R, p \in S PROVE \E i \in 1..Len(Providers) : Providers[i] \in S
  BY <1>6, AgentAssumption DEF Range
<1> HIDE DEF g
<1> QED
  BY <1>3, <1>5, <1>6

\* complete always finds a provider to turn to.
LEMMA SomeProvider ==
  ASSUME cooling \subseteq Range(Providers)
  PROVE  /\ available_providers \in Seq(Range(Providers)) /\ available_providers # <<>>
         /\ Head(available_providers) \in Range(Providers)
<1> DEFINE A == Preferred(Range(Providers) \ cooling)
           B == Preferred(cooling)
<1>1. A \in Seq(Range(Providers)) /\ B \in Seq(Range(Providers))
  BY PreferredIsSequence
<1>2. A # <<>> \/ B # <<>>
  <2>1. Providers[1] \in Range(Providers)
    BY AgentAssumption
  <2>2. CASE Providers[1] \in cooling
    BY <2>1, <2>2, PreferredIsSequence
  <2>3. CASE Providers[1] \notin cooling
    BY <2>1, <2>3, PreferredIsSequence
  <2> QED BY <2>2, <2>3
<1> HIDE DEF A, B
<1>3. A \o B \in Seq(Range(Providers)) /\ A \o B # <<>>
  BY <1>1, <1>2
<1>4. Head(A \o B) \in Range(Providers)
  BY <1>3
<1> QED
  BY <1>3, <1>4 DEF available_providers, A, B

\* What a completion of a provider costs is at most its price.
LEMMA Priced ==
  ASSUME NEW p \in Range(Providers)
  PROVE  Price(p) \in Nat /\ \A c \in Costs[p] : c \in Nat /\ c <= Price(p)
<1>1. Costs[p] \subseteq Nat /\ \E c \in Costs[p] : \A d \in Costs[p] : c >= d
  BY AgentAssumption
<1>2. Price(p) \in Costs[p] /\ \A d \in Costs[p] : Price(p) >= d
  BY <1>1 DEF Price, Max
<1> QED
  BY <1>1, <1>2

\* A run that is under way is a full record.
LEMMA RunIsRecord ==
  ASSUME AgentTypes, NEW r \in Runs
  PROVE  /\ run[r].pc = "idle" => run[r] = Idle
         /\ run[r].pc # "idle" => run[r] \in RunRecords
  BY DEF AgentTypes, RunRecords, Idle

\* Nothing but the run r changes.
Only(r) == \A q \in Runs : q # r => run'[q] = run[q]

\* ... and not who it is.
Keeps(r) ==
  /\ run'[r].agent = run[r].agent /\ run'[r].parent = run[r].parent
  /\ run'[r].step = run[r].step /\ run'[r].alone = run[r].alone

\* The runs keep their type when one of them changes to a record of it.
LEMMA RunsTyped ==
  ASSUME AgentTypes, NEW r \in Runs, Only(r), DOMAIN run' = Runs, run' = [q \in Runs |-> run'[q]],
         run'[r] = Idle \/ run'[r] \in RunRecords
  PROVE  run' \in [Runs -> {Idle} \cup RunRecords]
  BY DEF AgentTypes, Only

\* A helper keeps its parent when one run goes on, unless it leaves its calls
\* while a helper is at work.
LEMMA FamilyKept ==
  ASSUME AgentTypes, Family, NEW r \in Runs, Only(r), Keeps(r),
         run[r].pc # "idle", run'[r].pc # "idle",
         run[r].pc = "tools" /\ run'[r].pc # "tools" => Children(r) = {}
  PROVE  Family'
<1> SUFFICES ASSUME NEW h \in Helpers, run'[h].pc # "idle"
             PROVE  /\ run'[h].parent \in Runs \ {h}
                    /\ run'[run'[h].parent].pc = "tools"
                    /\ run'[run'[h].parent].step = run'[h].step
  BY DEF Family
<1>1. h \in Runs
  BY DEF Runs
<1>2. run[h].pc # "idle" /\ run'[h].parent = run[h].parent /\ run'[h].step = run[h].step
  BY <1>1 DEF Only, Keeps
<1>3. /\ run[h].parent \in Runs \ {h} /\ run[run[h].parent].pc = "tools"
      /\ run[run[h].parent].step = run[h].step
  BY <1>2 DEF Family
<1>4. run[h].parent = r => h \in Children(r)
  BY <1>2 DEF Children
<1>5. run'[run[h].parent].pc = "tools" /\ run'[run[h].parent].step = run[run[h].parent].step
  BY <1>3, <1>4 DEF Only, Keeps
<1> QED
  BY <1>2, <1>3, <1>5

\* The costs of the runs after one of them has changed.
LEMMA OutstandingTyped ==
  ASSUME AgentTypes
  PROVE  /\ IsFiniteSet(Runs) /\ \A q \in Runs : Outstanding[q] \in Nat
         /\ SumFunctionOnSet(Outstanding, Runs) \in Nat
<1>1. IsFiniteSet(Runs)
  BY AgentAssumption, FS_Union DEF Runs
<1>2. ASSUME NEW q \in Runs PROVE Outstanding[q] \in Nat
  BY RunIsRecord DEF Outstanding, RunRecords
<1> QED
  BY <1>1, <1>2, SumType

\* The sum of the costs grows by what one run's cost grows by.
LEMMA OneCost ==
  ASSUME AgentTypes, AgentTypes', NEW r \in Runs, Only(r), NEW d \in Int,
         run[r].pc # "idle", run'[r].pc # "idle", run'[r].cost = run[r].cost + d
  PROVE  SumFunctionOnSet(Outstanding', Runs) = SumFunctionOnSet(Outstanding, Runs) + d
<1>1. IsFiniteSet(Runs) /\ \A q \in Runs : Outstanding[q] \in Nat /\ Outstanding'[q] \in Nat
  <2>1. \A q \in Runs : Outstanding'[q] \in Nat
    BY DEF AgentTypes, Outstanding, RunRecords, Idle
  <2> QED BY <2>1, OutstandingTyped
<1>2. \A q \in Runs : q # r => Outstanding'[q] = Outstanding[q]
  BY DEF Only, Outstanding
<1>3. Outstanding[r] = run[r].cost /\ Outstanding'[r] = run[r].cost + d
  BY DEF Outstanding
<1> DEFINE f == Outstanding
           g == Outstanding'
<1> HIDE DEF f, g
<1>4. SumFunctionOnSet(g, Runs) = SumFunctionOnSet(f, Runs) - f[r] + g[r]
  BY <1>1, <1>2, SumChanged DEF f, g
<1>5. SumFunctionOnSet(f, Runs) \in Nat /\ f[r] \in Nat
  BY <1>1, OutstandingTyped DEF f
<1>6. g[r] = f[r] + d
  BY <1>3 DEF f, g
<1> QED
  BY <1>4, <1>5, <1>6 DEF f, g

\* Complete, column by column.
LEMMA CompleteColumns ==
  ASSUME AgentTypes, Served, NEW r \in Runs, NEW cost, NEW uses \in SUBSET Uses,
         NEW ok \in BOOLEAN, Complete(r, cost, uses, ok)
  PROVE  /\ run[r].pc = "provider" /\ run[r] \in RunRecords /\ cost \in Nat
         /\ Only(r) /\ Keeps(r) /\ run'[r].pc \in {"tools", "ended"} /\ run'[r] \in RunRecords
         /\ run'[r].own = run[r].own + cost /\ run'[r].cost = run[r].cost + cost
         /\ ~run'[r].dearer => ~run[r].dearer /\ cost <= run[r].projected
         /\ mishaps' = {} => mishaps = {} /\ cost <= run[r].projected
         /\ AgentTypes'
<1> DEFINE p == Head(run[r].queue)
           pc == IF uses = {} THEN "ended" ELSE "tools"
           d == run[r].dearer \/ Price(p) > run[r].projected
           new == [run[r] EXCEPT !.pc = pc, !.ok = ok, !.todo = uses, !.queue = <<>>,
                     !.attempt = 1, !.projected = 0, !.cost = @ + cost, !.own = @ + cost,
                     !.dearer = d]
<1>1. run[r].pc = "provider" /\ cost \in Costs[p]
  BY DEF Complete
<1>2. run[r] \in RunRecords /\ run[r].queue # <<>> /\ run[r].queue \in Seq(Range(Providers))
  <2>1. run[r] \in RunRecords
    BY <1>1, RunIsRecord
  <2>2. r \in UnderWay
    BY <1>1 DEF UnderWay
  <2> QED BY <1>1, <2>1, <2>2 DEF Served, RunRecords
<1>3. p \in Range(Providers)
  <2> HIDE DEF p
  <2>1. \A q \in Seq(Range(Providers)) : q # <<>> => Head(q) \in Range(Providers)
    OBVIOUS
  <2> QED BY <1>2, <2>1 DEF p
<1>4. Price(p) \in Nat /\ cost \in Nat /\ cost <= Price(p)
  BY <1>1, <1>3, Priced
<1>5. DOMAIN run = Runs /\ run = [q \in Runs |-> run[q]]
  BY DEF AgentTypes
<1>6. run' = [run EXCEPT ![r] = new]
  BY DEF Complete
<1> HIDE DEF p
<1>7. /\ new \in RunRecords /\ new.pc = pc /\ new.own = run[r].own + cost
      /\ new.cost = run[r].cost + cost /\ new.dearer = d
      /\ new.agent = run[r].agent /\ new.parent = run[r].parent
      /\ new.step = run[r].step /\ new.alone = run[r].alone
  <2>1. pc \in {"tools", "ended"} /\ d \in BOOLEAN /\ <<>> \in Seq(Range(Providers))
    BY <1>2, <1>4 DEF RunRecords
  <2> HIDE DEF pc, d
  <2>2. run[r].own + cost \in Nat /\ run[r].cost + cost \in Nat
    BY <1>2, <1>4 DEF RunRecords
  <2>3. new \in RunRecords
    BY <1>2, <2>1, <2>2 DEF RunRecords
  <2> QED BY <1>2, <2>3 DEF RunRecords
<1> HIDE DEF new
<1>8. run'[r] = new /\ Only(r) /\ run' = [q \in Runs |-> run'[q]] /\ DOMAIN run' = Runs
  BY <1>5, <1>6 DEF Only
<1>9. run' \in [Runs -> {Idle} \cup RunRecords]
  BY <1>7, <1>8, RunsTyped
<1>10. run[r].projected \in Nat
  BY <1>2 DEF RunRecords
<1>11. ~run'[r].dearer => ~run[r].dearer /\ cost <= run[r].projected
  <2>1. ~d => ~run[r].dearer /\ cost <= run[r].projected
    BY <1>4, <1>10
  <2> HIDE DEF d
  <2> QED BY <1>7, <1>8, <2>1
<1>12. mishaps' = {} => mishaps = {} /\ cost <= run[r].projected
  <2>1. mishaps' = IF Price(p) > run[r].projected THEN mishaps \cup {"dearer"} ELSE mishaps
    BY DEF Complete, p
  <2> QED BY <1>4, <1>10, <2>1
<1>13. guard' \in [owner : Runs \cup {Nobody}, limit : Nat, spent : Nat, org : Int]
  <2>1. guard' = [guard EXCEPT !.spent = @ + cost, !.org = @ - cost]
    BY DEF Complete, record
  <2>2. guard.spent + cost \in Nat /\ guard.org - cost \in Int
    BY <1>4 DEF AgentTypes
  <2> QED BY <2>1, <2>2 DEF AgentTypes
<1>14. AgentTypes'
  <2>1. /\ spend' = [spend EXCEPT !.completions = @ + cost] /\ budget' = budget
        /\ cooling' = cooling
    BY DEF Complete
  <2>2. spend' \in [completions : Nat, tools : Nat, lost : Nat]
    BY <1>4, <2>1 DEF AgentTypes
  <2> QED BY <1>9, <1>13, <2>1, <2>2 DEF AgentTypes
<1> QED
  BY <1>1, <1>2, <1>4, <1>7, <1>8, <1>11, <1>12, <1>14 DEF Keeps

\* A completion: its cost was checked against the guard when it was asked for.
LEMMA CompleteKeeps ==
  ASSUME AgentInv, SpendIsAccounted, NEW r \in Runs, NEW cost, NEW uses \in SUBSET Uses,
         NEW ok \in BOOLEAN, Complete(r, cost, uses, ok)
  PROVE  AgentInv' /\ SpendIsAccounted'
<1>0. AgentTypes /\ Served /\ Guarded /\ OneByOne /\ Booked /\ Family
  BY DEF AgentInv
<1>1. /\ run[r].pc = "provider" /\ run[r] \in RunRecords /\ cost \in Nat
      /\ Only(r) /\ Keeps(r) /\ run'[r].pc \in {"tools", "ended"} /\ run'[r] \in RunRecords
      /\ run'[r].own = run[r].own + cost /\ run'[r].cost = run[r].cost + cost
      /\ ~run'[r].dearer => ~run[r].dearer /\ cost <= run[r].projected
      /\ mishaps' = {} => mishaps = {} /\ cost <= run[r].projected
      /\ AgentTypes'
  BY <1>0, CompleteColumns
<1>2. /\ guard'.owner = guard.owner /\ guard'.limit = guard.limit
      /\ guard'.spent = guard.spent + cost /\ guard'.org = guard.org - cost
      /\ guard.spent \in Nat /\ guard.org \in Int /\ guard.limit \in Nat
  BY <1>0, <1>1 DEF Complete, record, AgentTypes
<1>3. /\ spend'.completions = spend.completions + cost
      /\ spend'.tools = spend.tools /\ spend'.lost = spend.lost /\ budget' = budget
      /\ spend.completions \in Nat /\ spend.tools \in Nat /\ spend.lost \in Nat
      /\ budget.spent \in Nat /\ budget.org \in Int
  BY <1>0 DEF Complete, AgentTypes
<1>4. run[r].own \in Nat /\ run[r].cost \in Nat /\ run[r].projected \in Nat
      /\ Ceiling[run[r].agent] \in Nat
  BY <1>1, AgentAssumption DEF RunRecords
<1>5. UnderWay' = UnderWay /\ r \in UnderWay
  BY <1>1 DEF UnderWay, Only
<1>6. Served'
  BY <1>0, <1>1, <1>4, <1>5 DEF Served, Only, UnderWay
<1>7. Guarded'
  <2> SUFFICES ASSUME NEW q \in UnderWay, run'[q].alone
               PROVE  /\ Active(q)' => /\ guard.owner = q /\ guard.limit = Ceiling[run'[q].agent]
                                       /\ run'[q].own <= guard.spent + cost
                      /\ run'[q].pc = "provider" =>
                           run'[q].own + run'[q].projected <= Ceiling[run'[q].agent]
                      /\ ~run'[q].dearer => run'[q].own <= Ceiling[run'[q].agent]
    BY <1>2, <1>5 DEF Guarded
  <2>1. CASE q = r
    BY <1>0, <1>1, <1>2, <1>4, <1>5, <2>1 DEF Guarded, Keeps, Active
  <2>2. CASE q # r
    <3>1. run'[q] = run[q] /\ q \in Runs
      BY <2>2, <1>1 DEF Only, UnderWay
    <3>2. run[q].own \in Nat
      BY <3>1, <1>0, RunIsRecord DEF RunRecords, UnderWay
    <3> QED BY <1>0, <1>1, <1>2, <3>1, <3>2 DEF Guarded, Active
  <2> QED BY <2>1, <2>2
<1>8. OneByOne'
  <2> SUFFICES ASSUME mishaps' = {}
               PROVE  /\ spend'.completions <= OrgRemaining
                      /\ UnderWay = {} => spend'.completions <= budget.spent
                      /\ \A q \in UnderWay :
                           /\ q \in Steps /\ UnderWay = {q}
                           /\ spend'.completions <= budget.spent + run'[q].own
                           /\ guard'.org = budget.org - run'[q].own
                           /\ run'[q].pc = "provider" => run'[q].projected <= guard'.org
    BY <1>3, <1>5 DEF OneByOne
  <2>1. /\ UnderWay = {r} /\ r \in Steps /\ spend.completions <= budget.spent + run[r].own
        /\ guard.org = budget.org - run[r].own /\ run[r].projected <= guard.org
        /\ cost <= run[r].projected
    BY <1>0, <1>1, <1>5 DEF OneByOne
  <2>2. spend'.completions <= OrgRemaining
    <3>1. OrgRemaining \in Nat /\ budget.org = OrgRemaining - budget.spent
      BY <1>0, AgentAssumption DEF Booked
    <3> QED BY <1>1, <1>3, <1>4, <2>1, <3>1
  <2>3. spend'.completions <= budget.spent + run'[r].own /\ guard'.org = budget.org - run'[r].own
    BY <1>1, <1>2, <1>3, <1>4, <2>1
  <2> QED BY <1>1, <2>1, <2>2, <2>3
<1>9. Booked'
  BY <1>0, <1>3 DEF Booked
<1>10. Family'
  BY <1>0, <1>1, FamilyKept
<1>11. SpendIsAccounted'
  <2>1. SumFunctionOnSet(Outstanding', Runs) = SumFunctionOnSet(Outstanding, Runs) + cost
    BY <1>0, <1>1, OneCost
  <2>2. SumFunctionOnSet(Outstanding, Runs) \in Nat
    BY <1>0, OutstandingTyped
  <2> QED BY <1>1, <1>3, <2>1, <2>2 DEF SpendIsAccounted
<1> QED
  BY <1>1, <1>6, <1>7, <1>8, <1>9, <1>10, <1>11 DEF AgentInv

\* What a tool cost is booked with the run that called it.
LEMMA ToolBooked ==
  ASSUME AgentTypes, SpendIsAccounted, NEW d \in Nat, budget' = budget,
         spend' = [spend EXCEPT !.tools = @ + d],
         SumFunctionOnSet(Outstanding, Runs) \in Nat,
         SumFunctionOnSet(Outstanding', Runs) = SumFunctionOnSet(Outstanding, Runs) + d
  PROVE  SpendIsAccounted'
<1>1. /\ spend'.completions = spend.completions
      /\ spend'.tools = spend.tools + d /\ spend'.lost = spend.lost
      /\ spend.completions \in Nat /\ spend.tools \in Nat /\ spend.lost \in Nat
      /\ budget.spent \in Nat
  BY DEF AgentTypes
<1> QED
  BY <1>1 DEF SpendIsAccounted

\* A step of one run that records nothing in a guard keeps the invariant, if
\* a completion it asks for was checked.
LEMMA GoesOn ==
  ASSUME AgentInv, SpendIsAccounted, NEW r \in Runs, NEW d \in Nat, Only(r), Keeps(r),
         DOMAIN run' = Runs, run' = [q \in Runs |-> run'[q]],
         run[r].pc # "idle", run'[r] \in RunRecords,
         run'[r].own = run[r].own, run'[r].dearer = run[r].dearer,
         run'[r].cost = run[r].cost + d,
         Active(r)' => Active(r),
         run'[r].pc = "provider" =>
           /\ run'[r].queue # <<>>
           /\ run[r].alone => run[r].own + run'[r].projected <= Ceiling[run[r].agent]
           /\ mishaps = {} => run'[r].projected <= guard.org,
         run[r].pc = "tools" /\ run'[r].pc # "tools" => Children(r) = {},
         spend' = [spend EXCEPT !.tools = @ + d],
         UNCHANGED <<guard, budget, mishaps>>, cooling' \subseteq Range(Providers)
  PROVE  AgentInv' /\ SpendIsAccounted'
<1>0. AgentTypes /\ Served /\ Guarded /\ OneByOne /\ Booked /\ Family
  BY DEF AgentInv
<1>1. /\ spend'.completions = spend.completions /\ budget' = budget
      /\ spend'.tools = spend.tools + d /\ spend'.lost = spend.lost
      /\ spend.completions \in Nat /\ spend.tools \in Nat /\ spend.lost \in Nat
      /\ budget.spent \in Nat /\ budget.org \in Int
      /\ spend' \in [completions : Nat, tools : Nat, lost : Nat]
  BY <1>0 DEF AgentTypes
<1>2. AgentTypes'
  <2>1. run' \in [Runs -> {Idle} \cup RunRecords]
    BY <1>0, RunsTyped
  <2> QED BY <1>0, <1>1, <2>1 DEF AgentTypes
<1>3. /\ run[r] \in RunRecords /\ run[r].own \in Nat /\ run[r].cost \in Nat /\ run'[r].pc # "idle"
  BY <1>0, RunIsRecord DEF RunRecords
<1>4. UnderWay' = UnderWay /\ r \in UnderWay
  BY <1>3 DEF UnderWay, Only
<1>5. Served'
  BY <1>0, <1>3, <1>4 DEF Served, Only, UnderWay
<1>6. Guarded'
  <2> SUFFICES ASSUME NEW q \in UnderWay, run'[q].alone
               PROVE  /\ Active(q)' => /\ guard.owner = q /\ guard.limit = Ceiling[run'[q].agent]
                                       /\ run'[q].own <= guard.spent
                      /\ run'[q].pc = "provider" =>
                           run'[q].own + run'[q].projected <= Ceiling[run'[q].agent]
                      /\ ~run'[q].dearer => run'[q].own <= Ceiling[run'[q].agent]
    BY <1>4 DEF Guarded
  <2>1. CASE q = r
    BY <1>0, <1>4, <2>1 DEF Guarded, Keeps
  <2>2. CASE q # r
    <3>1. run'[q] = run[q]
      BY <2>2 DEF Only, UnderWay
    <3> QED BY <1>0, <3>1 DEF Guarded, Active
  <2> QED BY <2>1, <2>2
<1>7. OneByOne'
  <2> SUFFICES ASSUME mishaps = {}
               PROVE  /\ spend.completions <= OrgRemaining
                      /\ UnderWay = {} => spend.completions <= budget.spent
                      /\ \A q \in UnderWay :
                           /\ q \in Steps /\ UnderWay = {q}
                           /\ spend.completions <= budget.spent + run'[q].own
                           /\ guard.org = budget.org - run'[q].own
                           /\ run'[q].pc = "provider" => run'[q].projected <= guard.org
    BY <1>1, <1>4 DEF OneByOne
  <2>1. UnderWay = {r}
    BY <1>0, <1>4 DEF OneByOne
  <2> QED BY <1>0, <1>4, <2>1 DEF OneByOne
<1>8. Booked'
  BY <1>0 DEF Booked
<1>9. Family'
  BY <1>0, <1>3, FamilyKept
<1>10. SpendIsAccounted'
  <2>1. SumFunctionOnSet(Outstanding', Runs) = SumFunctionOnSet(Outstanding, Runs) + d
    BY <1>0, <1>2, <1>3, OneCost
  <2>2. SumFunctionOnSet(Outstanding, Runs) \in Nat
    BY <1>0, OutstandingTyped
  <2> QED BY <1>0, <1>1, <2>1, <2>2, ToolBooked
<1> QED
  BY <1>2, <1>5, <1>6, <1>7, <1>8, <1>9, <1>10 DEF AgentInv

\* The next provider, another attempt, an answer that cannot be read.
LEMMA ProviderKeeps ==
  ASSUME AgentInv, SpendIsAccounted, NEW r \in Runs,
         (\E ok \in BOOLEAN : GiveUpProvider(r, ok)) \/ RetryProvider(r) \/ FailRun(r)
  PROVE  AgentInv' /\ SpendIsAccounted'
<1>0. AgentTypes /\ Served /\ Guarded /\ OneByOne
  BY DEF AgentInv
<1>1. run[r].pc = "provider" /\ run[r] \in RunRecords /\ r \in UnderWay
  BY <1>0, RunIsRecord DEF GiveUpProvider, RetryProvider, FailRun, UnderWay
<1>2. /\ run[r].queue # <<>> /\ run[r].queue \in Seq(Range(Providers))
      /\ run[r].alone => run[r].own + run[r].projected <= Ceiling[run[r].agent]
      /\ mishaps = {} => run[r].projected <= guard.org
      /\ run[r].cost + 0 = run[r].cost
  BY <1>0, <1>1 DEF Served, Guarded, OneByOne, RunRecords
<1>3. /\ spend' = [spend EXCEPT !.tools = @ + 0]
      /\ UNCHANGED <<guard, budget, mishaps>> /\ cooling' \subseteq Range(Providers)
  <2>1. UNCHANGED <<guard, budget, mishaps, spend>>
    BY DEF GiveUpProvider, RetryProvider, FailRun
  <2>2. spend = [spend EXCEPT !.tools = @ + 0]
    BY <1>0 DEF AgentTypes
  <2>3. Head(run[r].queue) \in Range(Providers)
    BY <1>2
  <2>4. cooling' \in {cooling, cooling \cup {Head(run[r].queue)}}
    BY DEF GiveUpProvider, RetryProvider, FailRun
  <2> QED BY <1>0, <2>1, <2>2, <2>3, <2>4 DEF AgentTypes
<1>4. DOMAIN run = Runs /\ run = [q \in Runs |-> run[q]]
  BY <1>0 DEF AgentTypes
<1> DEFINE Fits(new) ==
             /\ run' = [run EXCEPT ![r] = new]
             /\ new \in RunRecords
             /\ new.own = run[r].own /\ new.dearer = run[r].dearer /\ new.cost = run[r].cost
             /\ new.agent = run[r].agent /\ new.parent = run[r].parent
             /\ new.step = run[r].step /\ new.alone = run[r].alone
             /\ new.pc \in {"provider", "ended"}
             /\ new.pc = "provider" => new.queue # <<>> /\ new.projected = run[r].projected
<1>5. PICK new : Fits(new)
  <2>1. ASSUME NEW ok \in BOOLEAN, GiveUpProvider(r, ok)
        PROVE  \E new : Fits(new)
    <3> DEFINE left == Tail(run[r].queue)
               a == [run[r] EXCEPT !.queue = left, !.attempt = 1]
               b == [run[r] EXCEPT !.queue = left, !.pc = "ended", !.ok = ok]
    <3>1. left \in Seq(Range(Providers))
      BY <1>2
    <3>2. run' = IF left # <<>> THEN [run EXCEPT ![r] = a] ELSE [run EXCEPT ![r] = b]
      BY <1>4, <2>1 DEF GiveUpProvider, NextProvider
    <3> HIDE DEF left
    <3>3. CASE left # <<>>
      <4>1. /\ a \in RunRecords
            /\ a.own = run[r].own /\ a.dearer = run[r].dearer /\ a.cost = run[r].cost
            /\ a.agent = run[r].agent /\ a.parent = run[r].parent
            /\ a.step = run[r].step /\ a.alone = run[r].alone
            /\ a.pc = "provider" /\ a.queue = left /\ a.projected = run[r].projected
        BY <1>1, <3>1 DEF RunRecords
      <4> HIDE DEF a
      <4> QED BY <3>2, <3>3, <4>1
    <3>4. CASE left = <<>>
      <4>1. /\ b \in RunRecords
            /\ b.own = run[r].own /\ b.dearer = run[r].dearer /\ b.cost = run[r].cost
            /\ b.agent = run[r].agent /\ b.parent = run[r].parent
            /\ b.step = run[r].step /\ b.alone = run[r].alone
            /\ b.pc = "ended"
        BY <1>1, <3>1 DEF RunRecords
      <4> HIDE DEF b
      <4> QED BY <3>2, <3>4, <4>1
    <3> QED BY <3>3, <3>4
  <2>2. CASE RetryProvider(r)
    <3> DEFINE a == [run[r] EXCEPT !.attempt = @ + 1]
    <3>1. run' = [run EXCEPT ![r] = a]
      BY <1>1, <1>4, <2>2 DEF RetryProvider, RunRecords
    <3>2. /\ a \in RunRecords
          /\ a.own = run[r].own /\ a.dearer = run[r].dearer /\ a.cost = run[r].cost
          /\ a.agent = run[r].agent /\ a.parent = run[r].parent
          /\ a.step = run[r].step /\ a.alone = run[r].alone
          /\ a.pc = "provider" /\ a.queue = run[r].queue /\ a.projected = run[r].projected
      <4>1. run[r].attempt + 1 \in Nat
        BY <1>1 DEF RunRecords
      <4> QED BY <1>1, <4>1 DEF RunRecords
    <3> HIDE DEF a
    <3> QED BY <1>2, <3>1, <3>2
  <2>3. CASE FailRun(r)
    <3> DEFINE a == [run[r] EXCEPT !.pc = "ended"]
    <3>1. run' = [run EXCEPT ![r] = a]
      BY <1>1, <1>4, <2>3 DEF FailRun, RunRecords
    <3>2. /\ a \in RunRecords
          /\ a.own = run[r].own /\ a.dearer = run[r].dearer /\ a.cost = run[r].cost
          /\ a.agent = run[r].agent /\ a.parent = run[r].parent
          /\ a.step = run[r].step /\ a.alone = run[r].alone /\ a.pc = "ended"
      BY <1>1 DEF RunRecords
    <3> HIDE DEF a
    <3> QED BY <3>1, <3>2
  <2> HIDE DEF Fits
  <2> QED BY <2>1, <2>2, <2>3
<1>6. /\ run'[r] = new /\ Only(r) /\ Keeps(r)
      /\ DOMAIN run' = Runs /\ run' = [q \in Runs |-> run'[q]]
  BY <1>4, <1>5 DEF Only, Keeps
<1>7. Active(r)
  BY <1>1 DEF Active
<1> QED
  BY <1>1, <1>2, <1>3, <1>5, <1>6, <1>7, GoesOn

\* A tool answers, a delegation is refused.
LEMMA ToolsKeep ==
  ASSUME AgentInv, SpendIsAccounted, NEW r \in Runs,
         (\E cost \in ToolCosts : UseTool(r, cost)) \/ (\E a \in AgentKeys : RefuseDelegation(r, a))
  PROVE  AgentInv' /\ SpendIsAccounted'
<1>0. AgentTypes /\ Served /\ Guarded /\ OneByOne
  BY DEF AgentInv
<1>1. run[r].pc = "tools" /\ run[r] \in RunRecords
  BY <1>0, RunIsRecord DEF UseTool, RefuseDelegation
<1>2. DOMAIN run = Runs /\ run = [q \in Runs |-> run[q]]
  BY <1>0 DEF AgentTypes
<1>3. UNCHANGED <<guard, budget, mishaps, cooling>> /\ cooling \subseteq Range(Providers)
  BY <1>0 DEF UseTool, RefuseDelegation, AgentTypes
<1> DEFINE Fits(new, d) ==
             /\ run' = [run EXCEPT ![r] = new]
             /\ new \in RunRecords
             /\ new.own = run[r].own /\ new.dearer = run[r].dearer /\ new.cost = run[r].cost + d
             /\ new.agent = run[r].agent /\ new.parent = run[r].parent
             /\ new.step = run[r].step /\ new.alone = run[r].alone /\ new.pc = "tools"
             /\ spend' = [spend EXCEPT !.tools = @ + d]
<1>4. PICK new \in RunRecords, d \in Nat : Fits(new, d)
  <2>1. ASSUME NEW cost \in ToolCosts, UseTool(r, cost)
        PROVE  \E new \in RunRecords, d \in Nat : Fits(new, d)
    <3> DEFINE a == [run[r] EXCEPT !.todo = @ \ {"tool"}, !.cost = @ + cost]
    <3>1. cost \in Nat
      BY AgentAssumption
    <3>2. run' = [run EXCEPT ![r] = a]
      BY <1>1, <1>2, <2>1 DEF UseTool, RunRecords
    <3>3. run[r].cost + cost \in Nat /\ run[r].todo \ {"tool"} \in SUBSET Uses
      BY <1>1, <3>1 DEF RunRecords
    <3>4. /\ a \in RunRecords
          /\ a.own = run[r].own /\ a.dearer = run[r].dearer /\ a.cost = run[r].cost + cost
          /\ a.agent = run[r].agent /\ a.parent = run[r].parent
          /\ a.step = run[r].step /\ a.alone = run[r].alone /\ a.pc = "tools"
      BY <1>1, <3>3 DEF RunRecords
    <3>5. spend' = [spend EXCEPT !.tools = @ + cost]
      BY <2>1 DEF UseTool
    <3> HIDE DEF a
    <3>6. Fits(a, cost)
      BY <3>2, <3>4, <3>5
    <3> HIDE DEF Fits
    <3> QED BY <3>1, <3>4, <3>6
  <2>2. ASSUME NEW k \in AgentKeys, RefuseDelegation(r, k)
        PROVE  \E new \in RunRecords, d \in Nat : Fits(new, d)
    <3> DEFINE a == [run[r] EXCEPT !.todo = @ \ {k}]
    <3>1. run' = [run EXCEPT ![r] = a]
      BY <1>1, <1>2, <2>2 DEF RefuseDelegation, RunRecords
    <3>2. run[r].cost + 0 = run[r].cost /\ run[r].todo \ {k} \in SUBSET Uses
      BY <1>1 DEF RunRecords
    <3>3. /\ a \in RunRecords
          /\ a.own = run[r].own /\ a.dearer = run[r].dearer /\ a.cost = run[r].cost
          /\ a.agent = run[r].agent /\ a.parent = run[r].parent
          /\ a.step = run[r].step /\ a.alone = run[r].alone /\ a.pc = "tools"
      BY <1>1, <3>2 DEF RunRecords
    <3>4. spend' = [spend EXCEPT !.tools = @ + 0]
      <4>1. spend' = spend
        BY <2>2 DEF RefuseDelegation
      <4> QED BY <1>0, <4>1 DEF AgentTypes
    <3> HIDE DEF a
    <3>5. Fits(a, 0)
      BY <3>1, <3>2, <3>3, <3>4
    <3> HIDE DEF Fits
    <3> QED BY <3>3, <3>5
  <2> HIDE DEF Fits
  <2> QED BY <2>1, <2>2
<1>5. /\ run'[r] = new /\ Only(r) /\ Keeps(r)
      /\ DOMAIN run' = Runs /\ run' = [q \in Runs |-> run'[q]]
  BY <1>2, <1>4 DEF Only, Keeps
<1>6. Active(r)
  BY <1>1 DEF Active
<1> QED
  BY <1>1, <1>3, <1>4, <1>5, <1>6, GoesOn

\* What ModelRouter.complete makes of a run, under any guard.
LEMMA AskedFits ==
  ASSUME cooling \subseteq Range(Providers), NEW x, NEW g,
         x \in RunRecords \/ \E a \in AgentKeys, q \in Runs \cup {Nobody}, s \in Steps, n \in Nat :
                                x = Fresh(a, q, s, n)
  PROVE  /\ Asked(x, g) \in RunRecords
         /\ Asked(x, g).pc \in {"provider", "ended"}
         /\ Asked(x, g).pc = "provider" =>
              /\ Asked(x, g).queue # <<>> /\ check(g, Asked(x, g).projected)
         /\ Asked(x, g).own = x.own /\ Asked(x, g).dearer = x.dearer /\ Asked(x, g).cost = x.cost
         /\ Asked(x, g).agent = x.agent /\ Asked(x, g).parent = x.parent
         /\ Asked(x, g).step = x.step /\ Asked(x, g).alone = x.alone
<1> DEFINE queue == available_providers
           projected == Price(Head(queue))
           asked == [x EXCEPT !.pc = "provider", !.queue = queue, !.attempt = 1,
                              !.projected = projected]
           over == [x EXCEPT !.pc = "ended", !.ok = FALSE]
           Wide == [pc : {"provider", "tools", "ended", "asking"}, agent : AgentKeys,
                    parent : Runs \cup {Nobody}, step : Steps, depth : Nat, turn : Nat,
                    queue : Seq(Range(Providers)), projected : Nat, attempt : Nat,
                    todo : SUBSET Uses, cost : Nat, ok : BOOLEAN,
                    own : Nat, alone : BOOLEAN, dearer : BOOLEAN]
<1>1. queue \in Seq(Range(Providers)) /\ queue # <<>> /\ projected \in Nat
  BY SomeProvider, Priced
<1>2. x \in Wide
  <2>1. CASE x \in RunRecords
    BY <2>1 DEF RunRecords
  <2>2. ASSUME NEW a \in AgentKeys, NEW q \in Runs \cup {Nobody}, NEW s \in Steps, NEW n \in Nat,
               x = Fresh(a, q, s, n)
        PROVE  x \in Wide
    BY <2>2 DEF Fresh
  <2> QED BY <2>1, <2>2
<1>3. Asked(x, g) = IF check(g, projected) THEN asked ELSE over
  BY DEF Asked
<1> HIDE DEF queue, projected
<1>4. /\ asked \in RunRecords /\ asked.pc = "provider" /\ asked.queue = queue
      /\ asked.projected = projected
      /\ asked.own = x.own /\ asked.dearer = x.dearer /\ asked.cost = x.cost
      /\ asked.agent = x.agent /\ asked.parent = x.parent
      /\ asked.step = x.step /\ asked.alone = x.alone
  BY <1>1, <1>2 DEF RunRecords
<1>5. /\ over \in RunRecords /\ over.pc = "ended"
      /\ over.own = x.own /\ over.dearer = x.dearer /\ over.cost = x.cost
      /\ over.agent = x.agent /\ over.parent = x.parent
      /\ over.step = x.step /\ over.alone = x.alone
  BY <1>2 DEF RunRecords
<1> HIDE DEF asked, over, Wide
<1>6. CASE check(g, projected)
  BY <1>1, <1>3, <1>4, <1>6
<1>7. CASE ~check(g, projected)
  BY <1>3, <1>5, <1>7
<1> QED
  BY <1>6, <1>7

\* The next turn.
LEMMA NextTurnKeeps ==
  ASSUME AgentInv, SpendIsAccounted, NEW r \in Runs, NEW late \in BOOLEAN, NextTurn(r, late)
  PROVE  AgentInv' /\ SpendIsAccounted'
<1> DEFINE next == [run[r] EXCEPT !.turn = @ + 1]
           over == [next EXCEPT !.pc = "ended"]
           new == IF late THEN over ELSE Asked(next, guard)
<1>0. AgentTypes /\ Served /\ Guarded /\ OneByOne
  BY DEF AgentInv
<1>1. run[r].pc = "tools" /\ run[r] \in RunRecords /\ r \in UnderWay
  BY <1>0, RunIsRecord DEF NextTurn, UnderWay
<1>2. DOMAIN run = Runs /\ run = [q \in Runs |-> run[q]]
  BY <1>0 DEF AgentTypes
<1>3. /\ UNCHANGED <<guard, budget, mishaps, cooling, spend>> /\ cooling \subseteq Range(Providers)
      /\ spend' = [spend EXCEPT !.tools = @ + 0] /\ run[r].cost + 0 = run[r].cost
      /\ Children(r) = {} /\ run' = [run EXCEPT ![r] = new]
  <2>1. UNCHANGED <<guard, budget, mishaps, cooling, spend>> /\ Children(r) = {}
        /\ run' = [run EXCEPT ![r] = new]
    BY <1>2 DEF NextTurn
  <2> HIDE DEF new
  <2> QED BY <1>0, <1>1, <2>1 DEF AgentTypes, RunRecords
<1>4. /\ next \in RunRecords
      /\ next.own = run[r].own /\ next.dearer = run[r].dearer /\ next.cost = run[r].cost
      /\ next.agent = run[r].agent /\ next.parent = run[r].parent
      /\ next.step = run[r].step /\ next.alone = run[r].alone
  <2>1. run[r].turn + 1 \in Nat
    BY <1>1 DEF RunRecords
  <2> QED BY <1>1, <2>1 DEF RunRecords
<1> HIDE DEF next
<1>5. /\ over \in RunRecords /\ over.pc = "ended"
      /\ over.own = run[r].own /\ over.dearer = run[r].dearer /\ over.cost = run[r].cost
      /\ over.agent = run[r].agent /\ over.parent = run[r].parent
      /\ over.step = run[r].step /\ over.alone = run[r].alone
  BY <1>4 DEF RunRecords
<1> HIDE DEF over
<1>6. /\ new \in RunRecords /\ new.pc \in {"provider", "ended"}
      /\ new.pc = "provider" => new.queue # <<>> /\ check(guard, new.projected)
      /\ new.own = run[r].own /\ new.dearer = run[r].dearer /\ new.cost = run[r].cost
      /\ new.agent = run[r].agent /\ new.parent = run[r].parent
      /\ new.step = run[r].step /\ new.alone = run[r].alone
  <2>1. CASE late
    BY <1>5, <2>1
  <2>2. CASE ~late
    BY <1>3, <1>4, <2>2, AskedFits
  <2> QED BY <2>1, <2>2
<1> HIDE DEF new
<1>7. new.pc = "provider" =>
        /\ run[r].alone => run[r].own + new.projected <= Ceiling[run[r].agent]
        /\ new.projected <= guard.org
  <2> SUFFICES ASSUME new.pc = "provider" PROVE
        /\ run[r].alone => run[r].own + new.projected <= Ceiling[run[r].agent]
        /\ new.projected <= guard.org
    OBVIOUS
  <2>1. guard.spent + new.projected <= guard.limit /\ new.projected <= guard.org
    BY <1>6 DEF check
  <2>2. run[r].alone => guard.limit = Ceiling[run[r].agent] /\ run[r].own <= guard.spent
    BY <1>0, <1>1 DEF Guarded, Active
  <2>3. /\ guard.spent \in Nat /\ guard.limit \in Nat /\ new.projected \in Nat
        /\ run[r].own \in Nat
    BY <1>0, <1>1, <1>6 DEF AgentTypes, RunRecords
  <2> QED BY <2>1, <2>2, <2>3
<1>8. /\ run'[r] = new /\ Only(r) /\ Keeps(r)
      /\ DOMAIN run' = Runs /\ run' = [q \in Runs |-> run'[q]]
  BY <1>2, <1>3, <1>6 DEF Only, Keeps
<1>9. Active(r)
  BY <1>1 DEF Active
<1> QED
  BY <1>1, <1>3, <1>6, <1>7, <1>8, <1>9, GoesOn

\* Two views of a run that differ in the calls it has left at most.
Like(x, y) ==
  /\ x.pc = y.pc /\ x.agent = y.agent /\ x.parent = y.parent /\ x.step = y.step
  /\ x.own = y.own /\ x.cost = y.cost /\ x.dearer = y.dearer /\ x.alone = y.alone
  /\ x.queue = y.queue /\ x.projected = y.projected

\* Begin, column by column.
LEMMA BeginColumns ==
  ASSUME AgentTypes, NEW r \in Runs, NEW a \in AgentKeys, NEW parent \in Runs \cup {Nobody},
         NEW step \in Steps, NEW depth \in Nat, NEW before \in [Runs -> {Idle} \cup RunRecords],
         Begin(r, Fresh(a, parent, step, depth), before),
         \A q \in Runs : before[q].pc = "idle" => before[q] = Idle,
         \A q \in Runs : before[q].pc = run[q].pc,
         \A q \in Runs : run[q].pc # "idle" => Like(before[q], run[q]), cooling' = cooling
  PROVE  /\ run' \in [Runs -> {Idle} \cup RunRecords]
         /\ run'[r] \in RunRecords /\ run'[r].pc \in {"provider", "ended"}
         /\ run'[r].agent = a /\ run'[r].parent = parent /\ run'[r].step = step
         /\ run'[r].own = 0 /\ run'[r].cost = 0 /\ ~run'[r].dearer
         /\ run'[r].pc = "provider" =>
              run'[r].queue # <<>> /\ check(GuardOf(r, a), run'[r].projected)
         /\ guard' = GuardOf(r, a)
         /\ \A q \in Runs : q # r =>
              /\ run'[q].pc = run[q].pc
              /\ run[q].pc # "idle" =>
                   /\ run'[q].agent = run[q].agent /\ run'[q].parent = run[q].parent
                   /\ run'[q].step = run[q].step /\ run'[q].own = run[q].own
                   /\ run'[q].cost = run[q].cost /\ run'[q].dearer = run[q].dearer
                   /\ run'[q].queue = run[q].queue /\ run'[q].projected = run[q].projected
                   /\ run'[q].alone => run[q].alone /\ run[q].pc = "ended"
         /\ mishaps' = {} =>
              mishaps = {} /\ \A q \in Runs : run[q].pc \in {"idle", "ended"}
<1> DEFINE fresh == Fresh(a, parent, step, depth)
           others == {q \in Runs : before[q].pc \notin {"idle", "ended"}}
           new == Asked(fresh, GuardOf(r, a))
           apart(q) == [before[q] EXCEPT !.alone = FALSE]
<1>1. cooling \subseteq Range(Providers)
  BY DEF AgentTypes
<1>2. fresh.agent = a /\ fresh.parent = parent /\ fresh.step = step /\ fresh.own = 0
      /\ fresh.cost = 0 /\ fresh.dearer = FALSE
  BY DEF Fresh
<1>3. /\ new \in RunRecords /\ new.pc \in {"provider", "ended"}
      /\ new.pc = "provider" => new.queue # <<>> /\ check(GuardOf(r, a), new.projected)
      /\ new.own = 0 /\ new.dearer = FALSE /\ new.cost = 0
      /\ new.agent = a /\ new.parent = parent /\ new.step = step
  <2> HIDE DEF fresh
  <2>1. \E b \in AgentKeys, q \in Runs \cup {Nobody}, s \in Steps, n \in Nat : fresh = Fresh(b, q, s, n)
    BY DEF fresh
  <2> QED BY <1>1, <1>2, <2>1, AskedFits
<1>4. guard' = GuardOf(r, a)
  BY <1>2 DEF Begin
<1>5. Asked(fresh, guard') = new
  BY <1>4
<1>6. run' = [[q \in Runs |-> IF q \in others THEN apart(q) ELSE before[q]] EXCEPT ![r] = new]
  BY <1>5 DEF Begin
<1> HIDE DEF new, fresh
<1>7. run'[r] = new /\ \A q \in Runs : q # r => run'[q] = IF q \in others THEN apart(q) ELSE before[q]
  BY <1>6
<1>8. ASSUME NEW q \in Runs, q \in others
      PROVE  /\ apart(q) \in RunRecords /\ run[q].pc \notin {"idle", "ended"}
             /\ apart(q).pc = run[q].pc
             /\ apart(q).agent = run[q].agent /\ apart(q).parent = run[q].parent
             /\ apart(q).step = run[q].step /\ apart(q).own = run[q].own
             /\ apart(q).cost = run[q].cost /\ apart(q).dearer = run[q].dearer
             /\ apart(q).queue = run[q].queue /\ apart(q).projected = run[q].projected
             /\ apart(q).alone = FALSE
  <2>1. before[q] \in RunRecords /\ Like(before[q], run[q]) /\ run[q].pc \notin {"idle", "ended"}
    BY <1>8 DEF Idle
  <2> QED BY <2>1 DEF Like, RunRecords
<1> HIDE DEF apart
<1>9. ASSUME NEW q \in Runs, q # r
      PROVE  /\ run'[q] \in {Idle} \cup RunRecords
             /\ run'[q].pc = run[q].pc
             /\ run[q].pc # "idle" =>
                   /\ run'[q].agent = run[q].agent /\ run'[q].parent = run[q].parent
                   /\ run'[q].step = run[q].step /\ run'[q].own = run[q].own
                   /\ run'[q].cost = run[q].cost /\ run'[q].dearer = run[q].dearer
                   /\ run'[q].queue = run[q].queue /\ run'[q].projected = run[q].projected
                   /\ run'[q].alone => run[q].alone /\ run[q].pc = "ended"
  <2>1. CASE q \in others
    BY <1>7, <1>8, <1>9, <2>1
  <2>2. CASE q \notin others
    <3>1. run'[q] = before[q] /\ before[q].pc \in {"idle", "ended"}
      BY <1>7, <1>9, <2>2
    <3> QED BY <3>1 DEF Like
  <2> QED BY <2>1, <2>2
<1>10. run' \in [Runs -> {Idle} \cup RunRecords]
  <2>1. \A q \in Runs : run'[q] \in {Idle} \cup RunRecords
    BY <1>3, <1>7, <1>9
  <2>2. run' = [q \in Runs |-> run'[q]]
    BY <1>6
  <2> QED BY <2>1, <2>2
<1>11. mishaps' = {} => mishaps = {} /\ \A q \in Runs : run[q].pc \in {"idle", "ended"}
  <2>1. mishaps' = IF others # {} THEN mishaps \cup {"shared"} ELSE mishaps
    BY DEF Begin
  <2> QED BY <2>1
<1> HIDE DEF others
<1> QED
  BY <1>3, <1>4, <1>7, <1>9, <1>10, <1>11

\* A run begins, for a step that waits or for one that delegates.
LEMMA BeginKeeps ==
  ASSUME AgentInv, SpendIsAccounted, Quiet,
         NEW r \in Runs, NEW a \in AgentKeys, NEW parent \in Runs \cup {Nobody},
         NEW step \in Steps, NEW depth \in Nat, NEW before \in [Runs -> {Idle} \cup RunRecords],
         Begin(r, Fresh(a, parent, step, depth), before), run[r].pc = "idle",
         \A q \in Runs : before[q].pc = "idle" => before[q] = Idle,
         \A q \in Runs : before[q].pc = run[q].pc,
         \A q \in Runs : run[q].pc # "idle" => Like(before[q], run[q]),
         UNCHANGED <<cooling, budget, spend>>,
         \/ r \in Steps
         \/ parent \in Runs \ {r} /\ run[parent].pc = "tools" /\ run[parent].step = step
  PROVE  AgentInv' /\ SpendIsAccounted'
<1>0. AgentTypes /\ Served /\ Guarded /\ OneByOne /\ Booked /\ Family
  BY DEF AgentInv
<1> DEFINE Columns(q) ==
      /\ run'[q].agent = run[q].agent /\ run'[q].parent = run[q].parent
      /\ run'[q].step = run[q].step /\ run'[q].own = run[q].own
      /\ run'[q].cost = run[q].cost /\ run'[q].dearer = run[q].dearer
      /\ run'[q].queue = run[q].queue /\ run'[q].projected = run[q].projected
      /\ run'[q].alone => run[q].alone /\ run[q].pc = "ended"
<1>1. /\ run' \in [Runs -> {Idle} \cup RunRecords]
      /\ run'[r] \in RunRecords /\ run'[r].pc \in {"provider", "ended"}
      /\ run'[r].agent = a /\ run'[r].parent = parent /\ run'[r].step = step
      /\ run'[r].own = 0 /\ run'[r].cost = 0 /\ ~run'[r].dearer
      /\ run'[r].pc = "provider" =>
           run'[r].queue # <<>> /\ check(GuardOf(r, a), run'[r].projected)
      /\ guard' = GuardOf(r, a)
      /\ \A q \in Runs : q # r => run'[q].pc = run[q].pc /\ (run[q].pc # "idle" => Columns(q))
      /\ mishaps' = {} =>
           mishaps = {} /\ \A q \in Runs : run[q].pc \in {"idle", "ended"}
  BY <1>0, BeginColumns
<1>2. /\ guard'.owner = r /\ guard'.limit = Ceiling[a] /\ guard'.spent = 0
      /\ guard'.org = budget.org /\ Ceiling[a] \in Nat /\ budget.org \in Int
      /\ budget.spent \in Nat /\ spend.completions \in Nat
      /\ guard' \in [owner : Runs \cup {Nobody}, limit : Nat, spent : Nat, org : Int]
  <2>1. Ceiling[a] \in Nat
    BY AgentAssumption
  <2> QED BY <1>0, <1>1, <2>1 DEF GuardOf, AgentTypes
<1>3. run'[r].pc = "provider" => run'[r].projected <= Ceiling[a] /\ run'[r].projected <= budget.org
  <2>1. run'[r].projected \in Nat
    BY <1>1 DEF RunRecords
  <2>2. GuardOf(r, a).spent = 0 /\ GuardOf(r, a).limit = Ceiling[a] /\ GuardOf(r, a).org = budget.org
    BY DEF GuardOf
  <2> QED BY <1>1, <1>2, <2>1, <2>2 DEF check
<1>4. AgentTypes'
  BY <1>0, <1>1, <1>2 DEF AgentTypes
<1>5. UnderWay' = UnderWay \cup {r} /\ UnderWay \in SUBSET Runs /\ r \notin UnderWay
  BY <1>1 DEF UnderWay
<1>6. \A q \in UnderWay : q # r /\ q \in Runs /\ run[q].pc # "idle" /\ Columns(q) /\ run'[q].pc = run[q].pc
  BY <1>1 DEF UnderWay
<1> HIDE DEF Columns
<1>7. Served'
  <2> SUFFICES ASSUME NEW q \in UnderWay \cup {r}
               PROVE  /\ run'[q].pc = "provider" => run'[q].queue # <<>>
                      /\ run'[q].own <= run'[q].cost
    BY <1>5 DEF Served
  <2>1. CASE q = r
    BY <1>1, <2>1
  <2>2. CASE q \in UnderWay
    BY <1>0, <1>6, <2>2 DEF Served, Columns
  <2> QED BY <2>1, <2>2
<1>8. Guarded'
  <2> SUFFICES ASSUME NEW q \in UnderWay \cup {r}, run'[q].alone
               PROVE  /\ Active(q)' => /\ guard'.owner = q /\ guard'.limit = Ceiling[run'[q].agent]
                                       /\ run'[q].own <= guard'.spent
                      /\ run'[q].pc = "provider" =>
                           run'[q].own + run'[q].projected <= Ceiling[run'[q].agent]
                      /\ ~run'[q].dearer => run'[q].own <= Ceiling[run'[q].agent]
    BY <1>5 DEF Guarded
  <2>1. CASE q = r
    <3>1. run'[r].projected \in Nat
      BY <1>1 DEF RunRecords
    <3> QED BY <1>1, <1>2, <1>3, <2>1, <3>1
  <2>2. CASE q \in UnderWay
    <3>1. run[q].alone /\ run'[q].pc = "ended"
      BY <1>6, <2>2 DEF Columns
    <3>2. ~Active(q)'
      BY <3>1 DEF Active
    <3> QED BY <1>0, <1>6, <2>2, <3>1, <3>2 DEF Guarded, Columns
  <2> QED BY <2>1, <2>2
<1>9. OneByOne'
  <2> SUFFICES ASSUME mishaps' = {}
               PROVE  /\ spend.completions <= OrgRemaining
                      /\ UnderWay' = {} => spend.completions <= budget.spent
                      /\ \A q \in UnderWay \cup {r} :
                           /\ q \in Steps /\ UnderWay \cup {r} = {q}
                           /\ spend.completions <= budget.spent + run'[q].own
                           /\ guard'.org = budget.org - run'[q].own
                           /\ run'[q].pc = "provider" => run'[q].projected <= guard'.org
    BY <1>5 DEF OneByOne
  <2>1. UnderWay = {} /\ mishaps = {}
    BY <1>1 DEF UnderWay, Quiet
  <2>2. r \in Steps
    BY <1>1
  <2>3. spend.completions <= OrgRemaining /\ spend.completions <= budget.spent
    BY <1>0, <2>1 DEF OneByOne
  <2> QED BY <1>1, <1>2, <1>3, <1>5, <2>1, <2>2, <2>3
<1>10. Booked'
  BY <1>0 DEF Booked
<1>11. Family'
  <2> SUFFICES ASSUME NEW h \in Helpers, run'[h].pc # "idle"
               PROVE  /\ run'[h].parent \in Runs \ {h}
                      /\ run'[run'[h].parent].pc = "tools"
                      /\ run'[run'[h].parent].step = run'[h].step
    BY DEF Family
  <2>1. h \in Runs /\ (h = r => r \notin Steps)
    BY AgentAssumption DEF Runs
  <2>2. ASSUME NEW q \in Runs, run[q].pc = "tools" PROVE run'[q].pc = "tools" /\ run'[q].step = run[q].step
    BY <1>1, <1>6, <2>2 DEF UnderWay, Columns
  <2>3. CASE h = r
    BY <1>1, <2>1, <2>2, <2>3
  <2>4. CASE h # r
    <3>1. run[h].pc # "idle" /\ run'[h].parent = run[h].parent /\ run'[h].step = run[h].step
      BY <1>1, <1>6, <2>1, <2>4 DEF UnderWay, Columns
    <3> QED BY <1>0, <2>2, <3>1 DEF Family
  <2> QED BY <2>3, <2>4
<1>12. SpendIsAccounted'
  <2>1. ASSUME NEW q \in Runs PROVE Outstanding[q] = Outstanding'[q]
    <3>1. CASE q = r
      BY <1>1, <3>1 DEF Outstanding
    <3>2. CASE q # r /\ q \in UnderWay
      BY <1>6, <3>2 DEF Outstanding, Columns
    <3>3. CASE q # r /\ q \notin UnderWay
      BY <1>1, <3>3 DEF Outstanding, UnderWay
    <3> QED BY <3>1, <3>2, <3>3
  <2>2. SumFunctionOnSet(Outstanding, Runs) = SumFunctionOnSet(Outstanding', Runs)
    BY <1>0, <2>1, OutstandingTyped, SumSame
  <2> QED BY <2>2 DEF SpendIsAccounted
<1> QED
  BY <1>4, <1>7, <1>8, <1>9, <1>10, <1>11, <1>12 DEF AgentInv

\* A step begins a run.
LEMMA StartStepKeeps ==
  ASSUME AgentInv, SpendIsAccounted, Quiet, NEW s \in Steps, StartStep(s)
  PROVE  AgentInv' /\ SpendIsAccounted'
<1>0. AgentTypes
  BY DEF AgentInv
<1>1. /\ s \in Runs /\ AgentOf[s] \in AgentKeys /\ run[s].pc = "idle" /\ 0 \in Nat
      /\ Begin(s, Fresh(AgentOf[s], Nobody, s, 0), run) /\ UNCHANGED <<cooling, budget, spend>>
  BY AgentAssumption DEF StartStep, Runs
<1>2. /\ run \in [Runs -> {Idle} \cup RunRecords]
      /\ \A q \in Runs : run[q].pc = "idle" => run[q] = Idle
      /\ \A q \in Runs : Like(run[q], run[q])
  BY <1>0, RunIsRecord DEF AgentTypes, Like
<1> QED
  BY <1>1, <1>2, BeginKeeps

\* An agent delegates to a helper.
LEMMA DelegateKeeps ==
  ASSUME AgentInv, SpendIsAccounted, Quiet, NEW r \in Runs, NEW a \in AgentKeys,
         NEW h \in Helpers, Delegate(r, a, h)
  PROVE  AgentInv' /\ SpendIsAccounted'
<1> DEFINE before == [run EXCEPT ![r].todo = @ \ {a}]
           less == [run[r] EXCEPT !.todo = @ \ {a}]
<1>0. AgentTypes
  BY DEF AgentInv
<1>1. /\ run[r].pc = "tools" /\ run[h].pc = "idle" /\ h \in Runs
      /\ Begin(h, Fresh(a, r, run[r].step, run[r].depth + 1), before)
      /\ UNCHANGED <<cooling, budget, spend>>
  BY DEF Delegate, Runs
<1>2. /\ run[r] \in RunRecords /\ run[r].step \in Steps /\ run[r].depth + 1 \in Nat
      /\ run[r].todo \ {a} \in SUBSET Uses
  BY <1>0, <1>1, RunIsRecord DEF RunRecords
<1>3. less \in RunRecords /\ Like(less, run[r])
  BY <1>2 DEF Like, RunRecords
<1>4. run = [q \in Runs |-> run[q]] /\ \A q \in Runs : run[q] \in {Idle} \cup RunRecords
  BY <1>0 DEF AgentTypes
<1>5. before = [run EXCEPT ![r] = less]
  BY <1>4
<1> HIDE DEF before, less
<1>6. before[r] = less /\ \A q \in Runs : q # r => before[q] = run[q]
  BY <1>4, <1>5
<1>7. before \in [Runs -> {Idle} \cup RunRecords]
  BY <1>3, <1>4, <1>5
<1>8. ASSUME NEW q \in Runs
      PROVE  /\ before[q].pc = run[q].pc /\ Like(before[q], run[q])
             /\ before[q].pc = "idle" => before[q] = Idle
  <2>1. CASE q = r
    BY <1>1, <1>3, <1>6, <2>1 DEF Like
  <2>2. CASE q # r
    BY <1>0, <1>6, <2>2, RunIsRecord DEF Like
  <2> QED BY <2>1, <2>2
<1>9. r # h
  BY <1>1
<1> QED
  BY <1>1, <1>2, <1>7, <1>8, <1>9, BeginKeeps

\* A helper returns: its cost becomes its parent's.
LEMMA ReturnKeeps ==
  ASSUME AgentInv, SpendIsAccounted, NEW h \in Helpers, Return(h)
  PROVE  AgentInv' /\ SpendIsAccounted'
<1> DEFINE p == run[h].parent
           paid == [run[p] EXCEPT !.cost = @ + run[h].cost]
<1>0. AgentTypes /\ Served /\ Guarded /\ OneByOne /\ Booked /\ Family
  BY DEF AgentInv
<1>1. /\ run[h].pc = "ended" /\ h \in Runs /\ h \in UnderWay /\ run[h] \in RunRecords
      /\ UNCHANGED <<guard, budget, mishaps, cooling, spend>>
  BY <1>0, RunIsRecord DEF Return, Runs, UnderWay
<1>2. p \in Runs /\ p # h /\ run[p].pc = "tools" /\ run[p].step = run[h].step
  BY <1>0, <1>1 DEF Family
<1>3. run[p] \in RunRecords /\ run[h].cost \in Nat /\ run[p].cost \in Nat /\ p \in UnderWay
  BY <1>0, <1>1, <1>2, RunIsRecord DEF RunRecords, UnderWay
<1>4. run = [q \in Runs |-> run[q]] /\ \A q \in Runs : run[q] \in {Idle} \cup RunRecords
  BY <1>0 DEF AgentTypes
<1>5. /\ paid \in RunRecords /\ paid.cost = run[p].cost + run[h].cost
      /\ paid.own = run[p].own /\ paid.dearer = run[p].dearer /\ paid.pc = "tools"
      /\ paid.agent = run[p].agent /\ paid.parent = run[p].parent
      /\ paid.step = run[p].step /\ paid.alone = run[p].alone
  <2>1. run[p].cost + run[h].cost \in Nat
    BY <1>3
  <2> HIDE DEF p
  <2> QED BY <1>2, <1>3, <2>1 DEF RunRecords
<1>6. run' = [q \in Runs |-> IF q = h THEN Idle ELSE IF q = p THEN paid ELSE run[q]]
  <2>1. run' = [run EXCEPT ![h] = Idle, ![p].cost = @ + run[h].cost]
    BY DEF Return
  <2> HIDE DEF p
  <2> QED BY <1>2, <1>3, <1>4, <2>1 DEF RunRecords
<1> HIDE DEF paid, p
<1>7. /\ run'[h] = Idle /\ run'[p] = paid
      /\ \A q \in Runs : q # h /\ q # p => run'[q] = run[q]
  BY <1>1, <1>2, <1>6
<1>8. AgentTypes'
  <2>1. run' \in [Runs -> {Idle} \cup RunRecords]
    BY <1>4, <1>5, <1>6
  <2> QED BY <1>0, <1>1, <2>1 DEF AgentTypes
<1>9. UnderWay' = UnderWay \ {h}
  BY <1>2, <1>5, <1>7 DEF UnderWay, Idle
<1>10. Served'
  <2> SUFFICES ASSUME NEW q \in UnderWay, q # h
               PROVE  /\ run'[q].pc = "provider" => run'[q].queue # <<>>
                      /\ run'[q].own <= run'[q].cost
    BY <1>9 DEF Served
  <2>1. CASE q = p
    <3>1. run[p].own \in Nat /\ run[p].own <= run[p].cost
      BY <1>0, <1>3 DEF Served, RunRecords
    <3> QED BY <1>3, <1>5, <1>7, <2>1, <3>1
  <2>2. CASE q # p
    BY <1>0, <1>7, <2>2 DEF Served, UnderWay
  <2> QED BY <2>1, <2>2
<1>11. Guarded'
  <2> SUFFICES ASSUME NEW q \in UnderWay, q # h, run'[q].alone
               PROVE  /\ Active(q)' => /\ guard.owner = q /\ guard.limit = Ceiling[run'[q].agent]
                                       /\ run'[q].own <= guard.spent
                      /\ run'[q].pc = "provider" =>
                           run'[q].own + run'[q].projected <= Ceiling[run'[q].agent]
                      /\ ~run'[q].dearer => run'[q].own <= Ceiling[run'[q].agent]
    BY <1>1, <1>9 DEF Guarded
  <2>1. CASE q = p
    BY <1>0, <1>2, <1>3, <1>5, <1>7, <2>1 DEF Guarded, Active
  <2>2. CASE q # p
    <3>1. run'[q] = run[q]
      BY <1>7, <2>2 DEF UnderWay
    <3> QED BY <1>0, <3>1 DEF Guarded, Active
  <2> QED BY <2>1, <2>2
<1>12. OneByOne'
  <2>1. mishaps # {}
    BY <1>0, <1>1, AgentAssumption DEF OneByOne
  <2> QED BY <1>1, <2>1 DEF OneByOne
<1>13. Booked'
  BY <1>0, <1>1 DEF Booked
<1>14. Family'
  <2> SUFFICES ASSUME NEW k \in Helpers, run'[k].pc # "idle"
               PROVE  /\ run'[k].parent \in Runs \ {k}
                      /\ run'[run'[k].parent].pc = "tools"
                      /\ run'[run'[k].parent].step = run'[k].step
    BY DEF Family
  <2>1. k \in Runs /\ k # h
    BY <1>7 DEF Runs, Idle
  <2>2. run[k].pc # "idle" /\ run'[k].parent = run[k].parent /\ run'[k].step = run[k].step
    BY <1>2, <1>5, <1>7, <2>1
  <2>3. /\ run[k].parent \in Runs \ {k} /\ run[run[k].parent].pc = "tools"
        /\ run[run[k].parent].step = run[k].step
    BY <1>0, <2>2 DEF Family
  <2>4. run[k].parent # h
    BY <1>1, <2>3
  <2>5. run'[run[k].parent].pc = "tools" /\ run'[run[k].parent].step = run[run[k].parent].step
    BY <1>5, <1>7, <2>3, <2>4
  <2> QED BY <2>2, <2>3, <2>5
<1>15. SpendIsAccounted'
  <2> DEFINE f == Outstanding
             g == Outstanding'
             m == [f EXCEPT ![h] = 0]
  <2>1. IsFiniteSet(Runs) /\ \A q \in Runs : f[q] \in Nat
    BY <1>0, OutstandingTyped
  <2>2. f = [q \in Runs |-> f[q]]
    BY DEF Outstanding
  <2>3. f[h] = run[h].cost /\ f[p] = run[p].cost
    BY <1>1, <1>2 DEF Outstanding
  <2>4. /\ g[h] = 0 /\ g[p] = f[p] + f[h]
        /\ \A q \in Runs : q # h /\ q # p => g[q] = f[q]
    BY <1>1, <1>2, <1>5, <1>7, <2>3 DEF Outstanding, Idle
  <2> HIDE DEF f, g
  <2>5. m[h] = 0 /\ \A q \in Runs : q # h => m[q] = f[q]
    BY <1>1, <2>2
  <2> HIDE DEF m
  <2>6. SumFunctionOnSet(m, Runs) = SumFunctionOnSet(f, Runs) - f[h] + m[h]
    BY <1>1, <2>1, <2>5, SumChanged
  <2>7. SumFunctionOnSet(g, Runs) = SumFunctionOnSet(m, Runs) - m[p] + g[p]
    BY <1>1, <1>2, <2>1, <2>4, <2>5, SumChanged
  <2>8. SumFunctionOnSet(f, Runs) \in Nat
    BY <2>1, SumType
  <2>9. SumFunctionOnSet(g, Runs) = SumFunctionOnSet(f, Runs)
    BY <1>1, <1>2, <2>1, <2>4, <2>5, <2>6, <2>7, <2>8
  <2> QED BY <1>1, <2>9 DEF SpendIsAccounted, f, g
<1> QED
  BY <1>8, <1>10, <1>11, <1>12, <1>13, <1>14, <1>15 DEF AgentInv

\* Runs that are gone leave what the others keep alone.
LEMMA GoneKeeps ==
  ASSUME AgentTypes, Served, Guarded, Family, NEW gone \in SUBSET Runs,
         run' = [q \in Runs |-> IF q \in gone THEN Idle ELSE run[q]],
         \A h \in Helpers : run[h].pc # "idle" /\ h \notin gone => run[h].parent \notin gone,
         guard' = guard
  PROVE  /\ run' \in [Runs -> {Idle} \cup RunRecords]
         /\ UnderWay' = UnderWay \ gone /\ Served' /\ Guarded' /\ Family'
<1>1. run' \in [Runs -> {Idle} \cup RunRecords]
  BY DEF AgentTypes
<1>2. \A q \in Runs : run'[q] = IF q \in gone THEN Idle ELSE run[q]
  OBVIOUS
<1>3. UnderWay' = UnderWay \ gone
  BY <1>2 DEF UnderWay, Idle
<1>4. \A q \in UnderWay \ gone : run'[q] = run[q]
  BY <1>2 DEF UnderWay
<1>5. Served'
  BY <1>3, <1>4 DEF Served
<1>6. Guarded'
  BY <1>3, <1>4 DEF Guarded, Active
<1>7. Family'
  <2> SUFFICES ASSUME NEW k \in Helpers, run'[k].pc # "idle"
               PROVE  /\ run'[k].parent \in Runs \ {k}
                      /\ run'[run'[k].parent].pc = "tools"
                      /\ run'[run'[k].parent].step = run'[k].step
    BY DEF Family
  <2>1. k \in Runs /\ k \notin gone /\ run'[k] = run[k]
    BY <1>2 DEF Runs, Idle
  <2>2. run[k].parent \in Runs \ {k} /\ run[k].parent \notin gone
    BY <2>1 DEF Family
  <2>3. run'[run[k].parent] = run[run[k].parent]
    BY <1>2, <2>2
  <2> QED BY <2>1, <2>2, <2>3 DEF Family
<1> QED
  BY <1>1, <1>3, <1>5, <1>6, <1>7

\* The cost of a run that returned to the engine is booked with the mission.
LEMMA FinishStepKeeps ==
  ASSUME AgentInv, SpendIsAccounted, NEW s \in Steps, FinishStep(s)
  PROVE  AgentInv' /\ SpendIsAccounted'
<1>0. AgentTypes /\ Served /\ Guarded /\ OneByOne /\ Booked /\ Family
  BY DEF AgentInv
<1>1. /\ run[s].pc = "ended" /\ s \in Runs /\ s \in UnderWay /\ run[s] \in RunRecords
      /\ UNCHANGED <<guard, cooling, spend, mishaps>> /\ run' = [run EXCEPT ![s] = Idle]
  BY <1>0, RunIsRecord DEF FinishStep, Runs, UnderWay
<1>2. run' = [q \in Runs |-> IF q \in {s} THEN Idle ELSE run[q]]
  BY <1>0, <1>1 DEF AgentTypes
<1>3. \A h \in Helpers : run[h].pc # "idle" /\ h \notin {s} => run[h].parent \notin {s}
  BY <1>0, <1>1 DEF Family
<1>4. /\ run' \in [Runs -> {Idle} \cup RunRecords]
      /\ UnderWay' = UnderWay \ {s} /\ Served' /\ Guarded' /\ Family'
  BY <1>0, <1>1, <1>2, <1>3, GoneKeeps
<1>5. run[s].cost \in Nat /\ run[s].own \in Nat /\ run[s].own <= run[s].cost
  BY <1>0, <1>1 DEF RunRecords, Served
<1>6. /\ budget.spent \in Nat /\ budget.org \in Int /\ budget' \in [spent : Nat, org : Int]
      /\ budget'.spent = budget.spent + run[s].cost /\ budget'.org = budget.org - run[s].cost
  <2>1. budget' = [budget EXCEPT !.spent = @ + run[s].cost, !.org = @ - run[s].cost]
    BY DEF FinishStep, record
  <2>2. budget.spent + run[s].cost \in Nat /\ budget.org - run[s].cost \in Int
    BY <1>0, <1>5 DEF AgentTypes
  <2> QED BY <1>0, <2>1, <2>2 DEF AgentTypes
<1>7. /\ spend.completions \in Nat /\ spend.tools \in Nat /\ spend.lost \in Nat
      /\ spend' = spend
  BY <1>0, <1>1 DEF AgentTypes
<1>8. AgentTypes'
  BY <1>0, <1>1, <1>4, <1>6 DEF AgentTypes
<1>9. OneByOne'
  <2> SUFFICES ASSUME mishaps = {}
               PROVE  /\ spend.completions <= OrgRemaining
                      /\ UnderWay' = {} /\ spend.completions <= budget'.spent
    BY <1>1 DEF OneByOne
  <2>1. /\ UnderWay = {s} /\ spend.completions <= OrgRemaining
        /\ spend.completions <= budget.spent + run[s].own
    BY <1>0, <1>1 DEF OneByOne
  <2>2. spend.completions <= budget'.spent
    BY <1>5, <1>6, <1>7, <2>1
  <2> QED BY <1>4, <2>1, <2>2
<1>10. Booked'
  BY <1>0, <1>5, <1>6, AgentAssumption DEF Booked
<1>11. SumFunctionOnSet(Outstanding', Runs) = SumFunctionOnSet(Outstanding, Runs) - run[s].cost
  <2> DEFINE f == Outstanding
             g == Outstanding'
  <2>1. IsFiniteSet(Runs) /\ \A q \in Runs : f[q] \in Nat
    BY <1>0, OutstandingTyped
  <2>2. f[s] = run[s].cost /\ g[s] = 0 /\ \A q \in Runs : q # s => g[q] = f[q]
    BY <1>1, <1>2 DEF Outstanding, Idle
  <2>3. SumFunctionOnSet(f, Runs) \in Nat
    BY <2>1, SumType
  <2> HIDE DEF f, g
  <2>4. SumFunctionOnSet(g, Runs) = SumFunctionOnSet(f, Runs) - f[s] + g[s]
    BY <1>1, <2>1, <2>2, SumChanged
  <2>5. SumFunctionOnSet(g, Runs) = SumFunctionOnSet(f, Runs) - run[s].cost
    BY <1>5, <2>2, <2>3, <2>4
  <2> QED BY <2>5 DEF f, g
<1>12. SpendIsAccounted'
  <2>1. SumFunctionOnSet(Outstanding, Runs) \in Nat
    BY <1>0, OutstandingTyped
  <2> QED BY <1>5, <1>6, <1>7, <1>11, <2>1 DEF SpendIsAccounted
<1> QED
  BY <1>4, <1>8, <1>9, <1>10, <1>12 DEF AgentInv

\* What the runs of a step that timed out had cost is lost.
LEMMA TimeOutStepKeeps ==
  ASSUME AgentInv, SpendIsAccounted, NEW s \in Steps, TimeOutStep(s)
  PROVE  AgentInv' /\ SpendIsAccounted'
<1> DEFINE tree == {r \in UnderWay : run[r].step = s}
           lost == SumFunctionOnSet(Outstanding, tree)
<1>0. AgentTypes /\ Served /\ Guarded /\ OneByOne /\ Booked /\ Family
  BY DEF AgentInv
<1>1. /\ run' = [q \in Runs |-> IF q \in tree THEN Idle ELSE run[q]]
      /\ spend' = [spend EXCEPT !.lost = @ + lost]
      /\ mishaps' # {} /\ UNCHANGED <<guard, cooling, budget>>
  BY DEF TimeOutStep
<1>2. tree \in SUBSET Runs
  BY DEF UnderWay
<1>3. \A h \in Helpers : run[h].pc # "idle" /\ h \notin tree => run[h].parent \notin tree
  BY <1>0 DEF Family, UnderWay, Runs
<1> HIDE DEF tree
<1>4. run' \in [Runs -> {Idle} \cup RunRecords] /\ Served' /\ Guarded' /\ Family'
  BY <1>0, <1>1, <1>2, <1>3, GoneKeeps
<1>5. IsFiniteSet(Runs) /\ \A q \in Runs : Outstanding[q] \in Nat
  BY <1>0, OutstandingTyped
<1>6. lost \in Nat
  BY <1>2, <1>5, FS_Subset, SumType
<1>7. SumFunctionOnSet(Outstanding, Runs) = SumFunctionOnSet(Outstanding', Runs) + lost
  <2>1. \A q \in Runs : Outstanding'[q] = IF q \in tree THEN 0 ELSE Outstanding[q]
    BY <1>1 DEF Outstanding, Idle
  <2> QED BY <1>2, <1>5, <2>1, SumCleared
<1> HIDE DEF lost
<1>8. /\ spend'.completions = spend.completions /\ spend'.tools = spend.tools
      /\ spend'.lost = spend.lost + lost /\ spend' \in [completions : Nat, tools : Nat, lost : Nat]
      /\ spend.completions \in Nat /\ spend.tools \in Nat /\ spend.lost \in Nat
      /\ budget.spent \in Nat
  BY <1>0, <1>1, <1>6 DEF AgentTypes
<1>9. AgentTypes'
  BY <1>0, <1>1, <1>4, <1>8 DEF AgentTypes
<1>10. OneByOne' /\ Booked'
  BY <1>0, <1>1 DEF OneByOne, Booked
<1>11. SumFunctionOnSet(Outstanding', Runs) \in Nat
  <2>1. \A q \in Runs : Outstanding'[q] \in Nat
    BY <1>9 DEF AgentTypes, Outstanding, RunRecords, Idle
  <2> QED BY <1>5, <2>1, SumType
<1>12. SpendIsAccounted'
  BY <1>1, <1>6, <1>7, <1>8, <1>11 DEF SpendIsAccounted
<1> QED
  BY <1>4, <1>9, <1>10, <1>12 DEF AgentInv

\* A step that is skipped, a provider that has cooled down, a step of another
\* component: the agents and their money are left alone.
LEMMA AgentsLeftAlone ==
  ASSUME AgentInv, SpendIsAccounted, UNCHANGED <<run, guard, budget, spend, mishaps>>,
         cooling' \subseteq cooling
  PROVE  AgentInv' /\ SpendIsAccounted'
<1>1. AgentTypes'
  BY DEF AgentInv, AgentTypes
<1>2. UnderWay' = UnderWay /\ Outstanding' = Outstanding
  BY DEF UnderWay, Outstanding
<1>3. Served' /\ Guarded' /\ OneByOne' /\ Booked' /\ Family'
  BY <1>2 DEF AgentInv, Served, Guarded, Active, OneByOne, Booked, Family
<1>4. SpendIsAccounted'
  BY <1>2 DEF SpendIsAccounted
<1> QED
  BY <1>1, <1>3, <1>4 DEF AgentInv

\* Before the first step nothing has been spent.
LEMMA AgentsInit ==
  ASSUME AgentInit
  PROVE  AgentInv /\ SpendIsAccounted
<1>1. \A q \in Runs : run[q] = Idle /\ run[q].pc = "idle"
  BY DEF AgentInit, Idle
<1>2. UnderWay = {} /\ \A h \in Helpers : run[h].pc = "idle"
  BY <1>1 DEF UnderWay, Runs
<1>3. AgentTypes
  BY AgentAssumption DEF AgentInit, AgentTypes
<1>4. Served /\ Guarded /\ Family
  BY <1>2 DEF Served, Guarded, Family
<1>5. /\ spend.completions = 0 /\ spend.tools = 0 /\ spend.lost = 0
      /\ budget.spent = 0 /\ budget.org = OrgRemaining /\ OrgRemaining \in Nat
  BY AgentAssumption DEF AgentInit
<1>6. OneByOne /\ Booked
  BY <1>2, <1>5 DEF OneByOne, Booked
<1>7. SumFunctionOnSet(Outstanding, Runs) = 0
  <2>1. IsFiniteSet(Runs) /\ SumFunctionOnSet(Outstanding, Runs) \in Nat
    BY <1>3, OutstandingTyped
  <2>2. \A q \in Runs : Outstanding[q] \in 0..0
    BY <1>1 DEF Outstanding
  <2>3. SumFunctionOnSet(Outstanding, Runs) <= Cardinality(Runs) * 0 /\ Cardinality(Runs) \in Nat
    BY <2>1, <2>2, SumBounded, FS_CardinalityType
  <2> QED BY <2>1, <2>3
<1> QED
  BY <1>3, <1>4, <1>5, <1>6, <1>7 DEF AgentInv, SpendIsAccounted

\* Every step of the wave keeps the invariant, one action at a time.
LEMMA AgentsNext ==
  ASSUME AgentInv, SpendIsAccounted, [WaveNext]_waveVars
  PROVE  AgentInv' /\ SpendIsAccounted'
<1>1. ASSUME UNCHANGED agentVars PROVE AgentInv' /\ SpendIsAccounted'
  BY <1>1, AgentsLeftAlone DEF agentVars
<1>2. ASSUME NEW s \in Steps, AgentStep(s) PROVE AgentInv' /\ SpendIsAccounted'
  <2>1. CASE FinishStep(s)
    BY <2>1, FinishStepKeeps
  <2>2. CASE Quiet /\ StartStep(s)
    BY <2>2, StartStepKeeps
  <2>3. CASE Quiet /\ SkipStep(s)
    BY <2>3, AgentsLeftAlone DEF SkipStep
  <2>4. CASE Quiet /\ TimeOutStep(s)
    BY <2>4, TimeOutStepKeeps
  <2> QED BY <1>2, <2>1, <2>2, <2>3, <2>4 DEF AgentStep
<1>3. ASSUME Quiet, NEW r \in Runs, RunStep(r) PROVE AgentInv' /\ SpendIsAccounted'
  <2>1. ASSUME NEW cost, NEW uses \in SUBSET Uses, NEW ok \in BOOLEAN, Complete(r, cost, uses, ok)
        PROVE  AgentInv' /\ SpendIsAccounted'
    BY <2>1, CompleteKeeps
  <2>2. CASE (\E ok \in BOOLEAN : GiveUpProvider(r, ok)) \/ RetryProvider(r) \/ FailRun(r)
    BY <2>2, ProviderKeeps
  <2>3. CASE (\E cost \in ToolCosts : UseTool(r, cost)) \/ \E a \in AgentKeys : RefuseDelegation(r, a)
    BY <2>3, ToolsKeep
  <2>4. CASE \E a \in AgentKeys, h \in Helpers : Delegate(r, a, h)
    BY <1>3, <2>4, DelegateKeeps
  <2>5. CASE \E late \in BOOLEAN : NextTurn(r, late)
    BY <2>5, NextTurnKeeps
  <2> QED BY <1>3, <2>1, <2>2, <2>3, <2>4, <2>5 DEF RunStep
<1>4. ASSUME AgentWork PROVE AgentInv' /\ SpendIsAccounted'
  <2>1. CASE \E h \in Helpers : Return(h)
    BY <2>1, ReturnKeeps
  <2>2. CASE Quiet /\ \E r \in Runs : RunStep(r)
    BY <1>3, <2>2
  <2>3. CASE Quiet /\ \E p \in cooling : CoolDown(p)
    BY <2>3, AgentsLeftAlone DEF CoolDown
  <2> QED BY <1>4, <2>1, <2>2, <2>3 DEF AgentWork
<1> QED
  BY <1>1, <1>2, <1>4 DEF WaveNext, waveVars

\* The invariant of the agents holds throughout a wave.
THEOREM AgentsInvariant == WaveSpec => [](AgentInv /\ SpendIsAccounted)
<1>1. WaveInit => AgentInv /\ SpendIsAccounted
  BY AgentsInit DEF WaveInit
<1>2. AgentInv /\ SpendIsAccounted /\ [WaveNext]_waveVars => (AgentInv /\ SpendIsAccounted)'
  BY AgentsNext
<1> QED
  BY <1>1, <1>2, PTL DEF WaveSpec

\* All that completions and tools cost is in the mission's budget, in a run
\* under way or was lost with a step that timed out, however many steps and
\* helpers run side by side.
THEOREM SpendAccounted == WaveSpec => []SpendIsAccounted
  BY AgentsInvariant, PTL

\* A run whose guard nobody replaced stays within its agent's ceiling, and the
\* mission within what the organisation had left, except as the property says.
THEOREM CeilingsHold == WaveSpec => []CeilingsHoldUnlessShared
<1>1. AgentInv => CeilingsHoldUnlessShared
  BY DEF AgentInv, Guarded, OneByOne, CeilingsHoldUnlessShared
<1> QED
  BY <1>1, AgentsInvariant, PTL

-----------------------------------------------------------------------------
\* A wave with agents in it is, to the tools and the policy, tool steps only:
\* the composition implements the gate.
THEOREM WaveIsGated == WaveSpec => Spec
<1>1. WaveInit => Init
  BY DEF WaveInit
<1>2. [WaveNext]_waveVars => [Next]_vars
  BY DEF WaveNext, ToolStep, Next, waveVars
<1> QED
  BY <1>1, <1>2, PTL DEF WaveSpec, Spec

\* So what the gate promises holds in every wave, whatever its agents do.
THEOREM WaveKeepsTheGate ==
  WaveSpec => []UnattendedIsPermitted /\ []ObserveMissionChangesNothing /\ []QueuedAsAnswered
  BY WaveIsGated, UnattendedPermitted, ObserveHolds, QueueMatchesAnswers, PTL
=============================================================================
