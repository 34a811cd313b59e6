------------------------------- MODULE ToolGate -------------------------------
(***************************************************************************)
(* Tool calls of one mission (tools/registry.py, ToolExecutor.execute):    *)
(* the policy's decision, the approval a gated call queues                 *)
(* (ApprovalsService.create) and the daily digest that tells the client    *)
(* about it (ApprovalsService._notify).                                    *)
(*                                                                         *)
(* The steps of a wave run concurrently, each in a database session of its *)
(* own that commits when the step is over: what a step has queued is       *)
(* invisible to the others until then.  The site's policy is read when a   *)
(* step begins, the autonomy of the observe check when the mission does.   *)
(***************************************************************************)
EXTENDS ToolPolicy, FiniteSets

CONSTANTS
  Tasks,         \* steps of the wave
  Tools,         \* the tools they may call: a set of tool records
  CallArgs,      \* the arguments they may pass: a set of Calls
  SitePolicies,  \* the policies the client may set
  DryRun,        \* the mission's dry_run
  Retries,       \* Step.retries
  MaxEdits       \* bound: changes of the site's policy

ASSUME ConstantsAssumption ==
  /\ Tools \subseteq ToolRecords
  /\ CallArgs \subseteq Calls
  /\ SitePolicies \subseteq Policies
  /\ DryRun \in BOOLEAN /\ Retries \in Nat /\ MaxEdits \in Nat

VARIABLES
  site,        \* the committed policy of the site
  autonomy,    \* ctx.autonomy, read when the mission began
  task,        \* what each step knows and has written but not committed
  queued,      \* committed approvals of each step
  digests,     \* committed notifications of each batch key, for one day
  unattended,  \* history: the steps whose handler ran without an approval
  edits        \* changes of the policy so far

vars == <<site, autonomy, task, queued, digests, unattended, edits>>

Keys == ApprovalTypes \cup {"content", "technical"}
Answers == {"none", "ran", "dry_run", "awaiting", "refused", "denied", "error"}
TaskStates == [phase : {"idle", "calling", "asking", "answered", "over"},
               seen : SitePolicies, tool : Tools, args : CallArgs, answer : Answers,
               tries : Nat, asked : Nat, notified : SUBSET Keys]

TypeOK ==
  /\ site \in SitePolicies
  /\ autonomy \in Autonomies
  /\ task \in [Tasks -> TaskStates]
  /\ queued \in [Tasks -> Nat]
  /\ digests \in [Keys -> Nat]
  /\ unattended \subseteq Tasks
  /\ edits \in Nat

-----------------------------------------------------------------------------
\* The policy's decision on the step's call.
Decision(k) == evaluate(task[k].tool, task[k].args, task[k].seen)

\* The batch a decision's notification belongs to.
Key(k) == Decision(k).batch

\* Mutant of the lookup below.
FailsOnAny(n) == n > 0

\* _run_with_policy up to the handler.
Answer(k) ==
  IF ~task[k].tool.mutates THEN "ran"
  ELSE IF autonomy = "observe" THEN "denied"
  ELSE IF Decision(k).ask THEN "awaiting"
  ELSE IF Decision(k).refuse THEN "refused"
  ELSE IF DryRun THEN "dry_run" ELSE "ran"

\* scalar_one_or_none over the digests a session sees.
Fails(n) == n > 1

Init ==
  /\ site \in SitePolicies
  /\ autonomy = site.autonomy
  /\ \E t \in Tools, c \in CallArgs :
       task = [k \in Tasks |-> [phase |-> "idle", seen |-> site, tool |-> t, args |-> c,
                answer |-> "none", tries |-> 0, asked |-> 0, notified |-> {}]]
  /\ queued = [k \in Tasks |-> 0]
  /\ digests = [b \in Keys |-> 0]
  /\ unattended = {}
  /\ edits = 0

\* The client changes the site's policy.
EditPolicy ==
  /\ edits < MaxEdits
  /\ site' \in SitePolicies \ {site}
  /\ edits' = edits + 1
  /\ UNCHANGED <<autonomy, task, queued, digests, unattended>>

\* A step begins: it opens its session and reads the site.
BeginStep(k, t, c) ==
  /\ task[k].phase = "idle"
  /\ task' = [task EXCEPT ![k].phase = "calling", ![k].seen = site,
                          ![k].tool = t, ![k].args = c]
  /\ UNCHANGED <<site, autonomy, queued, digests, unattended, edits>>

\* ToolExecutor.execute: the call is answered at once, or its approval is
\* written in the step's session (create, before _notify).
CallTool(k) ==
  /\ task[k].phase = "calling"
  /\ task' = [task EXCEPT
       ![k].phase = IF Answer(k) = "awaiting" THEN "asking" ELSE "answered",
       ![k].answer = Answer(k),
       ![k].tries = @ + 1,
       ![k].asked = IF Answer(k) = "awaiting" THEN @ + 1 ELSE @]
  /\ unattended' = IF Answer(k) = "ran" /\ task[k].tool.mutates
                   THEN unattended \cup {k} ELSE unattended
  /\ UNCHANGED <<site, autonomy, queued, digests, edits>>

\* ApprovalsService._notify: the day's digest of the batch is looked up, then
\* counted up or added.  Several of them make the lookup raise, which turns
\* the call into an error and leaves the approval in the session.
Notify(k) ==
  /\ task[k].phase = "asking"
  /\ LET own == IF Key(k) \in task[k].notified THEN 1 ELSE 0
         seen == digests[Key(k)] + own
     IN task' = [task EXCEPT
          ![k].phase = "answered",
          ![k].answer = IF Fails(seen) THEN "error" ELSE @,
          ![k].notified = IF seen = 0 THEN @ \cup {Key(k)} ELSE @]
  /\ UNCHANGED <<site, autonomy, queued, digests, unattended, edits>>

\* The step failed and its engine tries again, in the same session.
RetryStep(k) ==
  /\ task[k].phase = "answered" /\ task[k].answer \in {"refused", "denied", "error"}
  /\ task[k].tries <= Retries
  /\ task' = [task EXCEPT ![k].phase = "calling"]
  /\ UNCHANGED <<site, autonomy, queued, digests, unattended, edits>>

\* The step is over: its session commits.
CommitStep(k) ==
  /\ task[k].phase = "answered"
  /\ task' = [task EXCEPT ![k].phase = "over"]
  /\ queued' = [queued EXCEPT ![k] = task[k].asked]
  /\ digests' = [b \in Keys |-> IF b \in task[k].notified THEN digests[b] + 1 ELSE digests[b]]
  /\ UNCHANGED <<site, autonomy, unattended, edits>>

\* The session fails instead, and takes the approval and the digest with it.
RollBackStep(k) ==
  /\ task[k].phase \in {"calling", "asking", "answered"}
  /\ task' = [task EXCEPT ![k].phase = "over", ![k].answer = "error"]
  /\ UNCHANGED <<site, autonomy, queued, digests, unattended, edits>>

Next ==
  \/ EditPolicy
  \/ \E k \in Tasks :
       \/ \E t \in Tools, c \in CallArgs : BeginStep(k, t, c)
       \/ CallTool(k) \/ Notify(k) \/ RetryStep(k) \/ CommitStep(k) \/ RollBackStep(k)

Spec == Init /\ [][Next]_vars

-----------------------------------------------------------------------------
\* UnattendedIsPermitted.  A mutating handler that ran without a person was
\* not of a kind the platform refuses or always asks about, touched no
\* protected path, was not of a type the client reviews, and, unless it only
\* keeps the platform's books, the site was beyond observe and its autonomy
\* reached what the tool needs or the client had released that kind of call
\* (the three categories at the top of policy.py).
UnattendedIsPermitted ==
  \A k \in unattended :
    LET t == task[k].tool
        p == task[k].seen
    IN /\ t.tag = "plain" /\ ~task[k].args.protected /\ t.type \notin p.reviewed
       /\ t.risk # "internal" =>
            \/ t.type \in ContentTypes /\ task[k].args.preApproved /\ Order[p.autonomy] >= 3
            \/ t.type = "review_reply" /\ task[k].args.rating >= p.minRating
                 /\ Order[p.autonomy] >= 3
            \/ t.type = "outreach_send" /\ p.outreach = "autonomous" /\ Order[p.autonomy] = 4
            \/ /\ t.type \notin ContentTypes \cup ThirdPartyTypes
               /\ Required(t) # None /\ Order[p.autonomy] >= Order[Required(t)]

\* ObserveMissionChangesNothing.  In a mission that began in observe mode no
\* mutating handler runs and nothing is queued, whatever the client sets later.
ObserveMissionChangesNothing ==
  autonomy = "observe" => unattended = {} /\ \A k \in Tasks : queued[k] = 0

\* QueuedAsAnswered.  While no batch has been announced twice, a finished step
\* that was told its call awaits approval has exactly one approval in the
\* queue, and any other step has none.
QueuedAsAnswered ==
  (\A b \in Keys : digests[b] <= 1) =>
    \A k \in Tasks : task[k].phase = "over" =>
      queued[k] = IF task[k].answer = "awaiting" THEN 1 ELSE 0
=============================================================================
