------------------------------ MODULE ToolPolicy ------------------------------
(***************************************************************************)
(* The approval policy of agents/policy.py as operators: what              *)
(* ApprovalPolicy.evaluate decides about one call of one tool, given the   *)
(* site's policy.  A tool is [mutates, risk, type, autoFrom, tag], a call  *)
(* is what its arguments tell evaluate, a policy is the site row's.        *)
(***************************************************************************)
EXTENDS Integers

CONSTANT None  \* Python's None

ASSUME NoneAssumption ==
  None \notin {"observe", "propose", "assisted", "managed", "autopilot"}

Autonomies == {"observe", "propose", "assisted", "managed", "autopilot"}
RiskLevels == {"none", "internal", "low", "medium", "high", "critical"}
ContentTypes == {"content_publish", "content_update"}
ThirdPartyTypes == {"outreach_send", "social_post", "review_reply", "gbp_post"}
ApprovalTypes == ContentTypes \cup ThirdPartyTypes \cup {"technical_fix", "other"}

\* Tool: the tag says which of the two lists of policy.py names the tool.
ToolRecords == [mutates : BOOLEAN, risk : RiskLevels, type : ApprovalTypes,
                autoFrom : Autonomies \cup {None},
                tag : {"plain", "never_allowed", "always_human"}]

\* The arguments: does the URL hit a never-touch path, is the content type one
\* of the client's pre-approved ones, the rating of the review answered.
Calls == [protected : BOOLEAN, preApproved : BOOLEAN, rating : 0..5]

\* SitePolicy: hours is auto_approve_after_hours (0 and None are the same).
Policies == [autonomy : Autonomies, reviewed : SUBSET ApprovalTypes, hours : Nat,
             outreach : {"draft_only", "approved", "autonomous"}, minRating : 0..5]

\* The decision: timer is whether an auto-approval delay is attached.
Decided == [ask : BOOLEAN, refuse : BOOLEAN, rule : STRING, risk : RiskLevels,
            timer : BOOLEAN, batch : STRING]

\* _AUTONOMY_ORDER
Order == [observe |-> 0, propose |-> 1, assisted |-> 2, managed |-> 3, autopilot |-> 4]

\* Mutant of autonomy_allows.
AllowsFromOneBelow(autonomy, required) == Order[autonomy] + 1 >= Order[required]

autonomy_allows(autonomy, required) == Order[autonomy] >= Order[required]

\* RISK_AUTONOMY_FLOOR
RiskFloor(risk) ==
  CASE risk = "internal" -> "observe"
    [] risk \in {"none", "low"} -> "assisted"
    [] risk = "medium" -> "managed"
    [] risk = "high" -> "autopilot"
    [] OTHER -> None

Required(tool) == IF tool.autoFrom # None THEN tool.autoFrom ELSE RiskFloor(tool.risk)

Ask(rule, risk, timer, batch) ==
  [ask |-> TRUE, refuse |-> FALSE, rule |-> rule, risk |-> risk, timer |-> timer, batch |-> batch]
Run(rule, risk) ==
  [ask |-> FALSE, refuse |-> FALSE, rule |-> rule, risk |-> risk, timer |-> FALSE, batch |-> ""]
Refuse(rule) == [Run(rule, "critical") EXCEPT !.refuse = TRUE]

\* Rule 4: published copy.  The timer does not look at the tool's risk.
ContentRule(call, policy) ==
  IF call.preApproved /\ autonomy_allows(policy.autonomy, "managed")
  THEN Run("pre_approved_content_type", "medium")
  ELSE Ask("content_gate", "medium", policy.hours > 0, "content")

\* Rule 5: sent to a third party under the client's name.
ThirdPartyRule(tool, call, policy) ==
  CASE /\ tool.type = "review_reply" /\ call.rating >= policy.minRating
       /\ autonomy_allows(policy.autonomy, "managed")
         -> Run("positive_review_autoreply", "low")
    [] /\ tool.type = "outreach_send" /\ policy.outreach = "autonomous"
       /\ autonomy_allows(policy.autonomy, "autopilot")
         -> Run("outreach_autonomous", "low")
    [] OTHER -> Ask("third_party_gate", "medium", FALSE, tool.type)

\* Rule 7: everything else, gated by autonomy.
AutonomyRule(tool, policy) ==
  CASE Required(tool) = None -> Ask("critical_risk", tool.risk, FALSE, tool.type)
    [] Required(tool) # None /\ autonomy_allows(policy.autonomy, Required(tool))
         -> Run("autonomy_permits", tool.risk)
    [] OTHER -> Ask("autonomy_insufficient", tool.risk,
                    policy.hours > 0 /\ tool.risk \in {"none", "low"}, "technical")

\* The three rules above, for a tool the client has not asked to review.
OpenRule(tool, call, policy) ==
  IF tool.type \in ContentTypes THEN ContentRule(call, policy)
  ELSE IF tool.type \in ThirdPartyTypes THEN ThirdPartyRule(tool, call, policy)
  ELSE IF tool.risk = "internal" THEN Run("internal_write", "internal")
  ELSE AutonomyRule(tool, policy)

\* ApprovalPolicy.evaluate: the first rule that applies decides.  A rule that
\* sets no batch key is grouped by approval type (ApprovalsService._notify).
evaluate(tool, call, policy) ==
  IF tool.tag = "never_allowed" THEN Refuse("never_allowed")
  ELSE IF call.protected THEN Ask("protected_path", "high", FALSE, tool.type)
  ELSE IF tool.tag = "always_human" THEN Ask("always_human", "high", FALSE, tool.type)
  ELSE IF tool.type \in policy.reviewed THEN Ask("client_override", tool.risk, FALSE, tool.type)
  ELSE OpenRule(tool, call, policy)
=============================================================================
