------------------------------ MODULE MCMissionWave ------------------------------
(* The kinds of tool the registry holds, and policies a client may set.    *)
EXTENDS MissionWave, TLC

Tool(mutates, risk, type, autoFrom, tag) ==
  [mutates |-> mutates, risk |-> risk, type |-> type, autoFrom |-> autoFrom, tag |-> tag]
MixTools ==
  { Tool(FALSE, "none", "other", None, "plain"),
    Tool(TRUE, "medium", "review_reply", "managed", "plain"),
    Tool(TRUE, "internal", "other", "observe", "plain"),
    Tool(TRUE, "low", "technical_fix", "assisted", "plain"),
    Tool(TRUE, "high", "content_publish", "managed", "plain"),
    Tool(TRUE, "high", "outreach_send", "autopilot", "plain"),
    Tool(TRUE, "high", "other", "managed", "always_human"),
    Tool(TRUE, "high", "other", "observe", "never_allowed") }

Call(protected, preApproved) ==
  [protected |-> protected, preApproved |-> preApproved,
   rating |-> IF preApproved THEN 4 ELSE 3]
MixArgs == {Call(FALSE, FALSE), Call(FALSE, TRUE), Call(TRUE, FALSE)}

Policy(level, reviewed, hours, outreach) ==
  [autonomy |-> level, reviewed |-> reviewed, hours |-> hours, outreach |-> outreach,
   minRating |-> 4]
MixPolicies ==
  {Policy("observe", {}, 24, "draft_only"), Policy("propose", {}, 24, "draft_only"),
   Policy("assisted", {}, 0, "approved"),
   Policy("managed", {"technical_fix"}, 0, "draft_only"), Policy("autopilot", {}, 24, "autonomous")}

\* One step leads and may delegate, the other only writes.
CONSTANT Lead
MCAgentOf == [s \in Steps |-> IF s = Lead THEN "lead" ELSE "writer"]
MCCeiling == [lead |-> 2, writer |-> 1]
MCStepRetries == [s \in Steps |-> IF s = Lead THEN 1 ELSE 0]
MCTurns == [lead |-> 2, writer |-> 1]
MCDelegates == [lead |-> {"writer"}, writer |-> {}]
MCProviders == <<"first", "second">>
MCCosts == [first |-> {1}, second |-> {2}]

\* Two tool calls, or two agents.
MCWaves == {Tasks, Steps}

\* In a wave of agents the policy and the steps not taken are any, once.
MCInit ==
  /\ WaveInit
  /\ wave = Steps =>
       /\ site = CHOOSE p \in MixPolicies : TRUE
       /\ \A k \in Tasks : /\ task[k].tool = CHOOSE t \in MixTools : TRUE
                           /\ task[k].args = CHOOSE c \in MixArgs : TRUE
MCSpec == MCInit /\ [][WaveNext]_waveVars

Symmetry == Permutations(Tasks)
=============================================================================
