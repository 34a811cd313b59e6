------------------------------ MODULE MissionWave ------------------------------
(***************************************************************************)
(* One wave of a mission (missions/engine.py): its steps, some of them     *)
(* calls of a tool (module ToolGate), some runs of an agent (AgentRuns),   *)
(* side by side in one event loop.  The two kinds meet in the session and   *)
(* the policy of the one, and in the router and the budget of the other.   *)
(***************************************************************************)
EXTENDS ToolGate, AgentRuns

CONSTANT Waves       \* the waves explored: sets of tool steps and agent steps

ASSUME WaveAssumption == Waves \subseteq SUBSET (Tasks \cup Steps)

VARIABLE wave        \* the steps of this wave

waveVars == <<vars, agentVars, wave>>

WaveInit ==
  /\ wave \in Waves
  /\ Init /\ AgentInit

ToolStep(k) ==
  \/ \E t \in Tools, c \in CallArgs : BeginStep(k, t, c)
  \/ CallTool(k) \/ Notify(k) \/ RetryStep(k) \/ CommitStep(k) \/ RollBackStep(k)

WaveNext ==
  \/ /\ \/ wave \cap Tasks # {} /\ EditPolicy   \* only tool steps read the policy
        \/ \E k \in wave \cap Tasks : ToolStep(k)
     /\ UNCHANGED <<agentVars, wave>>
  \/ /\ \/ \E s \in wave \cap Steps : AgentStep(s)
        \/ AgentWork
     /\ UNCHANGED <<vars, wave>>

WaveSpec == WaveInit /\ [][WaveNext]_waveVars
=============================================================================
