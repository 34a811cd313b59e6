----------------------------- MODULE MCApprovals -----------------------------
(* Small instances of Approvals for TLC. *)
EXTENDS Approvals, TLC

MCKinds == {[risk |-> "low", delay |-> 1, tool |-> TRUE],
            [risk |-> "high", delay |-> NoDelay, tool |-> TRUE],
            [risk |-> "medium", delay |-> NoDelay, tool |-> FALSE]}
LiveKinds == {[risk |-> "low", delay |-> 0, tool |-> TRUE],
              [risk |-> "low", delay |-> NoDelay, tool |-> FALSE]}

Symmetry == Permutations(ApprovalIds)
=============================================================================
