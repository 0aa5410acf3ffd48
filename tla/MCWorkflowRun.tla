--------------------------- MODULE MCWorkflowRun ---------------------------
(***************************************************************************)
(* Small workflows for TLC.                                                *)
(***************************************************************************)
EXTENDS WorkflowRun

\* Two checkpoints between a task and a tool.
TwoCheckpointsKind ==
    [i \in 0..3 |-> CASE i = 0 -> "coworker" [] i = 3 -> "tool" [] OTHER -> "checkpoint"]

\* A condition may lead past a checkpoint, and another leads back.
BranchKind == [i \in 0..3 |-> CASE i = 0 -> "condition" [] i = 1 -> "checkpoint"
                                [] i = 2 -> "tool" [] OTHER -> "condition"]
BranchIfTrue == [i \in {0, 3} |-> IF i = 0 THEN 2 ELSE 0]
BranchIfFalse == [i \in {0, 3} |-> IF i = 0 THEN 1 ELSE 4]

NoBranch == [i \in {} |-> 0]
=============================================================================
