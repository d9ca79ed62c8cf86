--------------------------- MODULE MCWorkflowGraph ----------------------------
(***************************************************************************)
(* Small instance of WorkflowGraph: the searcher needs two units of the    *)
(* token budget and the memory agent one, so budgets of one, two and three *)
(* are too small for one role, enough for one at a time and enough for     *)
(* both.                                                                   *)
(***************************************************************************)
EXTENDS WorkflowGraph

MCEstimate == [r \in ParallelRoles |-> IF r = "searcher" THEN 2 ELSE 1]
MCBudgets == {1, 2, 3}
=============================================================================
