\* Every preset and setting, two revisions.
SPECIFICATION FairSpec
CONSTANTS
  MaxQualityRetries = 2
  Estimate <- MCEstimate
  Budgets <- MCBudgets
INVARIANTS ResultsFollowAllocation MandatoryRoleRan FlaggedRunEscalated
           AcceptedWriteIsGrounded RunningWithinBudget
           FailedGroupLeavesNothing
PROPERTIES EveryRunEnds
