--------------------------- MODULE ToolQueueHistory ---------------------------
(***************************************************************************)
(* ToolQueue with a history variable that counts how often the outcome of  *)
(* a settled task is overwritten: after a restart the worker of an earlier *)
(* lifespan may still report a result, and neither complete nor fail looks *)
(* at the status or at the owner of the lease (async_tool_queue.py).       *)
(***************************************************************************)
EXTENDS ToolQueue

VARIABLE overwritten  \* status changes of settled tasks so far

historyVars == <<vars, overwritten>>

Settled(t) == tasks[t].status \in {"done", "dead"}

HistoryInit == Init /\ overwritten = 0

Lost == {t \in Ids : Settled(t) /\ tasks'[t].status # tasks[t].status}

HistoryNext ==
  /\ Next
  /\ overwritten' = overwritten + Cardinality(Lost)

HistorySpec == HistoryInit /\ [][HistoryNext]_historyVars

FairHistorySpec == HistorySpec /\ Fairness

-----------------------------------------------------------------------------
\* Each restart of the lifespan costs at most one outcome: the worker it leaves
\* behind in its executor reports one result and exits, and that result revives
\* or replaces what another worker has settled, or settles a task that the next
\* worker goes on to claim or has claimed (complete, fail and the write of the
\* lease in claim).  Without a restart no outcome is lost.
RestartCostsOneOutcome == overwritten <= current - 1
=============================================================================
