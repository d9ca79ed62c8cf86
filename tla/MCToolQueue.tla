---------------------------- MODULE MCToolQueue ----------------------------
(***************************************************************************)
(* A small instance of ToolQueue with its history.                         *)
(***************************************************************************)
EXTENDS ToolQueueHistory

CONSTANTS p1, p2, p3, k1, k2, r1

MCProducers == {p1, p2, p3}
MCKeys == {k1, k2}

\* Two enqueues carry the same idempotency key.
MCKeyOf == [p \in MCProducers |-> IF p = p3 THEN k2 ELSE k1]
MCPriorityOf == [k \in MCKeys |-> IF k = k2 THEN 1 ELSE 5]

\* One of the keys has a rate limit.
MCMixed == [k \in MCKeys |-> IF k = k1 THEN r1 ELSE NoRateKey]
=============================================================================
