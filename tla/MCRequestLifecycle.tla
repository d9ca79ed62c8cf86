-------------------------- MODULE MCRequestLifecycle --------------------------
(***************************************************************************)
(* A small instance of RequestLifecycle: three requests of two             *)
(* organizations for one slot and one worker.                              *)
(***************************************************************************)
EXTENDS RequestLifecycle

CONSTANTS a1, a2, b1, orgA, orgB

MCRequests == {a1, a2, b1}
MCOrgs == {orgA, orgB}
MCOrgOf == [r \in MCRequests |-> IF r = b1 THEN orgB ELSE orgA]
=============================================================================
