----------------------------- MODULE MCAdmission -----------------------------
(***************************************************************************)
(* Small instances of Admission: three organizations that compete, with    *)
(* one of them asking more than its share.                                 *)
(***************************************************************************)
EXTENDS Admission

CONSTANTS a1, a2, a3, b1, c1, orgA, orgB, orgC

MCOrgs == {orgA, orgB, orgC}

\* Five requests for two slots, one per organization by default.
MCRequests == {a1, a2, a3, b1, c1}
MCOrgOf == [r \in MCRequests |-> CASE r \in {a1, a2, a3} -> orgA
                                   [] r = b1 -> orgB
                                   [] r = c1 -> orgC]

\* Four requests for two slots, one per organization by default: three that
\* want the same slot and one that does not.
MCSkewedRequests == {a1, a2, a3, b1}
MCSkewedOrgOf == [r \in MCSkewedRequests |-> MCOrgOf[r]]
=============================================================================
