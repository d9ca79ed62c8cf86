---------------------------- MODULE MCApprovalFlow ----------------------------
(***************************************************************************)
(* A small instance of ApprovalFlow: a run and its repetition, two         *)
(* resumes, two tools.                                                     *)
(***************************************************************************)
EXTENDS ApprovalFlow

CONSTANTS w1, w2, r1, r2, t1, t2

MCRuns == {w1, w2}
MCResumes == {r1, r2}
MCTools == {t1, t2}
MCProposals == {{}, {t1}, {t1, t2}}
MCSymmetry == Permutations(MCRuns) \cup Permutations(MCResumes)
MCDecisions == {<<t1>>, <<t1, t2>>, <<t1, t1>>}
=============================================================================
