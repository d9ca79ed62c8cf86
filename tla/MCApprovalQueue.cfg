\* Two runs, two resumes, two tools.  Calls come to an end, so the
\* system stops.
SPECIFICATION Spec
CONSTANTS
  w1 = w1  w2 = w2  r1 = r1  r2 = r2  t1 = t1  t2 = t2
  Runs <- MCRuns
  Resumes <- MCResumes
  Tools <- MCTools
  Proposals <- MCProposals
  Decisions <- MCDecisions
  QueueEnabled = TRUE
INVARIANTS WritesFollowApproval
CHECK_DEADLOCK FALSE
