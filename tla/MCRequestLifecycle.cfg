\* Three requests, one slot and one worker, a queue of one, one node per run.
SPECIFICATION LFairSpec
CONSTANTS
  a1 = a1  a2 = a2  b1 = b1  orgA = orgA  orgB = orgB
  Requests <- MCRequests
  Orgs <- MCOrgs
  OrgOf <- MCOrgOf
  MaxActive = 1
  MaxQueued = 1
  ConfiguredPerOrg = 0
  NoRequest = NoRequest
  MaxNodes = 1
INVARIANTS NoStartAfterAnswer AbandonedGraphsBounded LateRequestEntersNoNode
PROPERTIES SlotAlwaysReturned
