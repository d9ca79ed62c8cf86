\* Three requests, one slot and one worker, a queue of two, one node per run.
SPECIFICATION LSpec
CONSTANTS
  a1 = a1  a2 = a2  b1 = b1  orgA = orgA  orgB = orgB
  Requests <- MCRequests
  Orgs <- MCOrgs
  OrgOf <- MCOrgOf
  MaxActive = 1
  MaxQueued = 2
  ConfiguredPerOrg = 0
  NoRequest = NoRequest
  MaxNodes = 1
PROPERTIES CancellationIsSeen
