\* Two slots, one per organization by default, a queue of two.
SPECIFICATION Spec
CONSTANTS
  a1 = a1  a2 = a2  a3 = a3  b1 = b1  c1 = c1
  orgA = orgA  orgB = orgB  orgC = orgC
  Requests <- MCSkewedRequests
  Orgs <- MCOrgs
  OrgOf <- MCSkewedOrgOf
  MaxActive = 2
  MaxQueued = 2
  ConfiguredPerOrg = 0
  NoRequest = NoRequest
INVARIANTS RejectedHoldsNoSlot
