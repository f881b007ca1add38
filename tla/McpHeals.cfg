SPECIFICATION McpSpec
CONSTANTS
  NoUser = NoUser
  NoCaller = NoCaller
  ann = ann
  bob = bob
  boot = boot
  t1 = t1
  t2 = t2
  ops = ops
  Users <- MCUsers
  Public <- MCPublic
  Indexed <- MCIndexed
  MaxTraceScores = 1
  Callers <- MCCallers
  Casts <- MCCasts
  Token <- MCToken
  User <- MCUser
  Endpoints <- MCEndpoints
  Listings <- MCListings
  Requests <- MCRequests
  Results <- MCResults
  Provider = "voyage"
CHECK_DEADLOCK FALSE
INVARIANTS
  Reattempts
