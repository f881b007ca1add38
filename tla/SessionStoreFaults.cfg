SPECIFICATION FairSpec
CONSTANTS
  Calls = {c1, c2}
  ann = ann
  bob = bob
  oldAsk = oldAsk
  oldReply = oldReply
  OldIds <- MCOldIds
  Users <- MCUsers
  NoUser = NoUser
  OldDocs <- MCOldDocs
  NoRec = NoRec
  NoDoc = NoDoc
  NoTrace = NoTrace
  NoReply = NoReply
  Persistent = TRUE
  Ops <- AllOps
  Faults <- AllFaults
  MaxActive = 2
  MaxRestarts = 1
CHECK_DEADLOCK FALSE
INVARIANTS
  TypeOK
  Isolation
  NoDuplicates
  RefusedWritesNothing
  DocTrailsRecord
PROPERTIES
  CallsReturn
