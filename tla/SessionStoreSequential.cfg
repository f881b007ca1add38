SPECIFICATION Spec
CONSTANTS
  Calls = {c1, c2, c3}
  ann = ann
  bob = bob
  oldAsk = oldAsk
  oldReply = oldReply
  OldIds <- MCOldIds
  Users <- MCUsers
  NoUser = NoUser
  OldDocs <- MCOldDocs
  NoRec = NoRec
  NoDoc = NoDoc
  NoTrace = NoTrace
  NoReply = NoReply
  Persistent = TRUE
  Ops <- AllOps
  Faults <- NoFaults
  MaxActive = 1
  MaxRestarts = 1
CHECK_DEADLOCK FALSE
INVARIANTS
  WriteThrough
PROPERTIES
  OwnerKept
  DocIsLog
