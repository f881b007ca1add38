SPECIFICATION ChatSpec
CONSTANTS
  Turns = {t1, t2, t3}
  ann = ann
  bob = bob
  delete = delete
  Calls <- MCCalls
  OldIds <- None
  Users <- MCUsers
  NoUser = NoUser
  OldDocs <- None
  NoRec = NoRec
  NoDoc = NoDoc
  NoTrace = NoTrace
  NoReply = NoReply
  Persistent = FALSE
  Ops <- AllOps
  Faults <- None
  MaxActive = 3
  MaxRestarts = 0
  Backends <- AnyBackend
  EventFaults <- AllEventFaults
  Casts <- MCCasts
SYMMETRY Symmetry
CHECK_DEADLOCK FALSE
INVARIANTS
  PromptOwn
  DoneIsStored
  Remembers
