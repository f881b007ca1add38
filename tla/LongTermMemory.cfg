SPECIFICATION MemorySpec
CONSTANTS
  NoVec = NoVec
  NoUser = NoUser
  ann = ann
  bob = bob
  a1 = a1
  here = here
  there = there
  Decay <- MCDecay
  Weights <- MCWeights
  MinScore = 0
  TopK = 2
  FetchK = 2
  w1 = w1
  w2 = w2
  r1 = r1
  Writes = {w1, w2}
  Reads = {r1}
  Casts <- MCCasts
  Users <- MCUsers
  Agents = {a1}
  Turns <- MCTurns
  Asks <- MCAsks
  Texts <- MCTexts
  Size <- MCSize
  Lower <- MCLower
  Norm <- MCNorm
  MaxFacts = 2
  Replies <- MCReplies
  OldFacts <- MCOldFacts
  Mirror <- MCMirror
  WithAssistant = TRUE
  Provider = "voyage"
  Databases <- Yes
  Stores <- Yes
  Faults <- MostFaults
CHECK_DEADLOCK FALSE
INVARIANTS
  RecallsOwnOnce
  OutageStillRecalls
  PersistedIsStored
PROPERTIES
  BestFirst
  WaitsEnd
