SPECIFICATION FairSpec
CONSTANTS
  Specialists = {s1, s2}
  Synthesizer = Synthesizer
  Orchestrator = Orchestrator
  NoMessage = NoMessage
  Modes <- Both
  Widths <- AnyWidth
  MaxAttempts = 2
  MaxTokens = 2
CHECK_DEADLOCK FALSE
INVARIANTS
  TypeOK
  CompleteReply
PROPERTIES
  KeepsContract
  TurnEnds
