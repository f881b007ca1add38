SPECIFICATION Spec
CONSTANTS
  NoAgent = NoAgent
  a = a
  b = b
  Specialists <- MCSpecialists
  Loadable <- MCLoadable
  Texts <- MCTexts
  Messages <- MCMessages
  UserWords <- MCUserWords
  MaxSteps = 3
  MaxReasoning = 4
  MaxCalls <- MCMaxCalls
  Words <- MCWords
  Stopwords = {"the"}
  Weight <- MCWeight
  BigramWeight = 3
  Handoffs <- MCHandoffs
  AgentMeta <- MCMeta
CHECK_DEADLOCK FALSE
INVARIANTS
  FilterExact
  AnsweredOnce
  NoWayBack
  DecisionsOwn
