SPECIFICATION Spec
CONSTANTS
  Orchestrator = Orchestrator
  NoAgent = NoAgent
  NoFile = NoFile
  NoCache = NoCache
  NoTemplate = NoTemplate
  NoSkill = NoSkill
  Nobody = Nobody
  AtBuild = AtBuild
  ann = ann
  annex = annex
  cv = cv
  pay = pay
  t1 = t1
  t2 = t2
  r1 = r1
  r2 = r2
  Stopwords = {"the"}
  Points <- MCPoints
  BigramPoints = 1
  heuristicMinScore = 1
  heuristicMargin = 1
  multiMinScore = 2
  multiRelativeMargin = 1
  multiMaxAgents = 2
  heuristicDominantMargin = 3
  RootHttp <- MCRootHttp
  SkillHttp <- MCSkillHttp
  Mock = FALSE
  Order <- MCOrder
  Longer <- MCLonger
  Shipped <- MCShipped
  Snapshots <- MCSnapshots
  Drafts <- MCDrafts
  Deployed = {ann}
  Casts <- MCCasts
  Turns <- MCTurns
  Warmers <- MCWarmers
  Messages <- MCMessages
  Answers <- MCAnswers
  CacheSize = 1
  Paths = {"chat", "swarm"}
  Urls <- MCUrls
  FarSides <- MCFarSides
CHECK_DEADLOCK FALSE
INVARIANTS
  DecisionsOfRoster
  AgentUpToDate
  SkillsOfOwnTurn
  RefusedByOwnLoad
