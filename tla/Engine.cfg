CONSTANTS
  Files <- MCFiles
  PoolSizes <- MCPoolSizes
  Beginnings <- MCBeginnings
  NULL = NULL
  RuleSets <- MCRuleSets
  Inputs <- MCInputs
  Wild = 0
  NoNode = NoNode
SPECIFICATION EngineSpec
INVARIANTS GroupsAsWritten DelimitersAsWritten ReleasesAll Matafied CountsChildren FindsEveryMatch
