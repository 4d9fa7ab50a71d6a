CONSTANTS
  Files <- ShippedFile
  PoolSizes <- MCPoolSizes
  Beginnings <- MCBeginnings
  NULL = NULL
  RuleSets <- OneRule
  Inputs <- MCInputs
  Wild = 0
  NoNode = NoNode
SPECIFICATION EngineSpec
INVARIANTS EssentialByNumber
