SPECIFICATION PagesSpec
CONSTANTS
  FullConf = 1
  Ids = {1, 2}
  RulesRuns = {"cli"}
  RuleSets <- MCRuleSets
  RuleBatch = 2
  LLMAnswers = {}
  LLMBatch = 1
  Facts <- MCFacts
  Params <- MCParams
  Overlap = FALSE
  DecideUnruled = FALSE
  GroupOf <- MCGroupOf
  StartRows <- MCStartRows
  GridLimit = 2
  Presets = {"all"}
  Uncertain = 0
PROPERTY NothingActedOnUnseen
