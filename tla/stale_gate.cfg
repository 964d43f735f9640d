SPECIFICATION Spec
CONSTANTS
  FullConf = 1
  Ids = {1}
  RulesRuns = {"cli"}
  RuleSets <- MCRuleSets
  RuleFiles <- MCRuleFiles
  RuleBatch = 1
  LLMAnswers <- MCAnswers
  LLMBatch = 1
  Facts <- MCFacts
  Params <- MCParams
  Overlap = TRUE
  DecideUnruled = FALSE
INVARIANT AutoApprovalIsGated
