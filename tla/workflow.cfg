SPECIFICATION FairSpec
CONSTANTS
  FullConf = 1
  Ids = {1, 2}
  RulesRuns = {"cli"}
  RuleSets <- MCRuleSets
  RuleFiles <- MCRuleFiles
  RuleBatch = 1
  LLMAnswers <- MCAnswers
  LLMBatch = 2
  Facts <- MCFacts
  Params <- MCParams
  Overlap = FALSE
  DecideUnruled = FALSE
INVARIANT TypeOK
INVARIANT ProvenanceAgrees
INVARIANT AutoApprovalIsGated
INVARIANT NoStrandedVerdict
PROPERTY HumanDecisionStands
PROPERTY KeepsContract
PROPERTY VerdictPaidOnce
PROPERTY EveryMessageIsSpokenFor
