SPECIFICATION FairSpec
CONSTANTS
  FullConf = 1
  Ids = {1}
  RulesRuns = {"cli"}
  RuleSets <- MCRuleSets
  RuleFiles <- MCRuleFiles
  RuleBatch = 1
  LLMAnswers <- MCAnswers
  LLMBatch = 1
  Facts <- MCFacts
  Params <- MCParams
  Overlap = TRUE
  DecideUnruled = TRUE
INVARIANT HumanNeverGated
INVARIANT HitsExplainVerdict
INVARIANT PreviewIsExact
PROPERTY AppliedIsFinal
PROPERTY VerdictPaidOnce
PROPERTY RuledByTheFile
PROPERTY EveryMessageIsSpokenFor
