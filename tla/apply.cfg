SPECIFICATION PageSpec
CONSTANTS
  FullConf = 1
  Runs = {"cli", "page"}
  Ids = {1}
  Facts <- MCFacts
  Mails <- MCMails
  LiveOf <- MCLiveOf
  Unconfirmable = {}
  ReconcileBatch = 1
  ArchiveBatch = 1
  ArchiveLabel = TRUE
  QueuedRows <- MCQueued
  Edits = "between"
  OwnerActs = TRUE
INVARIANT AppliedWasDone
PROPERTY MutationHasIntent
PROPERTY DryRunIsHarmless
PROPERTY ActsOnApproved
PROPERTY PageActsOnPreviewed
