SPECIFICATION FairSpec
CONSTANTS
  FullConf = 1
  Runs = {"cli"}
  Ids = {1, 2, 3}
  Facts <- MCFacts
  Mails <- MCMails
  LiveOf <- MCLiveOf
  Unconfirmable = {3}
  ReconcileBatch = 2
  ArchiveBatch = 2
  ArchiveLabel = TRUE
  QueuedRows <- MCQueued
  Edits = "never"
  OwnerActs = FALSE
PROPERTY IntentIsClosed
PROPERTY ImplementsApplyRun
PROPERTY QueueDrains
CHECK_DEADLOCK FALSE
