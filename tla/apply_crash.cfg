SPECIFICATION Spec
CONSTANTS
  FullConf = 1
  Runs = {"cli"}
  Ids = {1}
  Facts <- MCFacts
  Mails <- MCMails
  LiveOf <- MCLiveOf
  Unconfirmable = {}
  ReconcileBatch = 1
  ArchiveBatch = 2
  ArchiveLabel = TRUE
  QueuedRows <- MCQueued
  Edits = "never"
  OwnerActs = FALSE
INVARIANT SkippedWasNotDone
CHECK_DEADLOCK FALSE
