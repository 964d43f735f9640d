SPECIFICATION FairSpec
CONSTANTS
  FullConf = 1
  Ids = {1, 2}
  OldRows <- MCOldRows
  Backlog = TRUE
INVARIANT OpensOnlySound
INVARIANT WorkSurvives
INVARIANT BackupIsTheOriginal
PROPERTY MigrationEnds
