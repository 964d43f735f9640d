SPECIFICATION FairSpec
CONSTANTS
  Addresses = {"me", "me2", "friend", "number"}
  Synthetic = {"number"}
  Mboxes <- MCBoth
  BatchSize = 2
  Limits <- MCLimits
  OwnAddresses <- MCOwn
INVARIANT NothingIsMissed
INVARIANT SentCountIsHonest
PROPERTY RerunAddsNothing
PROPERTY AllArrives
