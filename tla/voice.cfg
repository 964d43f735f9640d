SPECIFICATION ExportSpec
CONSTANTS
  Addresses = {"number"}
  Synthetic = {"number"}
  Mboxes <- MCBoth
  BatchSize = 5
  Limits <- MCLimits
  OwnAddresses <- MCOwn
  VoiceOf <- MCVoiceOf
  Texts <- MCTexts
  Overrides <- MCOverrides
  Underscore <- MCUnderscore
  Ordinals <- MCOrdinals
  MaxExports = 2
INVARIANT PathsResolve
INVARIANT BackupIsComplete
INVARIANT FlagsAreHonest
