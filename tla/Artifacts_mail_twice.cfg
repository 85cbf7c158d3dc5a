SPECIFICATION ArtifactsSpec
CONSTANTS
  StableJob = pdf
  ForcedJob = {}
  HasEmail = TRUE
  MaxAttempts = 2
  MaxRenders = 1
  Reader = {d1}
CHECK_DEADLOCK FALSE
INVARIANT MailedOnce
