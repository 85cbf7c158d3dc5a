SPECIFICATION JobsSpec
CONSTANTS
  Credential = {c1, c2}
  Runner = {r1, r2}
  MaxSlot = 2
  ListLength = 2
  NULL = NULL
  StableJob = pdf
  ForcedJob = {again}
  HasEmail = TRUE
  MaxAttempts = 2
  MaxRenders = 2
  Reader = {d1}
SYMMETRY JobsSymmetry
CHECK_DEADLOCK FALSE
INVARIANTS JobsTypeOK NoFalseRevocation DownloadsAreServed CompletedMeansTold
PROPERTY RerunsKeepWhatIsDone
