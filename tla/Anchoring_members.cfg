SPECIFICATION FairSpec
CONSTANTS
  Credential = {c1}
  Runner = {w1}
  MaxAttempts = 2
  LastDay = 2
  MaxTx = 2
  Elsewhere = {}
  NULL = NULL
CHECK_DEADLOCK FALSE
PROPERTY ConfirmationReachesMembers
