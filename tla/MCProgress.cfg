SPECIFICATION ProgressSpec
CONSTANTS
  Tx = {t1, t2}
  MaxSeq = 4
  BatchSize = 2
  NULL = NULL
  Credential = {c1}
  MaxAttempts = 2
  Worker = {w1}
  LastDay = 2
  MaxTx = 2
  Elsewhere = {1}
  Runner = {r1, r2}
  MaxSlot = 1
  ListLength = 1
CHECK_DEADLOCK FALSE
INVARIANTS TypeOK ChainNeverForks NoFalseAlarm VerificationIsComplete
PROPERTIES CommitsInOrder EveryAppendEnds ConfirmedOrGivenUp NobodyLeftBehind
PROPERTIES RevocationShowsInTheEnd SigningComesToAnEnd
