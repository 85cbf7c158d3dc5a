SPECIFICATION InquiriesSpec
CONSTANTS
  n1 = n1
  n2 = n2
  NULL = NULL
  Credential = {c1, c2}
  Case = {k1}
  Staff = {ann, bob}
  Operators = {ann}
  Approvers = {bob}
  LifecycleAdmins = {ann, bob}
  Claims = {v1}
  Number = {n1, n2}
  Request = {r1, r2}
  Register <- OneConfirmed
  Key = {key1, key2}
  FirstKey = key1
  Nothing = Nothing
  LastInstant = 1
  ListLength = 8
  MaxBatch = 7
SYMMETRY SourceSymmetry
CHECK_DEADLOCK FALSE
INVARIANTS InquiriesTypeOK OutcomeHasEvidence
INVARIANTS VerdictsHaveGrounds SettledRevocationWins OldKeysStayResolvable
