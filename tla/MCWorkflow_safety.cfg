SPECIFICATION WorkflowSpec
CONSTANTS
  NULL = NULL
  Credential = {c1, c2, c3}
  Case = {k1, k2}
  Staff = {ann, bob}
  Operators <- Everyone
  Approvers <- Everyone
  LifecycleAdmins <- Everyone
  Claims = {v1, v2}
  Nothing = Nothing
  Request = {c1, c2, c3}
  Original = diploma
  draft1 = draft1
  draft2 = draft2
  case1 = case1
  case2 = case2
  Replacement <- Drafts
  Revocation = {revokeCase}
  Correction = {secondCorrection}
  LinkedCase <- Links
SYMMETRY Symmetry
CHECK_DEADLOCK FALSE
INVARIANTS WorkflowTypeOK SeparationOfDuties ContentIntegrity RevocationIsDecided
INVARIANTS SupersessionIsLinked NoSupersessionCycle CaseFollowsReplacement
INVARIANTS DeadlocksNeedAReplacement
PROPERTIES IssuedImmutable PublicRecordKept SerialKept
