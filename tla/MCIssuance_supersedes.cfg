SPECIFICATION Spec
CONSTANTS
  NULL = NULL
  Credential = {c1, c2, c3}
  Case = {k1, k2}
  Staff = {ann, bob}
  Operators <- Everyone
  Approvers <- Everyone
  LifecycleAdmins <- Everyone
  Claims = {v1}
SYMMETRY Symmetry
CHECK_DEADLOCK FALSE
INVARIANT ReplacementSupersedes
