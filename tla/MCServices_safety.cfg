SPECIFICATION ServicesSpec
CONSTANTS
  Credential = {row1, row2}
  Runner = {w1}
  LastDay = 2
  MaxTx = 2
  Elsewhere = {1}
  NULL = NULL
  MaxAttempts = 2
  dorj = dorj
  tuya = tuya
  d1 = d1
  d2 = d2
  Diploma = {d1, d2}
  Holder = {dorj, tuya}
  Contactable = {dorj, tuya}
  Owner <- OwnerOf
  Challenge = {o1}
  HolderSession = {s1}
  Share = {x1}
  Request = {p1, p2}
  OTP_MAX_ATTEMPTS = 2
  MaxViews = 1
  num = num
  muis = muis
  Account = {a1, a2, a3}
  FirstAdmin = a1
  Invitation = {row1, row2}
  StaffSession = {t1}
  Email = {e1, e2}
  Institution = {num, muis}
  Offers <- SomeOffers
  StaffRequest = {p1, p2}
  MAX_FAILED_LOGINS = 2
  k1 = k1
  k2 = k2
  BatchId = {b1}
  Key = {k1, k2}
  Malformed = Malformed
  Files <- SomeFiles
  Draft = {f1, f2, f3, f4}
  Submission = {p1, p2}
  MAX_ROWS = 5000
SYMMETRY ServicesSymmetry
CHECK_DEADLOCK FALSE
INVARIANTS ServicesTypeOK ConfirmedIsOnChain
INVARIANTS HoldersSeeTheirOwn OneAccountPerEmail RightsComeFromInvitation
INVARIANTS SubmittedAndClosedAreTrue
PROPERTIES StatusNeverFallsBack LedgerKept SpentForGood
