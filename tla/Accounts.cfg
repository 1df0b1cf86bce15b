CONSTANTS
  None = None
  Sessions = {c1, c2}
  Users = {u1, u2}
  Emails = {e1, e2}
  Phones = {p1}
  Tokens = {t1, t2, t3}
  SameToken = FALSE
  Faults = TRUE
SPECIFICATION FairSpec
INVARIANTS TypeOK OneAccountPerAddress RegisteredWasMailed VerifiedByLink OneTokenPerLogin
PROPERTIES AccountRequestsEnd KeepsLogins
\* When every request is done and every token issued nothing is left to do.
CHECK_DEADLOCK FALSE
