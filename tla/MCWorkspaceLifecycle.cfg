SPECIFICATION FairSpec
CONSTANTS
  Requests = {r1, r2}
  Tokens = {t1, t2}
  IssuedAt = {1, 2}
  MaxCallbacks = 2
  MaxCrashes = 1
  MaxFailures = 1
  MaxMaintenance = 1
INVARIANTS
  TypeOK
  JournalOutlivesWork
  AuthorityAgrees
PROPERTIES
  RevocationIsFinal
  LifecycleSettles
CHECK_DEADLOCK FALSE
