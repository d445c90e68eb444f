CONSTANTS
  Tab = {t1, t2}
  Incident = {i1}
  Request = {r1}
  WebLocks = TRUE
  KnownFields = {"report", "local metadata"}
  Worker = {w1, w2}
  MaxBatch = 2
  MaxFailures = 1
  MaxCrashes = 1
  Absent = Absent
SPECIFICATION Spec
CHECK_DEADLOCK FALSE
INVARIANTS TypeOK NothingLost SyncedIsCommitted RefusedRightly RefusedIsShown
PROPERTIES SettledStays Settles
