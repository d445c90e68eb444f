CONSTANTS
  Tab = {t1}
  Incident = {i1}
  Request = {r1}
  WebLocks = TRUE
  KnownFields = {"report"}
  Worker = {w1, w2}
  MaxBatch = 3
  MaxFailures = 1
  MaxCrashes = 1
  Absent = Absent
SPECIFICATION Spec
CHECK_DEADLOCK FALSE
INVARIANT ReportsConform
