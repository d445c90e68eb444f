CONSTANTS
  h1 = h1
  z1 = z1
  k1 = k1
  Thread = {w1, w2}
  Hospital = {h1}
  Shelter = {}
  Zone = {z1}
  Default = {h1}
  Generation <- Generations
  Decide <- Decisions
  Acting = {"APPROVER", "COMMANDER"}
  Key = {k1}
  Status = {"OPERATIONAL", "OPEN", "RESOLVED"}
  Places = {0, 1}
  MaxVersion = 1
  MaxEvents = 3
  Absent = Absent
SPECIFICATION Spec
SYMMETRY Symmetry
CHECK_DEADLOCK FALSE
INVARIANTS
  TypeOK
  LedgerTellsStatus
  DecisionsAnswerIssues
  CachedAnswerTrue
PROPERTY
  TerminalUntilReissued
