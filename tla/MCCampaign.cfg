CONSTANTS
  r1 = r1
  r2 = r2
  Coordinator = Coordinator
  Absent = Absent
  Settled = Settled
  Reporters = {r1, r2}
SPECIFICATION FairSpec
CHECK_DEADLOCK FALSE
INVARIANTS ReportsAreClosed
PROPERTIES ReportedIsReproducible EndsMarked
