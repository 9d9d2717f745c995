SPECIFICATION ReviewSpec
CONSTANTS
  Claims = {a, b}
  Commands = {p1, p2}
  MaxEdits = 1
  Drafts <- OrderDrafts
  OrderCommands <- OrdersAsked
  MaxCalls = 4
  MaxQueue = 2
  MaxFaults = 1
  Seed = 1
  MaxDisturbed = 1
SYMMETRY CommandSymmetry
INVARIANTS
  TypeOK
  KeepIsEarned
  UntouchedRecordsHold
  PrintedRunsReplay
  AnsweredIsKept
  AuditTellsTheOrder
  AdmittedIffTrue
PROPERTIES
  ReplayMeansCurrent
  QualifiedStageEarned
  ObjectSpec
CHECK_DEADLOCK FALSE
