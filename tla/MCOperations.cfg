CONSTANTS
  Installers = {p1, p2}
  Nobody = Nobody
  Passes = {p0, p1, p2}
  Earlier = p0
  JudgeCases = 2
  Repeats = 2
  MaxTries = 2
  MaxCuts = 1
  Decisions = {pass, fail}
  c1 = c1
  c2 = c2
  c3 = c3
  b1 = b1
  b2 = b2
  PackClaims = {c1, c2, c3}
  Behaviors = {b1, b2}
  Requests <- MCRequests
  FrozenUses = {c1}
  FrozenKeeps = {c2}
  Versions = {v1, v2}
  ToolCalls = {p1, p2}
  Texts = {t1, t2}
  CandidateIds = {x, y, z}
  MaxRevision = 3
  MaxMade = 2
  MaxPlanned = 1
SYMMETRY Symmetry
SPECIFICATION OperationsSpec
INVARIANTS SummariesAgree VerdictIsEarned StagedIsConfirmable WrittenPackValidates
PROPERTIES PredecessorOutlivesFailure AllOrNothing
CHECK_DEADLOCK FALSE
