CONSTANTS
  t1 = t1
  t2 = t2
  a1 = a1
  a2 = a2
  d1 = d1
  d2 = d2
  Runs = {p1, p2}
  Attempts = {k1}
  Cases = {c1}
  Eligible = {c1}
  Stray = Stray
  Evaluator = Evaluator
  Revisions = {v1}
  MinimumRuns = 1
  Invocations = {p1, p2}
  Stamps <- MCStamps
  Never = Never
  Claims = {d1, d2}
  Dependencies <- MCDependencies
  MaxVersion = 3
  MaxTried = 1
SYMMETRY Symmetry
SPECIFICATION AuthoringSpec
INVARIANTS AdmittedIsWhole VerdictCountsEveryTry ConfirmedPackValidates HistoryIsKept
CHECK_DEADLOCK FALSE
