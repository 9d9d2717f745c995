CONSTANTS
  r1 = r1
  r2 = r2
  Runner = Runner
  Reporters = {r1, r2}
SPECIFICATION FairSpec
CHECK_DEADLOCK FALSE
INVARIANTS ReportsAreClosed DerivedFromEvidence EnvelopeNamesCause
PROPERTIES RebuildsFromEvidence EndsWithVerdict
