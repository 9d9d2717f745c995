CONSTANTS
  r1 = r1
  r2 = r2
  Runner = Runner
  Reporters = {r1}
SPECIFICATION Spec
CHECK_DEADLOCK FALSE
INVARIANTS UnmeasuredHasNoEnvelope
