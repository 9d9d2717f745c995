CONSTANTS
  r1 = r1
  r2 = r2
  Coordinator = Coordinator
  Absent = Absent
  Settled = Settled
  Reporters = {r1}
SPECIFICATION Spec
CHECK_DEADLOCK FALSE
PROPERTIES RebuildsFromEvidence
