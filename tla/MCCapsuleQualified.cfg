SPECIFICATION Spec
CONSTANTS
  Claims = {a}
  Commands = {p1}
  MaxEdits = 1
INVARIANT QualifiedHolds
CHECK_DEADLOCK FALSE
