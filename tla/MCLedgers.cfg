CONSTANTS
  s1 = s1
  s2 = s2
  s3 = s3
  t1 = t1
  t2 = t2
  p1 = p1
  p2 = p2
  b1 = b1
  b2 = b2
  tp = tp
  pp = pp
  bp = bp
  NoSuite = NoSuite
  Evidence = {t1, t2, tp, p1, p2, pp, b1, b2, bp}
  Suites = {s1, s2, s3}
  Arms = {"control", "treatment"}
  Holdout <- AliasHoldout
  Practice <- AliasPractice
SPECIFICATION LedgersSpec
CHECK_DEADLOCK FALSE
INVARIANTS HoldoutShownByOneSuite TurnedAwayConsumesNothing SomeReserverWins
PROPERTIES GateSpec RelabelledStaysSpent
