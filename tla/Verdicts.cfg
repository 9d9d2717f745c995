SPECIFICATION VerdictsSpec
INVARIANT NormalisedOnlyWhenPassed
CHECK_DEADLOCK FALSE
