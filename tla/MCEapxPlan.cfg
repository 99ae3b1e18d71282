SPECIFICATION PlanSpec
CONSTANTS
  so7 = so7
  so5 = so5
  a1 = a1
  a2 = a2
  b1 = b1
  b2 = b2
  d1 = d1
  d2 = d2
  Contents <- MCContents
  SizeOf <- MCSizeOf
  Abis <- MCAbis
  Rules <- MCRules
  Inputs <- MCInputs
INVARIANTS NoSilentChoice OrderIsIrrelevant RefusalHasCause
CHECK_DEADLOCK FALSE
