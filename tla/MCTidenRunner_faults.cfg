SPECIFICATION Spec
CONSTANTS
  t1 = t1
  t2 = t2
  m1 = m1
  m2 = m2
  None = None
  Tests <- TwoTests
  Modules <- TwoModules
  ModuleOf <- InTwoModules
  MaxIter = 2
  Marks <- AllMarks
  Options <- AllOptions
  Faults <- FaultKinds
INVARIANTS
  TypeOK
  CountersMatch
  FailureIsFinal
  PassIsEarned
  ReportsAgree
  FixturesBalanced
