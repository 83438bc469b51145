SPECIFICATION FairSpec
CONSTANTS
  t1 = t1
  t2 = t2
  m1 = m1
  m2 = m2
  None = None
  Tests <- TwoTests
  Modules <- OneModule
  ModuleOf <- InOneModule
  MaxIter = 3
  Marks <- CoreMarks
  Options <- AllOptions
  Faults <- NoFaults
INVARIANTS
  NoStrayJava
  AllReported
PROPERTIES
  Terminates
  VerdictsSpec
