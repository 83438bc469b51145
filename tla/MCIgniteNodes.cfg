SPECIFICATION Spec
CONSTANTS
  Default = {1, 2}
  Additional = {10001}
  Coordinator = 1
  MaxProcs = 3
  MaxCalls = 3
  MaxMishaps = 1
INVARIANTS
  TypeOK
  StartedIsItsOwn
  

  
