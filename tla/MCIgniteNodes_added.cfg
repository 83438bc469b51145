SPECIFICATION Spec
CONSTANTS
  Default = {1}
  Additional = {10001, 10002}
  Coordinator = 1
  MaxProcs = 3
  MaxCalls = 6
  MaxMishaps = 1
INVARIANTS
  AddedNodesAreNew
