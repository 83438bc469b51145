SPECIFICATION Spec
CONSTANTS
  jv = jv
  zo = zo
  h1 = h1
  JavaName = jv
  ZkName = zo
  Configured <- TwoApps
  JavaHosts <- OneHost
  ZkTotal = 2
  NodesAmount = 1
  PerHost = 1
  NumNodes = 0
  MaxJava = 3
  MaxPhases = 5
  MaxEvents = 4
INVARIANTS
  TableIsTrue
  KilledAreBack
  
  PidsAreOwn
  
PROPERTIES
  ExitReturns
