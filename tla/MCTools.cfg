SPECIFICATION Spec
CONSTANTS
  n1 = n1
  n2 = n2
  h1 = h1
  h2 = h2
  mine = mine
  other1 = other1
  other2 = other2
  jenkins = jenkins
  XNodes = {n1, n2}
  LastVer = 3
  MaxLines = 6
  MaxTrace = 1
  MaxUp = 2
  MaxCalls = 3
  MaxDepth = 3
  MaxLogHosts = 1
  KHosts = {h1, h2}
  Procs = {mine, other1, other2, jenkins}
  HostOf <- MCHostOf
  Others = {other1, other2}
  Reserved = {jenkins}
  MaxLooks = 2
  m1 = m1
  m2 = m2
  m3 = m3
  t1 = t1
  t2 = t2
  t3 = t3
  sw = sw
  dotted = dotted
  num = num
  tag = tag
  CModules <- MCCModules
  CTests = {t1, t2, t3}
  InModule <- MCInModule
  Switches = {sw, dotted}
  Numbers = {num}
  Nested = {dotted}
  Declares <- MCDeclares
  Possible <- MCPossible
  Defaulted = {m2}
  MarksOf <- MCMarksOf
  Attrs = {tag}
  Passed <- MCPassed
  Givens <- MCGivens
INVARIANTS
  CollectedIsRun
  FinishedIsFinished
  
  
  ReportedAsCalled
  
  
CHECK_DEADLOCK FALSE
