SPECIFICATION FairSpec
CONSTANTS
  h1 = h1
  h2 = h2
  Main = Main
  HostSeq <- TwoHosts
  Workers = {w1, w2}
  Commands = 2
  Retries = 2
  MaxDrops = 2
  MaxCalls = 2
INVARIANTS
  TypeOK
  AtMostTwice
  OutputsOfOnePass
  OneDropIsMasked
PROPERTIES
  CallEnds
