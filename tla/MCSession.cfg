SPECIFICATION Spec
CONSTANTS
  pl = pl
  rp = rp
  h1 = h1
  h2 = h2
  Order <- TwoArtifacts
  Repacked = {rp}
  Uses <- FromPlain
  MayCrash = TRUE
  MaxVersion = 2
  MaxFileName = 2
  Hosts <- TwoHosts
  Containers = {c1}
  MaxLosses = 1
  MaxEvents = 3
INVARIANTS
  PreparedIsCurrent
  DeployedIsLocal
  NoForeignContainer
  
  
