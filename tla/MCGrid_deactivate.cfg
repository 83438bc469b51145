SPECIFICATION Spec
CONSTANTS
  n1 = n1
  n2 = n2
  n3 = n3
  h1 = h1
  h2 = h2
  Servers <- ThreeNodes
  HostOf <- Apart
  Clients <- TwoHosts
  Additional = {n3}
  MaxPolls = 2
  MaxData = 2
  MaxEvents = 4
INVARIANT
  DeactivationFailedIsTrue
CHECK_DEADLOCK FALSE
