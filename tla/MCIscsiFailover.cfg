\* Two sbs-service processes, two gateways at one of two nodes.
SPECIFICATION Spec
CONSTANTS
  s1 = s1
  s2 = s2
  g1 = g1
  g2 = g2
  n1 = n1
  n2 = n2
  NoGateway = NoGateway
  Servers = {s1, s2}
  Gateways = {g1, g2}
  Nodes = {n1, n2}
  Endpoint <- SharedEndpoint
  Retention = 1
  MaxOps = 2
  MaxFaults = 1
SYMMETRY Symmetric
INVARIANTS
  FailoverTypeOK
  StaleWriterFenced
  
  PublishedIsFenced
CHECK_DEADLOCK FALSE
