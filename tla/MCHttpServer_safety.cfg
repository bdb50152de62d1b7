SPECIFICATION Spec
CONSTANTS
  Streams = {s1, s2, s3}
  MaxConnections = 2
  RequestLimit = 2
  MaxClients = 3
SYMMETRY Symmetry
INVARIANTS
  PermitConservation
  DescriptorBound
  QuietAtZero
  RequestsAccounted
  
  IInv
