\* Does a hot reload keep the connected agents?
SPECIFICATION Spec
CONSTANTS
  Sessions = {s1, s2}
  Names = {n1, n2, n3}
  NamesTaken = {n1, n2}
  Grpc = grpc
  None = none
  MaxReloads = 1
INVARIANTS
  ReloadKeepsAgents
