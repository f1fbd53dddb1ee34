\* Three sessions with two names, each possibly a name of the configuration,
\* which may be reloaded once at any time.
SPECIFICATION FairSpec
CONSTANTS
  Sessions = {s1, s2, s3}
  Names = {n1, n2}
  NamesTaken = {n1, n2}
  Grpc = grpc
  None = none
  MaxReloads = 1
INVARIANTS
  TypeOK
  ListedHandlerAlive
  ConfiguredNodesListed
  ListIsExact
PROPERTIES
  DeadAgentDelisted
