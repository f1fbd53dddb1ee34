\* Every call of the stub and every message of the WebSocket, from peers of this
\* schema and of later ones.
SPECIFICATION Spec
CONSTANTS
  Samples <- MCSamples
  Additions <- MCAdditions
  MaxResponses = 1
INVARIANTS
  TypeOK
  ReaderInStep
  Preserved
  JsonKeeps
