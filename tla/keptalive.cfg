\* Does the ping/pong keep a connection of the code's agent alive?
SPECIFICATION Spec
CONSTANTS
  PingPeriod = 3
  ServerTimeout = 6
  AgentTimeout = 6
  MaxDelay = 1
  Horizon <- MCHorizon
INVARIANTS
  KeptAlive
