\* A session of five pings, then a silent agent; the agent of the code would
\* leave after two.
SPECIFICATION Spec
CONSTANTS
  PingPeriod = 3
  ServerTimeout = 6
  AgentTimeout = 15
  MaxDelay = 1
  Horizon <- MCHorizon
INVARIANTS
  TypeOK
  RunningAgentIsHeard
  DelistedInTime
