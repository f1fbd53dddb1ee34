\* Every route after every other, two submissions on each.
SPECIFICATION FairSpec
CONSTANTS
  Nodes = {n1, n2}
  Queries = {q1, q2}
  NoQuery = noquery
  Hops = {h1}
  MaxSubmits = 2
  MaxLines = 2
  MaxQueue = 2
  Lists = {{}, {n1}}
  MaxAsking = 2
  WhoisQueries = {w1}
  NoWhois = nowhois
  LockTime = 2
  MaxTokens = 3
  MaxFetches = 2
INVARIANTS
  TypeOK
  OneOpenSource
  ButtonTruth
  ShowsOneSession
  OneRequestPerSubmit
  LossBounds
PROPERTIES
  RequestsTenSecondsApart
  StreamFreesButton
  LockEnds
