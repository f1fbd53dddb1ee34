\* Do the goroutines end with the timeout when the browser has left?
SPECIFICATION FairSpec
CONSTANTS
  Requests = {r1}
  Agents = {a1}
  Workers = {w1}
  Web = web
  Kinds = {"version", "ping"}
  ChanCap = 1
  MaxReplies = 1
PROPERTIES
  TimeoutEndsTasks
