\* Is the line of the web server always shown?
SPECIFICATION Spec
CONSTANTS
  Requests = {r1}
  Agents = {a1}
  Workers = {w1}
  Web = web
  Kinds = {"version"}
  ChanCap = 1
  MaxReplies = 2
INVARIANTS WebVersionShown
