\* One browser, one agent, one worker, every endpoint; respChan holds one answer
\* so that it fills up. Streams and goroutines end; the relay implements ProbeStream.
SPECIFICATION FairSpec
CONSTANTS
  Requests = {r1}
  Agents = {a1}
  Workers = {w1}
  Web = web
  Kinds = {"version", "ping", "traceroute", "mtr"}
  ChanCap = 1
  MaxReplies = 2
INVARIANTS
  TypeOK
  InOrder
  VersionAnswersEveryNode
  WorkerLinesLossless
PROPERTIES
  EntriesReaped
  ImplementsPromise
