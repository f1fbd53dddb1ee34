\* Two browsers contend for one agent: its two locks, its reader, its ping loop.
SPECIFICATION Spec
CONSTANTS
  Requests = {r1, r2}
  Agents = {a1}
  Workers = {}
  Web = web
  Kinds = {"mtr"}
  ChanCap = 1
  MaxReplies = 1
SYMMETRY RequestSymmetry
INVARIANTS
  NoSendOnClosed
  OneWriterPerConn
  EndedMeansDrained
