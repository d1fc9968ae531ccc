SPECIFICATION Spec
CONSTANTS
  a1 = a1
  a2 = a2
  s1 = s1
  s2 = s2
  c1 = c1
  c2 = c2
  None = None
  Agents = {a1, a2}
  Senders = {s1, s2}
  Consumers = {c1}
  Rcpt <- FanoutRcpt
  File <- SharedFile
  Payloads = {"good", "bad"}
  Corrupt = {"bad"}
  Peer = {s2}
  Waiters = {}
  Me <- AllMine
  Limit = 0
INVARIANTS
  NoLoss
  ReportTruth
PROPERTIES
  BothCopiesSurvive
