SPECIFICATION Spec
CONSTANTS
  a1 = a1
  a2 = a2
  s1 = s1
  s2 = s2
  c1 = c1
  c2 = c2
  None = None
  Agents = {a1}
  Senders = {s1, s2}
  Consumers = {c1, c2}
  Rcpt <- OneAgentRcpt
  File <- OwnFile
  Payloads = {"good"}
  Corrupt = {}
  Peer = {}
  Waiters = {s1}
  Me <- AllMine
  Limit = 0
SYMMETRY Symmetry
INVARIANTS
  BatchComplete
  ReceiptTruth
PROPERTIES
  ImplementsMailbox
