SPECIFICATION FairSpec
CONSTANTS
  a1 = a1
  a2 = a2
  s1 = s1
  s2 = s2
  c1 = c1
  c2 = c2
  None = None
  Agents = {a1}
  Senders = {s1, s2}
  Consumers = {c1}
  Rcpt <- OneAgentRcpt
  File <- OwnFile
  Payloads = {"good"}
  Corrupt = {}
  Peer = {}
  Waiters = {}
  Me <- AllMine
  Limit = 1
PROPERTIES
  EventuallyClaimed
