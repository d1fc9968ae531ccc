SPECIFICATION MCSpec
CONSTANTS
  a1 = a1
  a2 = a2
  r1 = r1
  r2 = r2
  None = None
  Broken = Broken
  p = p
  q = q
  Aliases = {a1, a2}
  Payloads = {p, q}
  Of <- MCOf
  Ids = {1}
  Files <- TwoFiles
  Default = a2
  Dest <- MCDest
  Body <- MCBody
  Receivers = {r1, r2}
  Appliers = {r2}
  Drops <- MCDrops
  BatchSize = 1
INVARIANTS
  CommittedBeforeAck ArchivedAccepted EnqueuedKept
CHECK_DEADLOCK FALSE
