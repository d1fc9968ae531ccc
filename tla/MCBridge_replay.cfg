SPECIFICATION Spec
CONSTANTS
  a1 = a1
  a2 = a2
  r1 = r1
  r2 = r2
  None = None
  Broken = Broken
  p = p
  q = q
  Aliases = {a1, a2}
  Payloads = {p, q}
  Of <- MCOf
  Ids = {1}
  Files <- OneFile
  Default = a2
  Dest <- MCDest
  Body <- MCBody
  Receivers = {r1}
  Appliers = {}
  Drops <- NoDrops
  BatchSize = 1
INVARIANTS
  NoSecondMessage
CHECK_DEADLOCK FALSE
