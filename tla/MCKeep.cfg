SPECIFICATION KeepSpec
CONSTANTS
  Handles = {h1, h2}
  Surfaces = {s1, s2}
  Ttys = {y1, y2}
  Keepers = {k1, k2}
  NoKey = NoKey
  Blank = Blank
  Odd = Odd
  Retracted = Retracted
  NoSurface = NoSurface
  NoKeeper = NoKeeper
  NoWake = NoWake
  NoGen = NoGen
  NoRow = NoRow
  MaxMoves = 1
  MaxBorn = 2
  MaxJobs = 2
  A = A
  B = B
  main = main
  side = side
  Legacy = Legacy
  Trees = {A, B}
  Sessions = {main, side}
  LegacyNames = {Legacy}
  DefaultNamed = {A}
  InGit = {A}
  Base = Base
  Unset = Unset
  Elsewhere = Elsewhere
  Correspondents = {h1, h2}
  Present <- MCPresent
  Setups <- MCSetups
  Strictness = {TRUE}
  Scopes <- MCScopes
SYMMETRY Alike
INVARIANTS
  OneRowEach StartsRegistered
  RepliesReturn PinnedSource ExplainedRouteSends
CHECK_DEADLOCK FALSE
