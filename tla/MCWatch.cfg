SPECIFICATION WatchSpec
CONSTANTS
  Names = {m1, m2, m3}
  MaxGen = 1
  FaultLimit = 1
  Modes = {"codex", "via"}
  InitialBudget = 1
  LifetimeCap = 2
  PayloadBytes = 2
  Places = {1, 2}
  NoFrame = NoFrame
  Absent = Absent
  MaxDirMoves = 2
  t1 = t1
  t2 = t2
  Agents = {g1, g2}
  Bridged = {g1}
  Tasks = {t1, t2}
  DependsOn <- MCDeps
  Nobody = Nobody
  NoTask = NoTask
  Single = FALSE
  MaxIds = 1
SYMMETRY NamesAlike
INVARIANTS
  FiniteReminders NoStackedPayload NoMissedArrival
  ClaimsHold NoMissedWork
PROPERTY ImplementsAdmission
CHECK_DEADLOCK FALSE
