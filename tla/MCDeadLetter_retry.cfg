SPECIFICATION Spec
CONSTANTS
  Ids = {e1, e2}
  Procs = {p1, p2}
  Attempts = {t1, t2}
  None = None
  MaxRetries = 1
  CountBound = 2
SYMMETRY Symmetry
INVARIANTS
  OriginalKept
  RedeliveredOnce
  DeliveredTrue
PROPERTIES
  AuditMonotone
