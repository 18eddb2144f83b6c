SPECIFICATION Spec
CONSTANTS
  Movement = {1, 2}
  Reservation = {v}
  Scan = {s, t}
  Repair = {p}
  Damaged <- DamagedRows
  Finding = {1, 2}
  ChunkSize = 1
  Lifetime = 1
  MaxDelay = 1
  MaxTime = 1
  MaxVersion = 2
  None = None
SYMMETRY Interchangeable
CHECK_DEADLOCK FALSE
PROPERTY RepairsLoseNothing
