SPECIFICATION CommandSpec
CONSTANTS
  Attempt = {a1, a2, a3}
  Key = {k1, k2}
  Version = {0, 1, 2}
  NoRequest = NoRequest
  NoRow = NoRow
  Pending = Pending
  Refused = Refused
  Free = Free
CHECK_DEADLOCK FALSE
INVARIANTS
  CommandTypeOK
  EffectsAreRecorded
PROPERTIES
  KeepsThePromise
  EveryAttemptEnds
