SPECIFICATION CountSpec
CONSTANTS
  shop = shop
  north = north
  Location = {shop}
  Variant = {v, w}
  Branch = {north}
  BranchOf <- MCBranchOf
  Issuing = {shop}
  Receiving = {shop}
  Transit = {}
  MovementId = {m1, m2}
  NoMovement = NoMovement
  NoLocation = NoLocation
  MaxQuantity = 1
  MaxVersion = 3
  Travelling = {}
  CountId = {c1, c2}
  Uncounted = Uncounted
  Unlocked = Unlocked
  NotCompared = NotCompared
  LockTime = 1
  MaxTime = 1
  MaxDelay = 1
SYMMETRY Symmetry
CHECK_DEADLOCK FALSE
INVARIANTS
  CountTypeOK
  ReservedIsCovered
PROPERTIES
  OvertakenCountsAreNotApplied
  SubmittedFiguresStand
  AppliedAsAWhole
