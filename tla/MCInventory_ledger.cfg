SPECIFICATION Spec
CONSTANTS
  shop = shop
  transit = transit
  store = store
  north = north
  south = south
  Location = {shop}
  Variant = {v}
  Branch = {north, south}
  BranchOf <- MCBranchOf
  Issuing = {shop}
  Receiving = {shop}
  Transit = {}
  MovementId = {m1, m2, m3}
  ReservationId = {}
  TransferId = {}
  NoMovement = NoMovement
  NoLocation = NoLocation
  Never = Never
  MaxQuantity = 2
  MaxVersion = 3
  MaxTime = 0
  MaxDelay = 0
SYMMETRY Symmetry
CHECK_DEADLOCK FALSE

INVARIANT LedgerReconstructsOnHand
