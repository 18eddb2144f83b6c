SPECIFICATION EditingSpec
CONSTANTS
  shop = shop
  north = north
  Location = {shop}
  Variant = {v}
  Branch = {north}
  BranchOf <- MCBranchOf
  Issuing = {shop}
  Receiving = {shop}
  Transit = {}
  MovementId = {m1, m2, m3}
  NoMovement = NoMovement
  NoLocation = NoLocation
  MaxQuantity = 2
  MaxVersion = 2
  Caller = {alice, bob}
  Nothing = Nothing
SYMMETRY Symmetry
CHECK_DEADLOCK FALSE
PROPERTIES
  PostedFactsStand
  ActsOnWhatWasSeen
