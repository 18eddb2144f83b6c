SPECIFICATION Spec
CONSTANTS
  shop = shop
  transit = transit
  store = store
  north = north
  south = south
  Location = {shop, transit, store}
  Variant = {v}
  Branch = {north, south}
  BranchOf <- MCBranchOf
  Issuing = {shop}
  Receiving = {shop, store}
  Transit = {transit}
  MovementId = {m1, m2, m3, m4}
  ReservationId = {r1}
  TransferId = {t1, t2}
  NoMovement = NoMovement
  NoLocation = NoLocation
  Never = Never
  MaxQuantity = 2
  MaxVersion = 2
  MaxTime = 1
  MaxDelay = 1
SYMMETRY Symmetry
CHECK_DEADLOCK FALSE
CONSTRAINT StockArrivesAtTheShop
INVARIANTS
  TypeOK
  OnHandIsStandingMovements
  ReversalsAreReciprocal
  ReservedIsCovered
  ReservedIsActiveHolds
  InTransitIsShipped
  SetAsideStockIsThere
  WorkflowMovementsHaveOneOwner
PROPERTIES
  TerminalIsFinal
  ImplementsWriters
