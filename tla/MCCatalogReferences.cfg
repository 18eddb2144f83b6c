SPECIFICATION Spec
CONSTANTS
  Category = {a, b, c}
  Brand = {m}
  Product = {x}
  Request = {1, 2, 3}
  Asking = {"active", "retired"}
  None = None
SYMMETRY Interchangeable
CHECK_DEADLOCK FALSE
INVARIANTS
  CategoriesFormATree
  LiveProductsHaveLiveBrands
  OnlyTheTreeDeadlocks
