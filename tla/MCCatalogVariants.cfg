SPECIFICATION Spec
CONSTANTS
  Product = {x}
  Variant = {t, u, v}
  Option = {colour}
  Value = {red, blue}
  Code = {k}
  OptionOf <- Defined
  None = None
  colour = colour
SYMMETRY Interchangeable
INVARIANTS
  VariantsTypeOK
  EveryProductHasItsDefault
PROPERTY OptionsOutliveTheirVariants
