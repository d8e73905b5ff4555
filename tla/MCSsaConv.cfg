CONSTANTS
  Codes = {e, b1, b2, b3}
  Entry = e
  MaxSucc = 2
  MaxDefs = 2
  MaxUses = 1
SYMMETRY Symmetry
SPECIFICATION Spec
CHECK_DEADLOCK FALSE
INVARIANTS ConversionOK AgreeIfPlaced
