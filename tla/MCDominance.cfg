CONSTANTS
  Codes = {e, b1, b2, b3}
  Entry = e
  MaxSucc = 2
SYMMETRY Symmetry
SPECIFICATION Spec
CHECK_DEADLOCK FALSE
INVARIANTS EstimatesOK ExactIfDone
