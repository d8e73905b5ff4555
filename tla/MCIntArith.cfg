CONSTANTS
  Widths = {2, 4}
  Host = 4
  RegBits = 4
SPECIFICATION Spec
CHECK_DEADLOCK FALSE
INVARIANTS  ReduceSoundIfPositive PromoteSoundIfUnsigned
