CONSTANTS
  a = a b = b c = c
  Vars = {a, b, c}
  NumRegs = 2
  CalleeSave = {1}
  Functions <- AllFunctions
  MaxSpills = 5
SPECIFICATION FairSpillSpec
CHECK_DEADLOCK FALSE
INVARIANTS SpillOK
PROPERTIES SpillEnds
