CONSTANTS
  Vars = {u, v, w, x}
  NumRegs = 2
  CalleeSave = {1}
SPECIFICATION Spec
CHECK_DEADLOCK FALSE
INVARIANTS VarsApart UnconstrainedColored FixedApartIfFree
SYMMETRY Symmetry
