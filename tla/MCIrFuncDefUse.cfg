CONSTANTS
  Vars = {v1, v2}
  Codes = {c1, c2}
  Insns = {i1, i2}
  Slots = {s1, s2}
  Const = Const
  None = None
SYMMETRY Symmetry
SPECIFICATION Spec
CHECK_DEADLOCK FALSE
INVARIANTS TypeOK UsedAtComplete AssignedAtExact SsaForm WellFormed
