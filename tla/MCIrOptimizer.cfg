CONSTANTS
  c1 = c1  c2 = c2  c3 = c3
  v1 = v1  v2 = v2  v3 = v3  a1 = a1
  s1 = s1  s2 = s2
  Codes = {c1, c2, c3}
  Vars = {v1, v2, v3, a1}
  Insns <- MCInsns
  Slots = {s1, s2}
  Const = Const
  None = None
SPECIFICATION MCSpec
CHECK_DEADLOCK FALSE
INVARIANTS UsedAtSound FlowConsistent PhisHavePaths  OptimizerOK
PROPERTIES OptimizeEnds
