CONSTANTS
  Vars = {u, v}
  NumInsns = 4
  MaxUses = 1
SPECIFICATION FairSpec
CHECK_DEADLOCK FALSE
INVARIANTS WorklistOK LivenessExact 
PROPERTIES UpdateEnds
