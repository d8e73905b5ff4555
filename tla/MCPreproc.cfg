CONSTANTS
  Depth = 5
  MaxNest = 4
  MaxFiles = 4
  Programs <- AllPrograms
SPECIFICATION Spec
CHECK_DEADLOCK FALSE
INVARIANTS FilesOK KeepsActive MacrosAsInC
PROPERTIES Ends
