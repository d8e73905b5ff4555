CONSTANT Bodies <- AllBodies
SPECIFICATION Spec
CHECK_DEADLOCK FALSE
INVARIANTS BlocksOK AgreeIfPlain
PROPERTIES KeepsUp
