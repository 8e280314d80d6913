SPECIFICATION Spec
CONSTANTS
    c1 = c1
    c2 = c2
    Coordinators <- MCCoordinators
    N = 4
    Undoable <- MCUndoable
    MaxCrashes = 1
CHECK_DEADLOCK FALSE
INVARIANT
    CompensatedIsUndone
