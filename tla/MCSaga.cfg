SPECIFICATION FairSpec
CONSTANTS
    c1 = c1
    c2 = c2
    Coordinators <- MCCoordinators
    N = 4
    Undoable <- MCUndoable
    MaxCrashes = 3
CHECK_DEADLOCK FALSE
INVARIANTS
    TypeOK
    OutcomeIsTrue
    CleanUnwind
    AttemptsCoverEntries
PROPERTIES
    TerminalIsFrozen
    PromiseSpec
    Settles
