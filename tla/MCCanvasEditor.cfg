CONSTANTS
    Ids <- MCIds
    KindOf <- MCKindOf
    Cached <- MCCached
    NoteCount = 2
    Places = 2
    HistoryLimit = 2
    MaxRevision = 1
    MaxEdits = 3
    MaxEvents = 2
SPECIFICATION Spec
INVARIANTS
    TypeOK
    HistoryIsAPath
    PendingIsShown
    SelectionKeepsShape
CHECK_DEADLOCK FALSE
