CONSTANTS
    Objects = {o1}
    Contents = {c1}
    Absent = Absent
    Deleted = Deleted
    Notes = {n1}
    OpIds = {p1, p2}
    ConflictIds = {k1, k2}
    Handlers = {h1, h2}
    NoConflict = NoConflict
    NoteOf <- OneNote
    ObjectOf <- OneObject
    MaxOperations = 2
    MaxBatch = 2
    MaxBase = 1
    MaxNoteRevision = 4
    MaxSnapshots = 1
SPECIFICATION Spec
SYMMETRY Interchangeable
CHECK_DEADLOCK FALSE
INVARIANTS
    TypeOK
    DecidedOncePerRow
    WatermarkCoversObjects
    QuietMeansBroadcast
PROPERTIES
    ChangesRaiseTheNote
    ImplementsOutcomes
