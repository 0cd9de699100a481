CONSTANTS
    Devices = {d1, d2}
    Contents = {0, 1, 2}
    Absent = Absent
    Deleted = Deleted
    Start <- Existing
    None = None
    MaxFailures = 1
    MaxHydrations = 1
    MaxDeletes = 1
    EditsDuringFlush = FALSE
    ResponsesGetLost = FALSE
SPECIFICATION Spec
CHECK_DEADLOCK FALSE
SYMMETRY DeviceSymmetry
INVARIANTS
    TypeOK
    UncrossedEditIsKept
    CacheKeepsDraft
    OnlyEditorAgrees
