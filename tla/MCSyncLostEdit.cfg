CONSTANTS
    Devices = {d1}
    Contents = {0, 1, 2}
    Absent = Absent
    Deleted = Deleted
    Start <- Existing
    None = None
    MaxFailures = 0
    MaxHydrations = 0
    MaxDeletes = 0
    EditsDuringFlush = FALSE
    ResponsesGetLost = FALSE
SPECIFICATION Spec
CHECK_DEADLOCK FALSE
INVARIANTS
    LastEditIsKept
