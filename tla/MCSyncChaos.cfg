CONSTANTS
    Devices = {d1}
    Contents = {0, 1, 2, 3}
    Absent = Absent
    Deleted = Deleted
    Start <- Existing
    None = None
    MaxFailures = 1
    MaxHydrations = 0
    MaxDeletes = 1
    EditsDuringFlush = TRUE
    ResponsesGetLost = TRUE
SPECIFICATION FairSpec
CHECK_DEADLOCK FALSE
PROPERTIES
    AppliedOnce
    OutboxDrains
