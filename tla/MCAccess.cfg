SPECIFICATION Spec
CONSTANTS
    Devices = {d1, d2}
    Admins = {a1, a2}
    Keys = {k1, k2}
    Tokens = {t1, t2}
    Presets = {t0, None}
    Colors = {black, red}
    Black = black
    MaxColors = 2
    None = None
    Starts <- MCStarts
    Slots <- MCSlots
    MaxCeremonies = 2
    MaxSessions = 2
    MaxCommands = 2
    MaxEdits = 2
    MaxFailures = 1
SYMMETRY MCSymmetry
INVARIANTS TypeOK UsedOnce EnrolledHasKey PaletteSettles
CHECK_DEADLOCK FALSE
