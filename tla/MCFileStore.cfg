CONSTANTS
    o1 = o1
    o2 = o2
    x1 = x1
    x2 = x2
    Owners = {o1, o2}
    Objects = {x1, x2}
    Uploads = {u1, u2}
    Writers = {w1}
    Cleaners = {c1, c2}
    Digests = {1, 2}
    OwnerOf <- OneEach
    None = None
    Nobody = Nobody
    MaxUploads = 2
    MaxSnapshots = 1
    MaxParked = 1
    ProcessesDie = TRUE
SPECIFICATION Spec
SYMMETRY Interchangeable
INVARIANTS
    TypeOK
    RowsHaveBytes
    ObjectsHaveFiles
    QuietMeansNoOrphans
    CleanersDoNotDeadlock
