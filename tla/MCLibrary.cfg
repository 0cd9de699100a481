SPECIFICATION Spec
CONSTANTS
 Projects = {"p","q"}
 Folders = {"f","g","h"}
 Notes = {"n","m"}
 Callers = {a, b}
 Names = {"old"}
 NewNames = {"old"}
 Flags = {"trashed"}
 None = None
 Shelves <- TheShelves
 MaxWalk = 3
 Wanted <- Ops
 MaxRequests = 3
INVARIANTS TypeOK RowsPointHome FoldersAreForest PagesAreNumbered
CHECK_DEADLOCK FALSE
