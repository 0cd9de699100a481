SPECIFICATION SpecTabs
CONSTANTS
 Projects = {"p"}
 Folders = {"f","g"}
 Notes = {"n"}
 Callers = {tab, b}
 Tabs = {tab}
 Names = {"old","new"}
 NewNames = {"new"}
 Flags = {"trashed"}
 None = None
 Shelves <- TheShelves
 MaxWalk = 3
 Wanted = {"deleteProject","createFolder","renameFolder","deleteFolder","mark","deleteNote"}
 MaxRequests = 2
 MaxFetches = 2
 MaxDrops = 1
INVARIANTS SettledTabsAgree
CHECK_DEADLOCK FALSE
