CONSTANTS
    PageWidth = 102
    PageHeight = 132
    PageGap = 3
    MinSize = 1
    Scenes <- MCScenes
    Pointers <- MCPointers
    Screens <- MCScreens
    Scales = {0, 1, 3, 20}
    Pans <- MCPans
    MinScale = 1
    PlainScale = 1
    MaxScale = 10
    Reach = 1
    Padding = 1
    MinDrag = 1
    Home <- MCHome
    TopMargin = 10
    PageMargin = 5
    MaxSteps = 2
    MaxPulls = 2
    Far = 150
SPECIFICATION Spec
INVARIANTS
    TypeOK
    OnSheet
    InkFollowsBounds
    ResizeHolds
    ContentStaysInView
CHECK_DEADLOCK FALSE
