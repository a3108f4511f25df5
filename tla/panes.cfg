SPECIFICATION Spec
CONSTANTS
    Chans = {ca, cb}
    Server = server
    None = none
    Typed = {ca}
    Primary = primary
    PaneIds = {p1, p2}
    MaxWindows = 1
SYMMETRY Panels
CHECK_DEADLOCK FALSE
INVARIANTS LayoutInv WordsStayWithTheirBuffer
PROPERTIES LayoutKept
