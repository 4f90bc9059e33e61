\* Two clients whose requests interleave at every call, over two panes in two
\* windows.  Once nothing is left every request fails: the system may stop.
CONSTANTS
    a = a
    b = b
    w1 = w1
    w2 = w2
    h1 = h1
    NoName = noName
    Names = {noName, w1, w2}
    TargetIDs = {a, b}
    Splits = {h1}
    WinRefs = {0, 1}
    PaneRefs = {0, 1}
    LayoutNames = {}
    MaxPanes = 2
    Clients = {k1, k2}
    Ops = {"windowClose", "paneClose", "groupKill", "swap", "windowFocus"}
    Groups = {"ci", "other"}
    GroupOf <- GroupsByID
    InitWindows <- TwoWindows
SPECIFICATION FairSpec
PROPERTIES RequestsEnd
CHECK_DEADLOCK FALSE
