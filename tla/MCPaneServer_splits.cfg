\* Two clients that split panes at the same time, while windows are renamed.
CONSTANTS
    a = a
    b = b
    w1 = w1
    w2 = w2
    h1 = h1
    NoName = noName
    Names = {noName, w1, w2}
    TargetIDs = {a, b, c}
    Splits = {h1}
    WinRefs = {0, 1, 2}
    PaneRefs = {0, 1, 2, 3, 4, 5, 6, 7}
    LayoutNames = {}
    MaxPanes = 2
    Clients = {k1, k2}
    Ops = {"windowCreate", "windowRename", "windowFocus", "split"}
    Groups = {"ci", "other"}
    GroupOf <- GroupsByID
    InitWindows <- TwoWindows
SPECIFICATION Spec
INVARIANTS PanesMatchPipelines OnePanePerID
