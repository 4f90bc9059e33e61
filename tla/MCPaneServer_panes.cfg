\* One request at a time, of every kind, over two windows of two panes and one saved
\* layout.
CONSTANTS
    a = a
    b = b
    w1 = w1
    w2 = w2
    h1 = h1
    NoName = noName
    Names = {noName, w1, w2}
    TargetIDs = {a, b}
    Splits = {h1}
    WinRefs = {0, 1, 2, 3}
    PaneRefs = {0, 1, 2, 3, 4, 5, 6, 7}
    LayoutNames = {l}
    MaxPanes = 2
    Clients = {k1}
    Ops = {"windowCreate", "windowClose", "windowRename", "windowFocus", "split", "paneClose", "groupKill", "swap", "layoutSave", "layoutApply"}
    Groups = {"ci", "other"}
    GroupOf <- GroupsByID
    InitWindows <- TwoWindows
SPECIFICATION Spec
INVARIANTS NoSharedPanes PanesHavePipelines
PROPERTIES KillEmptiesGroup NoLiveTeardown
