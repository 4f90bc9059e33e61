CONSTANTS
    a = a
    b = b
    w1 = w1
    w2 = w2
    h = h
    x = x
    y = y
    q = q
    NoName = noName
    Names = {noName, w1, w2, w3}
    TargetIDs = {a, b, c}
    Splits = {h}
    WinRefs = {0}
    PaneRefs = {0}
    LayoutNames = {}
    MaxPanes = 2
    NoID = noID
    Slots = {s1, s2}
    StartWindows <- TwoWindows
    MaxCommands = 3
    MaxInbox = 2
    Panes = {a, b}
    NoPane = noPane
    Bindings <- KeyBindings
    FocusActions = {"pane.focus.left"}
    PromptActions = {"pane.split.h", "window.new"}
    DirectActions = {"pane.close", "window.next", "search.next"}
    PaneActions = {"pane.close", "pane.split.h"}
    Streams = {a, b}
    Texts = {x, y}
    Image = image
    Queries = {q}
    NoQuery = noQuery
    Finds <- OneMatches
    MaxBodyLines = 2
    ReconnectQueueLen = 1
    MaxImages = 1
    QueueLen = 2
    MaxLines = 5
    Kinds = {"image", "imageEnd", "svgEnd"}
    Filters = 1
    MaxRaw = 4
    MaxRead = 2
SPECIFICATION PartsSpec
INVARIANTS
    SoloSeesSession SoloClosesItsWindow
    TwoEscapesSettle MenuActsWhereOpened
    BodyIsTail MarksFitQuery
    NoneForgotten NoneSentAgain
    MirrorKeepsUp WholeBlocks
PROPERTIES
    TypedTextIsText
CHECK_DEADLOCK FALSE
