CONSTANTS
    p1 = p1
    p2 = p2
    n1 = n1
    n2 = n2
    \* A window may hold two panes; the saved layout may name one window.
    NoName = noName
    Names = {noName, w1, w2, w3}
    TargetIDs = {a}
    Splits = {h}
    WinRefs = {0}
    PaneRefs = {0}
    LayoutNames = {l}
    MaxPanes = 2
    \* Three slots: the capacity asked for is above the maximum, which wins.
    Line = {a, b, c}
    Blank = blank
    AskedCap = 5
    DefaultScrollbackCap = 2
    MaxScrollbackCap = 3
    Procs = {p1, p2}
    Ports = {n1, n2}
    Assignments <- OneOrTwoPorts
    NoProc = noProc
    Sources = {here, there}
    Loopback = {here}
    Tokens = {k}
    NoToken = noToken
    Slots = {r1}
    NoAuth = FALSE
    AdminLocalOnly = TRUE
    rateLimitRequests = 2
    rateLimitWindow = 1
    DefaultExpiry = 2
    Asked <- AskedFor
    MaxTime = 4
    Panes = {a, b}
    Processes = {x1, x2, x3}
    NoProcess = noProcess
    Requests = {r1, r2}
    MarkPanes = {a}
    MarkNames = {m}
    LineIndexes <- AskedLines
    Markers = {r1, r2}
    MaxStores = 2
SPECIFICATION PartsSpec
INVARIANTS
    NamesUnique ActiveInRange
    Reachable Listed
    EndedTokensRefused RateLimited NoStrayTerminal MarksOfThisPane
PROPERTY
    Refinement
CHECK_DEADLOCK FALSE
