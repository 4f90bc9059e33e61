\* One connection, two broadcasters and room for one frame; two cycles, started over
\* one or two windows; every input of up to three lines but those with a line that
\* begins with # and is no heading.  All of it may stop.
CONSTANTS
    Conns = {c1}
    Tokens = {t}
    Owner = owner
    Casters = {b1, b2}
    BufSize = 1
    MaxFrames = 2
    w1 = w1
    w2 = w2
    NoName = noName
    Names = {noName, w1, w2}
    TargetIDs = {}
    Splits = {}
    WinRefs = {0}
    PaneRefs = {}
    LayoutNames = {}
    MaxPanes = 2
    Cycles = {y1, y2}
    NoCycle = noCycle
    Plans <- OneOrTwoWindows
    Kinds = {"fence", "heading", "rule", "quote", "item", "number", "zero", "cut", "digit", "blank", "text"}
    MaxLength = 3
SPECIFICATION PartsSpec
INVARIANTS NoGaps RevokedGetNothing NoLeak EachLineOnce
PROPERTIES DroppedEnd CyclesEnd RenderEnds
CHECK_DEADLOCK FALSE
