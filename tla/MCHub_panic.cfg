\* Two broadcasts over the copies of two connections.
CONSTANTS
    Conns = {c1, c2}
    Tokens = {t}
    Owner = owner
    Casters = {b1, b2}
    BufSize = 1
    MaxFrames = 2
SPECIFICATION Spec
INVARIANTS NoSendOnClosed
SYMMETRY Symmetry
CHECK_DEADLOCK FALSE
