CONSTANTS
    n1 = n1
    Procs = {p1}
    Ports = {n1}
    Assignments <- OnePort
    NoProc = noProc
SPECIFICATION LifeSpec
PROPERTY StopEnds
CHECK_DEADLOCK FALSE
