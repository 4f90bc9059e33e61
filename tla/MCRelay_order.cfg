CONSTANTS
    QueueLen = 2
    MaxLines = 5
SPECIFICATION Spec
INVARIANTS ArriveInOrder
