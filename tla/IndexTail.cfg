SPECIFICATION Spec
CONSTANTS
    Lines <- TailLines
    IntervalSeconds = 2
    CountThreshold = 50
    MaxSkipped = 50
    MaxLines = 4
INVARIANTS
    AllLinesAreFound
CHECK_DEADLOCK FALSE
