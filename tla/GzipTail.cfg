SPECIFICATION GzipSpec
CONSTANTS
    Lines <- RecordLines
    IntervalSeconds = 2
    CountThreshold = 50
    MaxSkipped = 2
    MaxLines = 3
    Queries <- Intervals
    MaxResults = 2
    MaxBatch = 1
    BufferSize = 3
    MaxCarry = 4
    LongSize = 5
INVARIANTS
    GzipFindsAll
CHECK_DEADLOCK FALSE
