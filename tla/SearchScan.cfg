SPECIFICATION GzipSpec
CONSTANTS
    Lines <- RecordLines
    IntervalSeconds = 2
    CountThreshold = 2
    MaxSkipped = 2
    MaxLines = 5
    Queries <- Intervals
    MaxResults = 2
    MaxBatch = 1
    BufferSize = 3
    MaxCarry = 4
    LongSize = 5
INVARIANTS
    TypeOK
    QueriesFindIndexed
    IndexIsCanonical
    SearchTypeOK
    SearchIsScan
    AnswersAreRecords
    GzipTypeOK
    GzipIndexIsCanonical
    GzipAnswersAreFirst
CHECK_DEADLOCK FALSE
