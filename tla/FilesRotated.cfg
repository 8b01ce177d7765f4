SPECIFICATION FairSpec
CONSTANTS
    Paths = {"log", "log.1"}
    Rotations <- MCRotations
    MaxRewrites = 1
    MaxSize = 2
    MaxChanges = 3
    MaxCrashes = 1
    NoFile = NoFile
    NoInfo = NoInfo
    NoIndex = NoIndex
    NoCache = NoCache
    MaxFailures = 1
INVARIANT TypeOK
INVARIANT MatchingIsCurrent
PROPERTY IndexConverges
