SPECIFICATION Spec
CONSTANTS
    Paths = {"log", "log.1"}
    Rotations <- MCRotations
    MaxRewrites = 1
    MaxSize = 3
    MaxChanges = 3
    MaxCrashes = 0
    NoFile = NoFile
    NoInfo = NoInfo
    NoIndex = NoIndex
    NoCache = NoCache
    MaxFailures = 0
INVARIANT AllMatchingAreCurrent
