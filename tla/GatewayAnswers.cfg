SPECIFICATION FairSpec
CONSTANTS
    Agents = {1, 2}
    Paths = {"a.log", "b.gz"}
    Times = {2, 3, 4}
    LastTime = 4
    IntervalSeconds = 2
    Crowded = {2}
    Zipped = {"b.gz"}
    MaxResults = 1
    MostResults = 2
    Intervals <- MCIntervals
    FirstFiles <- MCFirstFiles
    MaxChanges = 2
    NoFile = NoFile
INVARIANTS
    TypeOK
    SearchIsComplete
    ListIsComplete
    SearchIsSound
PROPERTIES
    IsService
    RequestsEnd
