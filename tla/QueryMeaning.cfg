SPECIFICATION Spec
CONSTANTS
    Words = {w1, w2}
    MaxTokens = 7
INVARIANTS
    TypeOK
    AcceptedMeansOneThing
    MeaningfulIsAccepted
    MarkedWordsSuffice
CHECK_DEADLOCK FALSE
