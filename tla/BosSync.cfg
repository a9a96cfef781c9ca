CONSTANTS
    MaxSales = 3
    MaxReceptions = 1
    MaxCrashes = 1
SPECIFICATION Spec
INVARIANTS TypeOK AcceptedAtMostTwice SentIsSomeAccepted
PROPERTIES AcceptedInOrder EveryRequestEnds
CHECK_DEADLOCK FALSE
