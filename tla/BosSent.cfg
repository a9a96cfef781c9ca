CONSTANTS
    MaxSales = 1
    MaxReceptions = 1
    MaxCrashes = 0
SPECIFICATION Spec
INVARIANTS SentIsAccepted
CHECK_DEADLOCK FALSE
