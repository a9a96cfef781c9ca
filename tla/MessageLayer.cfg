CONSTANTS
    MaxTouches = 2
SPECIFICATION LayerSpec
INVARIANTS NoLostWakeup
PROPERTIES QueuesAreServed
CHECK_DEADLOCK FALSE
