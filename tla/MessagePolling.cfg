CONSTANTS
    MaxTouches = 0
SPECIFICATION LayerSpec
PROPERTIES PollingGoesOn
CHECK_DEADLOCK FALSE
