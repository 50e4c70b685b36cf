SPECIFICATION Spec
CONSTANTS
    Writers = {w1, w2}
    MaxEvents = 1
CHECK_DEADLOCK FALSE
PROPERTY
    TornTolerated
