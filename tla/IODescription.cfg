CONSTANTS
    Devices = {"left", "right"}
    Platforms <- SameProtocol
    Edited <- LeftInitiator
    OwnElements <- TwoElements
    MaxElements = 3
SPECIFICATION Spec
INVARIANTS TypeOK WiresMeet
PROPERTY OutOfOrderIsReported
CHECK_DEADLOCK FALSE
