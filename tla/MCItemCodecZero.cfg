CONSTANTS
    Byte = {0, 1, 2}
    MaxLen = 4
    MaxId = 3
SPECIFICATION Spec
INVARIANT ZeroEndedRoundTrip
CHECK_DEADLOCK FALSE
