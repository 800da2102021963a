CONSTANTS
    CookieLen = 2
    MaxExtensions = 2
    Faults = 2
    ShortPayload = 12
    FaultBytes = {0, 3, 8}
SPECIFICATION Spec
CHECK_DEADLOCK FALSE
INVARIANTS DecodesAsReference OneEncoding
