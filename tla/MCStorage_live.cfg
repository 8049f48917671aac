\* Jobs, requests and faults are bounded: a behaviour may end.
SPECIFICATION FairSpec
CHECK_DEADLOCK FALSE
CONSTANTS
    None = None
    Torn = Torn
    IntentBytes = IntentBytes
    a1 = a1
    a2 = a2
    b1 = b1
    b2 = b2
    Parts = {"locks_live", "generations_live", "releases_live", "validation", "tree", "extraction_live"}
PROPERTIES
    OperationsEnd
