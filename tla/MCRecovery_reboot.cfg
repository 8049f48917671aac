\* One restore of a fenced host and one reboot of the new one.
SPECIFICATION FairSpec
CHECK_DEADLOCK FALSE
CONSTANTS
    None = None
    a1 = a1
    a2 = a2
    b1 = b1
    b2 = b2
    Parts = {"restore_reboot"}
PROPERTIES
    RecoveryEnds
