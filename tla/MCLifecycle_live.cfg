\* Jobs, requests and faults are bounded: a behaviour may end.
SPECIFICATION FairSpec
CHECK_DEADLOCK FALSE
CONSTANTS
    None = None
    a1 = a1
    a2 = a2
    b1 = b1
    b2 = b2
    c1 = c1
    c2 = c2
    Parts = {"intake_live", "replay_live", "route_live", "namespace_live", "archive_live", "plan_live", "export_live"}
PROPERTIES
    JobsSettle
