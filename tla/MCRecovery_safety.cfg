\* Jobs, requests and faults are bounded: a behaviour may end.
SPECIFICATION Spec
SYMMETRY Symmetry
CHECK_DEADLOCK FALSE
CONSTANTS
    None = None
    a1 = a1
    a2 = a2
    b1 = b1
    b2 = b2
    Parts = {"rotation", "rotation_late", "restored_audit", "witness_formats", "witness_cache", "lineage", "capture", "capture_rollout", "restore", "reconcile", "mapping"}
INVARIANTS
    CapturesAreRestorable
PROPERTIES
    AuditHistoryKept
    LineageIsSingle
    RestoreIsGated
    ReconciliationIsFaithful
