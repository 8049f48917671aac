\* Jobs, requests and faults are bounded: a behaviour may end.
SPECIFICATION FairSpec
CHECK_DEADLOCK FALSE
CONSTANTS
    None = None
    a1 = a1
    a2 = a2
    b1 = b1
    b2 = b2
    Parts = {"rotation_live", "restored_audit_live", "lineage_live", "capture_rollout", "capture_live", "restore_live", "reconcile_live", "mapping_live", "helper_live", "obligations_live", "rollout_live", "download_live"}
PROPERTIES
    RecoveryEnds
