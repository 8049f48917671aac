\* Two jobs over a fresh and a full tenant, any two faults.
SPECIFICATION Safety
CHECK_DEADLOCK FALSE
SYMMETRY JobSymmetry
CONSTANTS
    j1 = j1  j2 = j2  t1 = t1  t2 = t2
    None = None
    Jobs = {j1, j2}
    Tenants = {t1, t2}
    Founded <- FreshAndFull
    Epoch = 2
    MaxRetained = 2
    MaxGenerations = 3
    MaxStartAttempts = 3
    Faults <- FaultKinds
    MaxFaults = 2
INVARIANTS
    ServedReleaseExists
    ActiveWithinAuthority
    TransitionNeverRefused
    AuditedExactlyOnce
    RetentionSettled
