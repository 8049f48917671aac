\* One rollback or deploy, one power loss.
SPECIFICATION Spec
CHECK_DEADLOCK FALSE
CONSTANTS
    j1 = j1  j2 = j2  t1 = t1  t2 = t2
    None = None
    Jobs = {j1}
    Tenants = {t1}
    Founded <- OneTenantFull
    Epoch = 2
    MaxRetained = 2
    MaxGenerations = 3
    MaxStartAttempts = 3
    Faults <- HostFaults
    MaxFaults = 1
PROPERTIES
    RuntimeConverges
