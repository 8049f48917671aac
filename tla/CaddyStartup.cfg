\* The platform is changed twice while starts fail up to eight times.
SPECIFICATION Spec
CHECK_DEADLOCK FALSE
CONSTANTS
    None = None
    MaxStartAttempts = 3
    MaxInputs = 2
    MaxPublished = 3
    MaxGenerations = 3
    MaxFailures = 8
INVARIANTS
    ReferencedGenerationsExist
    ActiveServiceRunsSelected
PROPERTIES
    RollbackOnlyWhenExhausted
    TransactionResolves
