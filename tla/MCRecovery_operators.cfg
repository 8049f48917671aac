\* Jobs, requests and faults are bounded: a behaviour may end.
SPECIFICATION Spec
SYMMETRY Symmetry
CHECK_DEADLOCK FALSE
CONSTANTS
    None = None
    a1 = a1
    a2 = a2
    b1 = b1
    b2 = b2
    Parts = {"lease_losses", "lease_crash", "lease_github", "lease_roles", "obligations", "obligations_roles", "rollout", "rollout_phases", "upload", "download"}
PROPERTIES
    CredentialsAreClosed
    RolloutIsFenced
    ExchangesAreHonest
