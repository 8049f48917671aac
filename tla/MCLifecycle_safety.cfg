\* Jobs, requests and faults are bounded: a behaviour may end.
SPECIFICATION Spec
SYMMETRY Symmetry
CHECK_DEADLOCK FALSE
CONSTANTS
    None = None
    a1 = a1
    a2 = a2
    b1 = b1
    b2 = b2
    c1 = c1
    c2 = c2
    Parts = {"replay_active", "replay_archived", "replay_drift", "route", "route_live", "route_drift", "namespace", "archive", "plan_one", "plan_two", "export"}
INVARIANTS
    ArchivesAreKept
PROPERTIES
    ReplayIsFaithful
    RoutesAreRecoverable
    NamespacesSurvive
    LifecycleIsSound
    ExportsAreHonest
