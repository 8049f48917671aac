\* Jobs, requests and faults are bounded: a behaviour may end.
SPECIFICATION Spec
SYMMETRY Symmetry
CHECK_DEADLOCK FALSE
CONSTANTS
    None = None
    Torn = Torn
    IntentBytes = IntentBytes
    a1 = a1
    a2 = a2
    b1 = b1
    b2 = b2
    Parts = {"store", "intake", "locks", "locks_live", "helper", "generations", "generations_unordered", "bootstrap", "releases", "erasure", "routes", "validation", "tree", "zip_names", "zip_layout", "extraction", "bundle", "bundle_edits", "bounds"}
INVARIANTS
    StoreIsAtomic
    IntakeKeepsPromises
    LocksAreSafe
    HelpersWorkUnderLease
    GenerationsAreSafe
    ReleasesAreWhole
    CaddyServesRecords
    ArchivesAreExact
    BundlesArePortable
PROPERTIES
    ExtractionIsExact
