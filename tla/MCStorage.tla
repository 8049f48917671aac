-------------------------- MODULE MCStorage --------------------------
(***************************************************************************)
(* The disk and the files of the host: the intake of requests and their    *)
(* bytes (JobIntake), the state store and its locks (StateStore,           *)
(* HostLocks), the archive helpers that work under a lent lock             *)
(* (ArchiveHelper), Caddy generations, their configuration and its         *)
(* validation (GenerationStore, CaddyRoutes, CaddyValidation), releases    *)
(* and what is extracted into them (ReleaseStore, ZipStructure,            *)
(* ZipExtraction, TreeMeasurement) and the bundles a tenant takes away     *)
(* (PortableBundle, PortableBounds).                                       *)
(*                                                                         *)
(* A behaviour belongs to one part, an instance of one module with         *)
(* constants of its own, and stays in it: the variable part never changes, *)
(* v1, v2, ... are the variables of the part's module in the order of      *)
(* their declaration, and the ones it does not need are None. Parts, a     *)
(* constant, is the set of instances a run explores. What is checked of a  *)
(* part is what its module defines; invariants and step properties are     *)
(* guarded by the part they are about.                                     *)
(*                                                                         *)
(* a1 and a2, b1 and b2 are identities that nothing tells apart, whatever  *)
(* a part uses them for. The instances whose constants name one of a pair  *)
(* alone are the ones of the liveness run, which uses no symmetry.         *)
(***************************************************************************)
EXTENDS Naturals, Sequences, TLC, TLAPS

CONSTANTS
    Parts, None, Torn, IntentBytes, a1, a2, b1, b2

VARIABLES
    part, v1, v2, v3, v4, v5, v6, v7, v8, v9, v10, v11, v12, v13, v14

vars == <<part, v1, v2, v3, v4, v5, v6, v7, v8, v9, v10, v11, v12, v13, v14>>


\* A root with a file and a directory that holds up to two more files.
TreeDirectories == {<< >>, <<2>>}
TreeShape == TreeDirectories \cup {<<1>>, <<2, 1>>, <<2, 2>>}

\* Names of small archives. "e" is an accented letter and "d" the same letter
\* decomposed; "A" folds to "a".
Letters == {"index", "a", "A", "b", "e", "d", "..", "C:", "CDN", "cdn"}
NormalForm == [c \in Letters |-> IF c = "d" THEN "e" ELSE c]
Folded == [c \in Letters |-> CASE c = "A" -> "a" [] c = "CDN" -> "cdn" [] OTHER -> c]
NameSources ==
    {<<"index">>, <<"a">>, <<"A">>, <<"e">>, <<"d">>, <<"a", "b">>, <<"A", "a">>, <<"d", "a">>,
     <<"index", "a">>, <<"a", "..">>, <<"C:">>, <<"CDN">>, <<"b", "a", "a">>, << >>}

AnAttribute(u, dos, label) == [unix |-> u, dos |-> dos, label |-> label]
OneAttribute == {AnAttribute("none", FALSE, FALSE)}
AllAttributes == OneAttribute \cup
    {AnAttribute("none", TRUE, FALSE), AnAttribute("regular", FALSE, FALSE), AnAttribute("directory", TRUE, FALSE),
     AnAttribute("special", FALSE, FALSE), AnAttribute("regular", TRUE, FALSE), AnAttribute("none", FALSE, TRUE)}

SomeData(m, c, x, k) == [method |-> m, compressed |-> c, expanded |-> x, crc |-> k]
NoData == {SomeData("stored", 0, 0, 0)}
ManyData == NoData \cup
    {SomeData("stored", 1, 1, 1), SomeData("deflate", 1, 2, 1), SomeData("deflate", 2, 1, 1), SomeData("deflate", 0, 1, 1),
     SomeData("stored", 1, 2, 1), SomeData("deflate", 1, 3, 1), SomeData("other", 1, 1, 1)}

\* Two files, in and beside a directory that no record lists, and what their
\* compressed streams may turn out to hold.
ZipMembers == "index" :> [path |-> <<"index">>, size |-> 1] @@ "b" :> [path |-> <<"a", "b">>, size |-> 2]
AStream(n, crc, ends) == [yields |-> n, crc |-> crc, ends |-> ends]
ZipStreams ==
    {AStream(1, TRUE, TRUE), AStream(2, TRUE, TRUE), AStream(3, TRUE, TRUE), AStream(2, FALSE, TRUE), AStream(1, TRUE, FALSE)}

\* In the order of encoded paths "a.b" stands between the directory "a" and its file.
PathRank == <<"a">> :> 1 @@ <<"a.b">> :> 2 @@ <<"a", "b">> :> 3 @@ <<"index">> :> 4
SmallTree == <<"index">> :> "file"
DeepTree == <<"index">> :> "file" @@ <<"a">> :> "directory" @@ <<"a", "b">> :> "file"
WideTree == DeepTree @@ <<"a.b">> :> "file"

Store == INSTANCE StateStore WITH
    Procs <- {a1, a2}, Authorities <- {b1, b2}, MaxIntents <- 1, MaxTransactions <- 3,
    MaxFaults <- 2, IntentBytes <- IntentBytes,
    fs <- v1, data <- v2, owner <- v3, pc <- v4, op <- v5, seen <- v6, cand <- v7, temp <- v8,
    begun <- v9, faults <- v10, acked <- v11, created <- v12, condemned <- v13, removed <- v14

Intake == INSTANCE JobIntakeProofs WITH
    Sessions <- {a1, a2}, Correlations <- {b1, b2}, Bindings <- {"up", "plain"},
    Uploads <- {"up"}, MaxJobs <- 2, MaxFaults <- 1, MaxRequests <- 2, HandoffLimit <- 1,
    corr <- v1, jobs <- v2, results <- v3, intents <- v4, slot <- v5, intakeLock <- v6,
    stateLock <- v7, cursor <- v8, session <- v9, worker <- v10, answers <- v11, source <- v12,
    faults <- v13, requests <- v14

Locks == INSTANCE HostLocksProofs WITH
    Clients <- {a1, a2}, Helpers <- {"helper"}, MaxRequests <- 2, MaxLends <- 1, MaxKills <- 0,
    held <- v1, flocks <- v2, plan <- v3, blocking <- v4, task <- v5, waits <- v6,
    requests <- v7, lends <- v8, kills <- v9

LocksLive == INSTANCE HostLocksProofs WITH
    Clients <- {"client"}, Helpers <- {"helper"}, MaxRequests <- 3, MaxLends <- 1, MaxKills <- 1,
    held <- v1, flocks <- v2, plan <- v3, blocking <- v4, task <- v5, waits <- v6,
    requests <- v7, lends <- v8, kills <- v9

Helper == INSTANCE ArchiveHelper WITH
    MaxFaults <- 6,
    journal <- v1, proven <- v2, pc <- v3, request <- v4, reply <- v5, path <- v6, child <- v7,
    orphans <- v8, helper <- v9, made <- v10, faults <- v11

Generations == INSTANCE GenerationStore WITH
    Operations <- {"route", "deployment"}, Ordered <- TRUE, MaxPublished <- 6, MaxFaults <- 2,
    disk <- v1, dirty <- v2, made <- v3, next <- v4, intent <- v5, completed <- v6,
    reported <- v7, todo <- v8, errors <- v9, faults <- v10

Unordered == INSTANCE GenerationStore WITH
    Operations <- {"route"}, Ordered <- FALSE, MaxPublished <- 6, MaxFaults <- 2,
    disk <- v1, dirty <- v2, made <- v3, next <- v4, intent <- v5, completed <- v6,
    reported <- v7, todo <- v8, errors <- v9, faults <- v10

Bootstrap == INSTANCE GenerationStore WITH
    Operations <- {"bootstrap"}, Ordered <- TRUE, MaxPublished <- 6, MaxFaults <- 2,
    disk <- v1, dirty <- v2, made <- v3, next <- v4, intent <- v5, completed <- v6,
    reported <- v7, todo <- v8, errors <- v9, faults <- v10

GenerationsLive == INSTANCE GenerationStore WITH
    Operations <- {"route", "deployment", "bootstrap"}, Ordered <- TRUE, MaxPublished <- 5,
    MaxFaults <- 1,
    disk <- v1, dirty <- v2, made <- v3, next <- v4, intent <- v5, completed <- v6,
    reported <- v7, todo <- v8, errors <- v9, faults <- v10

Releases == INSTANCE ReleaseStore WITH
    Operations <- {"deploy"}, Files <- 2, MaxReleases <- 3, MaxDeployments <- 6, MaxFaults <- 3,
    disk <- v1, next <- v2, records <- v3, intent <- v4, tombstone <- v5, gone <- v6,
    todo <- v7, errors <- v8, faults <- v9

Erasure == INSTANCE ReleaseStore WITH
    Operations <- {"deploy", "delete"}, Files <- 2, MaxReleases <- 2, MaxDeployments <- 4,
    MaxFaults <- 2,
    disk <- v1, next <- v2, records <- v3, intent <- v4, tombstone <- v5, gone <- v6,
    todo <- v7, errors <- v8, faults <- v9

ReleasesLive == INSTANCE ReleaseStore WITH
    Operations <- {"deploy"}, Files <- 2, MaxReleases <- 2, MaxDeployments <- 4, MaxFaults <- 2,
    disk <- v1, next <- v2, records <- v3, intent <- v4, tombstone <- v5, gone <- v6,
    todo <- v7, errors <- v8, faults <- v9

Routes == INSTANCE CaddyRoutes WITH
    Identities <- <<"first", "second">>, Slugs <- {a1, a2}, Deployments <- {b1, b2},
    Authorities <- {"one", "two"}, MaxGenerations <- 2, MaxDamage <- 1,
    records <- v1, gen <- v2, conf <- v3, meta <- v4, policy <- v5, built <- v6, damaged <- v7

Validation == INSTANCE CaddyValidation WITH
    pc <- v1, cmd <- v2, result <- v3, broken <- v4, late <- v5, proc <- v6, reaped <- v7,
    code <- v8, child <- v9, output <- v10, scope <- v11, missed <- v12, token <- v13,
    root <- v14

Tree == INSTANCE TreeMeasurement WITH
    Shape <- TreeShape, Directories <- TreeDirectories, Chunks <- 2, MaxEntries <- 3,
    MaxChanges <- 2,
    tree <- v1, clock <- v2, phase <- v3, stack <- v4, entries <- v5, root <- v6, left <- v7,
    chunks <- v8, digest <- v9, start <- v10, instant <- v11

ZipNames == INSTANCE ZipStructure WITH
    Sources <- NameSources, NFC <- NormalForm, CaseFold <- Folded, Unsafe <- {".."},
    Drives <- {"C:"}, Reserved <- "cdn", IndexName <- "index", Attributes <- AllAttributes,
    Data <- NoData, Counts <- {0, 1, 2, 3, 4}, Extents <- {2}, Offsets <- {0, 1},
    Extras <- {0, 1}, MaxEntries <- 3, MaxDepth <- 2, MaxFile <- 2, MaxExpanded <- 3,
    MaxRatio <- 2,
    verdict <- v1, phase <- v2, end <- v3, entries <- v4, claims <- v5, folded <- v6,
    done <- v7, members <- v8

ZipLayout == INSTANCE ZipStructure WITH
    Sources <- {<<"index">>, <<"a">>}, NFC <- NormalForm, CaseFold <- Folded, Unsafe <- {".."},
    Drives <- {"C:"}, Reserved <- "cdn", IndexName <- "index", Attributes <- OneAttribute,
    Data <- ManyData, Counts <- {1, 2, 3}, Extents <- {2, 3, 4}, Offsets <- {0, 1, 2},
    Extras <- {0, 1}, MaxEntries <- 3, MaxDepth <- 2, MaxFile <- 2, MaxExpanded <- 2,
    MaxRatio <- 2,
    verdict <- v1, phase <- v2, end <- v3, entries <- v4, claims <- v5, folded <- v6,
    done <- v7, members <- v8

Extraction == INSTANCE ZipExtraction WITH
    Members <- ZipMembers, Paths <- {<<"index">>, <<"a">>, <<"a", "b">>},
    Streams <- ZipStreams, Total <- 9, Floor <- 1, MaxChanges <- 3,
    archive <- v1, before <- v2, pc <- v3, left <- v4, expanded <- v5, tree <- v6, dirty <- v7,
    name <- v8, identity <- v9, free <- v10, changes <- v11, failed <- v12

ExtractionLive == INSTANCE ZipExtraction WITH
    Members <- ZipMembers, Paths <- {<<"index">>, <<"a">>, <<"a", "b">>},
    Streams <- ZipStreams, Total <- 9, Floor <- 1, MaxChanges <- 1,
    archive <- v1, before <- v2, pc <- v3, left <- v4, expanded <- v5, tree <- v6, dirty <- v7,
    name <- v8, identity <- v9, free <- v10, changes <- v11, failed <- v12

Bundle == INSTANCE PortableBundle WITH
    Trees <- {SmallTree, DeepTree, WideTree}, Rank <- PathRank, Index <- <<"index">>,
    Contents <- {1, 2}, Manifests <- {"m1", "m2"}, MaxEntries <- 4, MaxChanges <- 3,
    MaxEdits <- 0,
    tree <- v1, clock <- v2, pc <- v3, start <- v4, stack <- v5, children <- v6, entries <- v7,
    temp <- v8, output <- v9, written <- v10, copy <- v11, edits <- v12, verdict <- v13

BundleEdits == INSTANCE PortableBundle WITH
    Trees <- {SmallTree, DeepTree, WideTree}, Rank <- PathRank, Index <- <<"index">>,
    Contents <- {1, 2}, Manifests <- {"m1", "m2"}, MaxEntries <- 4, MaxChanges <- 0,
    MaxEdits <- 2,
    tree <- v1, clock <- v2, pc <- v3, start <- v4, stack <- v5, children <- v6, entries <- v7,
    temp <- v8, output <- v9, written <- v10, copy <- v11, edits <- v12, verdict <- v13

Bounds == INSTANCE PortableBounds WITH
    Batches <- {1249, 1250}, Lengths <- {1, 1024}, Sizes <- {0, 20971, 20977},
    Manifests <- {1, 16384},
    files <- v1, directories <- v2, filePaths <- v3, dirPaths <- v4, content <- v5,
    manifest <- v6

\* The variables after the first k, which a part with k variables leaves alone.
Unused13 == v14 = None
Kept13 == UNCHANGED <<v14>>
Unused12 == v13 = None /\ Unused13
Kept12 == UNCHANGED <<v13>> /\ Kept13
Unused11 == v12 = None /\ Unused12
Kept11 == UNCHANGED <<v12>> /\ Kept12
Unused10 == v11 = None /\ Unused11
Kept10 == UNCHANGED <<v11>> /\ Kept11
Unused9 == v10 = None /\ Unused10
Kept9 == UNCHANGED <<v10>> /\ Kept10
Unused8 == v9 = None /\ Unused9
Kept8 == UNCHANGED <<v9>> /\ Kept9
Unused7 == v8 = None /\ Unused8
Kept7 == UNCHANGED <<v8>> /\ Kept8
Unused6 == v7 = None /\ Unused7
Kept6 == UNCHANGED <<v7>> /\ Kept7

Init ==
    /\ part \in Parts
    /\ \/ part = "store" /\ Store!Init
       \/ part = "intake" /\ Intake!Init
       \/ part = "locks" /\ Locks!Init /\ Unused9
       \/ part = "locks_live" /\ LocksLive!Init /\ Unused9
       \/ part = "helper" /\ Helper!Init /\ Unused11
       \/ part = "generations" /\ Generations!Init /\ Unused10
       \/ part = "generations_unordered" /\ Unordered!Init /\ Unused10
       \/ part = "bootstrap" /\ Bootstrap!Init /\ Unused10
       \/ part = "generations_live" /\ GenerationsLive!Init /\ Unused10
       \/ part = "releases" /\ Releases!Init /\ Unused9
       \/ part = "erasure" /\ Erasure!Init /\ Unused9
       \/ part = "releases_live" /\ ReleasesLive!Init /\ Unused9
       \/ part = "routes" /\ Routes!Init /\ Unused7
       \/ part = "validation" /\ Validation!Init
       \/ part = "tree" /\ Tree!Init /\ Unused11
       \/ part = "zip_names" /\ ZipNames!Init /\ Unused8
       \/ part = "zip_layout" /\ ZipLayout!Init /\ Unused8
       \/ part = "extraction" /\ Extraction!Init /\ Unused12
       \/ part = "extraction_live" /\ ExtractionLive!Init /\ Unused12
       \/ part = "bundle" /\ Bundle!Init /\ Unused13
       \/ part = "bundle_edits" /\ BundleEdits!Init /\ Unused13
       \/ part = "bounds" /\ Bounds!Init /\ Unused6

Next ==
    /\ UNCHANGED part
    /\ \/ part = "store" /\ Store!Next
       \/ part = "intake" /\ Intake!Next
       \/ part = "locks" /\ Kept9 /\ Locks!Next
       \/ part = "locks_live" /\ Kept9 /\ LocksLive!Next
       \/ part = "helper" /\ Kept11 /\ Helper!Next
       \/ part = "generations" /\ Kept10 /\ Generations!Next
       \/ part = "generations_unordered" /\ Kept10 /\ Unordered!Next
       \/ part = "bootstrap" /\ Kept10 /\ Bootstrap!Next
       \/ part = "generations_live" /\ Kept10 /\ GenerationsLive!Next
       \/ part = "releases" /\ Kept9 /\ Releases!Next
       \/ part = "erasure" /\ Kept9 /\ Erasure!Next
       \/ part = "releases_live" /\ Kept9 /\ ReleasesLive!Next
       \/ part = "routes" /\ Kept7 /\ Routes!Next
       \/ part = "validation" /\ Validation!Next
       \/ part = "tree" /\ Kept11 /\ Tree!Next
       \/ part = "zip_names" /\ Kept8 /\ ZipNames!Next
       \/ part = "zip_layout" /\ Kept8 /\ ZipLayout!Next
       \/ part = "extraction" /\ Kept12 /\ Extraction!Next
       \/ part = "extraction_live" /\ Kept12 /\ ExtractionLive!Next
       \/ part = "bundle" /\ Kept13 /\ Bundle!Next
       \/ part = "bundle_edits" /\ Kept13 /\ BundleEdits!Next
       \/ part = "bounds" /\ Kept6 /\ Bounds!Next

Spec == Init /\ [][Next]_vars

\* The fairness of each part is its module's: the actions of all parts that stand at
\* the same place of their lists are one disjunction, since no behaviour has two parts.
Weak1 ==
    \/ part = "locks_live" /\ Kept9 /\ UNCHANGED part /\ (LocksLive!Step("client"))
    \/ part = "generations_live" /\ Kept10 /\ UNCHANGED part /\ (GenerationsLive!Work)
    \/ part = "releases_live" /\ Kept9 /\ UNCHANGED part /\ (ReleasesLive!Work)
    \/ part = "validation" /\ UNCHANGED part /\ (Validation!Agent)
    \/ part = "tree" /\ Kept11 /\ UNCHANGED part /\ (Tree!Measure)
    \/ part = "extraction_live" /\ Kept12 /\ UNCHANGED part /\ (ExtractionLive!Step)
Weak2 ==
    \/ part = "locks_live" /\ Kept9 /\ UNCHANGED part /\ (LocksLive!Step("helper"))
    \/ part = "validation" /\ UNCHANGED part /\ (Validation!Deadline)
Weak3 ==
    \/ part = "validation" /\ UNCHANGED part /\ (Validation!ScopeExpires)
Strong1 ==
    \/ part = "generations_live" /\ Kept10 /\ UNCHANGED part /\ (GenerationsLive!StartGate)
Strong2 ==
    \/ part = "generations_live" /\ Kept10 /\ UNCHANGED part /\ (GenerationsLive!CaddyStarts)

FairSpec ==
    /\ Spec
    /\ WF_vars(Weak1) /\ WF_vars(Weak2) /\ WF_vars(Weak3)
    /\ SF_vars(Strong1) /\ SF_vars(Strong2)

-----------------------------------------------------------------------------


\* Nothing tells the members of a pair apart.
Symmetry == Permutations({a1, a2}) \cup Permutations({b1, b2})

\* The constants of the instances are what their modules assume.
ASSUME InstancesAssumption ==
    /\ Helper!ArchiveHelperAssumption /\ Intake!IntakeAssumption
    /\ Store!StoreAssumption /\ Locks!LocksAssumption /\ LocksLive!LocksAssumption
    /\ Generations!GenerationAssumption /\ Unordered!GenerationAssumption /\ Bootstrap!GenerationAssumption
    /\ Releases!ReleaseAssumption /\ Erasure!ReleaseAssumption /\ Tree!TreeAssumption
    /\ ZipNames!ZipAssumption /\ ZipLayout!ZipAssumption /\ Extraction!ExtractionAssumption
    /\ Bundle!BundleAssumption /\ BundleEdits!BundleAssumption /\ Bounds!BoundsAssumption

\* The durable store (durable, repository): two processes, kills and losses of power
\* notwithstanding, no reader finds a torn document, an acknowledged job is there, only
\* condemned intents go, what was removed stays removed, and no inventory is refused.
StoreIsAtomic ==
    part = "store" =>
        /\ Store!TypeOK /\ Store!NeverTorn /\ Store!AcknowledgedJobKept /\ Store!OnlyCondemnedIntentsGo
        /\ Store!RemovedStaysRemoved /\ Store!InventoryNeverRefused

\* Issuance (entrypoints, submission, repository): whatever two sessions, a worker,
\* the reconciler and a crash do to each other, every correlation file and job the
\* reconciler may find can be completed, a correlation is answered with one job, and
\* accepted upload bytes are there until their job has ended.
IntakeKeepsPromises ==
    part = "intake" =>
        Intake!TypeOK /\ Intake!PairsReconcilable /\ Intake!OneAnswerPerCorrelation /\ Intake!AcceptedBytesKept

\* The host's locks: no two processes wait for each other, a lent lease excludes
\* everybody else until its last holder is gone, a capture sees a stable host, and who
\* believes it holds a lock holds it.
LocksAreSafe ==
    /\ part = "locks" =>
        Locks!TypeOK /\ Locks!NoDeadlock /\ Locks!LeaseExcludes /\ Locks!CaptureIsStable /\ Locks!HeldIsLocked
    /\ part = "locks_live" => LocksLive!NoDeadlock /\ LocksLive!LeaseExcludes /\ LocksLive!CaptureIsStable /\ LocksLive!HeldIsLocked

\* Archive helpers: only a helper that holds the coordinator's lease works, a proof
\* the journal accepts was made by the helper of that request, and two requests of a
\* unit never become one.
HelpersWorkUnderLease ==
    part = "helper" => Helper!TypeOK /\ Helper!WorkUnderLease /\ Helper!ProofsAreMade /\ Helper!JobsDoNotCoalesce

\* Caddy generations: the selected generation and the way back from it are whole on
\* disk whatever a loss of power undoes, completed transitions stay completed, and a
\* restart is ordered only after the selection is synced.
GenerationsAreSafe ==
    /\ part = "generations" =>
        /\ Generations!GenerationsVerify /\ Generations!SelectedIsDurable /\ Generations!WayBackKept
        /\ Generations!CompletedStays /\ Generations!NoContradiction
    /\ part = "generations_unordered" =>
        Unordered!TypeOK /\ Unordered!SelectedIsDurable /\ Unordered!WayBackKept /\ Unordered!CompletedStays
    /\ part = "bootstrap" =>
        /\ Bootstrap!GenerationsVerify /\ Bootstrap!SelectedIsDurable /\ Bootstrap!WayBackKept
        /\ Bootstrap!RestartIsSynced /\ Bootstrap!NoContradiction

\* Releases: the selected release and every recorded one are whole, a candidate is
\* kept until its deployment has ended, nothing unrecorded stays behind, and a deleted
\* tenant's releases are gone.
ReleasesAreWhole ==
    /\ part = "releases" =>
        /\ Releases!TypeOK /\ Releases!SelectedIsWhole /\ Releases!CandidateIsKept /\ Releases!CaptureIsWhole
        /\ Releases!NothingUnrecorded /\ Releases!NeverRefused
    /\ part = "erasure" =>
        Erasure!SelectedIsWhole /\ Erasure!CaptureIsWhole /\ Erasure!NothingUnrecorded /\ Erasure!ErasedCompletely

\* Caddy's configuration answers each host name as the records of that generation
\* promise, plain HTTP serves nothing, damaged documents are never loaded; and the
\* sandboxed validation of a candidate ends with nothing of it left, nothing of it
\* overlapping the next command and no credential shown to it.
CaddyServesRecords ==
    /\ part = "routes" =>
        /\ Routes!TypeOK /\ Routes!AnswersAsPromised /\ Routes!CanonicalHostsAreTheirOwn
        /\ Routes!PlainHttpServesNothing /\ Routes!RedirectsLead /\ Routes!MetadataTellsTheTruth
        /\ Routes!AliasRequestsNotLogged /\ Routes!OnlyBuiltIsLoaded /\ Routes!PolicyCarried
    /\ part = "validation" =>
        /\ Validation!TypeOK /\ Validation!ValidLeavesNothing /\ Validation!RefusedLeavesNothing
        /\ Validation!CommandsDoNotOverlap /\ Validation!CredentialWithheld

\* Uploaded archives: exactly the archives whose records tile the file and whose names
\* make one portable tree are admitted, and a tree that is measured while it changes is
\* either refused or the tree of one instant.
ArchivesAreExact ==
    /\ part = "zip_names" => ZipNames!TypeOK /\ ZipNames!AdmittedExactly /\ ZipNames!TreeIsExtractable
    /\ part = "zip_layout" => ZipLayout!RegionsTile
    /\ part = "tree" => Tree!TypeOK /\ Tree!MeasuresOneInstant /\ Tree!QuietTreeMeasured

\* Extraction: the result is the archive's tree, durable and within what was reserved,
\* a failed one leaves nothing, and nothing that is not its own is removed.
ExtractionIsExact ==
    /\ [](part = "extraction" =>
            /\ Extraction!TypeOK /\ Extraction!ResultIsArchive /\ Extraction!ResultIsDurable
            /\ Extraction!WithinReservation /\ Extraction!FloorKept /\ Extraction!FailureLeavesNothing)
    /\ [][part = "extraction" => Extraction!ForeignKept]_vars

\* Bundles: what is published is a snapshot of the tree and imports as that tree, only
\* canonical bundles are accepted, and every release the host admits fits the bounds of
\* the bundle that exports it.
BundlesArePortable ==
    /\ part = "bundle" =>
        Bundle!TypeOK /\ Bundle!PublishedIsSnapshot /\ Bundle!FailureLeavesNothing /\ Bundle!RoundTrip
    /\ part = "bundle_edits" => BundleEdits!AcceptedIsCanonical
    /\ part = "bounds" => Bounds!AlwaysExportable

\* What each part has to come back to.
Settled ==
    /\ part = "locks_live" => LocksLive!RequestsEnd
    /\ part = "generations_live" => GenerationsLive!TransitionsEnd
    /\ part = "releases_live" => ReleasesLive!DeploymentsEnd
    /\ part = "validation" => Validation!ValidationEnds /\ Validation!SurvivorsEnd
    /\ part = "tree" => Tree!MeasurementEnds
    /\ part = "extraction_live" => ExtractionLive!ExtractionEnds

\* Lock plans, generation and release transitions, validations, measurements and
\* extractions end, whatever the binary, the archive or a loss of power does to them.
OperationsEnd == []<>Settled

-----------------------------------------------------------------------------
\* The properties of the parts whose modules are proved, for every behaviour of
\* the instances. A behaviour that starts in a part stays in it and is one of the
\* part's module (StorePart, ...); that module's theorems say the rest.

In(p) == part = p

LEMMA StorePart == Spec => []~In("store") \/ Store!Spec
<1>1. Init /\ In("store") => Store!Init
  BY DEF Init, In
<1>2. In("store") /\ [Next]_vars => In("store")' /\ [Store!Next]_(Store!vars)
  BY DEF Next, vars, Store!vars, Store!local, Store!ghosts, In
<1>3. ~In("store") /\ [Next]_vars => ~In("store")'
  BY DEF Next, vars, In
<1>4. Spec /\ In("store") => Store!Init /\ [][Store!Next]_(Store!vars)
  BY <1>1, <1>2, PTL DEF Spec
<1>5. Store!Init /\ [][Store!Next]_(Store!vars) => Store!Spec
  BY DEF Store!Spec
<1>6. Spec /\ ~In("store") => []~In("store")
  BY <1>3, PTL DEF Spec
<1> QED
  BY <1>4, <1>5, <1>6, PTL

LEMMA IntakePart == Spec => []~In("intake") \/ Intake!Spec
<1>1. Init /\ In("intake") => Intake!Init
  BY DEF Init, In
<1>2. In("intake") /\ [Next]_vars => In("intake")' /\ [Intake!Next]_(Intake!vars)
  BY DEF Next, vars, Intake!vars, In
<1>3. ~In("intake") /\ [Next]_vars => ~In("intake")'
  BY DEF Next, vars, In
<1>4. Spec /\ In("intake") => Intake!Init /\ [][Intake!Next]_(Intake!vars)
  BY <1>1, <1>2, PTL DEF Spec
<1>5. Intake!Init /\ [][Intake!Next]_(Intake!vars) => Intake!Spec
  BY DEF Intake!Spec
<1>6. Spec /\ ~In("intake") => []~In("intake")
  BY <1>3, PTL DEF Spec
<1> QED
  BY <1>4, <1>5, <1>6, PTL

LEMMA LocksPart == Spec => []~In("locks") \/ Locks!Spec
<1>1. Init /\ In("locks") => Locks!Init
  BY DEF Init, In
<1>2. In("locks") /\ [Next]_vars => In("locks")' /\ [Locks!Next]_(Locks!vars)
  BY DEF Next, vars, Locks!vars, In
<1>3. ~In("locks") /\ [Next]_vars => ~In("locks")'
  BY DEF Next, vars, In
<1>4. Spec /\ In("locks") => Locks!Init /\ [][Locks!Next]_(Locks!vars)
  BY <1>1, <1>2, PTL DEF Spec
<1>5. Locks!Init /\ [][Locks!Next]_(Locks!vars) => Locks!Spec
  BY DEF Locks!Spec
<1>6. Spec /\ ~In("locks") => []~In("locks")
  BY <1>3, PTL DEF Spec
<1> QED
  BY <1>4, <1>5, <1>6, PTL

LEMMA LocksLivePart == Spec => []~In("locks_live") \/ LocksLive!Spec
<1>1. Init /\ In("locks_live") => LocksLive!Init
  BY DEF Init, In
<1>2. In("locks_live") /\ [Next]_vars => In("locks_live")' /\ [LocksLive!Next]_(LocksLive!vars)
  BY DEF Next, vars, LocksLive!vars, In
<1>3. ~In("locks_live") /\ [Next]_vars => ~In("locks_live")'
  BY DEF Next, vars, In
<1>4. Spec /\ In("locks_live") => LocksLive!Init /\ [][LocksLive!Next]_(LocksLive!vars)
  BY <1>1, <1>2, PTL DEF Spec
<1>5. LocksLive!Init /\ [][LocksLive!Next]_(LocksLive!vars) => LocksLive!Spec
  BY DEF LocksLive!Spec
<1>6. Spec /\ ~In("locks_live") => []~In("locks_live")
  BY <1>3, PTL DEF Spec
<1> QED
  BY <1>4, <1>5, <1>6, PTL

LEMMA HelperPart == Spec => []~In("helper") \/ Helper!Spec
<1>1. Init /\ In("helper") => Helper!Init
  BY DEF Init, In
<1>2. In("helper") /\ [Next]_vars => In("helper")' /\ [Helper!Next]_(Helper!vars)
  BY DEF Next, vars, Helper!vars, In
<1>3. ~In("helper") /\ [Next]_vars => ~In("helper")'
  BY DEF Next, vars, In
<1>4. Spec /\ In("helper") => Helper!Init /\ [][Helper!Next]_(Helper!vars)
  BY <1>1, <1>2, PTL DEF Spec
<1>5. Helper!Init /\ [][Helper!Next]_(Helper!vars) => Helper!Spec
  BY DEF Helper!Spec
<1>6. Spec /\ ~In("helper") => []~In("helper")
  BY <1>3, PTL DEF Spec
<1> QED
  BY <1>4, <1>5, <1>6, PTL

\* Every behaviour of the durable store keeps what StoreIsAtomic says of it, from
\* create_json, replace_json, publish_file and the sweeps of repository.py.
THEOREM StoreProved == Spec => []StoreIsAtomic
<1> DEFINE All == /\ Store!TypeOK /\ Store!NeverTorn /\ Store!AcknowledgedJobKept
                  /\ Store!OnlyCondemnedIntentsGo /\ Store!RemovedStaysRemoved
                  /\ Store!InventoryNeverRefused
<1>1. Store!StoreAssumption
  BY InstancesAssumption
<1>2. Store!Spec => []Store!TypeOK
  BY <1>1, Store!StoreTypes
<1>3. Store!Spec => []Store!NeverTorn
  BY <1>1, Store!RecordsWhole
<1>4. Store!Spec => []Store!AcknowledgedJobKept
  BY <1>1, Store!JobKept
<1>5. Store!Spec => []Store!OnlyCondemnedIntentsGo
  BY <1>1, Store!IntentKept
<1>6. Store!Spec => []Store!RemovedStaysRemoved
  BY <1>1, Store!IntentGone
<1>7. Store!Spec => []Store!InventoryNeverRefused
  BY <1>1, Store!InventoryAccepted
<1>8. All => StoreIsAtomic
  BY DEF StoreIsAtomic
<1>9. ~In("store") => StoreIsAtomic
  BY DEF StoreIsAtomic, In
<1> QED
  BY StorePart, <1>2, <1>3, <1>4, <1>5, <1>6, <1>7, <1>8, <1>9, PTL

\* Every behaviour of issuance keeps what IntakeKeepsPromises says of it, from the
\* intake slot, the pair repair, the retry recognition and the worker's claims.
THEOREM IntakeProved == Spec => []IntakeKeepsPromises
<1>1. Intake!IntakeAssumption
  BY InstancesAssumption
<1>2. Intake!Spec => []Intake!TypeOK
  BY <1>1, Intake!IntakeTypes
<1>3. Intake!Spec => []Intake!PairsReconcilable
  BY <1>1, Intake!PairsStayReconcilable
<1>4. Intake!Spec => []Intake!OneAnswerPerCorrelation
  BY <1>1, Intake!OneAnswer
<1>5. Intake!Spec => []Intake!AcceptedBytesKept
  BY <1>1, Intake!BytesStay
<1> DEFINE All == /\ Intake!TypeOK /\ Intake!PairsReconcilable
                  /\ Intake!OneAnswerPerCorrelation /\ Intake!AcceptedBytesKept
<1>6. All => IntakeKeepsPromises
  BY DEF IntakeKeepsPromises
<1>7. ~In("intake") => IntakeKeepsPromises
  BY DEF IntakeKeepsPromises, In
<1> QED
  BY IntakePart, <1>2, <1>3, <1>4, <1>5, <1>6, <1>7, PTL

\* Every behaviour of the locks keeps what LocksAreSafe says of it, from the plans
\* of locks.py, the leases lent to the archive services and the captures of Restic.
THEOREM LocksProved == Spec => []LocksAreSafe
<1>1. Locks!LocksAssumption /\ LocksLive!LocksAssumption
  BY InstancesAssumption
<1>2. Locks!Spec => []Locks!TypeOK
  BY <1>1, Locks!StacksSorted
<1>3. Locks!Spec => []Locks!NoDeadlock
  BY <1>1, Locks!NobodyWaitsInCircles
<1>4. Locks!Spec => []Locks!LeaseExcludes
  BY <1>1, Locks!LentLeaseExcludes
<1>5. Locks!Spec => []Locks!CaptureIsStable
  BY <1>1, Locks!CaptureUndisturbed
<1>6. Locks!Spec => []Locks!HeldIsLocked
  BY <1>1, Locks!RegisteredIsLocked
<1>7. LocksLive!Spec => []LocksLive!NoDeadlock
  BY <1>1, LocksLive!NobodyWaitsInCircles
<1>8. LocksLive!Spec => []LocksLive!LeaseExcludes
  BY <1>1, LocksLive!LentLeaseExcludes
<1>9. LocksLive!Spec => []LocksLive!CaptureIsStable
  BY <1>1, LocksLive!CaptureUndisturbed
<1>10. LocksLive!Spec => []LocksLive!HeldIsLocked
  BY <1>1, LocksLive!RegisteredIsLocked
<1> DEFINE Large == /\ Locks!TypeOK /\ Locks!NoDeadlock /\ Locks!LeaseExcludes
                    /\ Locks!CaptureIsStable /\ Locks!HeldIsLocked
<1> DEFINE Live == /\ LocksLive!NoDeadlock /\ LocksLive!LeaseExcludes
                   /\ LocksLive!CaptureIsStable /\ LocksLive!HeldIsLocked
<1>11. Spec => [](In("locks") => Large)
  BY LocksPart, <1>2, <1>3, <1>4, <1>5, <1>6, PTL
<1>12. Spec => [](In("locks_live") => Live)
  BY LocksLivePart, <1>7, <1>8, <1>9, <1>10, PTL
<1>13. (In("locks") => Large) /\ (In("locks_live") => Live) => LocksAreSafe
  BY DEF LocksAreSafe, In
<1> HIDE DEF Large, Live
<1> QED
  BY <1>11, <1>12, <1>13, PTL

\* Every behaviour of coordinator and archive helpers keeps what
\* HelpersWorkUnderLease says of it, from host_restore_ipc.py.
THEOREM HelpersProved == Spec => []HelpersWorkUnderLease
<1>1. Helper!ArchiveHelperAssumption
  BY InstancesAssumption
<1>2. Helper!Spec => []Helper!ArchiveInv
  BY <1>1, Helper!ArchiveInvariance
<1>3. Helper!ArchiveInv => Helper!TypeOK
  BY DEF Helper!ArchiveInv
<1>4. Helper!Spec => []Helper!WorkUnderLease
  BY <1>1, Helper!LeasedWork
<1>5. Helper!Spec => []Helper!ProofsAreMade
  BY <1>1, Helper!CountedProofsMade
<1>6. Helper!Spec => []Helper!JobsDoNotCoalesce
  BY <1>1, Helper!StartJobsApart
<1>7. Helper!TypeOK /\ Helper!WorkUnderLease /\ Helper!ProofsAreMade /\ Helper!JobsDoNotCoalesce
        => HelpersWorkUnderLease
  BY DEF HelpersWorkUnderLease
<1>8. ~In("helper") => HelpersWorkUnderLease
  BY DEF HelpersWorkUnderLease, In
<1> QED
  BY HelperPart, <1>2, <1>3, <1>4, <1>5, <1>6, <1>7, <1>8, PTL
=============================================================================
