-------------------------- MODULE MCLifecycle --------------------------
(***************************************************************************)
(* The jobs of the control plane: how a request becomes a job (JobIntake), *)
(* what its transition does to routes, namespaces, archives, exports and   *)
(* the tenant records (RouteTransition, TenantNamespace, TenantArchive,    *)
(* ExportSlot, LifecyclePlan, LifecycleContracts), and what a retry of it  *)
(* is told (ResultReplay).                                                 *)
(*                                                                         *)
(* A behaviour belongs to one part, an instance of one module with         *)
(* constants of its own, and stays in it: the variable part never changes, *)
(* v1, v2, ... are the variables of the part's module in the order of      *)
(* their declaration, and the ones it does not need are None. Parts, a     *)
(* constant, is the set of instances a run explores. What is checked of a  *)
(* part is what its module defines; invariants and step properties are     *)
(* guarded by the part they are about.                                     *)
(*                                                                         *)
(* a1 and a2, b1 and b2, c1 and c2 are identities that nothing tells       *)
(* apart, whatever a part uses them for. The instances whose constants     *)
(* name one of a pair alone are the ones of the liveness run, which uses   *)
(* no symmetry.                                                            *)
(***************************************************************************)
EXTENDS Naturals, TLC

CONSTANTS
    Parts, None, a1, a2, b1, b2, c1, c2

VARIABLES
    part, v1, v2, v3, v4, v5, v6, v7, v8, v9, v10, v11, v12, v13, v14, v15

vars == <<part, v1, v2, v3, v4, v5, v6, v7, v8, v9, v10, v11, v12, v13, v14, v15>>

IntakeLive == INSTANCE JobIntake WITH
    Sessions <- {a1}, Correlations <- {b1, b2}, Bindings <- {"up"}, Uploads <- {"up"},
    MaxJobs <- 2, MaxFaults <- 1, MaxRequests <- 2, HandoffLimit <- 1,
    corr <- v1, jobs <- v2, results <- v3, intents <- v4, slot <- v5, intakeLock <- v6,
    stateLock <- v7, cursor <- v8, session <- v9, worker <- v10, answers <- v11, source <- v12,
    faults <- v13, requests <- v14

ReplayActive == INSTANCE ResultReplay WITH
    Jobs <- {b1, b2}, Tenants <- {a1, a2}, Starts <- {"active"},
    Ops <- {"suspend", "deploy", "create"}, MaxCrashes <- 1, MaxDrift <- 0,
    host <- v1, runtime <- v2, request <- v3, source <- v4, phase <- v5, bound <- v6,
    rebound <- v7, results <- v8, validated <- v9, audit <- v10, intent <- v11, worker <- v12,
    truth <- v13, crashes <- v14, drift <- v15

ReplayArchived == INSTANCE ResultReplay WITH
    Jobs <- {b1, b2}, Tenants <- {a1, a2}, Starts <- {"archived"},
    Ops <- {"restore", "delete", "archive", "export", "resume"}, MaxCrashes <- 1, MaxDrift <- 0,
    host <- v1, runtime <- v2, request <- v3, source <- v4, phase <- v5, bound <- v6,
    rebound <- v7, results <- v8, validated <- v9, audit <- v10, intent <- v11, worker <- v12,
    truth <- v13, crashes <- v14, drift <- v15

ReplayDrift == INSTANCE ResultReplay WITH
    Jobs <- {b1, b2}, Tenants <- {a1, a2}, Starts <- {"suspended"},
    Ops <- {"rollback", "reconcile"}, MaxCrashes <- 0, MaxDrift <- 1,
    host <- v1, runtime <- v2, request <- v3, source <- v4, phase <- v5, bound <- v6,
    rebound <- v7, results <- v8, validated <- v9, audit <- v10, intent <- v11, worker <- v12,
    truth <- v13, crashes <- v14, drift <- v15

ReplayLive == INSTANCE ResultReplay WITH
    Jobs <- {b1, b2}, Tenants <- {a1}, Starts <- {"active"}, Ops <- {"suspend", "deploy"},
    MaxCrashes <- 1, MaxDrift <- 0,
    host <- v1, runtime <- v2, request <- v3, source <- v4, phase <- v5, bound <- v6,
    rebound <- v7, results <- v8, validated <- v9, audit <- v10, intent <- v11, worker <- v12,
    truth <- v13, crashes <- v14, drift <- v15

Route == INSTANCE RouteTransition WITH
    Tenants <- {a1, a2}, Slugs <- {c1, c2}, Jobs <- {b1, b2}, Workers <- {"w1", "w2"},
    Starting <- {"active"}, Drifting <- FALSE, MaxFaults <- 0,
    desired <- v1, observed <- v2, gens <- v3, selected <- v4, running <- v5, intent <- v6,
    jobs <- v7, audit <- v8, workers <- v9, lock <- v10, faults <- v11

RouteDrift == INSTANCE RouteTransition WITH
    Tenants <- {a1, a2}, Slugs <- {c1, c2}, Jobs <- {b1, b2}, Workers <- {"worker"},
    Starting <- {"active", "suspended"}, Drifting <- TRUE, MaxFaults <- 2,
    desired <- v1, observed <- v2, gens <- v3, selected <- v4, running <- v5, intent <- v6,
    jobs <- v7, audit <- v8, workers <- v9, lock <- v10, faults <- v11

RouteLive == INSTANCE RouteTransition WITH
    Tenants <- {a1, a2}, Slugs <- {c1, c2}, Jobs <- {"job"}, Workers <- {"w1", "w2"},
    Starting <- {"active"}, Drifting <- FALSE, MaxFaults <- 1,
    desired <- v1, observed <- v2, gens <- v3, selected <- v4, running <- v5, intent <- v6,
    jobs <- v7, audit <- v8, workers <- v9, lock <- v10, faults <- v11

Namespace == INSTANCE TenantNamespace WITH
    Operations <- {"create", "change", "delete", "emergency", "uncreate"}, MaxJobs <- 4,
    MaxFaults <- 3,
    fs <- v1, audit <- v2, pc <- v3, jobs <- v4, faults <- v5, settled <- v6, restored <- v7

NamespaceLive == INSTANCE TenantNamespace WITH
    Operations <- {"create", "delete", "uncreate"}, MaxJobs <- 4, MaxFaults <- 3,
    fs <- v1, audit <- v2, pc <- v3, jobs <- v4, faults <- v5, settled <- v6, restored <- v7

Archive == INSTANCE TenantArchive WITH
    Tenants <- {a1, a2}, Jobs <- {b1, b2}, MaxRemote <- 1, MaxFaults <- 2,
    life <- v1, seen <- v2, dep <- v3, bound <- v4, routed <- v5, jobs <- v6, audit <- v7,
    intents <- v8, remote <- v9, puts <- v10, quarantine <- v11, worker <- v12, helper <- v13,
    faults <- v14

ArchiveLive == INSTANCE TenantArchive WITH
    Tenants <- {a1}, Jobs <- {b1, b2}, MaxRemote <- 1, MaxFaults <- 1,
    life <- v1, seen <- v2, dep <- v3, bound <- v4, routed <- v5, jobs <- v6, audit <- v7,
    intents <- v8, remote <- v9, puts <- v10, quarantine <- v11, worker <- v12, helper <- v13,
    faults <- v14

PlanOne == INSTANCE LifecyclePlan WITH
    Tenants <- {"tenant"}, Slugs <- {c1, c2}, Slots <- {b1, b2},
    Ops <- {"create", "deploy", "rollback", "suspend", "archive", "restore", "rename"},
    MaxJobs <- 5, MaxRetained <- 2, ClockSteps <- TRUE, Legal <- TRUE,
    tenants <- v1, origin <- v2, jobs <- v3, issued <- v4, intents <- v5, behind <- v6,
    spent <- v7, refused <- v8

PlanTwo == INSTANCE LifecycleContracts WITH
    Tenants <- {a1, a2}, Slugs <- {c1, c2}, Slots <- {b1, b2},
    Ops <- {"create", "deploy", "import", "rollback", "suspend", "resume", "rename", "reconcile", "archive", "restore", "delete", "emergency"},
    MaxJobs <- 4, MaxRetained <- 2, ClockSteps <- FALSE, Legal <- FALSE,
    tenants <- v1, origin <- v2, jobs <- v3, issued <- v4, intents <- v5, behind <- v6,
    spent <- v7, refused <- v8

PlanLive == INSTANCE LifecyclePlan WITH
    Tenants <- {"tenant"}, Slugs <- {c1, c2}, Slots <- {b1, b2},
    Ops <- {"create", "deploy", "rollback", "suspend", "rename", "archive", "restore", "delete", "reconcile"},
    MaxJobs <- 4, MaxRetained <- 2, ClockSteps <- TRUE, Legal <- TRUE,
    tenants <- v1, origin <- v2, jobs <- v3, issued <- v4, intents <- v5, behind <- v6,
    spent <- v7, refused <- v8

Export == INSTANCE ExportSlot WITH
    Jobs <- {b1, b2}, Session <- "session", Foreign <- "foreign", MaxSource <- 1,
    MaxFaults <- 2,
    pc <- v1, lock <- v2, tx <- v3, job <- v4, expected <- v5, late <- v6, intent <- v7,
    work <- v8, slot <- v9, disk <- v10, source <- v11, reason <- v12, errors <- v13,
    faults <- v14

ExportLive == INSTANCE ExportSlot WITH
    Jobs <- {b1}, Session <- "session", Foreign <- "foreign", MaxSource <- 1, MaxFaults <- 1,
    pc <- v1, lock <- v2, tx <- v3, job <- v4, expected <- v5, late <- v6, intent <- v7,
    work <- v8, slot <- v9, disk <- v10, source <- v11, reason <- v12, errors <- v13,
    faults <- v14

\* The variables after the first k, which a part with k variables leaves alone.
Unused14 == v15 = None
Kept14 == UNCHANGED <<v15>>
Unused11 == v12 = None /\ v13 = None /\ v14 = None /\ Unused14
Kept11 == UNCHANGED <<v12, v13, v14>> /\ Kept14
Unused8 == v9 = None /\ v10 = None /\ v11 = None /\ Unused11
Kept8 == UNCHANGED <<v9, v10, v11>> /\ Kept11
Unused7 == v8 = None /\ Unused8
Kept7 == UNCHANGED <<v8>> /\ Kept8

Init ==
    /\ part \in Parts
    /\ \/ part = "intake_live" /\ IntakeLive!Init /\ Unused14
       \/ part = "replay_active" /\ ReplayActive!Init
       \/ part = "replay_archived" /\ ReplayArchived!Init
       \/ part = "replay_drift" /\ ReplayDrift!Init
       \/ part = "replay_live" /\ ReplayLive!Init
       \/ part = "route" /\ Route!Init /\ Unused11
       \/ part = "route_drift" /\ RouteDrift!Init /\ Unused11
       \/ part = "route_live" /\ RouteLive!Init /\ Unused11
       \/ part = "namespace" /\ Namespace!Init /\ Unused7
       \/ part = "namespace_live" /\ NamespaceLive!Init /\ Unused7
       \/ part = "archive" /\ Archive!Init /\ Unused14
       \/ part = "archive_live" /\ ArchiveLive!Init /\ Unused14
       \/ part = "plan_one" /\ PlanOne!Init /\ Unused8
       \/ part = "plan_two" /\ PlanTwo!Init /\ Unused8
       \/ part = "plan_live" /\ PlanLive!Init /\ Unused8
       \/ part = "export" /\ Export!Init /\ Unused14
       \/ part = "export_live" /\ ExportLive!Init /\ Unused14

Next ==
    /\ UNCHANGED part
    /\ \/ part = "intake_live" /\ Kept14 /\ IntakeLive!Next
       \/ part = "replay_active" /\ ReplayActive!Next
       \/ part = "replay_archived" /\ ReplayArchived!Next
       \/ part = "replay_drift" /\ ReplayDrift!Next
       \/ part = "replay_live" /\ ReplayLive!Next
       \/ part = "route" /\ Kept11 /\ Route!Next
       \/ part = "route_drift" /\ Kept11 /\ RouteDrift!Next
       \/ part = "route_live" /\ Kept11 /\ RouteLive!Next
       \/ part = "namespace" /\ Kept7 /\ Namespace!Next
       \/ part = "namespace_live" /\ Kept7 /\ NamespaceLive!Next
       \/ part = "archive" /\ Kept14 /\ Archive!Next
       \/ part = "archive_live" /\ Kept14 /\ ArchiveLive!Next
       \/ part = "plan_one" /\ Kept8 /\ PlanOne!Next
       \/ part = "plan_two" /\ Kept8 /\ PlanTwo!Next
       \/ part = "plan_live" /\ Kept8 /\ PlanLive!Next
       \/ part = "export" /\ Kept14 /\ Export!Next
       \/ part = "export_live" /\ Kept14 /\ ExportLive!Next

Spec == Init /\ [][Next]_vars

\* The fairness of each part is its module's: the actions of all parts that stand at
\* the same place of their lists are one disjunction, since no behaviour has two parts.
\* An export worker's steps behind its lock count as one, the rename aside: that is
\* weaker than what ExportSlot grants it.
Weak1 ==
    \/ part = "intake_live" /\ Kept14 /\ UNCHANGED part /\ (IntakeLive!SessionStep(a1))
    \/ part = "replay_live" /\ UNCHANGED part /\ (ReplayLive!Issue(b1))
    \/ part = "namespace_live" /\ Kept7 /\ UNCHANGED part /\ (NamespaceLive!Work)
    \/ part = "archive_live" /\ Kept14 /\ UNCHANGED part /\ (ArchiveLive!WorkerStep(b1))
    \/ part = "plan_live" /\ Kept8 /\ UNCHANGED part /\ (PlanLive!Work(b1))
    \/ part = "export_live" /\ Kept14 /\ UNCHANGED part /\ (ExportLive!Worker(b1))
Weak2 ==
    \/ part = "replay_live" /\ UNCHANGED part /\ (ReplayLive!Dispatch(b1))
    \/ part = "archive_live" /\ Kept14 /\ UNCHANGED part /\ (ArchiveLive!ServiceStep(b1))
    \/ part = "plan_live" /\ Kept8 /\ UNCHANGED part /\ (PlanLive!Work(b2))
    \/ part = "export_live" /\ Kept14 /\ UNCHANGED part /\ (ExportLive!RetentionEnds(b1))
Weak3 ==
    \/ part = "replay_live" /\ UNCHANGED part /\ (ReplayLive!Handle(b1))
    \/ part = "archive_live" /\ Kept14 /\ UNCHANGED part /\ (ArchiveLive!WorkerStep(b2))
    \/ part = "plan_live" /\ Kept8 /\ UNCHANGED part /\ (PlanLive!EmergencyCommit)
    \/ part = "export_live" /\ Kept14 /\ UNCHANGED part /\ (ExportLive!SessionStep)
Weak4 ==
    \/ part = "replay_live" /\ UNCHANGED part /\ (ReplayLive!Validate(b1))
    \/ part = "archive_live" /\ Kept14 /\ UNCHANGED part /\ (ArchiveLive!ServiceStep(b2))
    \/ part = "plan_live" /\ Kept8 /\ UNCHANGED part /\ (PlanLive!EmergencyCleanup)
Weak5 ==
    \/ part = "replay_live" /\ UNCHANGED part /\ (ReplayLive!Issue(b2))
Weak6 ==
    \/ part = "replay_live" /\ UNCHANGED part /\ (ReplayLive!Dispatch(b2))
Weak7 ==
    \/ part = "replay_live" /\ UNCHANGED part /\ (ReplayLive!Handle(b2))
Weak8 ==
    \/ part = "replay_live" /\ UNCHANGED part /\ (ReplayLive!Validate(b2))
Strong1 ==
    \/ part = "intake_live" /\ Kept14 /\ UNCHANGED part /\ (IntakeLive!WorkerStep(1))
    \/ part = "route_live" /\ Kept11 /\ UNCHANGED part /\ (RouteLive!Step("w1"))
    \/ part = "archive_live" /\ Kept14 /\ UNCHANGED part /\ (ArchiveLive!StartsAgain(b1))
    \/ part = "export_live" /\ Kept14 /\ UNCHANGED part /\ (ExportLive!AcquireExport(b1))
Strong2 ==
    \/ part = "intake_live" /\ Kept14 /\ UNCHANGED part /\ (IntakeLive!WorkerStep(2))
    \/ part = "route_live" /\ Kept11 /\ UNCHANGED part /\ (RouteLive!Step("w2"))
    \/ part = "archive_live" /\ Kept14 /\ UNCHANGED part /\ (ArchiveLive!StartsAgain(b2))
    \/ part = "export_live" /\ Kept14 /\ UNCHANGED part /\ (ExportLive!PublishBundle(b1))
Strong3 ==
    \/ part = "intake_live" /\ Kept14 /\ UNCHANGED part /\ (IntakeLive!Reconcile)
    \/ part = "route_live" /\ Kept11 /\ UNCHANGED part /\ (\E w \in {"w1", "w2"} : RouteLive!Start(w, "job"))
    \/ part = "archive_live" /\ Kept14 /\ UNCHANGED part /\ (ArchiveLive!RecoverQuarantine)
    \/ part = "export_live" /\ Kept14 /\ UNCHANGED part /\ (ExportLive!Recover(b1) \/ ExportLive!Publish(b1) \/ ExportLive!Capture(b1) \/ ExportLive!Validate(b1) \/ ExportLive!MarkValidated(b1) \/ ExportLive!PublishFailure(b1))
Strong4 ==
    \/ part = "export_live" /\ Kept14 /\ UNCHANGED part /\ (ExportLive!Reconcile \/ ExportLive!ReconcileLocked("session"))
Strong5 ==
    \/ part = "export_live" /\ Kept14 /\ UNCHANGED part /\ (ExportLive!ForeignEnds)

FairSpec ==
    /\ Spec
    /\ WF_vars(Weak1) /\ WF_vars(Weak2) /\ WF_vars(Weak3) /\ WF_vars(Weak4) /\ WF_vars(Weak5) /\ WF_vars(Weak6) /\ WF_vars(Weak7) /\ WF_vars(Weak8)
    /\ SF_vars(Strong1) /\ SF_vars(Strong2) /\ SF_vars(Strong3) /\ SF_vars(Strong4) /\ SF_vars(Strong5)

-----------------------------------------------------------------------------


\* Nothing tells the members of a pair apart.
Symmetry == Permutations({a1, a2}) \cup Permutations({b1, b2}) \cup Permutations({c1, c2})

\* The constants of the instances are what their modules assume.
ASSUME InstancesAssumption ==
    /\ IntakeLive!IntakeAssumption
    /\ ReplayActive!ReplayAssumption /\ ReplayArchived!ReplayAssumption /\ ReplayDrift!ReplayAssumption
    /\ ReplayLive!ReplayAssumption /\ Route!RouteAssumption /\ RouteDrift!RouteAssumption /\ RouteLive!RouteAssumption
    /\ Namespace!NamespaceAssumption /\ NamespaceLive!NamespaceAssumption
    /\ Archive!ArchiveAssumption /\ ArchiveLive!ArchiveAssumption /\ Export!SlotAssumption /\ ExportLive!SlotAssumption

\* Result replay (execution): every committed job whose interval is accounted for in
\* the audit chain is answered again by a retry; a result is marked validated only
\* while it is in force; a change nobody audited makes the next handler refuse.
ReplayIsFaithful ==
    /\ [](/\ part = "replay_active" => ReplayActive!TypeOK /\ ReplayActive!AccountedRetriesReturn
          /\ part = "replay_archived" => ReplayArchived!AccountedRetriesReturn)
    /\ [][/\ part = "replay_active" => ReplayActive!MarkedIsInForce
          /\ part = "replay_archived" => ReplayArchived!DriftIsRefused
          /\ part = "replay_drift" => ReplayDrift!DriftIsRefused]_vars

\* Route transitions: at every instant a worker that finds the intent can finish or
\* reverse it, settled hosts agree with their records, a job has one answer that
\* stands, a failed one changed nothing, and on a drifted host only the target moves.
RoutesAreRecoverable ==
    /\ [](/\ part = "route" => Route!TypeOK /\ Route!IntentRecoverable /\ Route!SettledAgreement
                               /\ Route!AnsweredOnce /\ Route!FailureIsClean
          /\ part = "route_live" => RouteLive!IntentRecoverable /\ RouteLive!SettledAgreement
                                    /\ RouteLive!AnsweredOnce /\ RouteLive!FailureIsClean
          /\ part = "route_drift" => RouteDrift!IntentRecoverable)
    /\ [][/\ part = "route" => Route!AnswersStand
          /\ part = "route_live" => RouteLive!AnswersStand
          /\ part = "route_drift" => RouteDrift!OnlyTargetMoves /\ RouteDrift!CommitIsServed]_vars

\* Tenant namespaces: after any kills and losses of power a half-created namespace
\* has its intent, reported records stay, and a deletion's tombstone is written
\* before anything of the tenant is missing.
NamespacesSurvive ==
    /\ [](part = "namespace" => Namespace!TypeOK /\ Namespace!HalfCreatedHasIntent /\ Namespace!ReportedStays)
    /\ [][part = "namespace" => Namespace!TombstoneFirst]_vars

\* Tenant archives: an archived tenant's object is never lost, every object of the
\* bucket is accounted for, no key is written twice, and the loss of an object is
\* audited, through kills, provider failures and a quota of one object.
ArchivesAreKept ==
    part = "archive" =>
        /\ Archive!TypeOK /\ Archive!ArchiveNeverLost /\ Archive!BucketAccounted /\ Archive!OneUploadPerKey
        /\ Archive!ReadsAreStable /\ Archive!SettledTenants /\ Archive!LossIsAudited /\ Archive!ValidatedIsTrue

\* Tenant records: histories end at the selection, archives bind their manifest,
\* slugs are distinct and identities never reused, a commit whose intent is published
\* is never refused, it acts on the source it was issued for and keeps content, and
\* every document written on the way is accepted by its validator.
LifecycleIsSound ==
    /\ [](/\ part = "plan_one" => PlanOne!TypeOK /\ PlanOne!HistoryEndsAtSelection /\ PlanOne!ArchiveBindsManifest
                                  /\ PlanOne!CommitNeverRefused
          /\ part = "plan_two" => PlanTwo!SlugsDistinct /\ PlanTwo!IdentityNeverReused /\ PlanTwo!CommitNeverRefused
                                  /\ PlanTwo!ContractsAccepted /\ PlanTwo!InterruptedJobsAreAccepted)
    /\ [][part = "plan_one" => PlanOne!ActsOnItsSource /\ PlanOne!ContentKept]_vars

\* Exports: a promised bundle is in the slot or being retired, a bundle that is
\* streamed stays, the slot has one owner, records do not contradict each other, and
\* what was acknowledged or expired is never streamed again.
ExportsAreHonest ==
    /\ [](part = "export" => Export!TypeOK /\ Export!PromisedBundle /\ Export!NoContradiction
                             /\ Export!SlotOwned /\ Export!StreamedBundleStays)
    /\ [][part = "export" => Export!RetiredForGood]_vars

\* What each part has to come back to.
Settled ==
    /\ part = "intake_live" => IntakeLive!EveryCorrelationSettles /\ IntakeLive!SlotIsFreed
    /\ part = "replay_live" => ReplayLive!JobsSettle
    /\ part = "route_live" => RouteLive!JobsAnswered /\ RouteLive!IntentsClear
    /\ part = "namespace_live" => NamespaceLive!IntentResolved
    /\ part = "archive_live" => ArchiveLive!IntentsClear /\ ArchiveLive!AdmissionReopens /\ ArchiveLive!JobsAnswered
    /\ part = "plan_live" => PlanLive!JobsEnd
    /\ part = "export_live" => ExportLive!JobsSettle /\ ExportLive!SlotFreed

\* Every accepted job is answered in the end, every intent is cleared and the export
\* slot is freed, once the finitely many crashes and failures of a behaviour are over
\* (handoff, reconciliation, recovery timers).
JobsSettle == []<>Settled

=============================================================================
