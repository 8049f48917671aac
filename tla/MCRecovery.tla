-------------------------- MODULE MCRecovery --------------------------
(***************************************************************************)
(* Backups, restores and what the operators do around the host: the audit  *)
(* chain and its witnesses (AuditRotation, AuditWitness,                   *)
(* HostRestoreAudit), backup lineage and captures (BackupLineage,          *)
(* BackupCapture), the restore of a host (HostRestore, RestoreReconcile,   *)
(* RuntimeMapping, ArchiveHelper), the credentials of unattended runs      *)
(* (CredentialLease, CredentialObligations), the production rollout        *)
(* (ProductionRollout) and the operator exchange (OperatorExchange).       *)
(*                                                                         *)
(* A behaviour belongs to one part, an instance of one module with         *)
(* constants of its own, and stays in it: the variable part never changes, *)
(* v1, v2, ... are the variables of the part's module in the order of      *)
(* their declaration, and the ones it does not need are None. Parts, a     *)
(* constant, is the set of instances a run explores. What is checked of a  *)
(* part is what its module defines; invariants and step properties are     *)
(* guarded by the part they are about.                                     *)
(*                                                                         *)
(* a1 and a2, b1 and b2 are identities that nothing tells apart, whatever  *)
(* a part uses them for. The instances whose constants name one of a pair  *)
(* alone are the ones of the liveness run, which uses no symmetry.         *)
(***************************************************************************)
EXTENDS Naturals, Sequences, TLC

CONSTANTS
    Parts, None, a1, a2, b1, b2

VARIABLES
    part, v1, v2, v3, v4, v5, v6, v7, v8, v9, v10, v11, v12, v13, v14, v15, v16, v17, v18, v19,
    v20, v21, v22, v23

vars == <<part, v1, v2, v3, v4, v5, v6, v7, v8, v9, v10, v11, v12, v13, v14, v15, v16, v17, v18, v19, v20, v21, v22, v23>>


\* The phases of the rollout scripts, and the three that the fences depend on.
AllPhases == <<"drained", "namespace", "lineage", "converged", "backup-verified", "rotation-enabled", "accepted">>
ShortPhases == <<"drained", "lineage", "backup-verified">>

Rotation == INSTANCE AuditRotation WITH
    MaxSegments <- 2, MaxOrdinary <- 1, MaxFaults <- 2, Late <- FALSE,
    count <- v1, dir <- v2, arch <- v3, stage <- v4, snaps <- v5, flight <- v6, used <- v7,
    ordinary <- v8, fresh <- v9, op <- v10, at <- v11, plan <- v12, wrote <- v13, then <- v14,
    seen <- v15, errors <- v16, faults <- v17

RotationLate == INSTANCE AuditRotation WITH
    MaxSegments <- 3, MaxOrdinary <- 1, MaxFaults <- 1, Late <- TRUE,
    count <- v1, dir <- v2, arch <- v3, stage <- v4, snaps <- v5, flight <- v6, used <- v7,
    ordinary <- v8, fresh <- v9, op <- v10, at <- v11, plan <- v12, wrote <- v13, then <- v14,
    seen <- v15, errors <- v16, faults <- v17

RotationLive == INSTANCE AuditRotation WITH
    MaxSegments <- 3, MaxOrdinary <- 1, MaxFaults <- 1, Late <- FALSE,
    count <- v1, dir <- v2, arch <- v3, stage <- v4, snaps <- v5, flight <- v6, used <- v7,
    ordinary <- v8, fresh <- v9, op <- v10, at <- v11, plan <- v12, wrote <- v13, then <- v14,
    seen <- v15, errors <- v16, faults <- v17

RestoredAudit == INSTANCE HostRestoreAudit WITH
    MaxSegments <- 3, MaxOrdinary <- 1, MaxFaults <- 1, Late <- FALSE, Ordered <- TRUE,
    count <- v1, dir <- v2, arch <- v3, stage <- v4, snaps <- v5, flight <- v6, used <- v7,
    ordinary <- v8, fresh <- v9, op <- v10, at <- v11, plan <- v12, wrote <- v13, then <- v14,
    seen <- v15, errors <- v16, faults <- v17, host <- v18, cap <- v19, disc <- v20,
    receipt <- v21, why <- v22

RestoredAuditLive == INSTANCE HostRestoreAudit WITH
    MaxSegments <- 3, MaxOrdinary <- 0, MaxFaults <- 1, Late <- FALSE, Ordered <- TRUE,
    count <- v1, dir <- v2, arch <- v3, stage <- v4, snaps <- v5, flight <- v6, used <- v7,
    ordinary <- v8, fresh <- v9, op <- v10, at <- v11, plan <- v12, wrote <- v13, then <- v14,
    seen <- v15, errors <- v16, faults <- v17, host <- v18, cap <- v19, disc <- v20,
    receipt <- v21, why <- v22

WitnessFormats == INSTANCE AuditWitness WITH
    Correlations <- {"c1", "c2", "c3", "c4"}, Callers <- {}, Evidences <- {"absent", "object"},
    MaxEntries <- 3, MaxSegments <- 3, MaxBytes <- 10,
    open <- v1, indexes <- v2, witnesses <- v3, head <- v4, cache <- v5, pending <- v6,
    answered <- v7

WitnessCache == INSTANCE AuditWitness WITH
    Correlations <- {b1, b2}, Callers <- {a1, a2}, Evidences <- {"absent"}, MaxEntries <- 2,
    MaxSegments <- 1, MaxBytes <- 4,
    open <- v1, indexes <- v2, witnesses <- v3, head <- v4, cache <- v5, pending <- v6,
    answered <- v7

Lineage == INSTANCE BackupLineage WITH
    Ordinary <- {a1, a2}, MaxIdentities <- 4, MaxFaults <- 3, MaxVerifies <- 2,
    disk <- v1, safe <- v2, temporary <- v3, remote <- v4, proc <- v5, child <- v6,
    identities <- v7, faults <- v8, verifies <- v9, refused <- v10

LineageLive == INSTANCE BackupLineage WITH
    Ordinary <- {a1}, MaxIdentities <- 4, MaxFaults <- 2, MaxVerifies <- 1,
    disk <- v1, safe <- v2, temporary <- v3, remote <- v4, proc <- v5, child <- v6,
    identities <- v7, faults <- v8, verifies <- v9, refused <- v10

Capture == INSTANCE BackupCapture WITH
    Rollout <- FALSE, MaxCaptures <- 4, MaxChanges <- 2, MaxFaults <- 2,
    live <- v1, worker <- v2, staged <- v3, repo <- v4, script <- v5, proc <- v6, child <- v7,
    status <- v8, store <- v9, safe <- v10, captures <- v11, faults <- v12, refused <- v13

CaptureRollout == INSTANCE BackupCapture WITH
    Rollout <- TRUE, MaxCaptures <- 4, MaxChanges <- 2, MaxFaults <- 3,
    live <- v1, worker <- v2, staged <- v3, repo <- v4, script <- v5, proc <- v6, child <- v7,
    status <- v8, store <- v9, safe <- v10, captures <- v11, faults <- v12, refused <- v13

CaptureLive == INSTANCE BackupCapture WITH
    Rollout <- FALSE, MaxCaptures <- 4, MaxChanges <- 1, MaxFaults <- 1,
    live <- v1, worker <- v2, staged <- v3, repo <- v4, script <- v5, proc <- v6, child <- v7,
    status <- v8, store <- v9, safe <- v10, captures <- v11, faults <- v12, refused <- v13

Restore == INSTANCE HostRestore WITH
    N <- 3, MaxAttempts <- 3, MaxCrashes <- 1, MaxReboots <- 1, MaxDeaths <- 1,
    gate <- v1, journal <- v2, history <- v3, receipts <- v4, evidence <- v5, proof <- v6,
    ingress <- v7, fenced <- v8, roots <- v9, locks <- v10, intent <- v11, certs <- v12,
    masked <- v13, ready <- v14, firewall <- v15, caddy <- v16, invocations <- v17,
    ordinary <- v18, session <- v19, proc <- v20, crashes <- v21, reboots <- v22, deaths <- v23

RestoreLive == INSTANCE HostRestore WITH
    N <- 2, MaxAttempts <- 3, MaxCrashes <- 2, MaxReboots <- 0, MaxDeaths <- 0,
    gate <- v1, journal <- v2, history <- v3, receipts <- v4, evidence <- v5, proof <- v6,
    ingress <- v7, fenced <- v8, roots <- v9, locks <- v10, intent <- v11, certs <- v12,
    masked <- v13, ready <- v14, firewall <- v15, caddy <- v16, invocations <- v17,
    ordinary <- v18, session <- v19, proc <- v20, crashes <- v21, reboots <- v22, deaths <- v23

RestoreReboot == INSTANCE HostRestore WITH
    N <- 2, MaxAttempts <- 3, MaxCrashes <- 0, MaxReboots <- 1, MaxDeaths <- 0,
    gate <- v1, journal <- v2, history <- v3, receipts <- v4, evidence <- v5, proof <- v6,
    ingress <- v7, fenced <- v8, roots <- v9, locks <- v10, intent <- v11, certs <- v12,
    masked <- v13, ready <- v14, firewall <- v15, caddy <- v16, invocations <- v17,
    ordinary <- v18, session <- v19, proc <- v20, crashes <- v21, reboots <- v22, deaths <- v23

Reconcile == INSTANCE RestoreReconcile WITH
    Ops <- {"none", "create", "route", "deploy", "archive", "revalidate", "restore", "delete", "emergency", "export", "construction", "retirement"},
    Others <- {"other"}, MaxCrashes <- 1,
    cap <- v1, records <- v2, tx <- v3, companion <- v4, job <- v5, audit <- v6, others <- v7,
    object <- v8, foreign <- v9, prior <- v10, work <- v11, decision <- v12, retired <- v13,
    done <- v14, cleanup <- v15, ledger <- v16, pc <- v17, crashes <- v18

ReconcileLive == INSTANCE RestoreReconcile WITH
    Ops <- {"none", "create", "route", "deploy", "archive", "revalidate", "restore", "delete", "emergency", "export", "construction", "retirement"},
    Others <- {}, MaxCrashes <- 1,
    cap <- v1, records <- v2, tx <- v3, companion <- v4, job <- v5, audit <- v6, others <- v7,
    object <- v8, foreign <- v9, prior <- v10, work <- v11, decision <- v12, retired <- v13,
    done <- v14, cleanup <- v15, ledger <- v16, pc <- v17, crashes <- v18

Mapping == INSTANCE RuntimeMapping WITH
    Tenants <- {a1, a2}, MaxOps <- 4, MaxLosses <- 3, MaxHistory <- 3,
    tenants <- v1, selected <- v2, served <- v3, results <- v4, history <- v5, cap <- v6,
    rs <- v7, gens <- v8, ops <- v9, losses <- v10

MappingLive == INSTANCE RuntimeMapping WITH
    Tenants <- {a1, a2}, MaxOps <- 3, MaxLosses <- 2, MaxHistory <- 2,
    tenants <- v1, selected <- v2, served <- v3, results <- v4, history <- v5, cap <- v6,
    rs <- v7, gens <- v8, ops <- v9, losses <- v10

HelperLive == INSTANCE ArchiveHelper WITH
    MaxFaults <- 3,
    journal <- v1, proven <- v2, pc <- v3, request <- v4, reply <- v5, path <- v6, child <- v7,
    orphans <- v8, helper <- v9, made <- v10, faults <- v11

LeaseLosses == INSTANCE CredentialLease WITH
    Roles <- {"archive"}, Active <- {"watchdog"}, Retain <- TRUE, Orders <- {}, MaxLosses <- 1,
    MaxCrashes <- 0,
    provider <- v1, made <- v2, inv <- v3, spool <- v4, losses <- v5, disk <- v6, clock <- v7,
    crashes <- v8, ctl <- v9, sweep <- v10, lock <- v11, probed <- v12, conflict <- v13

LeaseCrash == INSTANCE CredentialLease WITH
    Roles <- {"archive"}, Active <- {"watchdog"}, Retain <- TRUE, Orders <- {},
    MaxLosses <- 0, MaxCrashes <- 1,
    provider <- v1, made <- v2, inv <- v3, spool <- v4, losses <- v5, disk <- v6, clock <- v7,
    crashes <- v8, ctl <- v9, sweep <- v10, lock <- v11, probed <- v12, conflict <- v13

LeaseGithub == INSTANCE CredentialLease WITH
    Roles <- {"archive"}, Active <- {"github"}, Retain <- FALSE, Orders <- {"cancel"}, MaxLosses <- 0,
    MaxCrashes <- 0,
    provider <- v1, made <- v2, inv <- v3, spool <- v4, losses <- v5, disk <- v6, clock <- v7,
    crashes <- v8, ctl <- v9, sweep <- v10, lock <- v11, probed <- v12, conflict <- v13

LeaseRoles == INSTANCE CredentialLease WITH
    Roles <- {a1, a2}, Active <- {"watchdog"}, Retain <- FALSE, Orders <- {"stop"},
    MaxLosses <- 0, MaxCrashes <- 0,
    provider <- v1, made <- v2, inv <- v3, spool <- v4, losses <- v5, disk <- v6, clock <- v7,
    crashes <- v8, ctl <- v9, sweep <- v10, lock <- v11, probed <- v12, conflict <- v13

Obligations == INSTANCE CredentialObligations WITH
    Roles <- {"role"}, Controller <- "controller", Watchers <- {"watchdog"}, Strangers <- TRUE,
    MaxFaults <- 1,
    attempt <- v1, staged <- v2, journal <- v3, secret <- v4, cred <- v5, accepts <- v6,
    stranger <- v7, due <- v8, sweep <- v9, changed <- v10, clear <- v11, admitted <- v12,
    faults <- v13

ObligationsRoles == INSTANCE CredentialObligations WITH
    Roles <- {a1, a2}, Controller <- "controller", Watchers <- {}, Strangers <- FALSE,
    MaxFaults <- 1,
    attempt <- v1, staged <- v2, journal <- v3, secret <- v4, cred <- v5, accepts <- v6,
    stranger <- v7, due <- v8, sweep <- v9, changed <- v10, clear <- v11, admitted <- v12,
    faults <- v13

ObligationsLive == INSTANCE CredentialObligations WITH
    Roles <- {"role"}, Controller <- "controller", Watchers <- {"watchdog"},
    Strangers <- FALSE, MaxFaults <- 1,
    attempt <- v1, staged <- v2, journal <- v3, secret <- v4, cred <- v5, accepts <- v6,
    stranger <- v7, due <- v8, sweep <- v9, changed <- v10, clear <- v11, admitted <- v12,
    faults <- v13

Rollout == INSTANCE ProductionRollout WITH
    Phases <- ShortPhases, MaxAttempts <- 2, MaxFaults <- 2,
    attempts <- v1, ctl <- v2, book <- v3, durable <- v4, pending <- v5, lease <- v6,
    wire <- v7, act <- v8, effect <- v9, fence <- v10, active <- v11, faults <- v12,
    refused <- v13, finished <- v14

RolloutPhases == INSTANCE ProductionRollout WITH
    Phases <- AllPhases, MaxAttempts <- 2, MaxFaults <- 1,
    attempts <- v1, ctl <- v2, book <- v3, durable <- v4, pending <- v5, lease <- v6,
    wire <- v7, act <- v8, effect <- v9, fence <- v10, active <- v11, faults <- v12,
    refused <- v13, finished <- v14

RolloutLive == INSTANCE ProductionRollout WITH
    Phases <- ShortPhases, MaxAttempts <- 3, MaxFaults <- 1,
    attempts <- v1, ctl <- v2, book <- v3, durable <- v4, pending <- v5, lease <- v6,
    wire <- v7, act <- v8, effect <- v9, fence <- v10, active <- v11, faults <- v12,
    refused <- v13, finished <- v14

Upload == INSTANCE OperatorExchange WITH
    Clients <- {a1, a2}, Uploads <- TRUE, MaxAttempts <- 2, MaxEdits <- 1, MaxFaults <- 1,
    artifact <- v1, client <- v2, conn <- v3, temp <- v4, dest <- v5, session <- v6, job <- v7,
    executed <- v8, slot <- v9, delivery <- v10, expired <- v11, holder <- v12, faults <- v13

Download == INSTANCE OperatorExchange WITH
    Clients <- {a1, a2}, Uploads <- FALSE, MaxAttempts <- 2, MaxEdits <- 0, MaxFaults <- 1,
    artifact <- v1, client <- v2, conn <- v3, temp <- v4, dest <- v5, session <- v6, job <- v7,
    executed <- v8, slot <- v9, delivery <- v10, expired <- v11, holder <- v12, faults <- v13

DownloadLive == INSTANCE OperatorExchange WITH
    Clients <- {a1, a2}, Uploads <- FALSE, MaxAttempts <- 1, MaxEdits <- 0, MaxFaults <- 1,
    artifact <- v1, client <- v2, conn <- v3, temp <- v4, dest <- v5, session <- v6, job <- v7,
    executed <- v8, slot <- v9, delivery <- v10, expired <- v11, holder <- v12, faults <- v13

\* The variables after the first k, which a part with k variables leaves alone.
Unused22 == v23 = None
Kept22 == UNCHANGED <<v23>>
Unused18 == v19 = None /\ v20 = None /\ v21 = None /\ v22 = None /\ Unused22
Kept18 == UNCHANGED <<v19, v20, v21, v22>> /\ Kept22
Unused17 == v18 = None /\ Unused18
Kept17 == UNCHANGED <<v18>> /\ Kept18
Unused14 == v15 = None /\ v16 = None /\ v17 = None /\ Unused17
Kept14 == UNCHANGED <<v15, v16, v17>> /\ Kept17
Unused13 == v14 = None /\ Unused14
Kept13 == UNCHANGED <<v14>> /\ Kept14
Unused11 == v12 = None /\ v13 = None /\ Unused13
Kept11 == UNCHANGED <<v12, v13>> /\ Kept13
Unused10 == v11 = None /\ Unused11
Kept10 == UNCHANGED <<v11>> /\ Kept11
Unused7 == v8 = None /\ v9 = None /\ v10 = None /\ Unused10
Kept7 == UNCHANGED <<v8, v9, v10>> /\ Kept10

Init ==
    /\ part \in Parts
    /\ \/ part = "rotation" /\ Rotation!Init /\ Unused17
       \/ part = "rotation_late" /\ RotationLate!Init /\ Unused17
       \/ part = "rotation_live" /\ RotationLive!Init /\ Unused17
       \/ part = "restored_audit" /\ RestoredAudit!RestoreInit /\ Unused22
       \/ part = "restored_audit_live" /\ RestoredAuditLive!RestoreInit /\ Unused22
       \/ part = "witness_formats" /\ WitnessFormats!Init /\ Unused7
       \/ part = "witness_cache" /\ WitnessCache!Init /\ Unused7
       \/ part = "lineage" /\ Lineage!Init /\ Unused10
       \/ part = "lineage_live" /\ LineageLive!Init /\ Unused10
       \/ part = "capture" /\ Capture!Init /\ Unused13
       \/ part = "capture_rollout" /\ CaptureRollout!Init /\ Unused13
       \/ part = "capture_live" /\ CaptureLive!Init /\ Unused13
       \/ part = "restore" /\ Restore!Init
       \/ part = "restore_live" /\ RestoreLive!Init
       \/ part = "restore_reboot" /\ RestoreReboot!Init
       \/ part = "reconcile" /\ Reconcile!Init /\ Unused18
       \/ part = "reconcile_live" /\ ReconcileLive!Init /\ Unused18
       \/ part = "mapping" /\ Mapping!Init /\ Unused10
       \/ part = "mapping_live" /\ MappingLive!Init /\ Unused10
       \/ part = "helper_live" /\ HelperLive!Init /\ Unused11
       \/ part = "lease_losses" /\ LeaseLosses!Init /\ Unused13
       \/ part = "lease_crash" /\ LeaseCrash!Init /\ Unused13
       \/ part = "lease_github" /\ LeaseGithub!Init /\ Unused13
       \/ part = "lease_roles" /\ LeaseRoles!Init /\ Unused13
       \/ part = "obligations" /\ Obligations!Init /\ Unused13
       \/ part = "obligations_roles" /\ ObligationsRoles!Init /\ Unused13
       \/ part = "obligations_live" /\ ObligationsLive!Init /\ Unused13
       \/ part = "rollout" /\ Rollout!Init /\ Unused14
       \/ part = "rollout_phases" /\ RolloutPhases!Init /\ Unused14
       \/ part = "rollout_live" /\ RolloutLive!Init /\ Unused14
       \/ part = "upload" /\ Upload!Init /\ Unused13
       \/ part = "download" /\ Download!Init /\ Unused13
       \/ part = "download_live" /\ DownloadLive!Init /\ Unused13

Next ==
    /\ UNCHANGED part
    /\ \/ part = "rotation" /\ Kept17 /\ Rotation!Next
       \/ part = "rotation_late" /\ Kept17 /\ RotationLate!Next
       \/ part = "rotation_live" /\ Kept17 /\ RotationLive!Next
       \/ part = "restored_audit" /\ Kept22 /\ RestoredAudit!RestoreNext
       \/ part = "restored_audit_live" /\ Kept22 /\ RestoredAuditLive!RestoreNext
       \/ part = "witness_formats" /\ Kept7 /\ WitnessFormats!Next
       \/ part = "witness_cache" /\ Kept7 /\ WitnessCache!Next
       \/ part = "lineage" /\ Kept10 /\ Lineage!Next
       \/ part = "lineage_live" /\ Kept10 /\ LineageLive!Next
       \/ part = "capture" /\ Kept13 /\ Capture!Next
       \/ part = "capture_rollout" /\ Kept13 /\ CaptureRollout!Next
       \/ part = "capture_live" /\ Kept13 /\ CaptureLive!Next
       \/ part = "restore" /\ Restore!Next
       \/ part = "restore_live" /\ RestoreLive!Next
       \/ part = "restore_reboot" /\ RestoreReboot!Next
       \/ part = "reconcile" /\ Kept18 /\ Reconcile!Next
       \/ part = "reconcile_live" /\ Kept18 /\ ReconcileLive!Next
       \/ part = "mapping" /\ Kept10 /\ Mapping!Next
       \/ part = "mapping_live" /\ Kept10 /\ MappingLive!Next
       \/ part = "helper_live" /\ Kept11 /\ HelperLive!Next
       \/ part = "lease_losses" /\ Kept13 /\ LeaseLosses!Next
       \/ part = "lease_crash" /\ Kept13 /\ LeaseCrash!Next
       \/ part = "lease_github" /\ Kept13 /\ LeaseGithub!Next
       \/ part = "lease_roles" /\ Kept13 /\ LeaseRoles!Next
       \/ part = "obligations" /\ Kept13 /\ Obligations!Next
       \/ part = "obligations_roles" /\ Kept13 /\ ObligationsRoles!Next
       \/ part = "obligations_live" /\ Kept13 /\ ObligationsLive!Next
       \/ part = "rollout" /\ Kept14 /\ Rollout!Next
       \/ part = "rollout_phases" /\ Kept14 /\ RolloutPhases!Next
       \/ part = "rollout_live" /\ Kept14 /\ RolloutLive!Next
       \/ part = "upload" /\ Kept13 /\ Upload!Next
       \/ part = "download" /\ Kept13 /\ Download!Next
       \/ part = "download_live" /\ Kept13 /\ DownloadLive!Next

Spec == Init /\ [][Next]_vars

\* The fairness of each part is its module's: the actions of all parts that stand at
\* the same place of their lists are one disjunction, since no behaviour has two parts.
Weak1 ==
    \/ part = "rotation_live" /\ Kept17 /\ UNCHANGED part /\ (RotationLive!Archivist)
    \/ part = "restored_audit_live" /\ Kept22 /\ UNCHANGED part /\ (RestoredAuditLive!Coordinator)
    \/ part = "lineage_live" /\ Kept10 /\ UNCHANGED part /\ (LineageLive!ProcessStep)
    \/ part = "capture_rollout" /\ Kept13 /\ UNCHANGED part /\ (CaptureRollout!StartScript)
    \/ part = "capture_live" /\ Kept13 /\ UNCHANGED part /\ (CaptureLive!StartScript)
    \/ part = "restore_live" /\ UNCHANGED part /\ (RestoreLive!Step(1))
    \/ part = "restore_reboot" /\ UNCHANGED part /\ (RestoreReboot!Step(1))
    \/ part = "reconcile_live" /\ Kept18 /\ UNCHANGED part /\ (ReconcileLive!Coordinator)
    \/ part = "mapping_live" /\ Kept10 /\ UNCHANGED part /\ (MappingLive!Restoring)
    \/ part = "helper_live" /\ Kept11 /\ UNCHANGED part /\ (HelperLive!Coordinator)
    \/ part = "obligations_live" /\ Kept13 /\ UNCHANGED part /\ (ObligationsLive!Revoke)
    \/ part = "rollout_live" /\ Kept14 /\ UNCHANGED part /\ (RolloutLive!Start)
    \/ part = "download_live" /\ Kept13 /\ UNCHANGED part /\ (DownloadLive!Submit(a1))
Weak2 ==
    \/ part = "restored_audit_live" /\ Kept22 /\ UNCHANGED part /\ (RestoredAuditLive!BeginRestore)
    \/ part = "lineage_live" /\ Kept10 /\ UNCHANGED part /\ (LineageLive!SaveSnapshot)
    \/ part = "capture_rollout" /\ Kept13 /\ UNCHANGED part /\ (CaptureRollout!StartRollout)
    \/ part = "capture_live" /\ Kept13 /\ UNCHANGED part /\ (CaptureLive!StartRollout)
    \/ part = "restore_live" /\ UNCHANGED part /\ (RestoreLive!Step(2))
    \/ part = "restore_reboot" /\ UNCHANGED part /\ (RestoreReboot!Step(2))
    \/ part = "helper_live" /\ Kept11 /\ UNCHANGED part /\ (HelperLive!Deliver)
    \/ part = "obligations_live" /\ Kept13 /\ UNCHANGED part /\ (ObligationsLive!Commit("role") \/ ObligationsLive!Settle("role"))
    \/ part = "rollout_live" /\ Kept14 /\ UNCHANGED part /\ (RolloutLive!ControllerStep)
    \/ part = "download_live" /\ Kept13 /\ UNCHANGED part /\ (DownloadLive!Transfer(a1))
Weak3 ==
    \/ part = "restored_audit_live" /\ Kept22 /\ UNCHANGED part /\ (RestoredAuditLive!VerifyReconstructed)
    \/ part = "capture_rollout" /\ Kept13 /\ UNCHANGED part /\ (CaptureRollout!RolloutStep)
    \/ part = "capture_live" /\ Kept13 /\ UNCHANGED part /\ (CaptureLive!RolloutStep)
    \/ part = "restore_live" /\ UNCHANGED part /\ (RestoreLive!StartCaddy(1))
    \/ part = "restore_reboot" /\ UNCHANGED part /\ (RestoreReboot!StartCaddy(1))
    \/ part = "helper_live" /\ Kept11 /\ UNCHANGED part /\ (HelperLive!DeliverOrphan("private"))
    \/ part = "obligations_live" /\ Kept13 /\ UNCHANGED part /\ (ObligationsLive!StartSweep("controller"))
    \/ part = "rollout_live" /\ Kept14 /\ UNCHANGED part /\ (RolloutLive!LeaseStep)
    \/ part = "download_live" /\ Kept13 /\ UNCHANGED part /\ (DownloadLive!Serve(a1))
Weak4 ==
    \/ part = "capture_rollout" /\ Kept13 /\ UNCHANGED part /\ (CaptureRollout!ResticRead)
    \/ part = "capture_live" /\ Kept13 /\ UNCHANGED part /\ (CaptureLive!ResticRead)
    \/ part = "restore_live" /\ UNCHANGED part /\ (RestoreLive!StartCaddy(2))
    \/ part = "restore_reboot" /\ UNCHANGED part /\ (RestoreReboot!StartCaddy(2))
    \/ part = "helper_live" /\ Kept11 /\ UNCHANGED part /\ (HelperLive!HelperStep("private"))
    \/ part = "obligations_live" /\ Kept13 /\ UNCHANGED part /\ (ObligationsLive!Reconcile("controller"))
    \/ part = "rollout_live" /\ Kept14 /\ UNCHANGED part /\ (RolloutLive!ActionStep)
    \/ part = "download_live" /\ Kept13 /\ UNCHANGED part /\ (DownloadLive!Submit(a2))
Weak5 ==
    \/ part = "capture_rollout" /\ Kept13 /\ UNCHANGED part /\ (CaptureRollout!ResticSave)
    \/ part = "capture_live" /\ Kept13 /\ UNCHANGED part /\ (CaptureLive!ResticSave)
    \/ part = "restore_live" /\ UNCHANGED part /\ (RestoreLive!IssueCertificates(1))
    \/ part = "restore_reboot" /\ UNCHANGED part /\ (RestoreReboot!IssueCertificates(1))
    \/ part = "helper_live" /\ Kept11 /\ UNCHANGED part /\ (HelperLive!DeliverOrphan("installed"))
    \/ part = "obligations_live" /\ Kept13 /\ UNCHANGED part /\ (ObligationsLive!StartSweep("watchdog"))
    \/ part = "download_live" /\ Kept13 /\ UNCHANGED part /\ (DownloadLive!Transfer(a2))
Weak6 ==
    \/ part = "capture_rollout" /\ Kept13 /\ UNCHANGED part /\ (CaptureRollout!WorkerActivate \/ CaptureRollout!WorkerRecord \/ CaptureRollout!WorkerCommit)
    \/ part = "capture_live" /\ Kept13 /\ UNCHANGED part /\ (CaptureLive!WorkerActivate \/ CaptureLive!WorkerRecord \/ CaptureLive!WorkerCommit)
    \/ part = "restore_live" /\ UNCHANGED part /\ (RestoreLive!IssueCertificates(2))
    \/ part = "restore_reboot" /\ UNCHANGED part /\ (RestoreReboot!IssueCertificates(2))
    \/ part = "helper_live" /\ Kept11 /\ UNCHANGED part /\ (HelperLive!HelperStep("installed"))
    \/ part = "obligations_live" /\ Kept13 /\ UNCHANGED part /\ (ObligationsLive!Reconcile("watchdog"))
    \/ part = "download_live" /\ Kept13 /\ UNCHANGED part /\ (DownloadLive!Serve(a2))
Weak7 ==
    \/ part = "restore_live" /\ UNCHANGED part /\ (RestoreLive!StartRestore(1))
    \/ part = "restore_reboot" /\ UNCHANGED part /\ (RestoreReboot!StartRestore(1))
    \/ part = "download_live" /\ Kept13 /\ UNCHANGED part /\ (DownloadLive!Work)
Weak8 ==
    \/ part = "download_live" /\ Kept13 /\ UNCHANGED part /\ (DownloadLive!Expire)
Weak9 ==
    \/ part = "download_live" /\ Kept13 /\ UNCHANGED part /\ (DownloadLive!Reconcile)
Strong1 ==
    \/ part = "rotation_live" /\ Kept17 /\ UNCHANGED part /\ (RotationLive!Begin("verify"))
    \/ part = "lineage_live" /\ Kept10 /\ UNCHANGED part /\ (LineageLive!Start("namespace"))
    \/ part = "capture_rollout" /\ Kept13 /\ UNCHANGED part /\ (CaptureRollout!ScheduledStep)
    \/ part = "capture_live" /\ Kept13 /\ UNCHANGED part /\ (CaptureLive!ScheduledStep)
Strong2 ==
    \/ part = "rotation_live" /\ Kept17 /\ UNCHANGED part /\ (RotationLive!Begin("rotate"))
    \/ part = "lineage_live" /\ Kept10 /\ UNCHANGED part /\ (LineageLive!Start("initialize"))
Strong3 ==
    \/ part = "rotation_live" /\ Kept17 /\ UNCHANGED part /\ (RotationLive!Begin("maintain"))

FairSpec ==
    /\ Spec
    /\ WF_vars(Weak1) /\ WF_vars(Weak2) /\ WF_vars(Weak3) /\ WF_vars(Weak4) /\ WF_vars(Weak5) /\ WF_vars(Weak6) /\ WF_vars(Weak7) /\ WF_vars(Weak8) /\ WF_vars(Weak9)
    /\ SF_vars(Strong1) /\ SF_vars(Strong2) /\ SF_vars(Strong3)

-----------------------------------------------------------------------------


\* Nothing tells the members of a pair apart.
Symmetry == Permutations({a1, a2}) \cup Permutations({b1, b2})

\* The constants of the instances are what their modules assume.
ASSUME InstancesAssumption ==
    /\ Rotation!RotationAssumption /\ RotationLate!RotationAssumption /\ RotationLive!RotationAssumption
    /\ RestoredAudit!RotationAssumption /\ RestoredAudit!RestoreAssumption
    /\ WitnessFormats!AuditWitnessAssumption /\ WitnessCache!AuditWitnessAssumption
    /\ Lineage!LineageAssumption /\ LineageLive!LineageAssumption
    /\ Capture!CaptureAssumption /\ CaptureRollout!CaptureAssumption /\ CaptureLive!CaptureAssumption
    /\ Restore!HostRestoreAssumption /\ RestoreLive!HostRestoreAssumption /\ RestoreReboot!HostRestoreAssumption
    /\ Reconcile!ReconcileAssumption /\ ReconcileLive!ReconcileAssumption
    /\ Mapping!MappingAssumption /\ MappingLive!MappingAssumption
    /\ HelperLive!ArchiveHelperAssumption
    /\ LeaseLosses!LeaseAssumption /\ LeaseCrash!LeaseAssumption /\ LeaseGithub!LeaseAssumption
    /\ LeaseRoles!LeaseAssumption
    /\ Rollout!RolloutAssumption /\ RolloutPhases!RolloutAssumption /\ RolloutLive!RolloutAssumption

\* The audit chain: whatever survives a loss of power is read without a gap, every
\* segment is local or archived, no snapshot is taken blindly and none that holds
\* evidence is forgotten; a restored host continues the captured chain or refuses it
\* for a cause; and the witnesses of archived segments describe them exactly, as does
\* the answer of a cache that races with the chain it remembers.
AuditHistoryKept ==
    /\ [](/\ part = "rotation" =>
                /\ Rotation!TypeOK /\ Rotation!ChainReadable /\ Rotation!HistoryKept /\ Rotation!NoBlindSnapshot
                /\ Rotation!NoContradiction /\ Rotation!NeverBothPending
          /\ part = "rotation_late" => RotationLate!ChainReadable /\ RotationLate!HistoryKept
          /\ part = "restored_audit" =>
                /\ RestoredAudit!RestoreTypeOK /\ RestoredAudit!AlwaysReadable /\ RestoredAudit!AlwaysKept
                /\ RestoredAudit!RefusedForCause /\ RestoredAudit!NothingExtended /\ RestoredAudit!SourcesBound
                /\ RestoredAudit!NoContradiction
          /\ part = "witness_formats" =>
                /\ WitnessFormats!TypeOK /\ WitnessFormats!RoundTrip /\ WitnessFormats!NeverUndescribed
                /\ WitnessFormats!VerifiedIsExact /\ WitnessFormats!ReadIsHistory
          /\ part = "witness_cache" =>
                WitnessCache!TypeOK /\ WitnessCache!AnswersAreFresh /\ WitnessCache!CacheIsSound)
    /\ [][/\ part = "rotation" => Rotation!EvidenceStays
          /\ part = "restored_audit" => RestoredAudit!CompleteWhenDone]_vars

\* Backup lineage: the repository has one genesis however often its creation was
\* killed, what it holds is ours, the primary is proven, and once a lineage exists no
\* retention removes a snapshot any more.
LineageIsSingle ==
    /\ [](part = "lineage" => /\ Lineage!TypeOK /\ Lineage!OneGenesis /\ Lineage!RemoteIsOurs /\ Lineage!PrimaryIsProved
                              /\ Lineage!NeverRefused)
    /\ [][part = "lineage" => Lineage!RetentionStopsForGood]_vars

\* Captures: every recorded snapshot holds one coherent state of the host although
\* workers go on, a reported success can be restored, and a rollout has one capture.
CapturesAreRestorable ==
    /\ part = "capture" =>
        Capture!TypeOK /\ Capture!NeverRefused /\ Capture!SnapshotsAreCoherent /\ Capture!SuccessIsRestorable
    /\ part = "capture_rollout" =>
        CaptureRollout!NeverRefused /\ CaptureRollout!OneRolloutCapture /\ CaptureRollout!ResultHasSnapshot

\* The restore of a host: through killed coordinators, reboots and lost hosts, one
\* service at most is public, nothing runs on a half-installed host, the evidence of
\* each phase is complete, and a host that was opened is not gated again.
RestoreIsGated ==
    /\ [](part = "restore" => /\ Restore!TypeOK /\ Restore!SingleService /\ Restore!NothingRunsHalfInstalled
                              /\ Restore!EvidenceComplete /\ Restore!PublicOnlyWhenProven)
    /\ [][part = "restore" => Restore!NeverRegated]_vars

\* Reconciliation of a restored host: what the capture had selected is what the
\* interrupted job ends with, each answer has one audit entry and stands, the bucket
\* agrees with the records, and an object the records bind is never removed. Tenants
\* the restore did not touch are recognised after any number of restores, changed ones
\* are refused, and what is served is what was observed.
ReconciliationIsFaithful ==
    /\ [](/\ part = "reconcile" =>
                /\ Reconcile!TypeOK /\ Reconcile!DecidedFirst /\ Reconcile!SelectionWins /\ Reconcile!OneAuditPerAnswer
                /\ Reconcile!BucketMatchesRecords /\ Reconcile!LedgerExact
          /\ part = "mapping" =>
                /\ Mapping!TypeOK /\ Mapping!UnchangedIsRecognised /\ Mapping!LatestIsSelected /\ Mapping!ChangedIsRefused
                /\ Mapping!ObservationsProven /\ Mapping!ServedIsObserved)
    /\ [][part = "reconcile" => Reconcile!AnswersStand /\ Reconcile!BoundObjectKept]_vars

\* Credentials of unattended runs: a lease the inventory calls clear has no credential
\* left, a role is issued one, secrets on disk are bound by the stop proof, and closed
\* leases were denied by the provider; obligations that are resolved are gone, nobody
\* else's credential is touched, and a run is admitted only when all are clear.
CredentialsAreClosed ==
    /\ [](/\ part = "lease_losses" =>
                LeaseLosses!TypeOK /\ LeaseLosses!ClearMeansGone /\ LeaseLosses!VerifiedMeansClosed
          /\ part = "lease_crash" =>
                LeaseCrash!SingleIssuance /\ LeaseCrash!SecretsAreBound /\ LeaseCrash!ClearMeansGone
          /\ part = "lease_github" => LeaseGithub!ClosedMeansDenied /\ LeaseGithub!NoContradiction
          /\ part = "lease_roles" => LeaseRoles!JourneyHasCredentials /\ LeaseRoles!ClearMeansGone
          /\ part = "obligations" =>
                /\ Obligations!TypeOK /\ Obligations!MarkersHold /\ Obligations!ResolvedIsGone /\ Obligations!AbortIsTrue
                /\ Obligations!StrangersLeftAlone
          /\ part = "obligations_roles" => ObligationsRoles!ResolvedIsGone)
    /\ [][/\ part = "obligations" => Obligations!NeverRecreated /\ Obligations!AdmittedWhenClear
          /\ part = "obligations_roles" => ObligationsRoles!AdmittedWhenClear]_vars

\* The production rollout: whichever attempt dies, the journals of controller and host
\* agree, no attempt is refused for ever, services are fenced while phases run, records
\* tell what was done, and only the attempt that owns the lease acts.
RolloutIsFenced ==
    /\ [](/\ part = "rollout" => /\ Rollout!TypeOK /\ Rollout!JournalsAgree /\ Rollout!NeverRefused
                                 /\ Rollout!ServicesFenced /\ Rollout!RecordsTellTheTruth
          /\ part = "rollout_phases" => /\ RolloutPhases!NeverRefused /\ RolloutPhases!RecordsTellTheTruth
                                        /\ RolloutPhases!ServicesFenced)
    /\ [][part = "rollout" => Rollout!OnlyOwnerActs]_vars

\* The operator exchange: what a job executes is what the operator declared; a bundle
\* is retired only when some terminal has it whole, a reported success is true, a
\* failure leaves nothing behind, and a file that was there is never overwritten.
ExchangesAreHonest ==
    /\ [](/\ part = "upload" => Upload!ExecutedIsDeclared
          /\ part = "download" => /\ Download!TypeOK /\ Download!RetiredIsSaved /\ Download!OnlyWhole
                                  /\ Download!SuccessIsTrue /\ Download!NothingLeftBehind)
    /\ [][part = "download" => Download!NotOverwritten]_vars

\* What each part has to come back to.
Settled ==
    /\ part = "rotation_live" =>
        RotationLive!ClosedSegmentLeaves /\ RotationLive!MaintenanceEnds /\ RotationLive!AdmissionReturns
    /\ part = "restored_audit_live" => RestoredAuditLive!RestoreSettles
    /\ part = "lineage_live" => LineageLive!LineageCompletes
    /\ part = "capture_rollout" => CaptureRollout!CaptureSucceeds
    /\ part = "capture_live" => CaptureLive!CaptureSucceeds
    /\ part = "restore_live" => RestoreLive!RestoreCompletes
    /\ part = "restore_reboot" => RestoreReboot!RestoreCompletes
    /\ part = "reconcile_live" => ReconcileLive!Reconciles
    /\ part = "mapping_live" => MappingLive!RestoreEnds
    /\ part = "helper_live" => HelperLive!RestoreCompletes /\ HelperLive!LeaseComesFree
    /\ part = "obligations_live" => ObligationsLive!KnownAreDeleted /\ ObligationsLive!KnownAreResolved
    /\ part = "rollout_live" => RolloutLive!RolloutCompletes
    /\ part = "download_live" => DownloadLive!AttemptsEnd /\ DownloadLive!SlotFreed

\* After its last crash a rotation, capture, restore, reconciliation, revocation,
\* rollout or exchange completes: no record an interrupted run left stands in the way
\* of the next one.
RecoveryEnds == []<>Settled

=============================================================================
