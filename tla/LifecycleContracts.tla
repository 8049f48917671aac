------------------------- MODULE LifecycleContracts -------------------------
(***************************************************************************)
(* The readers of the lifecycle documents.  Every contract is validated    *)
(* when it is written and whenever it is read (schema.py), and before a    *)
(* worker takes an interrupted job up again the executor validates that    *)
(* the job, its journals and the tenant's records belong together          *)
(* (execution.py); what fails either is an error that no retry cures.  The *)
(* writers are the actions of LifecyclePlan; here every state they reach   *)
(* is shown to the readers.                                                *)
(*                                                                         *)
(* Left out: what the JSON schema says of single fields, the versions      *)
(* static-job-v1 and static-intent-v1, runtime generations and route sets  *)
(* (RouteTransition, GenerationStore), and the restart fence.              *)
(***************************************************************************)
EXTENDS LifecyclePlan

-----------------------------------------------------------------------------
(* schema.py *)

\* The archive record belongs to the tenant's manifest and deployment.
ValidateJobSourceAuthority(j) ==
    LET m == j.source.manifest
        a == j.source.archive
    IN  IF j.op = "create" THEN m = None
        ELSE IF m.state # "archived" THEN a = None
        ELSE a # None /\ a.dep = m.dep /\ a.of = m

CurrentJobDeletionAuthority(j) ==
    [slug |-> j.source.manifest.slug,
     archive |-> IF j.source.manifest.state = "archived" THEN j.source.archive ELSE None]

ValidateJobDeletionAuthority(j) ==
    j.source.evidence =
        IF j.op = "delete" /\ j.source.manifest.state \in {"undeployed", "archived"}
        THEN CurrentJobDeletionAuthority(j) ELSE None

ValidateJob(j) ==
    /\ ValidateJobSourceAuthority(j)
    /\ IF j.op = "create" THEN j.source = Absent
       ELSE /\ (j.source.manifest.state = "undeployed") <=> (j.source.tree = 0)
            /\ (j.source.manifest.state = "archived") <=> (j.source.archive # None)
            /\ ValidateJobDeletionAuthority(j)

\* The archive's manifest is another generation than the source's.
ValidateArchiveConstructionIntent(i) == ArchivedManifest(i.source) # i.source

ValidateArchiveRetirementIntent(i) == i.archive # None /\ i.archive.of = i.source

\* Nothing but what the operation is about may differ.
ValidateTransactionManifestTransform(op, source, candidate) ==
    CASE op \in {"create", "delete", "archive"} -> TRUE
      [] op = "rename" -> candidate = [source EXCEPT !.slug = candidate.slug]
      [] op \in {"suspend", "resume"} -> candidate = [source EXCEPT !.state = candidate.state]
      [] op \in {"deploy", "rollback", "import", "restore"} ->
           candidate = [source EXCEPT !.state = candidate.state, !.dep = candidate.dep]
      [] OTHER -> candidate = source

ValidateObservedManifestBinding(manifest, observed) ==
    /\ observed.state = manifest.state
    /\ observed.active = IF observed.state \in {"active", "suspended"} THEN manifest.dep ELSE 0

ValidateObservedRecoveryBinding(manifest, observed) == observed.of = manifest

SourceManifest(i) == IF i.source = None THEN None ELSE i.source.manifest

CandidateManifest(i) == IF i.plan.document = None THEN None ELSE i.plan.document.manifest

\* A reconciliation may find any observed state; its source is what is desired.
ValidateLifecycleSourceRecovery(op, i) ==
    i.source = None \/ op = "reconcile"
        \/ /\ ValidateObservedRecoveryBinding(i.source.manifest, i.source.observed)
           /\ ValidateObservedManifestBinding(i.source.manifest, i.source.observed)

SourceState(i) == IF i.source = None THEN "absent" ELSE i.source.manifest.state

CandidateState(i) ==
    IF i.plan.document = None THEN "absent" ELSE i.plan.document.observed.state

ValidateManifestTransitionBinding(op, i) ==
    LET same == SourceManifest(i) = CandidateManifest(i)
    IN  IF SourceState(i) # CandidateState(i) THEN ~same
        ELSE (op \in {"suspend", "resume"} => same) /\ (op = "rename" => ~same)

ValidateLifecycleRecovery(op, i) ==
    /\ op = "create" <=> i.source = None
    /\ op = "delete" <=> i.plan.document = None
    /\ ValidateLifecycleSourceRecovery(op, i)
    /\ i.plan.document = None
          \/ /\ ValidateObservedRecoveryBinding(i.plan.document.manifest, i.plan.document.observed)
             /\ ValidateObservedManifestBinding(i.plan.document.manifest, i.plan.document.observed)
    /\ Allowed(op, SourceState(i)) /\ LifecycleMatrix(op, SourceState(i)) = CandidateState(i)
    /\ ValidateManifestTransitionBinding(op, i)
    /\ op \in {"deploy", "rollback", "restore"} =>
          /\ i.source.observed.active # i.plan.document.observed.active
          /\ SourceManifest(i) # CandidateManifest(i)
    /\ op \in {"suspend", "resume", "rename"} =>
          i.source.observed.active = i.plan.document.observed.active

ValidateArchiveTransaction(i) ==
    LET source == i.source.manifest
        archive == i.plan.document.archive
    IN  /\ source.state \in {"active", "suspended"}
        /\ CandidateManifest(i) = ArchivedManifest(source)
        /\ i.source.observed = [of |-> source, state |-> source.state, active |-> source.dep]
        /\ archive.dep = source.dep /\ archive.of = CandidateManifest(i)

\* A reconcile's candidate is the manifest itself.
ValidateNonarchiveTransactionIntent(op, i) ==
    /\ op = "reconcile" => SourceManifest(i) = CandidateManifest(i)
    /\ ValidateLifecycleRecovery(op, i)

ValidateTransactionIntent(j, i) ==
    /\ ValidateTransactionManifestTransform(j.op, SourceManifest(i), CandidateManifest(i))
    /\ IF j.op = "archive" THEN ValidateArchiveTransaction(i)
       ELSE ValidateNonarchiveTransactionIntent(j.op, i)

ValidateEmergencyDeletionIntent(i) ==
    LET m == i.source.manifest
        a == i.source.archive
    IN  /\ i.source.observed.of = m /\ i.source.observed.state = m.state
        /\ IF m.dep = 0 THEN i.source.hist = {} ELSE m.dep \in i.source.hist
        /\ m.state = "archived" <=> a # None
        /\ a # None => a.of = m /\ a.dep = m.dep

SemanticValidation(i) ==
    CASE i.kind = "construction" -> ValidateArchiveConstructionIntent(i)
      [] i.kind = "retirement" -> ValidateArchiveRetirementIntent(i)
      [] i.kind = "emergency" -> ValidateEmergencyDeletionIntent(i)
      [] OTHER -> ValidateTransactionIntent(jobs[i.slot], i)

-----------------------------------------------------------------------------
(* execution.py *)

\* The deployment record the job's expected source names, if it is retained.
DeploymentForDigest(j) ==
    {d \in tenants[j.tenant].hist : d = j.source.manifest.dep /\ origin[d] = j.source.tree}

\* The candidate is the tenant's and, of a create or a rename, has the slug that was
\* asked for.
ValidateCandidateRequestBinding(j, i) ==
    i.plan.document # None =>
        /\ j.op # "create" => i.plan.tenant = j.tenant
        /\ j.op \in {"create", "rename"} => CandidateManifest(i).slug = j.slug
        /\ j.op = "rollback" => CandidateManifest(i).dep = j.target

TransactionIntentBindsJob(j, i) ==
    /\ SourceManifest(i) = j.source.manifest
    /\ j.op # "create" => i.plan.tenant = j.tenant
    /\ ValidateCandidateRequestBinding(j, i)

\* The selected deployment is still the one that was uploaded.
ArchiveConstructionIntentBindsJob(j, i) ==
    LET doc == tenants[j.tenant]
    IN  /\ j.op = "archive"
        /\ i.source = j.source.manifest /\ i.tree = j.source.tree
        /\ doc.manifest.dep \in doc.hist /\ origin[doc.manifest.dep] = i.tree

\* After a restore has been committed, too, the archived deployment must be retained.
ArchiveRetirementIntentBindsJob(j, i) ==
    /\ j.op \in {"restore", "delete"}
    /\ i.source = j.source.manifest /\ i.archive = j.source.archive
    /\ j.op = "restore" => \E d \in DeploymentForDigest(j) : origin[d] = i.archive.tree

IntentBindsJob(j, i) ==
    CASE i.kind = "transaction" -> TransactionIntentBindsJob(j, i)
      [] i.kind = "construction" -> ArchiveConstructionIntentBindsJob(j, i)
      [] OTHER -> ArchiveRetirementIntentBindsJob(j, i)

ValidateRetirementTransactionRelationship(j, i, r) ==
    /\ SourceManifest(i) = r.source
    /\ j.op = "restore" =>
          /\ r.source.dep = r.archive.dep
          /\ CandidateManifest(i).dep # r.archive.dep
          /\ origin[CandidateManifest(i).dep] = r.archive.tree
          /\ i.plan.document.observed.active = CandidateManifest(i).dep

ValidateArchiveIntentRelationships(s) ==
    \A i \in Own(s, "transaction") :
        /\ jobs[s].op = "restore" => Own(s, "retirement") # {}
        /\ \A r \in Own(s, "retirement") :
              ValidateRetirementTransactionRelationship(jobs[s], i, r)
        /\ \A c \in Own(s, "construction") :
              /\ CandidateManifest(i) = ArchivedManifest(c.source)
              /\ i.plan.document.archive.of = ArchivedManifest(c.source)
              /\ i.plan.document.archive.tree = c.tree

\* The archive record a committed construction left.
ArchiveRecordForConstructionAuthority(j, c) ==
    LET a == tenants[j.tenant].archive
    IN  a # None => /\ a.dep = tenants[j.tenant].manifest.dep
                    /\ a.tree = c.tree /\ a.of = ArchivedManifest(c.source) /\ a.by = j.id

\* The source of an archive or a restore that has already been committed, as far as the
\* records that are left say.
ReconstructArchiveSourceManifest(j) ==
    [tenants[j.tenant].manifest EXCEPT !.state = j.source.manifest.state]

ReconstructRestoreSourceManifest(j) ==
    {[tenants[j.tenant].manifest EXCEPT !.state = "archived", !.dep = d] :
        d \in DeploymentForDigest(j)}

\* Without a transaction intent the source is the tenant's manifest, or what it was
\* before the commit.
CapturedSource(s) ==
    LET j == jobs[s]
    IN  IF Own(s, "transaction") # {} THEN {SourceManifest(i) : i \in Own(s, "transaction")}
        ELSE IF tenants[j.tenant].manifest = j.source.manifest THEN {j.source.manifest}
        ELSE IF j.op = "archive" THEN {ReconstructArchiveSourceManifest(j)}
        ELSE IF j.op = "restore" THEN ReconstructRestoreSourceManifest(j)
        ELSE {tenants[j.tenant].manifest}

\* The archive a restore starts from: the retirement's, else the tenant's record.
RestoreSourceArchiveAuthority(s) ==
    IF Own(s, "retirement") # {} THEN \A r \in Own(s, "retirement") : r.archive = jobs[s].source.archive
    ELSE tenants[jobs[s].tenant].archive = jobs[s].source.archive

\* _capture_authorized_lifecycle_authority and _validate_durable_source_authority: the
\* source can be told and is the job's.
CaptureAuthorizedLifecycleAuthority(s) ==
    LET j == jobs[s]
    IN  j.op \in {"create", "delete"}
        \/ /\ CapturedSource(s) = {j.source.manifest}
           /\ \A c \in Own(s, "construction") : ArchiveRecordForConstructionAuthority(j, c)
           /\ j.op = "restore" => RestoreSourceArchiveAuthority(s)

-----------------------------------------------------------------------------
(* Properties *)

\* Every job and every journal the lifecycle handlers write is one that the contract
\* validation accepts, in every state a tenant can reach through any sequence of
\* operations: a document that is written and then refused by its readers stops the
\* lifecycle of the whole host (schema.py _semantic_validation).
ContractsAccepted ==
    /\ \A s \in Slots : jobs[s].phase # "free" => ValidateJob(jobs[s])
    /\ \A i \in intents : SemanticValidation(i)

\* A job that was interrupted anywhere, also between its commit and the end of its
\* archive's cleanup, is accepted when a worker takes it up again: its journals bind
\* it, agree with each other, and its source can be told from the records that are
\* left (execution.py _intent_binds_job, _validate_archive_intent_relationships,
\* _capture_authorized_lifecycle_authority).
InterruptedJobsAreAccepted ==
    \A s \in Slots :
        LET own == {i \in intents : i.slot = s}
        IN  own # {} => /\ \A i \in own : IntentBindsJob(jobs[s], i)
                        /\ ValidateArchiveIntentRelationships(s)
                        /\ CaptureAuthorizedLifecycleAuthority(s)
=============================================================================
