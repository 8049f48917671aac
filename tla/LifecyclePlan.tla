--------------------------- MODULE LifecyclePlan ---------------------------
(***************************************************************************)
(* What the lifecycle jobs of a host do to the tenants' documents, over    *)
(* long sequences of operations and with several authorized jobs waiting   *)
(* at once.  A job is bound to the source it was issued against            *)
(* (issuance.py), to the record histories it was dispatched against        *)
(* (execution.py), and to the documents its plan computed from them        *)
(* (lifecycle_plan.py, delete_plan.py, restore_plan.py, emergency_plan.py);*)
(* the commit validates the plan again before it writes.  The plans are    *)
(* operators on the documents, and the handlers are the actions.           *)
(*                                                                         *)
(* The writes of one commit are one step here: StaticHost, RouteTransition,*)
(* TenantNamespace and TenantArchive take them apart.                      *)
(*                                                                         *)
(* Deployment identities are UUIDv7 and only their order matters: an       *)
(* identity is the next number when the clock is ahead of the tenant's     *)
(* history, and a clock that stepped back yields one that the plan refuses.*)
(***************************************************************************)
EXTENDS Naturals, FiniteSets, FiniteSetsExt

CONSTANTS
    Tenants,        \* the identities a create may generate
    Slugs,
    Slots,          \* the jobs that may wait at once
    Ops,            \* the operations the operators ask for
    MaxJobs,        \* how many jobs and emergency deletions there are
    MaxRetained,    \* _MAXIMUM_RETAINED_DEPLOYMENTS
    ClockSteps,     \* the wall clock may step back
    Legal,          \* the operators ask only for pairs of the lifecycle matrix
    None

VARIABLES
    tenants,    \* the documents of every tenant, or None
    origin,     \* the content of every deployment: the one it was first deployed as
    jobs,       \* the jobs that have no result yet; seen is a ghost: the documents
                \* the operator saw
    issued,     \* how many jobs were issued
    intents,    \* the intent store: transactions, constructions, retirements
    behind,     \* the clock is behind the identities it has issued
    spent,      \* the identities of deleted tenants (the audit chain's tombstones)
    refused     \* a commit found its documents in disagreement

vars == <<tenants, origin, jobs, issued, intents, behind, spent, refused>>

Free == [phase |-> "free", id |-> 0, op |-> "none", tenant |-> None, slug |-> None, target |-> 0,
         source |-> None, seen |-> None, bound |-> None]

-----------------------------------------------------------------------------
(* Documents *)

\* activeDeploymentId of an observed state: nothing is active of an undeployed
\* or an archived tenant.
ActiveDeployment(manifest) ==
    IF manifest.state \in {"active", "suspended"} THEN manifest.dep ELSE 0

Observed(manifest) ==
    [of |-> manifest, state |-> manifest.state, active |-> ActiveDeployment(manifest)]

Document(manifest, hist, archive) ==
    [manifest |-> manifest, observed |-> Observed(manifest), hist |-> hist,
     archive |-> archive]

Present == {t \in Tenants : tenants[t] # None}

SlugTaken(slug) == \E t \in Present : tenants[t].manifest.slug = slug

Absent == [manifest |-> None, tree |-> 0, archive |-> None, evidence |-> None]

\* The lifecycle matrix without the export, which changes no document.
MatrixRows ==
       {<<"create", "absent", "undeployed">>, <<"import", "undeployed", "active">>,
        <<"restore", "archived", "active">>, <<"suspend", "active", "suspended">>,
        <<"suspend", "suspended", "suspended">>, <<"resume", "active", "active">>,
        <<"resume", "suspended", "active">>, <<"archive", "active", "archived">>,
        <<"archive", "suspended", "archived">>, <<"archive", "archived", "archived">>,
        <<"delete", "undeployed", "absent">>, <<"delete", "archived", "absent">>,
        <<"deploy", "undeployed", "active">>, <<"deploy", "active", "active">>,
        <<"deploy", "suspended", "suspended">>, <<"rollback", "active", "active">>,
        <<"rollback", "suspended", "suspended">>}
    \cup {<<"rename", s, s>> : s \in {"undeployed", "active", "suspended"}}
    \cup {<<"reconcile", s, s>> : s \in {"undeployed", "active", "suspended", "archived"}}

Rows == MatrixRows

Allowed(op, state) == \E row \in Rows : row[1] = op /\ row[2] = state

LifecycleMatrix(op, state) ==
    (CHOOSE row \in Rows : row[1] = op /\ row[2] = state)[3]

-----------------------------------------------------------------------------
(* Authority: what a job is bound to *)

\* A job is bound to the lifecycle only, not to the manifest's digest.
SourceBindings_Mutant(op, t) ==
    IF op = "create" THEN Absent
    ELSE [manifest |-> [tenants[t].manifest EXCEPT !.dep = 0, !.slug = None],
          tree |-> 0, archive |-> None, evidence |-> None]

\* What a delete's tombstone will say: the slug that is released, the archive that is
\* retired.
DeletionEvidence(t) == [slug |-> tenants[t].manifest.slug, archive |-> tenants[t].archive]

\* The manifest, the selected deployment's record and the archive record, by value
\* where the code has their digests.
SourceBindings(op, t) ==
    IF op = "create" THEN Absent
    ELSE [manifest |-> tenants[t].manifest,
          tree |-> IF tenants[t].manifest.dep = 0 THEN 0
                   ELSE origin[tenants[t].manifest.dep],
          archive |-> tenants[t].archive,
          evidence |-> IF op = "delete" THEN DeletionEvidence(t) ELSE None]

\* Only a delete is checked against the lifecycle when it is issued.
Bindable(op, t) ==
    \/ op = "create"
    \/ /\ t \in Present
       /\ op = "delete" =>
             \/ tenants[t].manifest.state = "undeployed" /\ tenants[t].hist = {}
             \/ tenants[t].manifest.state = "archived"

SourceCurrent(j) == Bindable(j.op, j.tenant) /\ SourceBindings(j.op, j.tenant) = j.source

ExpectedSourceError(j) ==
    \/ ~SourceCurrent(j)
    \/ j.op = "create" /\ SlugTaken(j.slug)

ArchiveIds(t) == IF tenants[t].archive = None THEN {} ELSE {tenants[t].archive.dep}

TenantRecordHistories == [u \in Present |-> <<ArchiveIds(u), tenants[u].hist>>]

DispatchAuthority(j) ==
    [hist |-> IF j.op = "create" THEN {} ELSE tenants[j.tenant].hist,
     arch |-> IF j.op = "create" THEN {} ELSE ArchiveIds(j.tenant),
     all |-> TenantRecordHistories]

\* The identities of a tenant's history, and its archive's, are the bound ones.
RequireBoundHistory(j) ==
    /\ j.bound.hist = tenants[j.tenant].hist
    /\ j.bound.arch = ArchiveIds(j.tenant)

\* No tenant of the host was added, removed or changed its records since the dispatch.
RequireGlobalHistory(j) == j.bound.all = TenantRecordHistories

-----------------------------------------------------------------------------
(* Plans: the candidate documents of a job, or the reason there are none *)

Planned(t, dep, creates, document) ==
    [ok |-> TRUE, tenant |-> t, dep |-> dep, creates |-> creates, document |-> document]

Unplannable == [ok |-> FALSE, tenant |-> None, dep |-> 0, creates |-> FALSE, document |-> None]

PlanCreateTransition(j, t) ==
    LET manifest == [slug |-> j.slug, state |-> "undeployed", dep |-> 0]
    IN  IF j.source # Absent THEN Unplannable
        ELSE Planned(t, 0, FALSE, Document(manifest, {}, None))

ValidateRouteSourceObserved(doc) == doc.observed = Observed(doc.manifest)

\* A deployed source has its deployment record, an archived one its archive, bound to
\* the manifest.
RouteSourceBound(doc) ==
    LET m == doc.manifest
    IN  IF m.state = "undeployed" THEN m.dep = 0 /\ doc.archive = None
        ELSE /\ m.dep \in doc.hist
             /\ IF m.state = "archived"
                THEN /\ doc.archive # None
                     /\ doc.archive.dep = m.dep /\ doc.archive.of = m
                     /\ doc.archive.tree = origin[m.dep]
                ELSE doc.archive = None

RouteCandidate(j, doc) ==
    IF j.op = "rename" THEN [doc.manifest EXCEPT !.slug = j.slug]
    ELSE [doc.manifest EXCEPT !.state = LifecycleMatrix(j.op, doc.manifest.state)]

PlanRouteTransition(j) ==
    LET doc == tenants[j.tenant]
    IN  IF \/ ~Allowed(j.op, doc.manifest.state)
           \/ ~RouteSourceBound(doc)
           \/ SourceBindings(j.op, j.tenant) # j.source
           \/ j.op # "reconcile" /\ ~ValidateRouteSourceObserved(doc)
           \/ j.op = "rename" /\ RouteCandidate(j, doc) = doc.manifest
        THEN Unplannable
        ELSE Planned(j.tenant, 0, FALSE, Document(RouteCandidate(j, doc), doc.hist, doc.archive))

\* The selected deployment is the newest of the bound history; a rollback
\* selects an older one of it, a deployment follows all of it.
SelectDeployment(j, doc, dep) ==
    /\ IF doc.manifest.dep = 0 THEN j.bound.hist = {}
       ELSE j.bound.hist # {} /\ doc.manifest.dep = Max(j.bound.hist)
    /\ IF j.op = "rollback"
       THEN dep # doc.manifest.dep /\ dep \in j.bound.hist
       ELSE \A d \in j.bound.hist : d < dep

ValidateDeploymentSource(doc) ==
    /\ doc.manifest.state = "undeployed" => doc.manifest.dep = 0
    /\ doc.manifest.state \in {"active", "suspended"} => doc.manifest.dep \in doc.hist
    /\ doc.observed = Observed(doc.manifest)

TransitionHistory(hist, dep, creates) == IF creates THEN hist \cup {dep} ELSE hist

\* The selected deployment and its predecessors: what is newer is dropped.
TerminalHistory(hist, dep) ==
    {d \in hist : d <= dep /\ Cardinality({e \in hist : d < e /\ e <= dep}) < MaxRetained}

PlanDeploymentTransition(j, dep) ==
    LET doc == tenants[j.tenant]
        creates == j.op \in {"deploy", "import"}
    IN  IF \/ ~Allowed(j.op, doc.manifest.state)
           \/ ~ValidateDeploymentSource(doc)
           \/ SourceBindings(j.op, j.tenant) # j.source
           \/ ~SelectDeployment(j, doc, dep)
        THEN Unplannable
        ELSE Planned(j.tenant, dep, creates,
                Document([doc.manifest EXCEPT !.state = LifecycleMatrix(j.op, doc.manifest.state),
                                              !.dep = dep],
                         TerminalHistory(TransitionHistory(doc.hist, dep, creates), dep), None))

ArchivedManifest(manifest) == [manifest EXCEPT !.state = "archived"]

RequireArchiveConstruction(construction, doc) ==
    /\ construction.phase = "uploaded"
    /\ construction.source = doc.manifest
    /\ construction.tree = origin[doc.manifest.dep]

PlanArchiveTransition(j, construction) ==
    LET doc == tenants[j.tenant]
        candidate == ArchivedManifest(doc.manifest)
    IN  IF \/ doc.manifest.state \notin {"active", "suspended"}
           \/ SourceBindings(j.op, j.tenant) # j.source
           \/ ~RequireArchiveConstruction(construction, doc)
        THEN Unplannable
        ELSE Planned(j.tenant, 0, FALSE,
                Document(candidate, doc.hist,
                    [dep |-> candidate.dep, of |-> candidate, tree |-> construction.tree,
                     by |-> j.id]))

\* The restored content is a new deployment, newer than the whole bound history.
PlanRestoreTransition(j, retirement, dep) ==
    LET doc == tenants[j.tenant]
        candidate == [doc.manifest EXCEPT !.state = "active", !.dep = dep]
    IN  IF \/ doc.manifest.state # "archived"
           \/ SourceBindings(j.op, j.tenant) # j.source
           \/ retirement.archive # doc.archive
           \/ doc.archive.of # doc.manifest
           \/ doc.archive.tree # origin[doc.manifest.dep]
           \/ j.bound.hist = {}
           \/ Max(j.bound.hist) # doc.manifest.dep
           \/ dep <= Max(j.bound.hist)
           \/ j.bound.arch # {doc.manifest.dep}
        THEN Unplannable
        ELSE Planned(j.tenant, dep, TRUE,
                Document(candidate,
                    TerminalHistory(TransitionHistory(doc.hist, dep, TRUE), dep), None))

PlanDeleteTransition(j, retirement) ==
    LET doc == tenants[j.tenant]
    IN  IF \/ doc.manifest.state \notin {"undeployed", "archived"}
           \/ SourceBindings(j.op, j.tenant) # j.source
           \/ doc.observed # Observed(doc.manifest)
           \/ /\ doc.manifest.state = "undeployed"
              /\ retirement # None \/ j.bound.hist # {} \/ j.bound.arch # {}
           \/ /\ doc.manifest.state = "archived"
              /\ \/ retirement = None
                 \/ retirement.archive # doc.archive
                 \/ j.bound.arch # {doc.manifest.dep}
                 \/ doc.manifest.dep \notin j.bound.hist
        THEN Unplannable
        ELSE Planned(j.tenant, 0, FALSE, None)

-----------------------------------------------------------------------------
(* The intent store *)

\* A transition is prepared only when the intent store holds no other authority.
EmptyIntentStore == intents = {}

SoleIntent(journal) == intents = {journal}

Transaction(s, plan) ==
    [kind |-> "transaction", slot |-> s, plan |-> plan, phase |-> "prepared",
     source |-> IF plan.tenant \in Present THEN tenants[plan.tenant] ELSE None,
     tree |-> 0, archive |-> None]

Construction(s, t, phase) ==
    [kind |-> "construction", slot |-> s, plan |-> Unplannable, phase |-> phase,
     source |-> tenants[t].manifest, tree |-> origin[tenants[t].manifest.dep],
     archive |-> None]

Retirement(s, t) ==
    [kind |-> "retirement", slot |-> s, plan |-> Unplannable, phase |-> "prepared",
     source |-> tenants[t].manifest, tree |-> 0, archive |-> tenants[t].archive]

Own(s, kind) == {i \in intents : i.slot = s /\ i.kind = kind}

\* A lifecycle reservation of another job makes this one busy.
ReservationOwner(s) == \A i \in intents : i.slot = s

Finish(s) == jobs' = [jobs EXCEPT ![s] = Free]

\* A failure is published: the job has its result.
Reject(s) ==
    /\ Finish(s)
    /\ UNCHANGED <<tenants, origin, issued, intents, behind, spent, refused>>

-----------------------------------------------------------------------------
(* Issuance and dispatch *)

\* How many creates may still find an identity: a bound of the model, since a UUIDv7
\* never runs out.
IdentitiesLeft ==
    Cardinality((Tenants \ Present) \ spent)
        > Cardinality({s \in Slots : jobs[s].op = "create"})

\* A request is bound to the current source; only the delete's is checked.
Issue(s, op, t, slug, target) ==
    /\ jobs[s] = Free
    /\ issued < MaxJobs
    /\ op \in Ops
    /\ op = "create" => IdentitiesLeft
    /\ IF op = "create" THEN t = None ELSE t # None /\ Bindable(op, t)
    /\ op \in {"create", "rename"} <=> slug # None
    /\ op = "rollback" <=> target # 0
    /\ target # 0 => target <= issued
    /\ Legal => Allowed(op, IF t = None THEN "absent" ELSE tenants[t].manifest.state)
    /\ jobs' = [jobs EXCEPT ![s] =
                  [phase |-> "pending", id |-> IF op = "archive" THEN issued + 1 ELSE 0, op |-> op, tenant |-> t, slug |-> slug,
                   target |-> target, source |-> SourceBindings(op, t),
                   seen |-> IF t = None THEN None ELSE tenants[t], bound |-> None]]
    /\ issued' = issued + 1
    /\ UNCHANGED <<tenants, origin, intents, behind, spent, refused>>

\* The executor takes a job up: a drifted source ends it, otherwise its dispatch
\* authority is bound, once, and it is claimed.
Dispatch(s) ==
    /\ jobs[s].phase \in {"pending", "claimed"}
    /\ ReservationOwner(s)
    /\ Own(s, "transaction") = {} /\ Own(s, "construction") = {} /\ Own(s, "retirement") = {}
    /\ IF ExpectedSourceError(jobs[s]) THEN Reject(s)
       ELSE /\ jobs[s].phase = "pending"
            /\ jobs' = [jobs EXCEPT ![s].phase = "claimed",
                                    ![s].bound = DispatchAuthority(jobs[s])]
            /\ UNCHANGED <<tenants, origin, issued, intents, behind, spent, refused>>

Claimed(s, ops) == jobs[s].phase = "claimed" /\ jobs[s].op \in ops

\* The intent is published; a release is created before it.
Prepare(s, plan) ==
    /\ intents' = intents \cup {Transaction(s, plan)}
    /\ origin' = IF plan.creates
                 THEN [origin EXCEPT ![plan.dep] =
                         IF jobs[s].op = "restore" THEN tenants[plan.tenant].archive.tree
                         ELSE plan.dep]
                 ELSE origin
    /\ UNCHANGED <<tenants, jobs, issued, behind, spent, refused>>

\* The next identity, or none when the clock stepped back behind the history.
NewIdentity(hist) == IF behind /\ hist # {} THEN 0 ELSE 1 + Cardinality({d \in DOMAIN origin : origin[d] # 0})

-----------------------------------------------------------------------------
(* Handlers *)

TargetAvailable(t) == t \notin Present /\ t \notin spent

\* The generated tenant identity is new; a slug that was taken meanwhile is drift.
PrepareCreate(s, t) ==
    /\ Claimed(s, {"create"})
    /\ EmptyIntentStore
    /\ TargetAvailable(t)
    /\ IF SlugTaken(jobs[s].slug) THEN Reject(s)
       ELSE Prepare(s, PlanCreateTransition(jobs[s], t))

SlugAvailable(j) ==
    j.op = "rename" => \A t \in Present \ {j.tenant} : tenants[t].manifest.slug # j.slug

PrepareRoute(s) ==
    /\ Claimed(s, {"suspend", "resume", "rename", "reconcile"})
    /\ EmptyIntentStore
    /\ LET j == jobs[s]
       IN  IF ~SourceCurrent(j) THEN Reject(s)
           ELSE LET plan == PlanRouteTransition(j)
                IN  IF ~plan.ok \/ ~SlugAvailable(j) THEN Reject(s) ELSE Prepare(s, plan)

\* Drift of the source, of the tenant's history or of the host's, a rollback target
\* that left the history, and a plan that is refused all end the job.
PrepareDeployment(s) ==
    /\ Claimed(s, {"deploy", "import", "rollback"})
    /\ EmptyIntentStore
    /\ LET j == jobs[s]
       IN  IF ~SourceCurrent(j) \/ ~RequireBoundHistory(j) \/ j.bound.arch # {}
           THEN Reject(s)
           ELSE LET dep == IF j.op = "rollback" THEN j.target ELSE NewIdentity(j.bound.hist)
                    plan == PlanDeploymentTransition(j, dep)
                IN  IF ~plan.ok \/ ~RequireGlobalHistory(j) THEN Reject(s)
                    ELSE Prepare(s, plan)

\* The bundle is built from the current source and the construction is journalled
\* before the upload.
Construct(s) ==
    /\ Claimed(s, {"archive"})
    /\ EmptyIntentStore
    /\ jobs[s].source.manifest.state # "archived"
    /\ IF ~SourceCurrent(jobs[s]) THEN Reject(s)
       ELSE /\ tenants[jobs[s].tenant].manifest.dep # 0   \* otherwise the job is not ended
            /\ intents' = {Construction(s, jobs[s].tenant, "prepared")}
            /\ UNCHANGED <<tenants, origin, jobs, issued, behind, spent, refused>>

ConfirmUpload(s) ==
    \E i \in Own(s, "construction") :
        /\ i.phase = "prepared"
        /\ intents' = (intents \ {i}) \cup {[i EXCEPT !.phase = "uploaded"]}
        /\ UNCHANGED <<tenants, origin, jobs, issued, behind, spent, refused>>

\* A construction that was never confirmed, or that has no room, is given up and
\* its object is removed.
AbortConstruction(s) ==
    \E i \in Own(s, "construction") :
        /\ Own(s, "transaction") = {}
        /\ jobs[s].phase = "claimed"
        /\ intents' = intents \ {i}
        /\ Finish(s)
        /\ UNCHANGED <<tenants, origin, issued, behind, spent, refused>>

PrepareArchive(s) ==
    \E i \in Own(s, "construction") :
        /\ Claimed(s, {"archive"})
        /\ SoleIntent(i)
        /\ i.phase = "uploaded"
        /\ LET plan == PlanArchiveTransition(jobs[s], i)
           IN  IF ~SourceCurrent(jobs[s]) \/ ~plan.ok
               THEN refused' = TRUE
                    /\ UNCHANGED <<tenants, origin, jobs, issued, intents, behind, spent>>
               ELSE Prepare(s, plan)

\* An archive of an archived tenant looks at the bundle again and changes nothing.
RevalidateArchive(s) ==
    /\ Claimed(s, {"archive"})
    /\ EmptyIntentStore
    /\ jobs[s].source.manifest.state = "archived"
    /\ SourceCurrent(jobs[s])
    /\ Reject(s)

\* The retirement of the archive is journalled before a restore or a deletion; of a
\* tenant that is not archived there is nothing to verify and the job is not ended.
PrepareRetirement(s) ==
    /\ Claimed(s, {"restore", "delete"})
    /\ EmptyIntentStore
    /\ SourceCurrent(jobs[s])
    /\ tenants[jobs[s].tenant].archive # None
    /\ intents' = {Retirement(s, jobs[s].tenant)}
    /\ UNCHANGED <<tenants, origin, jobs, issued, behind, spent, refused>>

\* A preparation that fails cancels its retirement and leaves the job claimed.
PrepareRestore(s) ==
    \E i \in Own(s, "retirement") :
        /\ Claimed(s, {"restore"})
        /\ SoleIntent(i)
        /\ LET dep == NewIdentity(jobs[s].bound.hist)
               plan == PlanRestoreTransition(jobs[s], i, dep)
           IN  IF ~plan.ok \/ ~RequireGlobalHistory(jobs[s])
               THEN /\ intents' = {}
                    /\ UNCHANGED <<tenants, origin, jobs, issued, behind, spent, refused>>
               ELSE Prepare(s, plan)

PrepareDelete(s) ==
    /\ Claimed(s, {"delete"})
    /\ SourceCurrent(jobs[s])
    /\ IF tenants[jobs[s].tenant].archive = None
       THEN /\ EmptyIntentStore
            /\ PlanDeleteTransition(jobs[s], None).ok
            /\ Prepare(s, PlanDeleteTransition(jobs[s], None))
       ELSE \E i \in Own(s, "retirement") :
                /\ SoleIntent(i)
                /\ LET plan == PlanDeleteTransition(jobs[s], i)
                   IN  IF plan.ok THEN Prepare(s, plan)
                       ELSE /\ refused' = TRUE
                            /\ UNCHANGED <<tenants, origin, jobs, issued, intents, behind, spent>>

-----------------------------------------------------------------------------
(* Commit *)

\* The sole exact intent, beside the journal of an archive's construction or
\* retirement.
RequireExactIntent(s, i) == \A other \in intents \ {i} : other.slot = s /\ other.kind # "transaction"

\* What the commit of a deployment checks of its job and its plan.
DeploymentDocumentsAgree(j, i) ==
    LET candidate == i.plan.document.manifest
    IN  /\ Allowed(j.op, i.source.manifest.state)
        /\ candidate = [i.source.manifest EXCEPT !.dep = i.plan.dep,
                          !.state = LifecycleMatrix(j.op, i.source.manifest.state)]
        /\ Cardinality(j.bound.hist) <= MaxRetained
        /\ j.bound.arch = {}
        /\ i.source.manifest.state = "undeployed" <=> j.bound.hist = {}
        /\ i.source.manifest.dep = 0 \/ i.source.manifest.dep \in j.bound.hist
        /\ i.source.observed = Observed(i.source.manifest)
        /\ i.plan.document.observed = Observed(candidate)
        /\ IF i.plan.creates THEN \A d \in j.bound.hist : d < i.plan.dep
           ELSE i.plan.dep \in j.bound.hist /\ i.plan.dep # i.source.manifest.dep
        /\ i.plan.document.hist =
              TerminalHistory(TransitionHistory(j.bound.hist, i.plan.dep, i.plan.creates),
                              i.plan.dep)

\* A create's manifest is the request's, of a tenant that has nothing deployed.
CreateDocumentsAgree(j, i) ==
    /\ i.source = None
    /\ i.plan.document =
          Document([slug |-> j.slug, state |-> "undeployed", dep |-> 0], {}, None)

\* An archive's, a restore's or a deletion's plan is computed again from the journal
\* and the current documents and must come out the same.
Replanned(s, i) ==
    LET j == jobs[s]
    IN  CASE j.op = "archive" ->
               \E c \in Own(s, "construction") : PlanArchiveTransition(j, c) = i.plan
          [] j.op = "restore" ->
               \E r \in Own(s, "retirement") : PlanRestoreTransition(j, r, i.plan.dep) = i.plan
          [] j.op = "delete" ->
               IF tenants[j.tenant].archive = None THEN PlanDeleteTransition(j, None) = i.plan
               ELSE \E r \in Own(s, "retirement") : PlanDeleteTransition(j, r) = i.plan
          [] OTHER -> PlanRouteTransition(j) = i.plan

DocumentsAgree(s, i) ==
    /\ RequireExactIntent(s, i)
    /\ IF jobs[s].op = "create" THEN i.plan.tenant \notin Present ELSE tenants[i.plan.tenant] = i.source
    /\ CASE jobs[s].op = "create" -> CreateDocumentsAgree(jobs[s], i)
         [] jobs[s].op \in {"deploy", "import", "rollback"} ->
              DeploymentDocumentsAgree(jobs[s], i)
         [] OTHER -> Replanned(s, i)

\* An archive is committed, a restore is committed and a tenant is deleted only with the
\* records its dispatch was bound to; for an archive nothing looks at them before the
\* commit, which then raises at every retry.
ArchiveHistoryBound(j) == j.op = "archive" => j.bound.hist = tenants[j.tenant].hist

\* The transition is activated and committed: the records are written, the audit
\* entry is appended, the result is published and the intent is removed.  The
\* journal of an archive that is made or retired outlives the commit.
Commit(s) ==
    \E i \in Own(s, "transaction") :
        /\ ArchiveHistoryBound(jobs[s])
        /\ IF ~DocumentsAgree(s, i)
           THEN refused' = TRUE
                /\ UNCHANGED <<tenants, origin, jobs, issued, intents, behind, spent>>
           ELSE /\ tenants' = [tenants EXCEPT ![i.plan.tenant] = i.plan.document]
                /\ spent' = IF jobs[s].op = "delete" THEN spent \cup {i.plan.tenant} ELSE spent
                /\ intents' = intents \ {i}
                /\ IF intents = {i} THEN Finish(s)
                   ELSE jobs' = [jobs EXCEPT ![s].phase = "committed"]
                /\ UNCHANGED <<origin, issued, behind, refused>>

\* The construction is closed, or the retired object is purged; the journal is removed
\* and the job returns.
FinishCleanup(s) ==
    /\ jobs[s].phase = "committed"
    /\ intents' = {i \in intents : i.slot # s}
    /\ Finish(s)
    /\ UNCHANGED <<tenants, origin, issued, behind, spent, refused>>

-----------------------------------------------------------------------------
(* The administrator's emergency deletion *)

\* No authority may be active; the deletion takes the documents as they are, in any
\* lifecycle state, and retires the archive if there is one.
EmergencyPrepare(t) ==
    /\ "emergency" \in Ops
    /\ issued < MaxJobs
    /\ t \in Present
    /\ EmptyIntentStore
    /\ intents' = {[Transaction(None, Planned(t, 0, FALSE, None)) EXCEPT !.kind = "emergency"]}
    /\ issued' = issued + 1
    /\ UNCHANGED <<tenants, origin, jobs, behind, spent, refused>>

EmergencyCommit ==
    \E i \in intents :
        /\ i.kind = "emergency"
        /\ IF tenants[i.plan.tenant] # i.source
           THEN refused' = TRUE /\ UNCHANGED <<tenants, origin, jobs, issued, intents, behind, spent>>
           ELSE /\ tenants' = [tenants EXCEPT ![i.plan.tenant] = None]
                /\ spent' = spent \cup {i.plan.tenant}
                /\ intents' = (intents \ {i}) \cup
                      (IF i.source.archive = None THEN {} ELSE {Retirement(None, i.plan.tenant)})
                /\ UNCHANGED <<origin, jobs, issued, behind, refused>>

EmergencyCleanup ==
    \E i \in intents :
        /\ i.kind = "retirement" /\ i.slot = None
        /\ intents' = intents \ {i}
        /\ UNCHANGED <<tenants, origin, jobs, issued, behind, spent, refused>>

-----------------------------------------------------------------------------
(* The clock *)

StepBack ==
    /\ ClockSteps /\ ~behind
    /\ behind' = TRUE
    /\ UNCHANGED <<tenants, origin, jobs, issued, intents, spent, refused>>

CatchUp ==
    /\ behind
    /\ behind' = FALSE
    /\ UNCHANGED <<tenants, origin, jobs, issued, intents, spent, refused>>

Init ==
    /\ tenants = [t \in Tenants |-> None]
    /\ origin = [d \in 1..MaxJobs |-> 0]
    /\ jobs = [s \in Slots |-> Free]
    /\ issued = 0
    /\ intents = {}
    /\ behind = FALSE
    /\ spent = {}
    /\ refused = FALSE

Work(s) ==
    \/ Dispatch(s)
    \/ \E t \in Tenants : PrepareCreate(s, t)
    \/ PrepareRoute(s) \/ PrepareDeployment(s)
    \/ Construct(s) \/ ConfirmUpload(s) \/ AbortConstruction(s) \/ PrepareArchive(s)
    \/ RevalidateArchive(s)
    \/ PrepareRetirement(s) \/ PrepareRestore(s) \/ PrepareDelete(s)
    \/ Commit(s) \/ FinishCleanup(s)

Next ==
    \/ \E s \in Slots, op \in Ops, t \in Tenants \cup {None}, slug \in Slugs \cup {None},
         target \in 0..MaxJobs : Issue(s, op, t, slug, target)
    \/ \E s \in Slots : Work(s)
    \/ \E t \in Tenants : EmergencyPrepare(t)
    \/ EmergencyCommit \/ EmergencyCleanup
    \/ StepBack \/ CatchUp

Spec == Init /\ [][Next]_vars

\* Workers and the recovery timer take every job up again.
Fairness ==
    /\ \A s \in Slots : WF_vars(Work(s))
    /\ WF_vars(EmergencyCommit) /\ WF_vars(EmergencyCleanup)

FairSpec == Spec /\ Fairness

-----------------------------------------------------------------------------
(* Properties *)

\* The variables have their types: documents, waiting jobs, journals.
TypeOK ==
    /\ \A t \in Present :
          /\ tenants[t].manifest.slug \in Slugs
          /\ tenants[t].manifest.state \in {"undeployed", "active", "suspended", "archived"}
          /\ tenants[t].manifest.dep \in 0..MaxJobs
          /\ tenants[t].hist \subseteq 1..MaxJobs
    /\ \A s \in Slots : jobs[s].phase \in {"free", "pending", "claimed", "committed"}
    /\ \A i \in intents : i.kind \in {"transaction", "construction", "retirement", "emergency"}
    /\ issued \in 0..MaxJobs /\ behind \in BOOLEAN /\ refused \in BOOLEAN
    /\ spent \subseteq Tenants

\* Over every sequence of deployments, rollbacks, archives and restores, a tenant's
\* retained history ends at the deployment its manifest selects and never outgrows
\* the retention limit (_MAXIMUM_RETAINED_DEPLOYMENTS); an undeployed tenant has none.
\* _select_deployment refuses every later deployment of a tenant of which this fails.
HistoryEndsAtSelection ==
    \A t \in Present :
        LET doc == tenants[t]
        IN  /\ doc.manifest.dep = IF doc.hist = {} THEN 0 ELSE Max(doc.hist)
            /\ doc.manifest.state = "undeployed" <=> doc.hist = {}
            /\ Cardinality(doc.hist) <= MaxRetained

\* An archived tenant's archive record describes the manifest and the content it has
\* now, and no other tenant has an archive record: what a restore would bring back is
\* what the manifest says (_require_archive_construction, plan_restore_transition).
ArchiveBindsManifest ==
    \A t \in Present :
        LET doc == tenants[t]
        IN  IF doc.manifest.state = "archived"
            THEN /\ doc.archive.dep = doc.manifest.dep
                 /\ doc.archive.of = doc.manifest
                 /\ doc.archive.tree = origin[doc.manifest.dep]
            ELSE doc.archive = None

\* No two tenants have one slug, whatever creates and renames wait at once: each of
\* them saw the slug free when it was issued.
SlugsDistinct ==
    \A t, u \in Present : tenants[t].manifest.slug = tenants[u].manifest.slug => t = u

\* The identity of a deleted tenant is not used again (the tombstones of the audit
\* chain): an old job, archive or audit entry never comes to mean another tenant.
IdentityNeverReused == Present \cap spent = {}

\* No commit, and no preparation that holds an uploaded construction or a retirement
\* of a deletion, finds documents other than those its plan was computed from: the
\* intent keeps every other transition out (deployment_commit._validate_document_relationships,
\* archive_commit._validate_plan, restore_commit._validate_plan).
CommitNeverRefused == ~refused

\* A tenant's documents change only by a job whose operator saw the manifest and the
\* archive the tenant still has, and a deployment or a restore also finds the retained
\* history its dispatch was bound to, whatever other jobs did while it waited.
ActsOnItsSource ==
    \A s \in Slots : jobs[s].op # "create" /\ Own(s, "transaction") # {}
       /\ tenants' # tenants /\ jobs'[s] # jobs[s] =>
         LET doc == tenants[jobs[s].tenant]
         IN  /\ doc.manifest = jobs[s].seen.manifest
             /\ doc.archive = jobs[s].seen.archive
             /\ jobs[s].op \in {"deploy", "import", "rollback", "restore"} =>
                   doc.hist = jobs[s].bound.hist

Content(doc) == IF doc.manifest.dep = 0 THEN 0 ELSE origin[doc.manifest.dep]

\* A tenant's content changes only by a deployment, an import or a rollback: a
\* suspension, a rename, and an archive followed by a restore, in any combination,
\* bring back what was deployed.
ContentKept ==
    \A t \in Present :
       /\ tenants'[t] # None
       /\ \A s \in Slots : jobs[s].op \in {"deploy", "import", "rollback"} => jobs'[s] = jobs[s]
       => (IF tenants'[t].manifest.dep = 0 THEN 0 ELSE origin'[tenants'[t].manifest.dep])
             = Content(tenants[t])

\* Once the clock stays ahead of what it has issued, every job that was issued gets a
\* result, whatever the jobs before it did to its source: state drift fails the job
\* (ADR 0020) and no job stays claimed for ever (ADR 0017).
JobsEnd ==
    behind \/ \A s \in Slots : jobs[s].phase = "free"
=============================================================================
