---------------------------- MODULE ResultReplay ----------------------------
\* Dispatch, execution and replay of authorization jobs (execution.py) on a host
\* of several tenants, with the audit chain (audit.py) that the executor uses to
\* tell its own effects from those of the jobs that ran beside it.
\*
\* A job binds an inventory of every tenant's retained records before its handler
\* runs. When the handler has returned, and again whenever the result is asked
\* for, the executor projects that inventory through the job's own result and the
\* transitions audited later, and refuses the result unless the host's records are
\* exactly the projection. One worker runs a job; workers of different jobs run
\* concurrently and are killed anywhere. A handler is three steps here (intent,
\* activation, terminal commit); the modules of the transitions refine them.
\* Rename counts as suspend (no records change) and import as deploy.
EXTENDS Naturals, Sequences, FiniteSets
LOCAL INSTANCE SequencesExt
LOCAL INSTANCE FiniteSetsExt

CONSTANTS
    Jobs,        \* one worker each; a create's new tenant has its job's identity
    Tenants,     \* tenants of the host at the start
    Starts,      \* their lifecycles at the start
    Ops,         \* the operations that are requested
    MaxCrashes,  \* bound
    MaxDrift,    \* bound: changes of records outside the lifecycle
    None

ReplayAssumption ==
    /\ Starts \subseteq {"undeployed", "active", "suspended", "archived"} /\ Starts # {}
    /\ MaxCrashes \in Nat /\ MaxDrift \in Nat
    /\ Jobs \cap Tenants = {}

MaxRetained == 3     \* _MAX_RETAINED_DEPLOYMENTS

VARIABLES
    host,      \* tenant -> its records: [life, sel, deps, arcs, gen, at]
    runtime,   \* the selected generation and the tenant rows it holds
    request,   \* job -> [op, tenant, dep]
    source,    \* job -> the manifest its authorization names
    phase,     \* job -> phase
    bound,     \* job -> the inventory of its dispatch
    rebound,   \* job -> the source runtime that a route preparation binds
    results,   \* job -> the immutable result
    validated, \* job -> executionValidated
    audit,     \* the audit chain
    intent,    \* the lifecycle intent
    worker,    \* job -> its worker: label and what it read
    truth,     \* history: the records the audited transitions leave
    crashes, drift

vars == <<host, runtime, request, source, phase, bound, rebound, results, validated,
          audit, intent, worker, truth, crashes, drift>>

TenantIds == Tenants \cup Jobs
Transitions == {"create", "deploy", "rollback", "suspend", "resume", "archive", "restore", "delete", "reconcile"}
DeploymentOps == {"deploy", "rollback"}

Present == {t \in TenantIds : host[t] # None}
Manifest(h) == [life |-> h.life, sel |-> h.sel]
History(h) == IF h = None THEN [arcs |-> {}, deps |-> {}, present |-> FALSE]
              ELSE [arcs |-> h.arcs, deps |-> h.deps, present |-> TRUE]
Target(j) == request[j].tenant

\* The lifecycle an operation leads to; None where it may not be requested.
LifecycleMatrix(op, life) ==
    CASE op = "deploy" /\ life \in {"undeployed", "active"} -> "active"
      [] op = "deploy" /\ life = "suspended" -> "suspended"
      [] op = "rollback" /\ life \in {"active", "suspended"} -> life
      [] op = "suspend" /\ life \in {"active", "suspended"} -> "suspended"
      [] op = "resume" /\ life \in {"active", "suspended"} -> "active"
      [] op = "archive" /\ life \in {"active", "suspended", "archived"} -> "archived"
      [] op = "restore" /\ life = "archived" -> "active"
      [] op = "export" /\ life \in {"active", "suspended", "archived"} -> life
      [] op = "delete" /\ life \in {"undeployed", "archived"} -> "absent"
      [] op = "reconcile" -> life
      [] OTHER -> None

\* The selected deployment and its chronological predecessors.
RetainedDeploymentHistory(deps, sel) ==
    LET older == {d \in deps : d <= sel}
    IN  {d \in older : Cardinality({e \in older : e >= d}) <= MaxRetained}

\* A deployment gets an identity later than every one there is.
NewDeployment == 10 + Len(audit)

\* The manifest an operation commits.
Candidate(j, h) ==
    LET op == request[j].op
    IN  [life |-> IF op = "create" THEN "undeployed" ELSE LifecycleMatrix(op, h.life),
         sel  |-> CASE op = "create" -> 0
                    [] op \in {"deploy", "restore"} -> NewDeployment
                    [] op = "rollback" -> request[j].dep
                    [] OTHER -> h.sel]

-----------------------------------------------------------------------------
\* The audit chain.

Position(log, j) == CHOOSE i \in 1..Len(log) : log[i].job = j
HasEntry(log, j) == \E i \in 1..Len(log) : log[i].job = j
IsTransition(e) == e.status = "succeeded" /\ e.op \in Transitions

LaterAuditTransitions(log, j) ==
    SelectSeq(SubSeq(log, Position(log, j) + 1, Len(log)), IsTransition)

\* Between the boundary of the dispatch and the entry of the rejection.
DispatchTransitions(log, j) ==
    SelectSeq(SubSeq(log, bound[j].count + 1, Position(log, j) - 1), IsTransition)

\* A transition counts with the result its entry names.
AuditedResults(transitions) ==
    \A i \in 1..Len(transitions) :
        LET r == results[transitions[i].job]
        IN  r # None /\ r.status = "succeeded" /\ r.tenant = transitions[i].tenant

LaterTenantTransition(log, j) ==
    \E i \in 1..Len(LaterAuditTransitions(log, j)) :
        LaterAuditTransitions(log, j)[i].tenant = log[Position(log, j)].tenant

PreviousTenantTransition(log, j) ==
    {i \in 1..(Position(log, j) - 1) : IsTransition(log[i]) /\ log[i].tenant = log[Position(log, j)].tenant}

\* Whether the entry is the tenant's latest state: no transition is later, and the
\* entry of a failure was not repaired after one that its result did not know.
ValidateResultAudit(log, j) ==
    /\ ~LaterTenantTransition(log, j)
    /\ ~ /\ results[j].by = "executor"
         /\ \E i \in PreviousTenantTransition(log, j) : i > results[j].sequence

-----------------------------------------------------------------------------
\* Projection of retained records.

\* h.ok is lost where the projection finds a contradiction.
ProjectRecordHistory(h, j, r) ==
    LET op == request[j].op
        ok(b) == h.ok /\ b
    IN  IF r.status # "succeeded" THEN h
        ELSE CASE op = "create" ->
                    [arcs |-> {}, deps |-> {}, present |-> TRUE, ok |-> ok(~h.present)]
               [] op = "delete" ->
                    [arcs |-> {}, deps |-> {}, present |-> FALSE, ok |-> ok(h.present)]
               [] op \in {"deploy", "restore"} ->
                    [h EXCEPT !.deps = RetainedDeploymentHistory(h.deps \cup {r.manifest.sel}, r.manifest.sel),
                              !.arcs = IF op = "restore" THEN @ \ {source[j].sel} ELSE @,
                              !.ok = ok(h.present)]
               [] op = "rollback" ->
                    [h EXCEPT !.deps = RetainedDeploymentHistory(h.deps, r.manifest.sel),
                              !.ok = ok(h.present /\ r.manifest.sel \in h.deps)]
               [] op = "archive" ->
                    [h EXCEPT !.arcs = @ \cup {r.manifest.sel}, !.ok = ok(h.present)]
               [] OTHER -> [h EXCEPT !.ok = ok(h.present)]

ProjectOver(hist, transitions) ==
    FoldLeft(LAMBDA acc, e :
                 [acc EXCEPT ![e.tenant] = ProjectRecordHistory(@, e.job, results[e.job])],
             hist, transitions)

Sound(h) == [arcs |-> h.arcs, deps |-> h.deps, present |-> h.present, ok |-> TRUE]
Matches(h, t) == h.ok /\ History(host[t]) = [arcs |-> h.arcs, deps |-> h.deps, present |-> h.present]

\* What the job's dispatch authorizes: the inventory it bound, if any.
DispatchAuthority(j) ==
    [bound |-> bound[j] # None,
     hist  |-> IF bound[j] = None THEN None ELSE [t \in TenantIds |-> Sound(bound[j].hist[t])],
     superseded |-> FALSE, cross |-> FALSE]

\* A rejection by the executor accounts for the commits since its dispatch.
ProjectExecutorRejectionAuthority(log, j) ==
    LET between == DispatchTransitions(log, j)
        a == DispatchAuthority(j)
    IN  IF bound[j] = None THEN a
        ELSE [a EXCEPT !.hist = ProjectOver(@, between),
                       !.superseded = \E i \in 1..Len(between) : between[i].tenant = results[j].tenant,
                       !.cross = \E i \in 1..Len(between) : between[i].tenant # results[j].tenant]

CaptureReplayAuthority(log, j) ==
    IF results[j].by = "executor" THEN ProjectExecutorRejectionAuthority(log, j) ELSE DispatchAuthority(j)

\* The inventory after the job's own result.
OwnProjection(j, a) ==
    IF results[j].tenant = None THEN a.hist
    ELSE [a.hist EXCEPT ![results[j].tenant] = ProjectRecordHistory(@, j, results[j])]
-----------------------------------------------------------------------------
\* Validation of a result against the records.

\* A create's slug is wanted by every create.
ExpectedSourceError(j) ==
    IF request[j].op = "create" THEN \E t \in Jobs : host[t] # None
    ELSE (IF host[Target(j)] = None THEN None ELSE Manifest(host[Target(j)])) # source[j]

UnrelatedTenantRecordHistories(log, j, a) ==
    a.bound =>
        LET later == LaterAuditTransitions(log, j)
            p == ProjectOver(OwnProjection(j, a), later)
        IN  /\ AuditedResults(later)
            /\ \A t \in TenantIds \ {results[j].tenant} :
                   p[t].ok /\ (p[t].present => Matches(p[t], t))

\* The tenants are those of the dispatch, this result's and the later transitions'.
TenantInventory(log, j, a) ==
    a.bound =>
        LET own == IF results[j].status # "succeeded" THEN {}
                   ELSE {[op |-> request[j].op, tenant |-> results[j].tenant]}
            later == LaterAuditTransitions(log, j)
            step(ids, e) == CASE e.op = "create" -> ids \cup {e.tenant}
                              [] e.op = "delete" -> ids \ {e.tenant}
                              [] OTHER -> ids
            ids == {t \in TenantIds : a.hist[t].present}
        IN  Present = FoldLeft(step, FoldLeft(step, ids, SetToSeq(own)), later)

SuccessRecordHistory(j, a) ==
    a.bound => LET p == ProjectRecordHistory(a.hist[results[j].tenant], j, results[j])
               IN  p.present /\ Matches(p, results[j].tenant)

SupersededRecordHistory(log, j, a) ==
    a.bound /\ results[j].tenant # None =>
        LET t == results[j].tenant
            p == ProjectOver(OwnProjection(j, a),
                             SelectSeq(LaterAuditTransitions(log, j), LAMBDA e : e.tenant = t))
        IN  p[t].ok /\ (p[t].present => Matches(p[t], t))

\* The manifest of a success follows from the source by the request.
CommittedManifestRequestBinding(j) ==
    LET m == results[j].manifest
    IN  \/ request[j].op \in {"create", "delete"}
        \/ /\ LifecycleMatrix(request[j].op, source[j].life) = m.life
           /\ request[j].op \notin {"deploy", "rollback", "restore"} => m.sel = source[j].sel

\* The observed state is the one of the job's own commit.
ObservedState(j) ==
    LET h == host[results[j].tenant]
    IN  request[j].op = "export" \/ h.at = j

SelectedDeploymentState(j) ==
    LET h == host[results[j].tenant]
    IN  /\ h.life # "undeployed" => h.sel \in h.deps
        /\ request[j].op = "rollback" => h.sel = request[j].dep
        /\ h.life = "archived" => h.sel \in h.arcs

FailedHandlerResultState(log, j, a) ==
    /\ TenantInventory(log, j, a)
    /\ \/ request[j].op = "create"
       \/ /\ a.bound /\ a.hist[Target(j)].present => Matches(a.hist[Target(j)], Target(j))
          /\ validated[j] \/ a.superseded \/ ~ExpectedSourceError(j)

SucceededHandlerResultState(log, j, a) ==
    LET t == results[j].tenant
    IN  IF request[j].op = "delete"
        THEN host[t] = None /\ TenantInventory(log, j, a)
        ELSE /\ host[t] # None /\ Manifest(host[t]) = results[j].manifest
             /\ ObservedState(j)
             /\ SelectedDeploymentState(j)
             /\ SuccessRecordHistory(j, a)
             /\ TenantInventory(log, j, a)

ValidateHandlerResultState(log, j, a) ==
    /\ results[j].status = "succeeded" => CommittedManifestRequestBinding(j)
    /\ UnrelatedTenantRecordHistories(log, j, a)
    /\ IF ~ValidateResultAudit(log, j)
       THEN TenantInventory(log, j, a) /\ SupersededRecordHistory(log, j, a)
       ELSE IF results[j].status = "failed" THEN FailedHandlerResultState(log, j, a)
            ELSE SucceededHandlerResultState(log, j, a)
-----------------------------------------------------------------------------
\* Validation against the runtime.

Rows(hs) == [t \in {u \in TenantIds : hs[u] # None /\ hs[u].life # "archived"} |->
                [manifest |-> Manifest(hs[t]), gen |-> hs[t].gen, at |-> hs[t].at]]

\* The selected generation is the host's, and holds the tenant as validated;
\* gen = None accepts any generation, obs = None any observation.
SelectedTenantRuntimeMatches(t, gen, m, obs) ==
    /\ gen # None => runtime.gen = gen
    /\ runtime.rows = Rows(host)
    /\ host[t] # None /\ Manifest(host[t]) = m
    /\ obs # None => host[t].at = obs

SelectedTenantReleaseMatches(t, m) == host[t] # None /\ Manifest(host[t]) = m

AllTenantRuntimeStateMatches == runtime.rows = Rows(host)

\* What a worker carries out of the locked validation.
\* src is the source runtime a handler's run captured; a replay has none.
TerminalAuthority(log, j, a, handled, src) ==
    LET t == results[j].tenant
        live == ValidateResultAudit(log, j) /\ ~a.superseded /\ t # None
        none == [check |-> "none", gen |-> None, manifest |-> None, obs |-> None, cross |-> FALSE]
    IN  IF ~live THEN none
        ELSE IF results[j].status = "succeeded"
        THEN IF request[j].op = "delete" THEN [none EXCEPT !.check = "deleted"]
             ELSE [none EXCEPT !.check = "tenant", !.manifest = results[j].manifest,
                               !.gen = IF request[j].op = "export" THEN None ELSE host[t].gen,
                               !.obs = host[t].at]
        ELSE IF source[j] = None THEN none
        ELSE LET s == IF rebound[j] # None THEN rebound[j] ELSE src
                 own == [gen |-> host[t].gen, at |-> host[t].at]
                 tenant(r) == [none EXCEPT !.check = "tenant", !.manifest = source[j], !.cross = a.cross,
                                           !.gen = r.gen, !.obs = r.at]
             IN  \* A replay with a bound observation, and a first dispatch without one,
                 \* validate the release alone.
                 IF handled /\ s # None THEN tenant(s)
                 ELSE IF handled \/ rebound[j] # None \/ host[t] = None
                 THEN [none EXCEPT !.check = "release", !.manifest = source[j]]
                 ELSE tenant(own)

\* The first pass of the checks outside the lock.
ExternalMatches(j, l) ==
    CASE l.check = "none" -> TRUE
      [] l.check = "deleted" -> host[results[j].tenant] = None
      [] l.check = "release" -> SelectedTenantReleaseMatches(results[j].tenant, l.manifest)
      [] OTHER -> /\ SelectedTenantReleaseMatches(results[j].tenant, l.manifest)
                  /\ SelectedTenantRuntimeMatches(results[j].tenant, l.gen, l.manifest, l.obs)

\* Another tenant's later commit may have selected a newer generation.
CrossTenant(log, j, l) ==
    /\ l.check = "tenant"
    /\ ValidateResultAudit(log, j)
    /\ \/ l.cross
       \/ \E i \in 1..Len(LaterAuditTransitions(log, j)) :
              LaterAuditTransitions(log, j)[i].tenant # results[j].tenant

-----------------------------------------------------------------------------
Idle == [pc |-> "idle", src |-> None, l |-> None]

Tenant(life) ==
    [life |-> life,
     sel |-> IF life = "undeployed" THEN 0 ELSE IF life = "archived" THEN 1 ELSE 3,
     deps |-> IF life = "undeployed" THEN {} ELSE IF life = "archived" THEN {1} ELSE {1, 2, 3},
     arcs |-> IF life = "archived" THEN {1} ELSE {},
     gen |-> IF life = "active" THEN 0 ELSE None,
     at |-> None]

Init ==
    /\ \E start \in [Tenants -> Starts] :
           host = [t \in TenantIds |-> IF t \in Tenants THEN Tenant(start[t]) ELSE None]
    /\ runtime = [gen |-> 0, rows |-> Rows(host)]
    /\ truth = [t \in TenantIds |-> History(host[t])]
    /\ request = [j \in Jobs |-> None] /\ source = [j \in Jobs |-> None]
    /\ phase = [j \in Jobs |-> "none"]
    /\ bound = [j \in Jobs |-> None] /\ rebound = [j \in Jobs |-> None]
    /\ results = [j \in Jobs |-> None] /\ validated = [j \in Jobs |-> FALSE]
    /\ audit = <<>> /\ intent = None
    /\ worker = [j \in Jobs |-> Idle]
    /\ crashes = 0 /\ drift = 0

At(j, label) == worker[j].pc = label
Goto(j, label) == worker' = [worker EXCEPT ![j].pc = label]
Return(j) == worker' = [worker EXCEPT ![j] = Idle]

\* Root binds the job to the tenant's state; jobs are accepted in order.
Issue(j) ==
    /\ request[j] = None
    /\ \E op \in Ops, t \in Tenants :
          IF op = "create" THEN /\ request' = [request EXCEPT ![j] = [op |-> op, tenant |-> j, dep |-> 0]]
                                /\ UNCHANGED source
          ELSE /\ host[t] # None /\ LifecycleMatrix(op, host[t].life) # None
               /\ \E d \in IF op = "rollback" THEN host[t].deps \ {host[t].sel} ELSE {0} :
                      request' = [request EXCEPT ![j] = [op |-> op, tenant |-> t, dep |-> d]]
               /\ source' = [source EXCEPT ![j] = Manifest(host[t])]
    /\ phase' = [phase EXCEPT ![j] = "pending"]
    /\ UNCHANGED <<host, runtime, bound, rebound, results, validated, audit, intent, worker, truth, crashes, drift>>

\* No other job holds an intent.
LifecycleReservationOwner(j) == IF intent = None THEN TRUE ELSE intent.job = j

AppendAudit(log, j, r) ==
    Append(log, [job |-> j, op |-> request[j].op, tenant |-> r.tenant, status |-> r.status])

FailureResult(j, by) ==
    [status |-> "failed", by |-> by, manifest |-> None, sequence |-> Len(audit),
     tenant |-> IF request[j].op = "create" THEN None ELSE Target(j)]

\* Result, audit entry, phase and marker are written in this order; a crash cuts it short.
PublishResult(j) ==
    LET r == FailureResult(j, "executor")
    IN  \E n \in 1..4 :
            /\ n < 4 => crashes < MaxCrashes
            /\ crashes' = IF n < 4 THEN crashes + 1 ELSE crashes
            /\ results' = [results EXCEPT ![j] = r]
            /\ audit' = IF n > 1 THEN AppendAudit(audit, j, r) ELSE audit
            /\ phase' = IF n > 2 THEN [phase EXCEPT ![j] = "failed"] ELSE phase
            /\ validated' = [validated EXCEPT ![j] = n = 4]
            /\ Return(j)
            /\ UNCHANGED <<host, runtime, request, source, bound, rebound, intent, truth, drift>>

\* execute and _execute_with_claim: the source is compared, the inventory bound.
ExpectedSourceRejection(j) ==
    /\ At(j, "idle") /\ request[j] # None /\ results[j] = None
    /\ intent = None /\ ExpectedSourceError(j)
    /\ PublishResult(j)

RejectArtifact(j) ==
    /\ At(j, "idle") /\ request[j] # None /\ request[j].op = "deploy" /\ results[j] = None
    /\ intent = None
    /\ PublishResult(j)

BindDispatchAuthority(j) ==
    IF bound[j] # None THEN bound
    ELSE [bound EXCEPT ![j] = [count |-> Len(audit), hist |-> [t \in TenantIds |-> History(host[t])],
                               honest |-> truth = [t \in TenantIds |-> History(host[t])]]]

Claim(j) ==
    /\ At(j, "idle") /\ request[j] # None /\ results[j] = None
    /\ LifecycleReservationOwner(j)
    /\ intent = None => ~ExpectedSourceError(j)
    /\ bound' = BindDispatchAuthority(j)
    /\ phase' = [phase EXCEPT ![j] = "claimed"]
    /\ Goto(j, "claimed")
    /\ UNCHANGED <<host, runtime, request, source, rebound, results, validated, audit, intent, truth, crashes, drift>>

\* The second lock of the dispatch captures the source the job may change.
CaptureAuthority(j) ==
    /\ At(j, "claimed")
    /\ IF LifecycleReservationOwner(j) /\ (intent = None => ~ExpectedSourceError(j) \/ request[j].op = "create")
       THEN worker' = [worker EXCEPT ![j].pc = "handler",
                                     ![j].src = IF intent = None THEN None ELSE intent.src]
       ELSE Return(j)
    /\ UNCHANGED <<host, runtime, request, source, phase, bound, rebound, results, validated, audit, intent, truth, crashes, drift>>

-----------------------------------------------------------------------------
\* The handlers.

\* Only a deployment compares the whole inventory with its dispatch.
GlobalHistoryChanged(j) ==
    /\ request[j].op \in DeploymentOps
    /\ bound[j].hist # [t \in TenantIds |-> History(host[t])]

HandlerReject(j) ==
    /\ At(j, "handler") /\ intent = None
    /\ ExpectedSourceError(j) \/ GlobalHistoryChanged(j)
    /\ Goto(j, "rejected")
    /\ UNCHANGED <<host, runtime, request, source, phase, bound, rebound, results, validated, audit, intent, truth, crashes, drift>>

FailWithoutClaim(j) ==
    /\ At(j, "rejected") /\ intent = None
    /\ PublishResult(j)

\* The intent holds what a failure puts back.
HandlerPrepare(j) ==
    /\ At(j, "handler") /\ intent = None
    /\ ~ExpectedSourceError(j) /\ ~GlobalHistoryChanged(j)
    /\ LET h == host[Target(j)]
           src == IF h = None THEN None ELSE [gen |-> IF h.life = "active" THEN runtime.gen ELSE None, at |-> h.at]
       IN  /\ intent' = [job |-> j, stage |-> "prepared", host |-> h, runtime |-> runtime, src |-> src]
           /\ rebound' = IF request[j].op \in {"suspend", "resume", "reconcile"}
                         THEN [rebound EXCEPT ![j] = src] ELSE rebound
    /\ UNCHANGED <<host, runtime, request, source, phase, bound, results, validated, audit, worker, truth, crashes, drift>>

Holds(j, stage) == At(j, "handler") /\ intent # None /\ intent.job = j /\ intent.stage = stage

\* Another job's intent sends the worker away.
HandlerBusy(j) ==
    /\ At(j, "handler") \/ At(j, "rejected")
    /\ intent # None /\ intent.job # j
    /\ Return(j)
    /\ UNCHANGED <<host, runtime, request, source, phase, bound, rebound, results, validated, audit, intent, truth, crashes, drift>>

\* The tenant's records after the commit.
Committed(j, h) ==
    LET op == request[j].op
        m == Candidate(j, h)
    IN  [life |-> m.life, sel |-> m.sel,
         deps |-> CASE op = "create" -> {}
                    [] op \in {"deploy", "restore"} -> RetainedDeploymentHistory(h.deps \cup {m.sel}, m.sel)
                    [] op = "rollback" -> RetainedDeploymentHistory(h.deps, m.sel)
                    [] OTHER -> h.deps,
         arcs |-> CASE op = "create" -> {}
                    [] op = "restore" -> h.arcs \ {h.sel}
                    [] op = "archive" -> h.arcs \cup {m.sel}
                    [] OTHER -> h.arcs,
         gen |-> IF m.life = "active" THEN runtime.gen + 1 ELSE None,
         at |-> j]

\* Records and runtime change together with the intent; a deletion first commits
\* its audit entry, an export changes nothing.
HandlerActivate(j) ==
    /\ Holds(j, "prepared")
    /\ intent' = [intent EXCEPT !.stage = "activated"]
    /\ LET t == Target(j)
       IN  CASE request[j].op = "delete" ->
                    /\ audit' = AppendAudit(audit, j, [tenant |-> t, status |-> "succeeded"])
                    /\ UNCHANGED <<host, runtime>>
             [] request[j].op = "export" -> UNCHANGED <<host, runtime, audit>>
             [] OTHER ->
                    /\ host' = [host EXCEPT ![t] = Committed(j, @)]
                    /\ runtime' = [gen |-> runtime.gen + 1, rows |-> Rows(host')]
                    /\ UNCHANGED audit
    /\ UNCHANGED <<request, source, phase, bound, rebound, results, validated, worker, truth, crashes, drift>>

\* What the audited transition makes of the records.
TruthAfter(j) ==
    LET t == Target(j)
        base == truth[t]
        c == Committed(j, [life |-> source[j].life, sel |-> source[j].sel, deps |-> base.deps, arcs |-> base.arcs])
    IN  CASE request[j].op = "create" -> [truth EXCEPT ![t] = [arcs |-> {}, deps |-> {}, present |-> TRUE]]
          [] request[j].op = "delete" -> [truth EXCEPT ![t] = [arcs |-> {}, deps |-> {}, present |-> FALSE]]
          [] OTHER -> [truth EXCEPT ![t] = [arcs |-> c.arcs, deps |-> c.deps, present |-> TRUE]]

HandlerFinish(j) ==
    /\ Holds(j, "activated")
    /\ LET t == Target(j)
           op == request[j].op
           r == [status |-> "succeeded", by |-> "handler", sequence |-> 0, tenant |-> t,
                 manifest |-> IF op = "delete" THEN None ELSE Manifest(host[t])]
       IN  /\ results' = [results EXCEPT ![j] = r]
           /\ audit' = IF op = "delete" THEN audit ELSE AppendAudit(audit, j, r)
           /\ IF op = "delete" THEN /\ host' = [host EXCEPT ![t] = None]
                                    /\ runtime' = [gen |-> runtime.gen + 1, rows |-> Rows(host')]
              ELSE UNCHANGED <<host, runtime>>
           /\ truth' = TruthAfter(j)
    /\ phase' = [phase EXCEPT ![j] = "completed"]
    /\ intent' = None
    /\ Goto(j, "handled")
    /\ UNCHANGED <<request, source, bound, rebound, validated, crashes, drift>>

\* Mutant of HandlerFail: the candidate stays.
FailKeepingCandidate(j) ==
    /\ Holds(j, "prepared") \/ Holds(j, "activated")
    /\ request[j].op = "delete" => intent.stage = "prepared"
    /\ LET r == FailureResult(j, "handler")
       IN  /\ results' = [results EXCEPT ![j] = r]
           /\ audit' = AppendAudit(audit, j, r)
    /\ phase' = [phase EXCEPT ![j] = "failed"]
    /\ intent' = None
    /\ Goto(j, "handled")
    /\ UNCHANGED <<host, runtime, request, source, bound, rebound, validated, truth, crashes, drift>>

\* A handler that fails puts the source back and publishes its own failure, as the
\* abort of an archive's construction does; the executor validates such a result of
\* every operation, so every one may have it here.
HandlerFail(j) ==
    /\ Holds(j, "prepared") \/ Holds(j, "activated")
    /\ request[j].op = "delete" => intent.stage = "prepared"
    /\ LET r == FailureResult(j, "handler")
       IN  /\ results' = [results EXCEPT ![j] = r]
           /\ audit' = AppendAudit(audit, j, r)
    /\ host' = [host EXCEPT ![Target(j)] = intent.host]
    /\ runtime' = intent.runtime
    /\ phase' = [phase EXCEPT ![j] = "failed"]
    /\ intent' = None
    /\ Goto(j, "handled")
    /\ UNCHANGED <<request, source, bound, rebound, validated, truth, crashes, drift>>
-----------------------------------------------------------------------------
\* Validation and replay.

\* After the handler; the worker does not ask who else holds an intent.
PostHandler(j) ==
    /\ At(j, "handled")
    /\ LET a == DispatchAuthority(j)
       IN  IF ValidateHandlerResultState(audit, j, a)
           THEN worker' = [worker EXCEPT ![j].pc = "external",
                               ![j].l = TerminalAuthority(audit, j, a, TRUE, worker[j].src)]
           ELSE Return(j)
    /\ UNCHANGED <<host, runtime, request, source, phase, bound, rebound, results, validated, audit, intent, truth, crashes, drift>>

RepairExecutorFailureAudit(j) ==
    IF HasEntry(audit, j) THEN audit ELSE AppendAudit(audit, j, results[j])

\* A replay repairs a rejection's audit entry and the phase.
CompletedReplay(j) ==
    /\ At(j, "idle") /\ results[j] # None /\ intent = None
    /\ LET log == RepairExecutorFailureAudit(j)
           a == CaptureReplayAuthority(log, j)
       IN  /\ audit' = log
           /\ IF ValidateHandlerResultState(log, j, a)
              THEN /\ worker' = [worker EXCEPT ![j].pc = "external",
                                     ![j].l = TerminalAuthority(log, j, a, FALSE, None)]
                   /\ phase' = [phase EXCEPT ![j] = IF results[j].status = "succeeded" THEN "completed" ELSE "failed"]
              ELSE UNCHANGED <<worker, phase>>
    /\ UNCHANGED <<host, runtime, request, source, bound, rebound, results, validated, intent, truth, crashes, drift>>

ExternalTerminalState(j) ==
    /\ At(j, "external")
    /\ IF ~AllTenantRuntimeStateMatches THEN Return(j)
       ELSE Goto(j, IF ExternalMatches(j, worker[j].l) THEN "mark" ELSE "crossTransaction")
    /\ UNCHANGED <<host, runtime, request, source, phase, bound, rebound, results, validated, audit, intent, truth, crashes, drift>>

CrossTenantTransaction(j) ==
    /\ At(j, "crossTransaction")
    /\ Goto(j, IF CrossTenant(audit, j, worker[j].l) THEN "crossRuntime" ELSE "superseded")
    /\ UNCHANGED <<host, runtime, request, source, phase, bound, rebound, results, validated, audit, intent, truth, crashes, drift>>

CrossTenantRuntime(j) ==
    /\ At(j, "crossRuntime")
    /\ LET l == worker[j].l
       IN  Goto(j, IF SelectedTenantRuntimeMatches(results[j].tenant, None, l.manifest, l.obs)
                   THEN "mark" ELSE "superseded")
    /\ UNCHANGED <<host, runtime, request, source, phase, bound, rebound, results, validated, audit, intent, truth, crashes, drift>>

ResultWasSuperseded(j) ==
    /\ At(j, "superseded")
    /\ IF ValidateResultAudit(audit, j) THEN Return(j) ELSE Goto(j, "mark")
    /\ UNCHANGED <<host, runtime, request, source, phase, bound, rebound, results, validated, audit, intent, truth, crashes, drift>>

MarkExecutionValidated(j) ==
    /\ At(j, "mark")
    /\ validated' = IF LifecycleReservationOwner(j) THEN [validated EXCEPT ![j] = TRUE] ELSE validated
    /\ Return(j)
    /\ UNCHANGED <<host, runtime, request, source, phase, bound, rebound, results, audit, intent, truth, crashes, drift>>

-----------------------------------------------------------------------------
Crash(j) ==
    /\ ~At(j, "idle") /\ crashes < MaxCrashes
    /\ crashes' = crashes + 1
    /\ Return(j)
    /\ UNCHANGED <<host, runtime, request, source, phase, bound, rebound, results, validated, audit, intent, truth, drift>>

\* A record appears, or a tenant's records vanish, outside the lifecycle.
Drift(t) ==
    /\ drift < MaxDrift /\ intent = None /\ host[t] # None
    /\ drift' = drift + 1
    /\ \/ host' = [host EXCEPT ![t].deps = @ \cup {4}] /\ UNCHANGED runtime
       \/ host' = [host EXCEPT ![t] = None] /\ runtime' = [runtime EXCEPT !.rows = Rows(host')]
    /\ UNCHANGED <<request, source, phase, bound, rebound, results, validated, audit, intent, worker, truth, crashes>>

Dispatch(j) == Claim(j) \/ CaptureAuthority(j) \/ ExpectedSourceRejection(j) \/ RejectArtifact(j)
Handle(j) == \/ HandlerPrepare(j) \/ HandlerReject(j) \/ HandlerBusy(j) \/ FailWithoutClaim(j)
             \/ HandlerActivate(j) \/ HandlerFinish(j) \/ HandlerFail(j)
Validate(j) == \/ PostHandler(j) \/ CompletedReplay(j) \/ ExternalTerminalState(j)
               \/ CrossTenantTransaction(j) \/ CrossTenantRuntime(j) \/ ResultWasSuperseded(j)
               \/ MarkExecutionValidated(j)

Next == \/ \E j \in Jobs : Issue(j) \/ Dispatch(j) \/ Handle(j) \/ Validate(j) \/ Crash(j)
        \/ \E t \in TenantIds : Drift(t)

Spec == Init /\ [][Next]_vars

FairSpec == Spec /\ \A j \in Jobs : WF_vars(Issue(j)) /\ WF_vars(Dispatch(j)) /\ WF_vars(Handle(j))
                                   /\ WF_vars(Validate(j))

-----------------------------------------------------------------------------
\* What the workers hold and write stays within these sets.
TypeOK ==
    /\ \A t \in TenantIds : host[t] # None =>
           /\ host[t].life \in {"undeployed", "active", "suspended", "archived"}
           /\ host[t].deps \subseteq Nat /\ host[t].arcs \subseteq Nat /\ host[t].sel \in Nat
    /\ \A j \in Jobs : phase[j] \in {"none", "pending", "claimed", "completed", "failed"}
    /\ \A j \in Jobs : validated[j] => results[j] # None
    /\ intent # None => intent.job \in Jobs /\ intent.stage \in {"prepared", "activated"}
    /\ Len(audit) <= Cardinality(Jobs)

\* Whether asking for the job again returns its result, as the host is now.
ReplayAccepted(j) ==
    LET log == RepairExecutorFailureAudit(j)
        a == CaptureReplayAuthority(log, j)
        l == TerminalAuthority(log, j, a, FALSE, None)
    IN  /\ ValidateHandlerResultState(log, j, a)
        /\ AllTenantRuntimeStateMatches
        /\ \/ ExternalMatches(j, l)
           \/ CrossTenant(log, j, l)
              /\ SelectedTenantRuntimeMatches(results[j].tenant, None, l.manifest, l.obs)
           \/ ~ValidateResultAudit(log, j)

Quiet == intent = None /\ drift = 0
Recorded == {"create", "delete", "deploy", "rollback", "archive", "restore"}

\* Another tenant's records changed between the job's dispatch and its commit.
Interposed(j) ==
    /\ results[j].by = "handler" /\ bound[j] # None
    /\ \E i \in (bound[j].count + 1)..(Position(audit, j) - 1) :
           IsTransition(audit[i]) /\ audit[i].op \in Recorded /\ audit[i].tenant # Target(j)

\* The source of a rejected job changed before its dispatch, and has not since.
ChangedBefore(j) ==
    /\ results[j].by = "executor" /\ ExpectedSourceError(j)
    /\ ~\E i \in 1..Len(audit) :
           /\ i > IF bound[j] = None THEN results[j].sequence ELSE bound[j].count
           /\ IsTransition(audit[i]) /\ audit[i].tenant = Target(j)

\* A failed job's active tenant is served by a generation another tenant selected
\* before the job was dispatched.
ServedByAnother(j) ==
    /\ results[j].status = "failed" /\ rebound[j] = None /\ results[j].tenant # None
    /\ host[results[j].tenant] # None
    /\ host[results[j].tenant].gen \notin {None, runtime.gen}

\* A retry returns its result on a quiet host, however the jobs were interleaved
\* and killed, but for the three situations named above.
AccountedRetriesReturn ==
    Quiet => \A j \in Jobs :
        results[j] # None /\ ~Interposed(j) /\ ~ChangedBefore(j) /\ ~ServedByAnother(j) => ReplayAccepted(j)

\* The executor never vouches for a result while records differ from what the
\* audited transitions left, when they agreed at the job's dispatch and no other
\* tenant's commit came between dispatch and commit.
DriftIsRefused ==
    \A j \in Jobs :
       worker'[j].pc = "external" /\ worker[j].pc # "external" /\ bound[j] # None /\ bound[j].honest
               /\ ~Interposed(j)
           => \A t \in TenantIds : History(host[t]) = truth[t]

\* A result marked as validated was still the tenant's state when it was marked, or
\* the audit chain holds a later transition of the tenant.
MarkedIsInForce ==
    \A j \in Jobs :
       validated'[j] /\ ~validated[j] /\ results[j] # None /\ results[j].status = "succeeded" /\ drift = 0
           => \/ request[j].op = "delete" /\ host[Target(j)] = None
              \/ host[Target(j)] # None /\ Manifest(host[Target(j)]) = results[j].manifest
              \/ LaterTenantTransition(audit, j)

\* Every accepted job becomes terminal, but for a rejection whose source changed
\* before its dispatch and whose phase was lost to a crash.
JobsSettle ==
    \A j \in Jobs : request[j] # None => \/ phase[j] \in {"completed", "failed"}
                                         \/ results[j] # None /\ ChangedBefore(j)
=============================================================================
