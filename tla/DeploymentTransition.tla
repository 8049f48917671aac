------------------------ MODULE DeploymentTransition ------------------------
(***************************************************************************)
(* The deploy, import and rollback handler: classification, preparation,   *)
(* reconstruction after a crash, activation of the candidate generation    *)
(* with restoration of the source, and the ordered terminal commit.        *)
(*                                                                         *)
(* Actions whose name ends in Fault are the errors the environment can     *)
(* inject: a failed or ambiguous Caddy call, a capacity rejection.         *)
(***************************************************************************)
EXTENDS HostState

\* DeploymentLifecycleHandler re-classifies once after an activation, commit,
\* recovery or preparation error, then gives up; the lock is released first.
RetryOnce(j) ==
    worker' = [worker EXCEPT ![j] = IF worker[j].retried THEN IdleWorker
                                    ELSE [pc |-> "classify", permitted |-> TRUE,
                                          retried |-> TRUE]]

\* DeploymentLifecycleHandler._classify.
Classify(j) ==
    /\ Unlocked /\ At(j, "classify")
    /\ CASE OwnsIntent(j) ->
                IF results[j] # "failed" /\ jobs[j].phase \in {"claimed", "completed"}
                THEN Goto(j, "recover") ELSE Stop(j)
         [] ~OwnsIntent(j) /\ results[j] # "none" ->
                Goto(j, IF results[j] = "failed" THEN "start" ELSE "validate")
         [] ~OwnsIntent(j) /\ results[j] = "none" /\ intent # None -> Stop(j)
         [] OTHER -> IF jobs[j].phase = "claimed" THEN Goto(j, "prepare") ELSE Stop(j)
    /\ UNCHANGED <<jobVars, intent, tenantVars, releaseVars, caddyVars, ids, lock>>

-----------------------------------------------------------------------------
(* Preparation: one lock hold, from the drift checks to the candidate. *)

\* The job's dispatch authority still describes the host: every tenant's
\* history, the published releases, the rollback target, the selected
\* generation and an earlier binding of the source runtime.
DispatchAuthorityHolds(j) ==
    LET job == jobs[j]
    IN  /\ job.history = deployments
        /\ releases = deployments
        /\ job.op = "rollback" => job.target \in deployments[job.tenant]
        /\ active \in DOMAIN gens /\ gens[active] = observed
        /\ job.srcGen # None => job.srcObs = observed[job.tenant]

PrepareRejected(j) ==
    /\ Unlocked /\ At(j, "prepare")
    /\ \/ ~SourceIsCurrent(j) /\ UNCHANGED staged
       \/ SourceIsCurrent(j) /\ intent = None /\ ~DispatchAuthorityHolds(j) /\ staged' = {}
    /\ Goto(j, "reject")
    /\ UNCHANGED <<jobVars, intent, tenantVars, releases, caddyVars, ids, lock>>

PrepareRaced(j) ==
    /\ Unlocked /\ At(j, "prepare")
    /\ SourceIsCurrent(j) /\ intent # None
    /\ RetryOnce(j)
    /\ UNCHANGED <<jobVars, intent, tenantVars, releaseVars, caddyVars, ids, lock>>

Prepare(j) ==
    /\ Unlocked /\ At(j, "prepare")
    /\ SourceIsCurrent(j) /\ intent = None /\ DispatchAuthorityHolds(j)
    /\ staged' = {}
    /\ lock' = j
    /\ Goto(j, "bindRuntime")
    /\ UNCHANGED <<jobVars, intent, tenantVars, releases, caddyVars, ids>>

BindSourceRuntime(j) ==
    /\ Holds(j, "bindRuntime")
    /\ jobs' = [jobs EXCEPT ![j].srcGen = active, ![j].srcObs = observed[jobs[j].tenant]]
    /\ Goto(j, "stage")
    /\ UNCHANGED <<results, audit, intent, tenantVars, releaseVars, caddyVars, ids, lock>>

StageRelease(j) ==
    /\ Holds(j, "stage")
    /\ staged' = IF jobs[j].op = "deploy" THEN staged \cup {ids + 1} ELSE staged
    /\ Goto(j, "intent")
    /\ UNCHANGED <<jobVars, intent, tenantVars, releases, caddyVars, ids, lock>>

\* The staged content exceeds the tenant's quotas: discarded, job rejected.
QuotaExceeded(j) ==
    /\ Holds(j, "stage")
    /\ jobs[j].op = "deploy"
    /\ lock' = None
    /\ Goto(j, "reject")
    /\ UNCHANGED <<jobVars, intent, tenantVars, releaseVars, caddyVars, ids>>

CreateIntent(j) ==
    /\ Holds(j, "intent")
    /\ ids' = ids + 1
    /\ intent' = [job |-> j, tenant |-> jobs[j].tenant, op |-> jobs[j].op,
                  src |-> observed[jobs[j].tenant],
                  dep |-> IF jobs[j].op = "deploy" THEN ids + 1 ELSE jobs[j].target,
                  srcGen |-> active, candGen |-> ids + 1]
    /\ Goto(j, "release")
    /\ UNCHANGED <<jobVars, tenantVars, releaseVars, caddyVars, lock>>

\* Intent creation refused: the staged release is discarded again.
IntentFault(j) ==
    /\ Holds(j, "intent")
    /\ staged' = {}
    /\ lock' = None
    /\ Stop(j)
    /\ UNCHANGED <<jobVars, intent, tenantVars, releases, caddyVars, ids>>

-----------------------------------------------------------------------------
(* Admission of a transition whose intent is durable, and reconstruction. *)

\* _history_is_replayable.
HistoryIsReplayable(i) ==
    LET current == deployments[i.tenant]
    IN  \/ current = jobs[i.job].history[i.tenant]
        \/ /\ i.op = "deploy" => i.dep \in current
           /\ TerminalHistory(i) \subseteq current
           /\ current \subseteq TransitionHistory(i)

\* _require_source_deployment.
SourceDeploymentAdmitted(i) ==
    \/ i.src.dep = 0
    \/ i.src.dep \in deployments[i.tenant]
    \/ /\ i.src.dep \notin TerminalHistory(i)
       /\ desired[i.tenant] = i.dep /\ observed[i.tenant] = CandidateObserved(i)

\* _admit_transition: the states from which the ordered commit may resume.
AdmitTransition(i) ==
    /\ desired[i.tenant] \in {i.src.dep, i.dep}
    /\ observed[i.tenant] \in {i.src, CandidateObserved(i)}
    /\ observed[i.tenant] = CandidateObserved(i) => desired[i.tenant] = i.dep
    /\ HistoryIsReplayable(i)
    /\ (i.op = "rollback" => i.dep \in deployments[i.tenant])
    /\ SourceDeploymentAdmitted(i)
    /\ results[i.job] # "failed"
    /\ Audited(i.job) => audit[Len(audit)] = i.job

\* _source_restoration_permitted: the source release is still published.
SourceReleasePresent(i) == i.src.dep = 0 \/ i.src.dep \in releases[i.tenant]

\* _reconstruct_deployment: every check recovery makes before it resumes.
RecoveryAdmitted(i) ==
    LET t == i.tenant
    IN  /\ jobs[i.job].phase \in {"claimed", "completed"}
        /\ jobs[i.job].srcGen = i.srcGen /\ jobs[i.job].srcObs = i.src
        /\ i.srcGen \in DOMAIN gens
        /\ gens[i.srcGen] = [observed EXCEPT ![t] = i.src]
        /\ i.candGen \in DOMAIN gens => gens[i.candGen] = [observed EXCEPT ![t] = CandidateObserved(i)]
        /\ \/ SourceReleasePresent(i)
           \/ /\ i.op = "rollback"
              /\ desired[t] = i.dep /\ observed[t] = CandidateObserved(i)
        /\ AdmitTransition(i)
        /\ i.dep \in releases[t] \/ (i.op = "deploy" /\ i.dep \in staged)

\* Mutant of Recover: restoring the source is always permitted.
RecoverAlwaysPermitted(j) ==
    /\ Unlocked /\ At(j, "recover")
    /\ OwnsIntent(j) /\ RecoveryAdmitted(intent)
    /\ lock' = j
    /\ worker' = [worker EXCEPT ![j].pc = "release", ![j].permitted = TRUE]
    /\ UNCHANGED <<jobVars, intent, tenantVars, releaseVars, caddyVars, ids>>

Recover(j) ==
    /\ Unlocked /\ At(j, "recover")
    /\ IF OwnsIntent(j) /\ RecoveryAdmitted(intent)
       THEN /\ lock' = j
            /\ worker' = [worker EXCEPT ![j].pc = "release",
                                        ![j].permitted = SourceReleasePresent(intent)]
       ELSE RetryOnce(j) /\ lock' = None
    /\ UNCHANGED <<jobVars, intent, tenantVars, releaseVars, caddyVars, ids>>

\* DeploymentReleaseStore.publish or resume_publication: rename into place.
PublishRelease(j) ==
    /\ Holds(j, "release")
    /\ releases' = [releases EXCEPT ![intent.tenant] = @ \cup {intent.dep}]
    /\ staged' = staged \ {intent.dep}
    /\ IF intent.candGen \in DOMAIN gens
       THEN Goto(j, "activate") /\ lock' = None
       ELSE Goto(j, "prune") /\ lock' = j
    /\ UNCHANGED <<jobVars, intent, tenantVars, caddyVars, ids>>

\* prune_unreferenced_generations((), keep_newest_unprotected=1).
PruneGenerations(j) ==
    /\ Holds(j, "prune")
    /\ LET others == DOMAIN gens \ {active}
           newest == {g \in others : \A h \in others : h <= g}
       IN  gens' = [g \in {active} \cup newest |-> gens[g]]
    /\ Goto(j, "publish")
    /\ UNCHANGED <<jobVars, intent, tenantVars, releaseVars, unitVars, ids, lock>>

\* CaddyRuntime.publish_candidate: the authoritative snapshot with only the
\* transition's tenant replaced.  The lock is released before activation.
PublishCandidate(j) ==
    /\ Holds(j, "publish")
    /\ Cardinality(DOMAIN gens) < MaxGenerations
    /\ gens' = [g \in DOMAIN gens \cup {intent.candGen} |->
                  IF g = intent.candGen
                  THEN [observed EXCEPT ![intent.tenant] = CandidateObserved(intent)]
                  ELSE gens[g]]
    /\ lock' = None
    /\ Goto(j, "activate")
    /\ UNCHANGED <<jobVars, intent, tenantVars, releaseVars, unitVars, ids>>

-----------------------------------------------------------------------------
(* Activation: select, reload, and restore the source on any failure. *)

\* verify_running_caddy: the unit must be active, which it is only after its
\* start was verified, and the loaded configuration must be generation g's.
Verified(g) == service.state = "active" /\ running = g

\* load_caddy_configuration: whatever process answers on the admin socket.
Loaded(g) == IF running = None THEN None ELSE g

ActivationAdmitted(i) ==
    /\ {i.srcGen, i.candGen} \subseteq DOMAIN gens
    /\ i.dep \in releases[i.tenant]
    /\ AdmitTransition(i)

Activate(j) ==
    /\ Unlocked /\ At(j, "activate")
    /\ IF OwnsIntent(j) /\ ActivationAdmitted(intent)
       THEN CASE active = intent.srcGen /\ worker[j].permitted ->
                     Goto(j, "verifySource") /\ lock' = j
              [] active = intent.candGen -> Goto(j, "verifyCandidate") /\ lock' = j
              [] OTHER -> RetryOnce(j) /\ lock' = None
       ELSE RetryOnce(j) /\ lock' = None
    /\ UNCHANGED <<jobVars, intent, tenantVars, releaseVars, caddyVars, ids>>

\* _reject_capacity_before_activation.
ActivateCapacityFault(j) ==
    /\ Unlocked /\ At(j, "activate")
    /\ OwnsIntent(j) /\ ActivationAdmitted(intent)
    /\ IF worker[j].permitted /\ (active = intent.candGen \/ ~Verified(active))
       THEN Goto(j, "restoreSelect") /\ lock' = j
       ELSE Stop(j) /\ lock' = None
    /\ UNCHANGED <<jobVars, intent, tenantVars, releaseVars, caddyVars, ids>>

\* The source must run before the candidate is selected; reload it if needed.
VerifySource(j) ==
    /\ Holds(j, "verifySource")
    /\ running' = Loaded(intent.srcGen)
    /\ Goto(j, IF service.state = "active" THEN "select" ELSE "restoreSelect")
    /\ UNCHANGED <<jobVars, intent, tenantVars, releaseVars, gens, active, startVars, ids, lock>>

VerifySourceFault(j) ==
    /\ Holds(j, "verifySource")
    /\ running' \in {running, Loaded(intent.srcGen)}
    /\ Goto(j, "restoreSelect")
    /\ UNCHANGED <<jobVars, intent, tenantVars, releaseVars, gens, active, startVars, ids, lock>>

\* Mutant of SelectCandidate: reloaded without being selected.
SelectCandidateSkipped(j) ==
    /\ Holds(j, "select")
    /\ Goto(j, "reload")
    /\ UNCHANGED <<jobVars, intent, tenantVars, releaseVars, caddyVars, ids, lock>>

SelectCandidate(j) ==
    /\ Holds(j, "select")
    /\ active' = intent.candGen
    /\ Goto(j, "reload")
    /\ UNCHANGED <<jobVars, intent, tenantVars, releaseVars, gens, running, startVars, ids, lock>>

\* select_active raised, before or after the rename took effect.
SelectFault(j) ==
    /\ Holds(j, "select")
    /\ active' \in {active, intent.candGen}
    /\ Goto(j, "restoreSelect")
    /\ UNCHANGED <<jobVars, intent, tenantVars, releaseVars, gens, running, startVars, ids, lock>>

\* reload_caddy_generation: verify the source, load and verify the candidate.
Reload(j) ==
    /\ Holds(j, "reload")
    /\ IF Verified(intent.srcGen)
       THEN running' = intent.candGen /\ Goto(j, "admit")
       ELSE UNCHANGED running /\ Goto(j, "restoreSelect")
    /\ UNCHANGED <<jobVars, intent, tenantVars, releaseVars, gens, active, startVars, ids, lock>>

ReloadFault(j) ==
    /\ Holds(j, "reload")
    /\ running' \in {running} \cup (IF Verified(intent.srcGen) THEN {intent.candGen} ELSE {})
    /\ Goto(j, "restoreSelect")
    /\ UNCHANGED <<jobVars, intent, tenantVars, releaseVars, gens, active, startVars, ids, lock>>

\* _handle_candidate_failure.
CandidateFailure(j) ==
    IF worker[j].permitted
    THEN Goto(j, "restoreSelect") /\ lock' = j
    ELSE RetryOnce(j) /\ lock' = None

\* The candidate is already selected: verify it, else reload from the source.
VerifyCandidate(j) ==
    /\ Holds(j, "verifyCandidate")
    /\ IF Verified(intent.srcGen) \/ Verified(intent.candGen)
       THEN running' = intent.candGen /\ Goto(j, "admit") /\ lock' = j
       ELSE UNCHANGED running /\ CandidateFailure(j)
    /\ UNCHANGED <<jobVars, intent, tenantVars, releaseVars, gens, active, startVars, ids>>

VerifyCandidateFault(j) ==
    /\ Holds(j, "verifyCandidate")
    /\ running' \in {running} \cup (IF Verified(intent.srcGen) THEN {intent.candGen} ELSE {})
    /\ CandidateFailure(j)
    /\ UNCHANGED <<jobVars, intent, tenantVars, releaseVars, gens, active, startVars, ids>>

\* _restore_source: select the source again ...
RestoreSelect(j) ==
    /\ Holds(j, "restoreSelect")
    /\ active' = intent.srcGen
    /\ Goto(j, "restoreLoad")
    /\ UNCHANGED <<jobVars, intent, tenantVars, releaseVars, gens, running, startVars, ids, lock>>

\* ... and load it.  The original error ends the process; a failed restoration
\* is an activation error and is retried.
RestoreLoad(j) ==
    /\ Holds(j, "restoreLoad")
    /\ lock' = None
    /\ running' = Loaded(intent.srcGen)
    /\ IF service.state = "active" THEN Stop(j) ELSE RetryOnce(j)
    /\ UNCHANGED <<jobVars, intent, tenantVars, releaseVars, gens, active, startVars, ids>>

RestoreFault(j) ==
    /\ lock = j /\ worker[j].pc \in {"restoreSelect", "restoreLoad"}
    /\ lock' = None
    /\ \/ active' \in {active, intent.srcGen} /\ UNCHANGED running
       \/ At(j, "restoreLoad") /\ running' = Loaded(intent.srcGen) /\ UNCHANGED active
    /\ RetryOnce(j)
    /\ UNCHANGED <<jobVars, intent, tenantVars, releaseVars, gens, startVars, ids>>

-----------------------------------------------------------------------------
(* The terminal commit, in the order of finalize_deployment_transition;    *)
(* each write is skipped when an earlier attempt already made it.          *)

AdmitCommit(j) ==
    /\ Holds(j, "admit")
    /\ IF AdmitTransition(intent) /\ intent.dep \in releases[intent.tenant]
       THEN Goto(j, "deployment") /\ lock' = j
       ELSE RetryOnce(j) /\ lock' = None
    /\ UNCHANGED <<jobVars, intent, tenantVars, releaseVars, caddyVars, ids>>

\* Mutant of CommitCapacityFault: the source is restored unasked.
CommitCapacityFaultRestores(j) ==
    /\ Holds(j, "admit")
    /\ Goto(j, "restoreSelect")
    /\ UNCHANGED <<jobVars, intent, tenantVars, releaseVars, caddyVars, ids, lock>>

CommitCapacityFault(j) ==
    /\ Holds(j, "admit")
    /\ IF worker[j].permitted
       THEN Goto(j, "restoreSelect") /\ lock' = j
       ELSE Stop(j) /\ lock' = None
    /\ UNCHANGED <<jobVars, intent, tenantVars, releaseVars, caddyVars, ids>>

CommitDeployment(j) ==
    /\ Holds(j, "deployment")
    /\ deployments' = [deployments EXCEPT ![intent.tenant] = @ \cup {intent.dep}]
    /\ Goto(j, "desired")
    /\ UNCHANGED <<jobVars, intent, desired, observed, releaseVars, caddyVars, ids, lock>>

CommitDesired(j) ==
    /\ Holds(j, "desired")
    /\ desired' = [desired EXCEPT ![intent.tenant] = intent.dep]
    /\ Goto(j, "observed")
    /\ UNCHANGED <<jobVars, intent, observed, deployments, releaseVars, caddyVars, ids, lock>>

CommitObserved(j) ==
    /\ Holds(j, "observed")
    /\ observed' = [observed EXCEPT ![intent.tenant] = CandidateObserved(intent)]
    /\ Goto(j, "retireReleases")
    /\ UNCHANGED <<jobVars, intent, desired, deployments, releaseVars, caddyVars, ids, lock>>

Retired(i) == deployments[i.tenant] \ TerminalHistory(i)

\* Releases go first, one at a time; the records that name them stay until
\* every release is gone, so a crash can always find what is left to remove.
RetireReleases(j) ==
    /\ Holds(j, "retireReleases")
    /\ LET left == Retired(intent) \cap releases[intent.tenant]
       IN  IF left = {}
           THEN UNCHANGED releases /\ Goto(j, "retireRecords")
           ELSE /\ releases' = [releases EXCEPT ![intent.tenant] =
                                  @ \ {d \in left : \A e \in left : d <= e}]
                /\ UNCHANGED worker
    /\ UNCHANGED <<jobVars, intent, tenantVars, staged, caddyVars, ids, lock>>

RetireRecords(j) ==
    /\ Holds(j, "retireRecords")
    /\ LET left == Retired(intent)
       IN  IF left = {}
           THEN UNCHANGED deployments /\ Goto(j, "audit")
           ELSE /\ deployments' = [deployments EXCEPT ![intent.tenant] =
                                     @ \ {d \in left : \A e \in left : d <= e}]
                /\ UNCHANGED worker
    /\ UNCHANGED <<jobVars, intent, desired, observed, releaseVars, caddyVars, ids, lock>>

CommitAudit(j) ==
    /\ Holds(j, "audit")
    /\ audit' = IF Audited(j) THEN audit ELSE Append(audit, j)
    /\ Goto(j, "result")
    /\ UNCHANGED <<jobs, results, intent, tenantVars, releaseVars, caddyVars, ids, lock>>

CommitResult(j) ==
    /\ Holds(j, "result")
    /\ results' = [results EXCEPT ![j] = "succeeded"]
    /\ Goto(j, "job")
    /\ UNCHANGED <<jobs, audit, intent, tenantVars, releaseVars, caddyVars, ids, lock>>

CommitJob(j) ==
    /\ Holds(j, "job")
    /\ jobs' = [jobs EXCEPT ![j].phase = "completed"]
    /\ Goto(j, "removeIntent")
    /\ UNCHANGED <<results, audit, intent, tenantVars, releaseVars, caddyVars, ids, lock>>

RemoveIntent(j) ==
    /\ Holds(j, "removeIntent")
    /\ intent' = None
    /\ lock' = None
    /\ Goto(j, "validate")
    /\ UNCHANGED <<jobVars, tenantVars, releaseVars, caddyVars, ids>>

-----------------------------------------------------------------------------
PrepareStep(j) ==
    \/ Classify(j) \/ PrepareRejected(j) \/ PrepareRaced(j) \/ Prepare(j)
    \/ BindSourceRuntime(j) \/ StageRelease(j) \/ QuotaExceeded(j) \/ CreateIntent(j)
    \/ Recover(j) \/ PublishRelease(j) \/ PruneGenerations(j) \/ PublishCandidate(j)

ActivateStep(j) ==
    \/ Activate(j) \/ VerifySource(j) \/ SelectCandidate(j) \/ Reload(j)
    \/ VerifyCandidate(j) \/ RestoreSelect(j) \/ RestoreLoad(j)

CommitStep(j) ==
    \/ AdmitCommit(j) \/ CommitDeployment(j) \/ CommitDesired(j) \/ CommitObserved(j)
    \/ RetireReleases(j) \/ RetireRecords(j) \/ CommitAudit(j) \/ CommitResult(j)
    \/ CommitJob(j) \/ RemoveIntent(j)

HandlerStep(j) == PrepareStep(j) \/ ActivateStep(j) \/ CommitStep(j)

HandlerFault(j) ==
    \/ IntentFault(j) \/ ActivateCapacityFault(j) \/ VerifySourceFault(j)
    \/ SelectFault(j) \/ ReloadFault(j) \/ VerifyCandidateFault(j)
    \/ RestoreFault(j) \/ CommitCapacityFault(j)
=============================================================================
