---------------------------- MODULE JobExecution ----------------------------
(***************************************************************************)
(* Authorization jobs and the executor that drives them: issuance, systemd *)
(* handoff and reconciliation, claiming, publication of executor failures, *)
(* replay of terminal results and the final validation marker.             *)
(*                                                                         *)
(* The executor runs with exclusive locks but takes them several times:    *)
(* whatever it learned in one hold may be stale in the next.  Each action  *)
(* is one durable write or one lock hold, so a process can die between any *)
(* two of them.                                                            *)
(*                                                                         *)
(* Issue reads the source without the lock that admits the job; a job made *)
(* stale that way is the same as one issued before the other transition.   *)
(***************************************************************************)
EXTENDS HostState

\* Issuer and CorrelationAdmission: no new job while an intent reserves the
\* next audit position and terminal capacity.
Issue(j, op, t, target) ==
    /\ Unlocked
    /\ jobs[j].phase = "absent"
    /\ intent = None
    /\ \/ op = "deploy" /\ target = 0
       \/ op = "rollback" /\ target \in deployments[t] \ {desired[t]}
    /\ jobs' = [jobs EXCEPT ![j] = [NoJob EXCEPT !.phase = "pending", !.op = op,
                                       !.tenant = t, !.target = target,
                                       !.source = desired[t]]]
    /\ UNCHANGED <<results, audit, intent, tenantVars, releaseVars, caddyVars, ids, procVars>>

\* Mutant of NeedsWorker: a terminal phase is taken for a finished job.
NeedsWorkerByPhase(j) == jobs[j].phase \in {"pending", "claimed"}

\* StartupReconciler.reconcile: which committed jobs go back to a worker.
NeedsWorker(j) ==
    IF results[j] = "none"
    THEN jobs[j].phase \in {"pending", "claimed"}
    ELSE \/ jobs[j].phase \notin {"completed", "failed"}
         \/ OwnsIntent(j)
         \/ ~jobs[j].validated

\* systemd starts (or restarts) the one instance unit of the job.
Handoff(j) ==
    /\ At(j, "idle")
    /\ NeedsWorker(j)
    /\ Goto(j, "start")
    /\ UNCHANGED <<jobVars, intent, tenantVars, releaseVars, caddyVars, ids, lock>>

\* The executor's first transaction, when the job already has a result.
ReplayExisting(j) ==
    /\ Unlocked /\ At(j, "start")
    /\ results[j] # "none"
    /\ ~ReservedByOther(j)
    /\ IF OwnsIntent(j)
       THEN Goto(j, "dispatch") /\ lock' = None
       ELSE IF results[j] = "failed"
            THEN Goto(j, "replayAudit") /\ lock' = j
            ELSE Goto(j, "validate") /\ lock' = None
    /\ UNCHANGED <<jobVars, intent, tenantVars, releaseVars, caddyVars, ids>>

\* The first transaction of a job without a result: an executor failure for a
\* stale source or a bad artifact, otherwise binding and claiming.
ExecuteWithClaim(j) ==
    /\ Unlocked /\ At(j, "start")
    /\ results[j] = "none"
    /\ ~ReservedByOther(j)
    /\ lock' = j
    /\ \/ /\ ~OwnsIntent(j)
          /\ ~SourceIsCurrent(j) \/ jobs[j].op = "deploy"
          /\ Goto(j, "failResult")
       \/ /\ OwnsIntent(j) \/ SourceIsCurrent(j)
          /\ Goto(j, IF jobs[j].bound THEN "claim" ELSE "bind")
    /\ UNCHANGED <<jobVars, intent, tenantVars, releaseVars, caddyVars, ids>>

\* StateBusyError: another job's intent keeps every other worker out.
Busy(j) ==
    /\ Unlocked
    /\ worker[j].pc \in {"start", "dispatch", "reject", "mark"}
    /\ ReservedByOther(j)
    /\ Stop(j)
    /\ UNCHANGED <<jobVars, intent, tenantVars, releaseVars, caddyVars, ids, lock>>

\* _bind_dispatch_authority: persist every tenant's record history, once.
BindDispatchAuthority(j) ==
    /\ Holds(j, "bind")
    /\ jobs' = [jobs EXCEPT ![j].bound = TRUE, ![j].history = deployments]
    /\ Goto(j, "claim")
    /\ UNCHANGED <<results, audit, intent, tenantVars, releaseVars, caddyVars, ids, lock>>

\* _claim_pending, then the transaction ends.
ClaimPending(j) ==
    /\ Holds(j, "claim")
    /\ jobs' = [jobs EXCEPT ![j].phase = "claimed"]
    /\ lock' = None
    /\ Goto(j, "dispatch")
    /\ UNCHANGED <<results, audit, intent, tenantVars, releaseVars, caddyVars, ids>>

\* _execute_handler's own transaction before it calls the handler.
ExecuteHandler(j) ==
    /\ Unlocked /\ At(j, "dispatch")
    /\ ~ReservedByOther(j)
    /\ Goto(j, "classify")
    /\ UNCHANGED <<jobVars, intent, tenantVars, releaseVars, caddyVars, ids, lock>>

\* _fail_without_claim after a handler rejection.
FailRejected(j) ==
    /\ Unlocked /\ At(j, "reject")
    /\ ~ReservedByOther(j)
    /\ IF OwnsIntent(j)
       THEN Stop(j) /\ lock' = None
       ELSE Goto(j, "failResult") /\ lock' = j
    /\ UNCHANGED <<jobVars, intent, tenantVars, releaseVars, caddyVars, ids>>

-----------------------------------------------------------------------------
(* _publish_result: result, audit entry, phase, validation marker. *)

PublishFailure(j) ==
    /\ Holds(j, "failResult")
    /\ results' = [results EXCEPT ![j] = "failed"]
    /\ Goto(j, "failAudit")
    /\ UNCHANGED <<jobs, audit, intent, tenantVars, releaseVars, caddyVars, ids, lock>>

\* Mutant of EnsureFailureAudit: appended without looking.
AppendFailureAudit(j) ==
    /\ lock = j /\ worker[j].pc \in {"failAudit", "replayAudit"}
    /\ audit' = Append(audit, j)
    /\ Goto(j, IF At(j, "failAudit") THEN "failPhase" ELSE "replayPhase")
    /\ UNCHANGED <<jobs, results, intent, tenantVars, releaseVars, caddyVars, ids, lock>>

EnsureFailureAudit(j) ==
    /\ lock = j /\ worker[j].pc \in {"failAudit", "replayAudit"}
    /\ audit' = IF Audited(j) THEN audit ELSE Append(audit, j)
    /\ Goto(j, IF At(j, "failAudit") THEN "failPhase" ELSE "replayPhase")
    /\ UNCHANGED <<jobs, results, intent, tenantVars, releaseVars, caddyVars, ids, lock>>

SetFailedPhase(j) ==
    /\ lock = j /\ worker[j].pc \in {"failPhase", "replayPhase"}
    /\ jobs' = [jobs EXCEPT ![j].phase = "failed"]
    /\ IF At(j, "failPhase")
       THEN Goto(j, "failValidated") /\ lock' = j
       ELSE Goto(j, "validate") /\ lock' = None
    /\ UNCHANGED <<results, audit, intent, tenantVars, releaseVars, caddyVars, ids>>

CommitFailureValidation(j) ==
    /\ Holds(j, "failValidated")
    /\ jobs' = [jobs EXCEPT ![j].validated = TRUE]
    /\ lock' = None
    /\ Stop(j)
    /\ UNCHANGED <<results, audit, intent, tenantVars, releaseVars, caddyVars, ids>>

-----------------------------------------------------------------------------
(* Terminal validation. *)

\* The whole-host release inventory and the selected runtime generation agree
\* with every tenant's authority.
HostStateMatches ==
    /\ active \in DOMAIN gens
    /\ gens[active] = observed
    /\ \A t \in Tenants : /\ releases[t] = deployments[t]
                          /\ observed[t].dep = desired[t]

ValidateTerminalState(j) ==
    /\ Unlocked /\ At(j, "validate")
    /\ IF HostStateMatches /\ Audited(j) /\ ~OwnsIntent(j) THEN Goto(j, "mark") ELSE Stop(j)
    /\ UNCHANGED <<jobVars, intent, tenantVars, releaseVars, caddyVars, ids, lock>>

MarkExecutionValidated(j) ==
    /\ Unlocked /\ At(j, "mark")
    /\ ~ReservedByOther(j)
    /\ jobs' = [jobs EXCEPT ![j].validated = TRUE]
    /\ Stop(j)
    /\ UNCHANGED <<results, audit, intent, tenantVars, releaseVars, caddyVars, ids, lock>>

\* The process ends with an error, is killed, or the host goes down: locks are
\* released and only durable state is left.
Crash(j) ==
    /\ ~At(j, "idle")
    /\ lock' = IF lock = j THEN None ELSE lock
    /\ Stop(j)
    /\ UNCHANGED <<jobVars, intent, tenantVars, releaseVars, caddyVars, ids>>

ExecutorStep(j) ==
    \/ ReplayExisting(j) \/ ExecuteWithClaim(j) \/ Busy(j)
    \/ BindDispatchAuthority(j) \/ ClaimPending(j)
    \/ ExecuteHandler(j) \/ FailRejected(j)
    \/ PublishFailure(j) \/ EnsureFailureAudit(j) \/ SetFailedPhase(j)
    \/ CommitFailureValidation(j)
    \/ ValidateTerminalState(j) \/ MarkExecutionValidated(j)
=============================================================================
