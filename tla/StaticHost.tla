----------------------------- MODULE StaticHost -----------------------------
(***************************************************************************)
(* The whole publication path: issued jobs, one worker per job, the        *)
(* reconciler that hands unfinished jobs back to workers, and a Caddy unit *)
(* that may fail and be started again behind its start gate at any moment. *)
(* The platform bootstrap is not part of it: it refuses hosts with tenants.*)
(***************************************************************************)
EXTENDS JobExecution, DeploymentTransition

CONSTANTS
    Faults,        \* which kinds of fault may happen
    MaxFaults      \* bound on how many do

FaultKinds == {"worker", "handler", "caddy", "host"}

ASSUME FaultsAssumption == MaxFaults \in Nat /\ Faults \subseteq FaultKinds

VARIABLE faults         \* faults so far

allVars == <<vars, faults>>

Init == HostInit /\ faults = 0

IssueStep(j) == \E op \in Operations, t \in Tenants :
                    \E target \in deployments[t] \cup {0} : Issue(j, op, t, target)

WorkerStep(j) == ExecutorStep(j) \/ HandlerStep(j)

\* The gate, the launcher, the verifier and the recovery unit take the lock.
CaddyStep ==
    /\ Unlocked
    /\ StartGate \/ Launch \/ VerifyStart \/ ClearExhaustedOrdinaryStart
    /\ UNCHANGED <<jobVars, intent, tenantVars, releaseVars, gens, ids, procVars>>

CaddyFault ==
    /\ CaddyCrash
    /\ UNCHANGED <<jobVars, intent, tenantVars, releaseVars, gens, ids, procVars>>

\* Power loss or reboot: every process ends, what is durable stays.
HostCrash ==
    /\ worker' = [j \in Jobs |-> IdleWorker]
    /\ lock' = None
    /\ running' = None /\ service' = Down
    /\ UNCHANGED <<jobVars, intent, tenantVars, releaseVars, gens, active, startup, ids>>

FaultStep ==
    /\ \/ "worker" \in Faults /\ \E j \in Jobs : Crash(j)
       \/ "handler" \in Faults /\ \E j \in Jobs : HandlerFault(j)
       \/ "caddy" \in Faults /\ CaddyFault
       \/ "host" \in Faults /\ HostCrash
    /\ faults < MaxFaults
    /\ faults' = faults + 1

Next ==
    \/ (\E j \in Jobs : IssueStep(j)) /\ UNCHANGED faults
    \/ (\E j \in Jobs : Handoff(j)) /\ UNCHANGED faults
    \/ (\E j \in Jobs : WorkerStep(j)) /\ UNCHANGED faults
    \/ CaddyStep /\ UNCHANGED faults
    \/ FaultStep

Safety == Init /\ [][Next]_allVars

(***************************************************************************)
(* Fairness.  Workers block on flock() and every holder releases it within *)
(* its unit's RuntimeMaxSec, so a worker whose next step needs the lock    *)
(* gets it eventually (SF); the reconciler's timer and its rotating cursor *)
(* hand every unfinished job off again (WF); systemd restarts Caddy after  *)
(* a failure, and each of its start steps blocks on the lock too (SF).     *)
(* Issue and faults are never forced.                                      *)
(***************************************************************************)
Fairness ==
    /\ \A j \in Jobs : SF_allVars(WorkerStep(j) /\ UNCHANGED faults)
    /\ \A j \in Jobs : WF_allVars(Handoff(j) /\ UNCHANGED faults)
    /\ SF_allVars(CaddyStep /\ UNCHANGED faults)

Spec == Safety /\ Fairness

-----------------------------------------------------------------------------
TypeOK == HostTypeOK /\ faults \in 0..MaxFaults

\* A published release is never removed while a configuration routes to it:
\* neither the durable active generation nor the one Caddy runs names a
\* deployment whose release tree is gone (remove_release vs select_active).
ServedReleaseExists ==
    \A g \in {active, running} \ {None} :
        /\ g \in DOMAIN gens
        /\ \A t \in Tenants : gens[g][t].dep \in releases[t] \cup {0}

\* The active reference never leaves what the records authorize: the intent's
\* source or candidate generation during a transition, and a generation with
\* exactly the observed routes when no intent is durable.
ActiveWithinAuthority ==
    IF intent = None THEN active \in DOMAIN gens /\ gens[active] = observed
                     ELSE active \in {intent.srcGen, intent.candGen}

\* No crash or fault leaves a transition that its own replay refuses: whenever
\* nobody is inside it _reconstruct_deployment accepts, a worker waiting to
\* activate is admitted with a restoration permission that is still right, and
\* so is the commit that follows a reload.
TransitionNeverRefused ==
    /\ intent # None /\ lock = None => RecoveryAdmitted(intent)
    /\ \A j \in Jobs :
          /\ At(j, "activate") => /\ OwnsIntent(j) /\ ActivationAdmitted(intent)
                                 /\ worker[j].permitted = SourceReleasePresent(intent)
                                 /\ (active = intent.srcGen => worker[j].permitted)
          /\ At(j, "admit") => AdmitTransition(intent)

\* Between transitions each tenant keeps at most MaxRetained deployments, has
\* exactly their releases, selects one of them and has observed it.
RetentionSettled ==
    intent = None =>
        \A t \in Tenants :
            /\ releases[t] = deployments[t]
            /\ Cardinality(deployments[t]) <= MaxRetained
            /\ desired[t] \in deployments[t] \cup {0}
            /\ observed[t].dep = desired[t]

\* A job is audited at most once whatever is replayed, and a validated job
\* has its result, its terminal phase and its audit entry.
AuditedExactlyOnce ==
    /\ \A m, n \in 1..Len(audit) : audit[m] = audit[n] => m = n
    /\ \A j \in Jobs :
          /\ jobs[j].validated => Audited(j) /\ ~OwnsIntent(j)
          /\ results[j] = "succeeded" => Audited(j) /\ jobs[j].phase \in {"claimed", "completed"}
          /\ jobs[j].phase = "failed" => results[j] = "failed"

\* While an intent is durable only its owner's entry may extend the audit
\* chain, so the position reserved at preparation stays valid.
AuditReserved ==
    [][intent # None /\ audit' # audit => audit' = Append(audit, intent.job)]_allVars

\* Every issued job is eventually finished and validated ...
EveryJobSettles == \A j \in Jobs : jobs[j].phase = "pending" ~> jobs[j].validated

\* ... and Caddy, verified by its start or by a worker, comes back to what is
\* selected again and again.
RuntimeConverges == []<>Verified(active)

-----------------------------------------------------------------------------
(* The pipeline implements AtomicPublication: a transition takes effect    *)
(* when its result becomes durable; until the intent is removed the records*)
(* may already, or still, disagree with what the operator was told.        *)

RequestOf(j) == IF jobs[j].phase = "absent" THEN None
                ELSE [op |-> jobs[j].op, tenant |-> jobs[j].tenant,
                      target |-> jobs[j].target, source |-> jobs[j].source]

Published(t) ==
    IF intent # None /\ t = intent.tenant
    THEN IF results[intent.job] = "succeeded" THEN intent.dep ELSE intent.src.dep
    ELSE desired[t]

Abstract == INSTANCE AtomicPublication WITH
                requests <- [j \in Jobs |-> RequestOf(j)],
                outcome <- results,
                published <- [t \in Tenants |-> Published(t)]

\* "Not asked for" is no request.
ASSUME RequestAssumption == None \notin Abstract!Request

\* Every behaviour of the pipeline is one of AtomicPublication.
ImplementsAtomicPublication == Abstract!Spec
=============================================================================
