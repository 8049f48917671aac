----------------------------- MODULE HostState -----------------------------
(***************************************************************************)
(* The state that every lifecycle worker of the static host agent shares:  *)
(* the root-owned records under the state root, the release store, the     *)
(* Caddy generations, the publication lock and the worker processes.  The  *)
(* active reference and the Caddy unit come from CaddyUnit.                *)
(*                                                                         *)
(* Simplifications.                                                        *)
(*  - Export, publication and tenant-state locks are one lock: a lifecycle *)
(*    worker takes the last two exclusively, always in the same order.     *)
(*  - UUIDv7 identities are natural numbers drawn from one counter, because*)
(*    the code relies on their order only.  0 stands for "no deployment".  *)
(*  - A manifest is the deployment it selects; an observed state is that   *)
(*    deployment and the generation that first routed it.                  *)
(*  - "import" is "deploy" (the same code path with provenance attached).  *)
(*  - One worker process per job: the job's systemd instance unit.         *)
(***************************************************************************)
EXTENDS CaddyUnit, Sequences, FiniteSets

CONSTANTS
    Jobs,           \* identities of authorization jobs
    Tenants,        \* identities of tenants
    Founded,        \* how many retained deployments each tenant starts with
    Epoch,          \* the last identity drawn before the model starts
    MaxRetained,    \* _MAXIMUM_RETAINED_DEPLOYMENTS, 3 in the code
    MaxGenerations  \* MAX_CADDY_GENERATIONS, 3 in the code

ASSUME FoundedAssumption == /\ Epoch \in Nat \ {0}
                            /\ Founded \in [Tenants -> 0..Epoch]
                            /\ \A t \in Tenants : Founded[t] <= MaxRetained

ASSUME BoundsAssumption == /\ MaxRetained \in Nat /\ MaxRetained >= 2
                           /\ MaxGenerations \in Nat /\ MaxGenerations >= 3

VARIABLES
    jobs,         \* authorization-job records
    results,      \* immutable operation results, by job
    audit,        \* the audit chain, as the sequence of jobs it records
    intent,       \* the single transaction intent, or None
    desired,      \* selected deployment of each tenant's manifest
    observed,     \* observed state of each tenant
    deployments,  \* deployment records of each tenant
    releases,     \* published release trees of each tenant
    staged,       \* release trees staged but not yet published
    gens,         \* complete Caddy generations: identity -> route snapshot
    ids,          \* the last identity drawn
    lock,         \* holder of the publication and tenant-state locks
    worker        \* per job: program counter and locals of its process

jobVars == <<jobs, results, audit>>
tenantVars == <<desired, observed, deployments>>
releaseVars == <<releases, staged>>
startVars == <<startup, service>>
caddyVars == <<gens, unitVars>>
procVars == <<lock, worker>>
vars == <<jobVars, intent, tenantVars, releaseVars, caddyVars, ids, procVars>>

Operations == {"deploy", "rollback"}
Observed == [dep : Ids, gen : Ids]
Routes == [Tenants -> Observed]
Phases == {"absent", "pending", "claimed", "completed", "failed"}

(***************************************************************************)
(* An authorization job.  `source` is expectedSource, taken at issuance;   *)
(* `bound` says that dispatch authority (`history`, every tenant's record  *)
(* history) was persisted; `srcGen` and `srcObs` are the dispatch source   *)
(* runtime authority, bound during preparation.                            *)
(***************************************************************************)
JobRecord == [phase : Phases, op : Operations, tenant : Tenants \cup {None},
              target : Ids, source : Ids, bound : BOOLEAN,
              history : [Tenants -> SUBSET Ids], srcGen : Ids \cup {None},
              srcObs : Observed, validated : BOOLEAN]

IntentRecord == [job : Jobs, tenant : Tenants, op : Operations,
                 src : Observed, dep : Ids, srcGen : Ids, candGen : Ids]

ASSUME ActorsAssumption == None \notin Jobs \cup Tenants \cup IntentRecord

ExecutorLabels == {"idle", "start", "bind", "claim", "dispatch", "reject",
                   "failResult", "failAudit", "failPhase", "failValidated",
                   "replayAudit", "replayPhase", "validate", "mark"}
PrepareLabels == {"classify", "prepare", "bindRuntime", "stage", "intent",
                  "recover", "release", "prune", "publish"}
ActivateLabels == {"activate", "verifySource", "select", "reload",
                   "verifyCandidate", "restoreSelect", "restoreLoad"}
CommitLabels == {"admit", "deployment", "desired", "observed",
                 "retireReleases", "retireRecords", "audit", "result",
                 "job", "removeIntent"}
Labels == ExecutorLabels \cup PrepareLabels \cup ActivateLabels \cup CommitLabels

WorkerRecord == [pc : Labels, permitted : BOOLEAN, retried : BOOLEAN]
IdleWorker == [pc |-> "idle", permitted |-> TRUE, retried |-> FALSE]

-----------------------------------------------------------------------------
(* Control flow of a worker process. *)

At(j, label) == worker[j].pc = label

Goto(j, label) == worker' = [worker EXCEPT ![j].pc = label]

Stop(j) == worker' = [worker EXCEPT ![j] = IdleWorker]

Unlocked == lock = None

Holds(j, label) == lock = j /\ At(j, label)

-----------------------------------------------------------------------------
(* Questions the code asks of the records. *)

NoJob == [phase |-> "absent", op |-> "deploy", tenant |-> None, target |-> 0,
          source |-> 0, bound |-> FALSE, history |-> [t \in Tenants |-> {}],
          srcGen |-> None, srcObs |-> [dep |-> 0, gen |-> 0],
          validated |-> FALSE]

Audited(j) == \E n \in 1..Len(audit) : audit[n] = j

\* Mutant of ReservedByOther: the reservation is not looked at.
NeverReserved(j) == FALSE

\* _require_lifecycle_reservation_owner: another job's intent keeps j out.
ReservedByOther(j) == intent # None /\ intent.job # j

\* _bound_lifecycle_intents for job j.
OwnsIntent(j) == intent # None /\ intent.job = j

\* Mutant of SourceIsCurrent: expectedSource is not compared.
SourceUnchecked(j) == TRUE

\* build_expected_source compared with the job's expectedSource.
SourceIsCurrent(j) == desired[jobs[j].tenant] = jobs[j].source

-----------------------------------------------------------------------------
(* Deployment history of a transition, as sets of ordered identities. *)

TransitionHistory(i) == jobs[i.job].history[i.tenant] \cup {i.dep}

\* Mutant of TerminalHistory: one predecessor too many is retained.
TerminalHistoryOffByOne(i) ==
    {d \in TransitionHistory(i) :
        /\ d <= i.dep
        /\ Cardinality({e \in TransitionHistory(i) : d < e /\ e <= i.dep}) <= MaxRetained}

\* The target and its MaxRetained - 1 chronological predecessors.
TerminalHistory(i) ==
    {d \in TransitionHistory(i) :
        /\ d <= i.dep
        /\ Cardinality({e \in TransitionHistory(i) : d < e /\ e <= i.dep}) < MaxRetained}

CandidateObserved(i) == [dep |-> i.dep, gen |-> i.candGen]

-----------------------------------------------------------------------------
HostTypeOK ==
    /\ jobs \in [Jobs -> JobRecord]
    /\ results \in [Jobs -> {"none", "succeeded", "failed"}]
    /\ audit \in Seq(Jobs)
    /\ intent \in IntentRecord \cup {None}
    /\ desired \in [Tenants -> Ids]
    /\ observed \in [Tenants -> Observed]
    /\ deployments \in [Tenants -> SUBSET Ids]
    /\ releases \in [Tenants -> SUBSET Ids]
    /\ staged \in SUBSET Ids
    /\ DOMAIN gens \in SUBSET Ids
    /\ \A g \in DOMAIN gens : gens[g] \in Routes
    /\ UnitTypeOK /\ active # None
    /\ ids \in Nat
    /\ lock \in Jobs \cup {None}
    /\ worker \in [Jobs -> WorkerRecord]

\* A host with Founded[t] retained deployments per tenant, Caddy serving them.
HostInit ==
    /\ jobs = [j \in Jobs |-> NoJob]
    /\ results = [j \in Jobs |-> "none"]
    /\ audit = << >>
    /\ intent = None
    /\ desired = Founded
    /\ observed = [t \in Tenants |->
                     [dep |-> Founded[t], gen |-> IF Founded[t] = 0 THEN 0 ELSE Epoch]]
    /\ deployments = [t \in Tenants |-> 1..Founded[t]]
    /\ releases = deployments
    /\ staged = {}
    /\ gens = [g \in {Epoch} |-> observed]
    /\ active = Epoch
    /\ running = Epoch
    /\ startup = None
    /\ service = [state |-> "active", fenced |-> FALSE]
    /\ ids = Epoch
    /\ lock = None
    /\ worker = [j \in Jobs |-> IdleWorker]
=============================================================================
