--------------------------- MODULE TenantArchive ---------------------------
\* Archive, restore, delete and emergency delete of tenants, with the bundle
\* each archive keeps at a remote object store (archive_*.py, restore_*.py,
\* delete_*.py, emergency_*.py).
\*
\* One worker at a time holds the EXPORT lock; the archive services run in
\* processes of their own under a borrowed copy of that lease, so a service
\* may outlive the worker that called it.  Every process can be killed between
\* any two durable writes, and the provider can fail any call, or perform it
\* and lose the answer.
EXTENDS Naturals, Sequences, FiniteSets

CONSTANTS
    Tenants,        \* tenant identifiers
    Jobs,           \* authorization jobs, and emergency correlations
    MaxRemote,      \* MAX_REMOTE_KEYS: objects the bucket may hold
    MaxFaults,      \* kills, provider failures and capacity refusals together
    None

ArchiveAssumption == MaxRemote \in Nat /\ MaxFaults \in Nat

Operations == {"archive", "restore", "delete", "emergency"}
\* "active" stands for active and suspended: both are archived alike and both
\* have a route.
Lifecycles == {"undeployed", "active", "archived", "gone"}
Services == {"construction", "cleanup", "download"}

VARIABLES
    life,           \* tenant -> lifecycle of the desired-state record
    seen,           \* tenant -> lifecycle of the observed-state record
    dep,            \* tenant -> job that made the selected deployment, or None
    bound,          \* tenant -> key its archive record binds, or None
    routed,         \* tenants in the selected generation's route snapshot
    jobs,           \* job -> its authorization record, or None
    audit,          \* the audit chain: entries [job, status]
    intents,        \* intent records
    remote,         \* keys with an object at the provider
    puts,           \* key -> PutObject calls made with it
    quarantine,     \* the durable quarantine record exists
    worker,         \* holder of EXPORT: [job, pc], or None
    helper,         \* service -> its session [job, pc], or None
    faults          \* faults so far

tenants == <<life, seen, dep, bound, routed>>
store == <<remote, puts, quarantine>>
vars == <<tenants, jobs, audit, intents, store, worker, helper, faults>>

\* An upload attempt has a key of its own, and a job prepares at most one; every
\* other operation is about the object its source binds.
Constructs(j) == jobs[j].op = "archive" /\ jobs[j].source.life # "archived"
Key(j) == IF Constructs(j) THEN j ELSE jobs[j].source.bound
Tenant(j) == jobs[j].tenant
Source(t) == [life |-> life[t], bound |-> bound[t], dep |-> dep[t]]
Current(j) == Source(Tenant(j)) = jobs[j].source
Intent(j, k) == [kind |-> k, job |-> j]
Has(j, k) == Intent(j, k) \in intents
Journals(j) == {i \in intents : i.job = j /\ i.kind \in {"prepared", "uploaded", "retirement"}}
BoundKeys == {bound[t] : t \in Tenants} \ {None}
Audited(j) == \E n \in DOMAIN audit : audit[n].job = j
AuditedAs(j, s) == \E n \in DOMAIN audit : audit[n] = [job |-> j, status |-> s]

\* A later success of the same tenant supersedes what this job left behind; of a
\* failed job, one since the audit boundary its dispatch bound.
Superseded(j) ==
    \E n \in DOMAIN audit :
        /\ audit[n].status = "succeeded"
        /\ audit[n].job # j /\ Tenant(audit[n].job) = Tenant(j)
        /\ IF jobs[j].result = "failed" THEN n > jobs[j].boundary
           ELSE \E m \in 1..(n - 1) : audit[m].job = j

Init ==
    /\ life \in [Tenants -> {"undeployed", "active"}]
    /\ seen = life
    /\ dep = [t \in Tenants |-> None]
    /\ bound = [t \in Tenants |-> None]
    /\ routed = Tenants
    /\ jobs = [j \in Jobs |-> None]
    /\ audit = <<>>
    /\ intents = {}
    /\ remote = {}
    /\ puts = [j \in Jobs |-> 0]
    /\ quarantine = FALSE
    /\ worker = None
    /\ helper = [s \in Services |-> None]
    /\ faults = 0

-----------------------------------------------------------------------------
\* Issuing and starting jobs.

Permitted(op, t) ==
    CASE op = "archive" -> life[t] \in {"active", "archived"}
      [] op = "restore" -> life[t] = "archived"
      [] op = "delete" -> life[t] \in {"undeployed", "archived"}
      [] op = "emergency" -> life[t] # "gone"

\* The job's source is what build_expected_source reads now.
Issue(j, op, t) ==
    /\ jobs[j] = None
    /\ Permitted(op, t)
    /\ jobs' = [jobs EXCEPT ![j] = [op |-> op, tenant |-> t, source |-> Source(t),
                                    boundary |-> Len(audit), phase |-> "claimed",
                                    result |-> None, recorded |-> FALSE, validated |-> FALSE]]
    /\ UNCHANGED <<tenants, audit, intents, store, worker, helper, faults>>

ExportFree == worker = None /\ \A s \in Services : helper[s] = None

\* A worker of an unfinished job, or the emergency command, takes EXPORT once
\* no service still holds a borrowed copy.  While intents exist only their
\* owner runs.
Start(j) ==
    /\ ExportFree
    /\ jobs[j] # None /\ ~jobs[j].validated
    /\ \A i \in intents : i.job = j
    /\ worker' = [job |-> j, pc |-> "classify"]
    /\ UNCHANGED <<tenants, jobs, audit, intents, store, helper, faults>>

At(j, pc) == worker = [job |-> j, pc |-> pc]
Goto(j, pc) == worker' = [job |-> j, pc |-> pc]

\* A claimed job whose source drifted is refused before its handler runs.
Fail(j) ==
    /\ jobs' = [jobs EXCEPT ![j].result = "failed", ![j].phase = "failed"]
    /\ audit' = Append(audit, [job |-> j, status |-> "failed"])

\* reconstruct_*_transition: a transaction is resumed; an archived source is read
\* again before its deletion's audit entry.
Resume(j) == IF jobs[j].op = "delete" /\ Key(j) # None /\ ~Audited(j) THEN "recheck" ELSE "commit"

\* A result without a transaction has at most its journal left to finish.
RouteTerminal(j) ==
    IF Journals(j) = {} THEN "terminal"
    ELSE IF Constructs(j) /\ jobs[j].result = "failed" THEN "abort" ELSE "finish"

RouteArchive(j) ==
    CASE Has(j, "prepared") \/ AuditedAs(j, "failed") -> "abort"
      [] Has(j, "uploaded") /\ ~Audited(j) -> "publish"
      [] Journals(j) = {} -> "begin"

RouteRetirement(j) ==
    IF Has(j, "retirement") THEN IF jobs[j].op = "restore" THEN "fetch" ELSE "prepare"
    ELSE IF Key(j) = None THEN "prepare" ELSE "source"

\* The entry point of each handler: what the durable records say comes next.
Route(j) ==
    CASE Has(j, "transaction") -> Resume(j)
      [] ~Has(j, "transaction") /\ jobs[j].result # None -> RouteTerminal(j)
      [] ~Has(j, "transaction") /\ jobs[j].result = None ->
            IF Constructs(j) THEN RouteArchive(j) ELSE RouteRetirement(j)

Classify(j) ==
    /\ At(j, "classify") /\ jobs[j].op # "emergency"
    /\ IF jobs[j].result = None /\ ~Has(j, "transaction") /\ Journals(j) = {} /\ ~Current(j)
       THEN Fail(j) /\ worker' = None
       ELSE Goto(j, Route(j)) /\ UNCHANGED <<jobs, audit>>
    /\ UNCHANGED <<tenants, intents, store, helper, faults>>

\* What follows the local transition: the journal's finish, or its terminal proof.
AfterLocal(j) ==
    IF Key(j) = None \/ (Journals(j) = {} /\ jobs[j].op # "emergency") THEN "terminal" ELSE "finish"

\* EmergencyDeletion.execute binds its source when it prepares.
ClassifyEmergency(j) ==
    /\ At(j, "classify") /\ jobs[j].op = "emergency"
    /\ \/ /\ Has(j, "transaction")
          /\ Goto(j, "commit") /\ UNCHANGED <<jobs, audit, intents>>
       \/ /\ ~Has(j, "transaction") /\ jobs[j].result # None
          /\ Goto(j, AfterLocal(j)) /\ UNCHANGED <<jobs, audit, intents>>
       \/ /\ ~Has(j, "transaction") /\ jobs[j].result = None
          /\ life[Tenant(j)] # "gone"
          /\ jobs' = [jobs EXCEPT ![j].source = Source(Tenant(j))]
          /\ intents' = {Intent(j, "transaction")}
          /\ Goto(j, "commit") /\ UNCHANGED audit
       \/ /\ ~Has(j, "transaction") /\ jobs[j].result = None
          /\ life[Tenant(j)] = "gone"
          /\ worker' = None /\ UNCHANGED <<jobs, audit, intents>>
    /\ UNCHANGED <<tenants, store, helper, faults>>

-----------------------------------------------------------------------------
\* The durable writes of a transition, in their order.  A replay skips the ones
\* already done, so the next write is the first whose effect is missing.

Target(j) == CASE jobs[j].op = "archive" -> "archived"
               [] jobs[j].op = "restore" -> "active"
               [] OTHER -> "gone"

ArchiveSteps == <<"select", "bind", "desired", "observed", "audit", "result", "phase", "clear">>
RevalidateSteps == <<"audit", "result", "phase", "clear">>
RestoreSteps == <<"select", "desired", "observed", "audit", "unbind", "result", "phase", "clear">>

\* delete removes desired and observed state before the archive record;
\* emergency removes records in path order, the archive record first.
DeleteSteps == <<"select", "audit", "desired", "observed", "unbind", "result", "phase", "clear">>
EmergencySteps == <<"retire", "select", "audit", "unbind", "desired", "observed", "result", "clear">>

CommitSteps(j) ==
    CASE jobs[j].op = "archive" -> IF Constructs(j) THEN ArchiveSteps ELSE RevalidateSteps
      [] jobs[j].op = "restore" -> RestoreSteps
      [] jobs[j].op = "delete" -> DeleteSteps
      [] jobs[j].op = "emergency" -> EmergencySteps

AbortSteps == <<"audit", "result", "phase">>
Outcome(j) == IF worker.pc = "abort" THEN "failed" ELSE "succeeded"

Done(j, s, outcome) ==
    LET t == Tenant(j) IN
    CASE s = "retire" -> Key(j) = None \/ Has(j, "retirement")
      [] s = "select" -> (t \in routed) = (Target(j) = "active")
      [] s = "bind" -> bound[t] = j
      [] s = "unbind" -> bound[t] = None
      [] s = "desired" -> life[t] = Target(j)
      [] s = "observed" -> seen[t] = Target(j)
      [] s = "audit" -> AuditedAs(j, outcome)
      [] s = "result" -> jobs[j].result = outcome
      [] s = "phase" -> jobs[j].phase = (IF outcome = "failed" THEN "failed" ELSE "completed")
      [] s = "clear" -> ~Has(j, "transaction")

Missing(j, steps, outcome) == {n \in DOMAIN steps : ~Done(j, steps[n], outcome)}
First(S) == CHOOSE n \in S : \A m \in S : n <= m

\* The worker's next write, at pc "commit" or "abort".
NextWrite(j, s) ==
    /\ worker # None /\ worker.job = j /\ worker.pc \in {"commit", "abort"}
    /\ LET steps == IF worker.pc = "abort" THEN AbortSteps ELSE CommitSteps(j)
           missing == Missing(j, steps, Outcome(j))
       IN  missing # {} /\ steps[First(missing)] = s

WriteRetirement(j) ==
    /\ NextWrite(j, "retire")
    /\ intents' = intents \cup {Intent(j, "retirement")}
    /\ UNCHANGED <<tenants, jobs, audit, store, worker, helper, faults>>

\* The candidate generation is selected and runs.
Select(j) ==
    /\ NextWrite(j, "select")
    /\ routed' = IF Target(j) = "active" THEN routed \cup {Tenant(j)} ELSE routed \ {Tenant(j)}
    /\ UNCHANGED <<life, seen, dep, bound, jobs, audit, intents, store, worker, helper, faults>>

\* finalize_archive_transition creates the record before desired state names it.
BindArchiveRecord(j) ==
    /\ NextWrite(j, "bind")
    /\ bound' = [bound EXCEPT ![Tenant(j)] = j]
    /\ UNCHANGED <<life, seen, dep, routed, jobs, audit, intents, store, worker, helper, faults>>

UnbindArchiveRecord(j) ==
    /\ NextWrite(j, "unbind")
    /\ bound' = [bound EXCEPT ![Tenant(j)] = None]
    /\ UNCHANGED <<life, seen, dep, routed, jobs, audit, intents, store, worker, helper, faults>>

\* A restore writes its new deployment and release before desired state.
WriteDesired(j) ==
    /\ NextWrite(j, "desired")
    /\ life' = [life EXCEPT ![Tenant(j)] = Target(j)]
    /\ dep' = [dep EXCEPT ![Tenant(j)] = IF jobs[j].op = "restore" THEN j ELSE @]
    /\ UNCHANGED <<seen, bound, routed, jobs, audit, intents, store, worker, helper, faults>>

\* Archive and restore replace the observed state; a deletion removes it.
WriteObserved(j) ==
    /\ NextWrite(j, "observed") /\ jobs[j].op \in {"archive", "restore"}
    /\ seen' = [seen EXCEPT ![Tenant(j)] = Target(j)]
    /\ UNCHANGED <<life, dep, bound, routed, jobs, audit, intents, store, worker, helper, faults>>

RemoveObserved(j) ==
    /\ NextWrite(j, "observed") /\ jobs[j].op \in {"delete", "emergency"}
    /\ seen' = [seen EXCEPT ![Tenant(j)] = "gone"]
    /\ UNCHANGED <<life, dep, bound, routed, jobs, audit, intents, store, worker, helper, faults>>

AppendAudit(j) ==
    /\ NextWrite(j, "audit")
    /\ audit' = Append(audit, [job |-> j, status |-> Outcome(j)])
    /\ UNCHANGED <<tenants, jobs, intents, store, worker, helper, faults>>

\* The result carries the archive record of a construction whose upload was
\* confirmed: failed_construction_result has none while the journal is prepared.
WriteResult(j) ==
    /\ NextWrite(j, "result")
    /\ jobs' = [jobs EXCEPT ![j].result = Outcome(j), ![j].recorded = Has(j, "uploaded")]
    /\ UNCHANGED <<tenants, audit, intents, store, worker, helper, faults>>

WritePhase(j) ==
    /\ NextWrite(j, "phase")
    /\ jobs' = [jobs EXCEPT ![j].phase = IF Outcome(j) = "failed" THEN "failed" ELSE "completed"]
    /\ UNCHANGED <<tenants, audit, intents, store, worker, helper, faults>>

ClearTransaction(j) ==
    /\ NextWrite(j, "clear")
    /\ intents' = intents \ {Intent(j, "transaction")}
    /\ UNCHANGED <<tenants, jobs, audit, store, worker, helper, faults>>

\* Everything local is durable; the object's journal is finished next.
Committed(j) ==
    /\ worker # None /\ worker.job = j /\ worker.pc \in {"commit", "abort"}
    /\ Missing(j, IF worker.pc = "abort" THEN AbortSteps ELSE CommitSteps(j), Outcome(j)) = {}
    /\ Goto(j, AfterLocal(j))
    /\ UNCHANGED <<tenants, jobs, audit, intents, store, helper, faults>>

\* A transition that has committed nothing returns to its source's routes when
\* Caddy or the capacity check refuses it, and is retried.
CommitStarted(j) ==
    LET first == CASE jobs[j].op = "archive" -> "bind"
                   [] jobs[j].op = "restore" -> "desired"
                   [] OTHER -> "audit"
    IN  Done(j, first, "succeeded")

RefuseActivation(j) ==
    /\ At(j, "commit") /\ Has(j, "transaction")
    /\ jobs[j].op # "archive" \/ Constructs(j)
    /\ ~CommitStarted(j)
    /\ faults < MaxFaults /\ faults' = faults + 1
    /\ routed' = IF jobs[j].source.life \in {"active", "undeployed"}
                 THEN routed \cup {Tenant(j)} ELSE routed \ {Tenant(j)}
    /\ worker' = None
    /\ UNCHANGED <<life, seen, dep, bound, jobs, audit, intents, store, helper>>

-----------------------------------------------------------------------------
\* Preparing a transition: its journal, then its transaction intent.

WriteIntent(j) == intents' = intents \cup {Intent(j, "transaction")}

Retire(j) ==
    /\ At(j, "retire")
    /\ Current(j) /\ intents = {}
    /\ intents' = {Intent(j, "retirement")}
    /\ Goto(j, "prepare")
    /\ UNCHANGED <<tenants, jobs, audit, store, helper, faults>>

PrepareRestore(j) ==
    /\ At(j, "prepare") /\ jobs[j].op = "restore"
    /\ Current(j) /\ Has(j, "retirement")
    /\ WriteIntent(j) /\ Goto(j, "commit")
    /\ UNCHANGED <<tenants, jobs, audit, store, helper, faults>>

\* The source's object, if any, is read again behind the barrier.
PrepareDelete(j) ==
    /\ At(j, "prepare") /\ jobs[j].op = "delete"
    /\ Current(j) /\ (Key(j) # None => Has(j, "retirement"))
    /\ WriteIntent(j) /\ Goto(j, IF Key(j) = None THEN "commit" ELSE "recheck")
    /\ UNCHANGED <<tenants, jobs, audit, store, helper, faults>>

\* Archiving an archived tenant proves its object and commits no change.
Revalidate(j) ==
    /\ At(j, "prepare") /\ jobs[j].op = "archive"
    /\ Current(j) /\ intents = {}
    /\ WriteIntent(j) /\ Goto(j, "commit")
    /\ UNCHANGED <<tenants, jobs, audit, store, helper, faults>>

\* Preparation fails before its transaction: the retirement barrier goes and the
\* job stays claimed.
RefusePreparation(j) ==
    /\ At(j, "prepare")
    /\ faults < MaxFaults /\ faults' = faults + 1
    /\ IF Has(j, "retirement") THEN Goto(j, "cancel") ELSE worker' = None
    /\ UNCHANGED <<tenants, jobs, audit, intents, store, helper>>

CancelRetirement(j) ==
    /\ At(j, "cancel")
    /\ intents' = intents \ {Intent(j, "retirement")}
    /\ worker' = None
    /\ UNCHANGED <<tenants, jobs, audit, store, helper, faults>>

\* prepare_archive_transition of an uploaded construction.
Publish(j) ==
    /\ At(j, "publish")
    /\ \/ /\ Current(j)
          /\ WriteIntent(j) /\ Goto(j, "commit") /\ UNCHANGED faults
       \/ /\ faults < MaxFaults /\ faults' = faults + 1
          /\ Goto(j, "abort") /\ UNCHANGED intents
    /\ UNCHANGED <<tenants, jobs, audit, store, helper>>

-----------------------------------------------------------------------------
\* The construction service: one session, one upload.

Serving(s, j, pc) == helper[s] = [job |-> j, pc |-> pc]
Serve(s, j, pc) == helper' = [helper EXCEPT ![s] = [job |-> j, pc |-> pc]]
Waiting(j) == worker # None /\ worker.job = j

\* The session ends without the answer its caller waits for.
Hangup(s, j) ==
    /\ helper' = [helper EXCEPT ![s] = None]
    /\ worker' = IF ~Waiting(j) THEN worker
                 ELSE IF s = "download" /\ Has(j, "retirement") THEN [job |-> j, pc |-> "cancel"]
                 ELSE None

\* The session ends with an answer, which a dead caller never reads.
Reply(s, j, pc) ==
    /\ helper' = [helper EXCEPT ![s] = None]
    /\ worker' = IF Waiting(j) THEN [job |-> j, pc |-> pc] ELSE worker

\* quarantine_present.
Quarantined == quarantine

\* Admission: no quarantine, no intent, an unchanged claimed source.
Admitted(j) == ~Quarantined /\ intents = {} /\ Current(j) /\ jobs[j].result = None

Begin(j) ==
    /\ At(j, "begin") /\ helper["construction"] = None
    /\ IF Admitted(j) THEN Serve("construction", j, "ready") /\ Goto(j, "journal")
       ELSE worker' = None /\ UNCHANGED helper
    /\ UNCHANGED <<tenants, jobs, audit, intents, store, faults>>

\* ArchiveConstructionJournal.prepare, under the open session.
Journal(j) ==
    /\ At(j, "journal")
    /\ IF Admitted(j) THEN intents' = {Intent(j, "prepared")} /\ Goto(j, "upload")
       ELSE worker' = None /\ UNCHANGED intents
    /\ UNCHANGED <<tenants, jobs, audit, store, helper, faults>>

RequestUpload(j) ==
    /\ At(j, "upload") /\ Serving("construction", j, "ready")
    /\ Serve("construction", j, "inventory")
    /\ UNCHANGED <<tenants, jobs, audit, intents, store, worker, faults>>

\* The whole bucket must be exactly what tenants bind, with room for one more.
Inventory(j) ==
    /\ Serving("construction", j, "inventory")
    /\ \/ /\ remote = BoundKeys /\ Cardinality(remote) + 1 <= MaxRemote
          /\ Serve("construction", j, "put") /\ UNCHANGED <<quarantine, worker, faults>>
       \/ /\ ~(remote = BoundKeys /\ Cardinality(remote) + 1 <= MaxRemote)
          /\ quarantine' = TRUE /\ Hangup("construction", j) /\ UNCHANGED faults
       \/ /\ faults < MaxFaults /\ faults' = faults + 1
          /\ quarantine' = TRUE /\ Hangup("construction", j)
    /\ UNCHANGED <<tenants, jobs, audit, intents, remote, puts>>

Put(j) ==
    /\ Serving("construction", j, "put")
    /\ puts' = [puts EXCEPT ![j] = @ + 1]
    /\ remote' = remote \cup {j}
    /\ Serve("construction", j, "verify")
    /\ UNCHANGED <<tenants, jobs, audit, intents, quarantine, worker, faults>>

\* PutObject fails: nothing is stored, or the object is and the answer is lost.
PutFault(j) ==
    /\ Serving("construction", j, "put")
    /\ faults < MaxFaults /\ faults' = faults + 1
    /\ puts' = [puts EXCEPT ![j] = @ + 1]
    /\ remote' \in {remote, remote \cup {j}}
    /\ quarantine' = TRUE
    /\ Hangup("construction", j)
    /\ UNCHANGED <<tenants, jobs, audit, intents>>

VerifyUpload(j) ==
    /\ Serving("construction", j, "verify")
    /\ \/ /\ j \in remote
          /\ Reply("construction", j, "confirm") /\ UNCHANGED <<quarantine, faults>>
       \/ /\ faults < MaxFaults /\ faults' = faults + 1
          /\ quarantine' = TRUE /\ Hangup("construction", j)
    /\ UNCHANGED <<tenants, jobs, audit, intents, remote, puts>>

\* ArchiveConstructionJournal.confirm binds the verified version.
Confirm(j) ==
    /\ At(j, "confirm")
    /\ intents' = (intents \ {Intent(j, "prepared")}) \cup {Intent(j, "uploaded")}
    /\ Goto(j, "publish")
    /\ UNCHANGED <<tenants, jobs, audit, store, helper, faults>>

\* A worker that dies before it asks for the upload closes the session.
EndSession(j) ==
    /\ Serving("construction", j, "ready") /\ ~Waiting(j)
    /\ helper' = [helper EXCEPT !["construction"] = None]
    /\ UNCHANGED <<tenants, jobs, audit, intents, store, worker, faults>>

-----------------------------------------------------------------------------
\* The download service: a restore reads its bundle.

Fetch(j) ==
    /\ At(j, "fetch") /\ helper["download"] = None
    /\ Serve("download", j, "read")
    /\ UNCHANGED <<tenants, jobs, audit, intents, store, worker, faults>>

Download(j) ==
    /\ Serving("download", j, "read")
    /\ Current(j) /\ jobs[j].result = None /\ Key(j) \in remote
    /\ Reply("download", j, IF Has(j, "retirement") THEN "prepare" ELSE "retire")
    /\ UNCHANGED <<tenants, jobs, audit, intents, store, faults>>

-----------------------------------------------------------------------------
\* The cleanup service: source proof, finish and terminal proof.  The emergency
\* command performs the same finish in its own process.

\* A restore or deletion that succeeded: the object it took has to be gone.
Retires(j) == jobs[j].op \in {"restore", "delete"} /\ jobs[j].result = "succeeded"

\* The executor asks the service nothing about a job without an archive, nor,
\* unless it retired one, about a job that a later transition superseded.
NothingToProve(j) ==
    \/ Key(j) = None
    \/ jobs[j].op # "emergency" /\ ~Retires(j) /\ Superseded(j)

CallCleanup(j) ==
    /\ worker # None /\ worker.job = j
    /\ worker.pc \in {"source", "recheck", "finish", "terminal"}
    /\ ~(worker.pc = "terminal" /\ NothingToProve(j))
    /\ helper["cleanup"] = None
    /\ Serve("cleanup", j, worker.pc)
    /\ UNCHANGED <<tenants, jobs, audit, intents, store, worker, faults>>

\* verify_archive_source reads the bound bytes.
VerifySource(j) ==
    /\ \E pc \in {"source", "recheck"} :
        /\ Serving("cleanup", j, pc)
        /\ Current(j) /\ jobs[j].result = None
        /\ Reply("cleanup", j, CASE pc = "recheck" -> "commit"
                                 [] pc = "source" /\ jobs[j].op = "archive" -> "prepare"
                                 [] pc = "source" /\ jobs[j].op = "restore" -> "fetch"
                                 [] pc = "source" /\ jobs[j].op = "delete" -> "retire")
    /\ Key(j) \in remote
    /\ UNCHANGED <<tenants, jobs, audit, intents, store, faults>>

\* _terminal_result: an audited result whose job phase is written.
Terminal(j) ==
    /\ jobs[j].result # None
    /\ AuditedAs(j, jobs[j].result)
    /\ \/ jobs[j].op = "emergency"
       \/ jobs[j].phase = (IF jobs[j].result = "failed" THEN "failed" ELSE "completed")

Preserve(j) == IF Constructs(j) THEN jobs[j].result = "succeeded" ELSE jobs[j].result = "failed"

FinishRetained(j) ==
    /\ Serving("cleanup", j, "finish") /\ intents = Journals(j) /\ intents # {}
    /\ Terminal(j) /\ Preserve(j)
    /\ bound[Tenant(j)] = Key(j) /\ Key(j) \in remote
    /\ Serve("cleanup", j, "remove")
    /\ UNCHANGED <<tenants, jobs, audit, intents, store, worker, faults>>

\* Mutant of FinishPurge: the key's binding is not read again.
FinishPurgeBlind(j) ==
    /\ Serving("cleanup", j, "finish") /\ intents # {}
    /\ remote' = remote \ {Key(j)}
    /\ Serve("cleanup", j, "remove")
    /\ UNCHANGED <<tenants, jobs, audit, intents, puts, quarantine, worker, faults>>

\* Every version of an unbound key is deleted and its absence confirmed.
MayPurge(j) ==
    /\ Serving("cleanup", j, "finish") /\ intents = Journals(j) /\ intents # {}
    /\ Terminal(j) /\ ~Preserve(j)
    /\ Key(j) \notin BoundKeys

FinishPurge(j) ==
    /\ MayPurge(j)
    /\ remote' = remote \ {Key(j)}
    /\ Serve("cleanup", j, "remove")
    /\ UNCHANGED <<tenants, jobs, audit, intents, puts, quarantine, worker, faults>>

\* An emergency whose journal is gone proves the key's absence again.
FinishNothing(j) ==
    /\ Serving("cleanup", j, "finish") /\ intents = {}
    /\ jobs[j].op = "emergency" /\ Terminal(j)
    /\ Serve("cleanup", j, "terminal")
    /\ UNCHANGED <<tenants, jobs, audit, intents, store, worker, faults>>

RemoveJournal(j) ==
    /\ Serving("cleanup", j, "remove")
    /\ intents' = {}
    /\ Serve("cleanup", j, IF jobs[j].op = "emergency" THEN "terminal" ELSE "resolve")
    /\ UNCHANGED <<tenants, jobs, audit, store, worker, faults>>

\* ArchiveQuarantine.resolve: the whole bucket is exactly what tenants bind.
Resolvable == intents = {} /\ remote = BoundKeys

ResolveAfterFinish(j) ==
    /\ Serving("cleanup", j, "resolve")
    /\ IF quarantine /\ ~Resolvable THEN Hangup("cleanup", j) /\ UNCHANGED quarantine
       ELSE quarantine' = FALSE /\ Reply("cleanup", j, "terminal")
    /\ UNCHANGED <<tenants, jobs, audit, intents, remote, puts, faults>>

\* What the terminal proof is about.  A failed upload without a record has no
\* version to ask for: the whole inventory is compared instead.
Mode(j) ==
    CASE jobs[j].op = "emergency" -> "absent"
      [] jobs[j].op # "emergency" /\ Constructs(j) /\ jobs[j].result = "failed" ->
            IF jobs[j].recorded THEN "retired" ELSE "accounted"
      [] Retires(j) -> "retired"
      [] OTHER -> "retained"

\* verify_archive_terminal, and the emergency command's absence proof.
TerminalProof(j) ==
    CASE Mode(j) = "absent" -> Key(j) \notin remote
      [] Mode(j) = "accounted" -> remote = BoundKeys
      [] Mode(j) = "retired" -> Key(j) \notin BoundKeys \cup remote
      [] Mode(j) = "retained" -> bound[Tenant(j)] = Key(j) /\ Key(j) \in remote

\* A failed proof closes admission when it read the provider's side of it: an
\* inexact binding and a retired key that still answers raise only.
ClosesAdmission(j) ==
    \/ Mode(j) \in {"absent", "accounted"}
    \/ Mode(j) = "retained" /\ bound[Tenant(j)] = Key(j)

\* _mark_execution_validated, for a worker that waits for the answer.
MarkValidated(j) == jobs' = [jobs EXCEPT ![j].validated = Waiting(j)]

\* The proof, then ArchiveQuarantine.resolve, which fails on a bucket that is not
\* exactly what tenants bind.
VerifyTerminal(j) ==
    /\ Serving("cleanup", j, "terminal") /\ intents = {} /\ Terminal(j)
    /\ quarantine' = IF TerminalProof(j) THEN Quarantined /\ ~Resolvable
                     ELSE Quarantined \/ ClosesAdmission(j)
    /\ IF TerminalProof(j) /\ ~quarantine' THEN MarkValidated(j) ELSE UNCHANGED jobs
    /\ Hangup("cleanup", j)
    /\ UNCHANGED <<tenants, audit, intents, remote, puts, faults>>

\* _validate_external_terminal_state returns without a service call.
ValidateLocally(j) ==
    /\ At(j, "terminal") /\ helper["cleanup"] = None /\ NothingToProve(j)
    /\ intents = {} /\ Terminal(j)
    /\ MarkValidated(j) /\ worker' = None
    /\ UNCHANGED <<tenants, audit, intents, store, helper, faults>>

\* A provider call of the cleanup service fails; a delete may still have
\* happened.  Reading retained bytes, purging, or an emergency's absence proof
\* closes admission; other terminal proofs and resolving leave it as it is.
FaultCloses(j) ==
    \/ helper["cleanup"].pc \in {"source", "recheck", "finish"}
    \/ helper["cleanup"].pc = "terminal" /\ Mode(j) \in {"retained", "absent"}

CleanupFault(j) ==
    /\ helper["cleanup"] # None /\ helper["cleanup"].job = j
    /\ helper["cleanup"].pc # "remove"
    /\ faults < MaxFaults /\ faults' = faults + 1
    /\ remote' = remote \/ (MayPurge(j) /\ remote' = remote \ {Key(j)})
    /\ quarantine' = (Quarantined \/ FaultCloses(j))
    /\ Hangup("cleanup", j)
    /\ UNCHANGED <<tenants, jobs, audit, intents, puts>>

\* The recovery timer proves and removes a quarantine no job will.
RecoverQuarantine ==
    /\ ExportFree /\ quarantine /\ Resolvable
    /\ quarantine' = FALSE
    /\ UNCHANGED <<tenants, jobs, audit, intents, remote, puts, worker, helper, faults>>

-----------------------------------------------------------------------------
\* Processes die.

\* The emergency command is one process with its finish.
KillWorker ==
    /\ worker # None
    /\ faults < MaxFaults /\ faults' = faults + 1
    /\ worker' = None
    /\ helper' = [s \in Services |->
                    IF helper[s] # None /\ jobs[worker.job].op = "emergency" THEN None
                    ELSE helper[s]]
    /\ UNCHANGED <<tenants, jobs, audit, intents, store>>

KillHelper(s) ==
    /\ helper[s] # None
    /\ faults < MaxFaults /\ faults' = faults + 1
    /\ Hangup(s, helper[s].job)
    /\ UNCHANGED <<tenants, jobs, audit, intents, store>>

WorkerStep(j) ==
    \/ Classify(j) \/ ClassifyEmergency(j)
    \/ WriteRetirement(j) \/ Select(j) \/ BindArchiveRecord(j) \/ UnbindArchiveRecord(j)
    \/ WriteDesired(j) \/ WriteObserved(j) \/ RemoveObserved(j) \/ AppendAudit(j) \/ WriteResult(j) \/ WritePhase(j)
    \/ ClearTransaction(j) \/ Committed(j)
    \/ Retire(j) \/ PrepareRestore(j) \/ PrepareDelete(j) \/ Revalidate(j) \/ Publish(j) \/ Fetch(j) \/ CancelRetirement(j)
    \/ Begin(j) \/ Journal(j) \/ RequestUpload(j) \/ Confirm(j) \/ CallCleanup(j)
    \/ ValidateLocally(j)

ServiceStep(j) ==
    \/ Inventory(j) \/ Put(j) \/ Download(j) \/ VerifyUpload(j) \/ EndSession(j)
    \/ VerifySource(j) \/ FinishRetained(j) \/ FinishPurge(j) \/ FinishNothing(j)
    \/ RemoveJournal(j) \/ ResolveAfterFinish(j) \/ VerifyTerminal(j)

Fault(j) ==
    \/ RefuseActivation(j) \/ RefusePreparation(j) \/ PutFault(j) \/ CleanupFault(j)

Next ==
    \/ \E j \in Jobs, op \in Operations, t \in Tenants : Issue(j, op, t)
    \/ \E j \in Jobs : Start(j) \/ WorkerStep(j) \/ ServiceStep(j) \/ Fault(j)
    \/ RecoverQuarantine
    \/ KillWorker
    \/ \E s \in Services : KillHelper(s)

Spec == Init /\ [][Next]_vars

\* A job's worker is started, and an emergency deletion is called again while it
\* has an intent to finish.
StartsAgain(j) == Start(j) /\ (jobs[j].op = "emergency" => intents # {})

\* Workers and services that run reach their next step; the reconciler and the
\* recovery timer start the owner of pending work again whenever EXPORT is free.
FairSpec ==
    /\ Spec
    /\ \A j \in Jobs :
        /\ WF_vars(WorkerStep(j)) /\ WF_vars(ServiceStep(j))
        /\ SF_vars(StartsAgain(j))
    /\ SF_vars(RecoverQuarantine)

-----------------------------------------------------------------------------
Pcs == {"classify", "commit", "abort", "finish", "terminal", "recheck", "source",
        "begin", "prepare", "publish", "retire", "journal", "upload", "confirm",
        "fetch", "cancel", "read", "ready", "inventory", "put", "verify", "remove", "resolve"}

Sources == [life : Lifecycles, bound : Jobs \cup {None}, dep : Jobs \cup {None}]

\* Every record keeps its shape.
TypeOK ==
    /\ life \in [Tenants -> Lifecycles] /\ seen \in [Tenants -> Lifecycles]
    /\ dep \in [Tenants -> Jobs \cup {None}] /\ bound \in [Tenants -> Jobs \cup {None}]
    /\ routed \subseteq Tenants
    /\ \A j \in Jobs : jobs[j] = None \/
        jobs[j] \in [op : Operations, tenant : Tenants, source : Sources,
                    boundary : Nat, phase : {"claimed", "completed", "failed"},
                    result : {None, "succeeded", "failed"}, recorded : BOOLEAN,
                    validated : BOOLEAN]
    /\ audit \in Seq([job : Jobs, status : {"succeeded", "failed"}])
    /\ intents \subseteq [kind : {"prepared", "uploaded", "retirement", "transaction"}, job : Jobs]
    /\ remote \subseteq Jobs /\ puts \in [Jobs -> Nat] /\ quarantine \in BOOLEAN
    /\ worker = None \/ worker \in [job : Jobs, pc : Pcs]
    /\ \A s \in Services : helper[s] = None \/ helper[s] \in [job : Jobs, pc : Pcs]
    /\ faults \in 0..MaxFaults

\* An object that some tenant's archive record binds is never missing from the
\* bucket: not while its restore or deletion is half done, not after a fault.
ArchiveNeverLost == BoundKeys \subseteq remote

\* Nothing in the bucket is unaccounted for: every object is bound by a tenant or
\* named by a journal that will remove it (the next upload would refuse it).
BucketAccounted == remote \subseteq BoundKeys \cup {Key(i.job) : i \in intents}

\* An attempt's key is put at most once, whatever is retried: the store keeps
\* one version per key.
OneUploadPerKey == \A k \in Jobs : puts[k] <= 1

\* A bundle that is being read stays bound and stored until the read ends, also
\* when the worker that asked for it is gone.
ReadsAreStable ==
    helper["download"] # None => Key(helper["download"].job) \in BoundKeys \cap remote

\* With no intent left, every tenant's records agree with one another and with
\* the routes: the crash that interrupted a transition left nothing half done.
SettledTenants ==
    intents = {} => \A t \in Tenants :
        /\ seen[t] = life[t]
        /\ (life[t] = "archived") = (bound[t] # None)
        /\ (t \in routed) = (life[t] \in {"active", "undeployed"})

\* What a job destroys is in the audit chain first: a tenant's records, or an
\* archive that once was committed.
LossIsAudited ==
    LET Audits(ops, P(_)) == \E n \in DOMAIN audit :
            /\ audit[n].status = "succeeded" /\ jobs[audit[n].job].op \in ops
            /\ P(audit[n].job)
    IN  /\ \A t \in Tenants : life[t] = "gone" =>
                Audits({"delete", "emergency"}, LAMBDA j : Tenant(j) = t)
        /\ \A k \in Jobs : AuditedAs(k, "succeeded") /\ puts[k] = 1 /\ k \notin remote =>
                Audits({"restore", "delete", "emergency"}, LAMBDA j : Key(j) = k)

\* A job that reports success was done in full, and one that reports failure
\* left nothing in the bucket.
ValidatedIsTrue ==
    intents = {} => \A j \in Jobs :
        jobs[j] # None /\ jobs[j].validated /\ jobs[j].op # "emergency" /\ ~Superseded(j) =>
            LET t == Tenant(j) IN
            IF jobs[j].result = "succeeded"
            THEN life[t] = Target(j) /\ (Constructs(j) => bound[t] = j /\ j \in remote)
            ELSE Constructs(j) => j \notin remote

\* Interrupted work is finished: no intent stays for ever.
IntentsClear == intents = {}

\* Closed archive admission opens again once the bucket can be proved exact.
AdmissionReopens == ~quarantine

\* Every ordinary job gets a validated answer.
JobsAnswered == \A j \in Jobs :
    jobs[j] # None /\ jobs[j].op # "emergency" => jobs[j].validated
====
