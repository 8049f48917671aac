--------------------------- MODULE TenantNamespace ---------------------------
\* The directory of one tenant (repository.py, delete_state.py,
\* emergency_state.py, host_restore_create.py): how create builds it, how a
\* transition replaces its records, how deletion and a restored host take it
\* away, one system call at a time, when the worker is killed and the host
\* loses power anywhere and the intent on disk is resumed.
\*
\* One worker at a time works here, under the exclusive publication and
\* tenant-state locks. After a loss of power each directory is in some state it
\* passed through since its last fsync, independently of the others.
EXTENDS Naturals, Sequences, FiniteSets
LOCAL INSTANCE SequencesExt

CONSTANTS
    Operations,     \* subset of {"create", "change", "delete", "emergency", "uncreate"}
    MaxJobs,        \* bound: jobs begun
    MaxFaults,      \* bound: kills and losses of power
    None

NamespaceAssumption ==
    /\ Operations \subseteq {"create", "change", "delete", "emergency", "uncreate"}
    /\ {MaxJobs, MaxFaults} \subseteq Nat

Children == {"archives", "deployments"}
Records == {"desired", "observed"}
\* _require_empty_create_namespace, _remaining_records: what may be there.
AllowedNames == Children \cup Records
Deletions == {"delete", "emergency"}

VARIABLES
    fs,         \* directory -> the sets of its entries since its last fsync
    audit,      \* the operation whose commitment is the last audit entry
    pc,         \* the next step of the worker, None between workers
    jobs, faults,
    settled,    \* the operation last reported
    restored    \* the host was restored from a capture made before the create took effect

vars == <<fs, audit, pc, jobs, faults, settled, restored>>

Sees(d) == Last(fs[d])
Intent == IF Sees("intents") = {} THEN None ELSE CHOOSE o \in Sees("intents") : TRUE
Tenant == "tenant" \in Sees("tenants")
Complete == Tenant /\ AllowedNames \subseteq Sees("tenant")

\* A change of one directory, not yet durable, and with its fsync.
Put(d, s) == fs' = [fs EXCEPT ![d] = Append(@, s)]
PutSync(d, s) == fs' = [fs EXCEPT ![d] = <<s>>]
Sync(d) == PutSync(d, Sees(d))
Goto(l) == pc' = l

Init ==
    /\ fs = [d \in {"intents", "tenants", "tenant"} \cup Children |-> <<{}>>]
    /\ audit = None
    /\ pc = None
    /\ jobs = 0 /\ faults = 0
    /\ settled = None
    /\ restored = FALSE

-----------------------------------------------------------------------------
\* A job: its intent is published before anything else happens.
Start(o) ==
    /\ pc = None /\ Intent = None /\ jobs < MaxJobs
    /\ o \in Operations \ {"uncreate"}
    /\ IF o = "create" THEN ~Tenant /\ settled = None ELSE settled \in {"create", "change"} /\ Complete /\ audit \notin Deletions
    /\ jobs' = jobs + 1
    /\ Put("intents", Sees("intents") \cup {o})
    /\ Goto("intent-sync")
    /\ UNCHANGED <<audit, faults, settled, restored>>

IntentSync ==
    /\ pc = "intent-sync"
    /\ Sync("intents")
    /\ Goto("resume")
    /\ UNCHANGED <<audit, jobs, faults, settled, restored>>

\* A later worker finds the intent, however far the last one came.
Recover ==
    /\ pc = None /\ Intent # None
    /\ Goto("resume")
    /\ UNCHANGED <<fs, audit, jobs, faults, settled, restored>>

\* The host is restored from a capture of this moment, which leaves the
\* temporaries out, and the captured selection is the one before the create.
HostRestored ==
    /\ pc = None /\ Intent = "create" /\ audit = None /\ ~restored
    /\ "uncreate" \in Operations
    /\ restored' = TRUE
    /\ fs' = [d \in DOMAIN fs |-> <<Last(fs[d]) \ {"abandoned"}>>]
    /\ UNCHANGED <<audit, pc, jobs, faults, settled>>

Resume ==
    /\ pc = "resume"
    /\ \/ Intent = "create" /\ Goto(IF restored THEN "uncreate" ELSE "require-intent")
       \/ Intent = "change" /\ Goto("change-desired")
       \/ Intent \in Deletions /\ Goto(IF audit = Intent THEN "delete" ELSE "validate")
    /\ UNCHANGED <<fs, audit, jobs, faults, settled, restored>>

-----------------------------------------------------------------------------
\* ensure_create_tenant_state

\* Mutant of RequireCreateIntent: the intent is found, not synced.
RequireCreateIntentUnsynced ==
    /\ pc = "require-intent"
    /\ Goto("make-tenant")
    /\ UNCHANGED <<fs, audit, jobs, faults, settled, restored>>

\* _require_create_intent: an intent another worker was killed over may be
\* visible and not durable.
RequireCreateIntent ==
    /\ pc = "require-intent"
    /\ Sync("intents")
    /\ Goto("make-tenant")
    /\ UNCHANGED <<audit, jobs, faults, settled, restored>>

MakeTenant ==
    /\ pc = "make-tenant"
    /\ IF Tenant THEN UNCHANGED fs
       ELSE fs' = [d \in DOMAIN fs |->
                CASE d = "tenants" -> Append(fs[d], {"tenant"})
                  [] d = "intents" -> fs[d]
                  [] OTHER -> <<{}>>]
    /\ Goto("sync-root")
    /\ UNCHANGED <<audit, jobs, faults, settled, restored>>

SyncRoot ==
    /\ pc = "sync-root"
    /\ fs' = [fs EXCEPT !["tenants"] = <<Last(@)>>, !["tenant"] = <<Last(@)>>]
    /\ Goto("make-children")
    /\ UNCHANGED <<audit, jobs, faults, settled, restored>>

MakeChild ==
    /\ pc = "make-children"
    /\ \E c \in Children \ Sees("tenant") :
        fs' = [fs EXCEPT !["tenant"] = Append(@, Last(@) \cup {c}), ![c] = <<{}>>]
    /\ UNCHANGED <<audit, pc, jobs, faults, settled, restored>>

SyncChildren ==
    /\ pc = "make-children" /\ Children \subseteq Sees("tenant")
    /\ Sync("tenant")
    /\ Goto("require-empty")
    /\ UNCHANGED <<audit, jobs, faults, settled, restored>>

\* Abandoned temporaries go; then only the two records may be there.
RequireEmpty ==
    /\ pc = "require-empty"
    /\ LET kept == Sees("tenant") \ {"abandoned"} IN
        /\ Children \subseteq kept /\ kept \subseteq AllowedNames
        /\ \A c \in Children : Sees(c) = {}
        /\ IF "abandoned" \in Sees("tenant") THEN PutSync("tenant", kept) ELSE UNCHANGED fs
    /\ Goto("create-desired")
    /\ UNCHANGED <<audit, jobs, faults, settled, restored>>

\* A record is published through a temporary: created, renamed, synced.
OpensTemp(next) == Put("tenant", Sees("tenant") \cup {"temp"}) /\ Goto(next)
Renames(r, next) == Put("tenant", (Sees("tenant") \ {"temp"}) \cup {r}) /\ Goto(next)

\* _ensure_immutable_exact: a record that is already there is kept.
CreateRecord ==
    /\ \/ /\ pc = "create-desired"
          /\ IF "desired" \in Sees("tenant") THEN Goto("create-observed") /\ UNCHANGED fs
             ELSE OpensTemp("rename-desired")
       \/ pc = "rename-desired" /\ Renames("desired", "sync-desired")
       \/ pc = "sync-desired" /\ Sync("tenant") /\ Goto("create-observed")
       \/ /\ pc = "create-observed"
          /\ IF "observed" \in Sees("tenant") THEN Goto("commit") /\ UNCHANGED fs
             ELSE OpensTemp("rename-observed")
       \/ pc = "rename-observed" /\ Renames("observed", "sync-observed")
       \/ pc = "sync-observed" /\ Sync("tenant") /\ Goto("commit")
    /\ UNCHANGED <<audit, jobs, faults, settled, restored>>

\* Any other transition: a deployment record, and both records replaced.
ChangeRecord ==
    /\ \/ /\ pc = "change-desired"
          /\ fs' = [fs EXCEPT !["deployments"] = <<{"deployment"}>>,
                              !["tenant"] = Append(@, Last(@) \cup {"temp"})]
          /\ Goto("replace-desired")
       \/ pc = "replace-desired" /\ Renames("desired", "sync-changed")
       \/ pc = "sync-changed" /\ Sync("tenant") /\ Goto("change-observed")
       \/ pc = "change-observed" /\ OpensTemp("replace-observed")
       \/ pc = "replace-observed" /\ Renames("observed", "sync-replaced")
       \/ pc = "sync-replaced" /\ Sync("tenant") /\ Goto("commit")
    /\ UNCHANGED <<audit, jobs, faults, settled, restored>>

-----------------------------------------------------------------------------
\* Deletion.

\* _names: nothing but what the tombstone covers; then the permanent audit
\* entry. A temporary is refused like any other name.
ValidateNamespace ==
    /\ pc = "validate"
    /\ Tenant /\ Sees("tenant") \subseteq AllowedNames
    /\ \A c \in Children : Sees(c) \subseteq {"deployment"}
    /\ Intent = "emergency" => Complete
    /\ audit' = Intent
    /\ Goto("delete")
    /\ UNCHANGED <<fs, jobs, faults, settled, restored>>

\* remove_deleted_state, remove_emergency_state: every record, each synced.
RemoveRecords ==
    /\ pc = "delete" /\ Tenant
    /\ Sees("tenant") \subseteq AllowedNames
    /\ \/ \E r \in Records \cap Sees("tenant") : PutSync("tenant", Sees("tenant") \ {r}) /\ UNCHANGED pc
       \/ /\ Records \cap Sees("tenant") = {}
          /\ \E c \in Children \cap Sees("tenant") :
                Sees(c) # {} /\ PutSync(c, {}) /\ UNCHANGED pc
       \/ /\ Records \cap Sees("tenant") = {}
          /\ \A c \in Children \cap Sees("tenant") : Sees(c) = {}
          /\ UNCHANGED fs /\ Goto("remove-children")
    /\ UNCHANGED <<audit, jobs, faults, settled, restored>>

RemoveChildren ==
    /\ pc = "remove-children"
    /\ \/ \E c \in Children \cap Sees("tenant") :
            Sees(c) = {} /\ PutSync("tenant", Sees("tenant") \ {c}) /\ UNCHANGED pc
       \/ Sees("tenant") = {} /\ Put("tenants", {}) /\ Goto("sync-removed")
    /\ UNCHANGED <<audit, jobs, faults, settled, restored>>

SyncRemoved ==
    /\ pc = "sync-removed"
    /\ Sync("tenants")
    /\ Goto(IF Intent = "create" THEN "fail" ELSE "commit")
    /\ UNCHANGED <<audit, jobs, faults, settled, restored>>

\* A resumed removal that finds the tenant gone syncs its parent.
AlreadyRemoved ==
    /\ pc \in {"delete", "uncreate"} /\ ~Tenant
    /\ Goto("sync-removed")
    /\ UNCHANGED <<fs, audit, jobs, faults, settled, restored>>

\* _remove_uncommitted_create and remove_empty_create_tenant_namespace on a
\* restored host, whose capture holds no temporaries.
Uncreate ==
    /\ pc = "uncreate" /\ Tenant
    /\ Sees("tenant") \subseteq AllowedNames
    /\ \A c \in Children \cap Sees("tenant") : Sees(c) = {}
    /\ fs' = [fs EXCEPT !["tenant"] = <<Last(@) \cap Children>>]
    /\ Goto("remove-children")
    /\ UNCHANGED <<audit, jobs, faults, settled, restored>>

-----------------------------------------------------------------------------
\* The audit entry, the result and the job, each durable; then the intent goes.
Commit ==
    /\ pc \in {"commit", "fail"}
    /\ audit' = IF pc = "fail" THEN audit ELSE Intent
    /\ settled' = IF pc = "fail" THEN "uncreate" ELSE Intent
    /\ Goto("forget")
    /\ UNCHANGED <<fs, jobs, faults, restored>>

RemoveIntent ==
    /\ pc = "forget"
    /\ PutSync("intents", {})
    /\ Goto(None)
    /\ UNCHANGED <<audit, jobs, faults, settled, restored>>

-----------------------------------------------------------------------------
\* The temporary of a writer that is gone.
Abandoned(s) == IF "temp" \in s THEN (s \ {"temp"}) \cup {"abandoned"} ELSE s

Kill ==
    /\ faults < MaxFaults /\ pc # None
    /\ faults' = faults + 1
    /\ Goto(None)
    /\ fs' = [fs EXCEPT !["tenant"] = [k \in DOMAIN @ |-> Abandoned(@[k])]]
    /\ UNCHANGED <<audit, jobs, settled, restored>>

PowerLoss ==
    /\ faults < MaxFaults
    /\ faults' = faults + 1
    /\ Goto(None)
    /\ \E i \in DOMAIN fs["intents"], r \in DOMAIN fs["tenants"], t \in DOMAIN fs["tenant"] :
        fs' = [d \in DOMAIN fs |->
            CASE d = "intents" -> <<fs[d][i]>>
              [] d = "tenants" -> <<fs[d][r]>>
              [] d = "tenant" -> <<Abandoned(fs[d][t])>>
              [] OTHER -> <<Last(fs[d])>>]
    /\ UNCHANGED <<audit, jobs, settled, restored>>

Rest == pc = None /\ Intent = None /\ jobs = MaxJobs /\ UNCHANGED vars

Work ==
    \/ IntentSync \/ Recover \/ Resume
    \/ RequireCreateIntent \/ MakeTenant \/ SyncRoot \/ MakeChild \/ SyncChildren
    \/ RequireEmpty \/ CreateRecord \/ ChangeRecord
    \/ ValidateNamespace \/ RemoveRecords \/ RemoveChildren \/ SyncRemoved
    \/ AlreadyRemoved \/ Uncreate \/ Commit \/ RemoveIntent

Next == (\E o \in Operations : Start(o)) \/ Work \/ HostRestored \/ Kill \/ PowerLoss \/ Rest

Spec == Init /\ [][Next]_vars
\* The reconciliation timer starts a worker again and again, and it works on.
FairSpec == Spec /\ WF_vars(Work)
-----------------------------------------------------------------------------
\* Properties

TypeOK ==
    /\ \A d \in DOMAIN fs : fs[d] # << >>
    /\ \A k \in DOMAIN fs["intents"] : fs["intents"][k] \subseteq Operations
    /\ \A k \in DOMAIN fs["tenant"] : fs["tenant"][k] \subseteq AllowedNames \cup {"temp", "abandoned"}
    /\ {audit, settled} \subseteq Operations \cup {None}
    /\ Cardinality(Sees("intents")) <= 1

\* A tenant that is half there while it is being created has the intent that
\* explains it, whatever was lost with the power (_require_create_intent syncs
\* the intent before the first directory is made).
HalfCreatedHasIntent == Tenant /\ ~Complete /\ audit \notin Deletions => Intent = "create"

\* What was reported stays so after a crash: a created or changed tenant is
\* complete until a tombstone says otherwise, a deleted one is gone
\* (the syncs of the parent directories before the result).
ReportedStays ==
    /\ settled \in {"create", "change"} /\ audit \notin Deletions => Complete
    /\ settled \in Deletions \cup {"uncreate"} => ~Tenant

\* No record of a tenant is touched before its permanent tombstone.
TombstoneFirst ==
    Complete /\ ~Complete' /\ Intent \in Deletions => audit = Intent

\* Every intent is resolved, wherever the workers were killed and the power
\* went: the host never keeps an intent it cannot finish, which would close it
\* to every later job.
IntentResolved == Intent = None
=============================================================================
