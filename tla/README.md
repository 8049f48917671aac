# TLA+ models of the Lower Duck Pond static host

This directory holds TLA+ models of the static host agent
(`packages/static-host-agent`), of the operator's client and of the unattended
rollout scripts around it, the TLC configurations that check them, and TLAPS
proofs. The agent publishes tenants' static sites: an operator's request becomes
a durable job, a worker turns it into a new release and a new immutable Caddy
configuration ("generation"), and root-owned records say at every moment what is
authorized. Everything below is about that promise surviving crashes, races and
half-finished writes. `PROJECT.json` lists the components, the runs, the source
lines behind each definition, the hazards and the theorems.

## Inventory

Paths are relative to
`packages/static-host-agent/src/lowerduckpond_static_host_agent` unless they name
another directory.

| Component (source) | State | Operations | What is hard | What makes it correct |
|---|---|---|---|---|
| Job issuance, admission (`issuance.py`, `correlations.py`, `intake.py`) | authorization jobs, correlation copies, one upload slot | issue, exact retry, repair, upload | source read outside the admitting lock; half-written pairs; bytes whose job may be over | one answer per correlation; accepted bytes stay while needed |
| Executor (`execution.py`) | job phase, result, audit entry, validation marker | claim, bind, fail, replay, validate | several lock holds per job; four writes per failure; results judged against later history | exactly one result and one audit entry; every job settles; accounted results can be returned |
| Worker handoff, reconciler (`job_runtime.py`) | recovery cursor | hand off, reconcile | which half-done states still need a worker | no unfinished job is forgotten |
| Deployment transition (`deployment_*.py`) | intent, manifest, observed state, deployment records, releases | prepare, activate, commit, recover | crash between any two writes; ambiguous Caddy calls | served content exists; every intent can be resumed |
| Route, create (`route_*.py`, `create_*.py`) | intent, records, generations | one handler each | racing workers of one job; drifted runtime | recoverable; only the target moves |
| Archive, restore, delete, emergency (`archive_*.py`, `restore_*.py`, `delete_*.py`, `emergency_*.py`) | journals, bucket, quarantine | handlers and three services | remote store with lost answers; leases that outlive workers | no archive lost, no key written twice, losses audited |
| Lifecycle planning (`lifecycle_plan.py`, `static-contracts`) | tenant records | plan of every operation | sequences of operations; identities, slugs, histories | commits are never refused, content is kept |
| Export (`export_*.py`, `portable_bundle.py`) | one slot, its intent, delivery | build, publish, stream, acknowledge, expire | spool shared with archives; retention races streaming | a promised bundle is there; a retired one is never streamed |
| Caddy generations and runtime (`caddy_generation.py`, `caddy_runtime.py`, `caddy_routes.py`, `caddy_admin.py`) | generations, active reference, running configuration | derive, validate, publish, prune, select, reload, restore | reference and process change separately; fsync order; untrusted binary | complete generations only; at most three; requests answered as recorded |
| Caddy start and bootstrap (`caddy_startup.py`, `caddy_bootstrap.py`, `entrypoints.py`, the Caddy role) | start intent with attempt counts | gate, launch, verify, recover, bootstrap | the unit restarts itself at any moment; the play can die anywhere | bounded attempts, rollback only when exhausted, nothing referenced pruned |
| Audit chain, rotation and archive (`audit*.py`) | segments, head, indexes, witnesses, journals | append, rotate, verify, maintain | local removal after a remote copy; proof caches | nothing is removed before its copy is verified; the chain stays readable |
| Release store, trees, archives (`release_store.py`, `release_tree.py`, `zip_structure.py`) | staged and published trees | extract, measure, publish, remove | removal is many system calls; input changes while read | whole releases; exact measurement; failures leave nothing |
| Repository, locks (`repository.py`, `durable.py`, `locks.py`, `state_inventory.py`) | every record; lock files | compare-and-swap, immutable create, acquire, lend | lock order, temporaries, inventory limits, power loss | writes are atomic, locks nest in one order, leases exclude |
| Backup capture and lineage (`backup_*.py`, `production_*.py`) | repository, namespace, lineage | capture, adopt, verify | orphaned restic children; deadline races | coherent captures; one genesis |
| Host restore (`host_restore_*.py`) | journal, roots, receipts, mappings, ledger | phased coordinator, archive helper | reboots between renames; captured half-done transitions | one host in service; the captured selection decides |
| Operator client (`tools/static-operator`) | local artifact and download | submit, download, acknowledge | edits and crashes between hash, send, rename, acknowledge | host's copy given up only for a durable local one |
| Unattended rollout (`scripts/m3_11_*`) | leases, obligations, journals, fence | issue, sweep, close, roll out | lost provider answers, several closers, dead controllers | a lease called clear has no credential left; only the owner acts |
| Admission rate, request decoder, services, infrastructure | none, or outside the host | - | - | not modelled, see below |

Interactions: an operator session issues a job and asks systemd to start
`lowerduckpond-static-worker@<job>`; the worker runs the executor, which calls a
handler; handlers change records, releases and generations under the publication
and tenant locks, talk to Caddy's admin socket, and lend the export lock to the
archive services; a timer runs the reconciler, which starts workers for
unfinished jobs; Caddy's unit runs gate, launcher and verifier, each under the
publication lock, on every start; backups, rotation and the host restore take the
same locks from outside.

## Modules

The core is one composition. `CaddyUnit` is shared by the start protocol and by
the publication pipeline; `HostState` holds what all of the pipeline shares.

| Module | Models |
|---|---|
| `CaddyUnit` | The active reference, the running configuration, the start intent and `caddy.service`: gate, launcher, verifier, the recovery unit's operations. |
| `CaddyStartup` | Platform bootstrap play, recovery process, crashes and reboots; inductive invariant and theorems. |
| `HostState` | Records, releases, generations, lock and worker processes. |
| `JobExecution` | Issuance, reconciliation, claim, executor failure, replay, validation. |
| `DeploymentTransition` | The deploy, import and rollback handler. |
| `StaticHost`, `AtomicPublication` | Composition with Caddy's unit and the faults, and its properties; what an operator is promised, in three actions. |
| `StaticHostProofs` | Inductive invariant and theorems about `StaticHost`: types, audit and reservation; what is served, recorded and retained; the refinement of `AtomicPublication`. |
| `MCStaticHost` | Constants for TLC. |

The other modules each take one component further than the core needs, in the
detail its own hazards have.

| Module | Models | What to know |
|---|---|---|
| `JobIntake`, `JobIntakeProofs` | Correlation/job pairs, upload slot, handoff cursor, result waiter; inductive invariant and theorems. | Request decoding and rates are a session that is accepted or fails. |
| `ResultReplay` | Validation and return of terminal results against later history. | A handler is three steps (the transition modules refine it); a rename counts as suspend, an import as deploy. |
| `RouteTransition` | Suspend, resume, rename, reconcile, create. | A create does not compare the selected generation with the records, so `OnlyTargetMoves` excepts it on a drifted host; failure publication is blocked by `_has_bound_lifecycle_intent`. |
| `TenantNamespace` | Directories and records of one tenant. | Directories are ordered independently; a resumed deletion does not sync the intents directory (ext4 orders it); tombstoned tenants are exempt from `HalfCreatedHasIntent` and `ReportedStays`. |
| `TenantArchive` | Archive, revalidation, restore, deletion, emergency, their services and the bucket. | Bundle bytes are one key; suspended is one state with active. A terminal proof has the four modes of `_terminal_authority` and the emergency's absence proof; a job with no archive, or superseded without having retired one, is validated without the service. A failed proof closes admission only where it read the provider's side: an inexact binding and a retired key that still answers raise without a quarantine. |
| `LifecyclePlan`, `LifecycleContracts` | Plans of all operations; what contract validation accepts of them. | A commit's writes are one step; two retained deployments stand for the code's three; `JobsEnd` allows a clock that stays behind; legacy contracts and single-field schemas are left out. |
| `ExportSlot` | The export handler, spool and delivery. | A competing lifecycle intent can starve an export, which `JobsSettle` allows; bundle bytes are one step; liveness assumes a publication that is retried succeeds. |
| `PortableBundle`, `PortableBounds` | Construction and inspection of bundles; their limits. | Collisions, chunks and extraction belong to the Zip modules. |
| `StateStore` | Create, replace, publish and remove durable documents; inductive invariant and theorems. | A file system that promises only what was fsynced: one journal per directory, unsynced bytes may tear; an inode number is a metadata generation. |
| `HostLocks`, `HostLocksProofs` | The lock hierarchy, lent leases, back-off; inductive invariant and theorems. | A flock belongs to an open file description, which lent descriptors share. |
| `GenerationStore` | Publication, selection, pruning and discarding of generations with every rename and fsync. | A pruned generation is verified again (`Retire`); a refused candidate is discarded by shape and manifest, without hashing (`Discard`). With ordered metadata (`Ordered = TRUE`, the hosts' ext4) everything holds; without it see the deviations. |
| `ReleaseStore` | Staging, publication, retention, removal. | |
| `TreeMeasurement` | Measuring a tree somebody may change. | A version is identity and change time. |
| `ZipStructure`, `ZipExtraction` | Admission and extraction of archives. | Header lengths are units; replacement of the staging name between mkdir and the first stat is excluded. |
| `CaddyRoutes` | The configuration a generation holds and what it answers. | An identity stands for its canonical label; one edit of one file. |
| `CaddyValidation` | The run of the candidate binary in its scope. | Only execution as root has a scope; a killed agent leaves its directory in `/dev/shm`; `RefusedLeavesNothing` exempts a scope registered after the stop. |
| `AuditRotation` | Rotation, verification, maintenance, readers, appends. | The repository flock serializes the three services; with a late duplicate snapshot maintenance stops by design, so `NoContradiction` is claimed without one; `Abort` is `_record_failure`; capacity is left out. |
| `AuditWitness` | Witness form, descriptors, indexes, proof cache. | A digest is the value it was taken of. |
| `BackupLineage`, `BackupCapture` | Genesis and verification; scheduled and rollout captures. | Late duplicate PUTs are left out; an unsynced temporary keeps a prefix; an orphaned restic may save a coherent snapshot that nobody records. |
| `HostRestore` | Fence, gate, phases, swaps, activation. | Sessions exist only on hosts with authority; Caddy attempts are never reset. |
| `RestoreReconcile` | Captured transitions, archive journal, exports, jobs. | The audit reconstruction is one step here; contradictory captures and emergency sources stop by design; the bucket does not change meanwhile. |
| `HostRestoreAudit` | Audit chain of a restored host. | A pending maintenance with later segments is refused for good. |
| `RuntimeMapping` | Regenerated runtimes and recognition of older jobs. | Published files survive kills; `MAX_HISTORY` bounds the chain; archived tenants are terminal. |
| `ArchiveHelper` | Coordinator, helper unit, socket, borrowed lease; inductive invariant and theorems. | The lease is a flock of an open file description, in-flight descriptors included; nonces may be reused once forgotten. |
| `CredentialLease`, `CredentialObligations` | Closing a lease by three actors; obligations of created credentials. | A crash between claim and issuance leaves roles only an operator resolves; a lost POST is not repeated by the same actor; the creation journal is assumed; a historical absence's approved receipt is left out. |
| `ProductionRollout` | Controller, lease, fence, phases, journals. | A record's bytes are the attempt number; a phase's work is none, part or done. |
| `OperatorExchange` | Client and host sessions. | Two chunks stand for a stream; a killed SSH client looks like end of file. |

### How state and actions of the core correspond to the code

* One action is one durable write, one call that changes Caddy, or one lock hold
  that only reads; a process can die between any two actions. The order of the
  `Commit...` actions is the order of writes in
  `finalize_deployment_transition_outcome`; the skip "already written" of a
  replay is the idempotence of each action.
* `worker[j].pc` is where the worker of job `j` stands; `permitted` and `retried`
  are the two locals that survive a release of the lock
  (`source_restoration_permitted`, and the handler's single re-classification).
* `intent` is the one transaction intent. The code allows one lifecycle intent at
  a time; the model gets that from the guards, not from the type.
* `gens[g]` is a route snapshot: for every tenant the deployment it serves and the
  generation that first routed it. `active` is the durable reference, `running`
  what the process has loaded. `Verified(g)` is what `verify_running_caddy`
  accepts: the unit is active and runs `g`.
* The export, publication and tenant-state locks are one `lock` here, because a
  lifecycle worker takes the last two exclusively and in a fixed order; `HostLocks`
  has them apart. UUIDv7 identities are naturals drawn in order.
* Names ending in `Fault` are failures of calls; `Crash`, `CaddyFault` and
  `HostCrash` are failures of processes. `SelectFault`, `ReloadFault` and
  `RestoreFault` leave open whether the failed call took effect.
* Definitions commented as mutants stand before the definition they mutate and
  serve only to show that a property can be broken by a plausible change of the
  code.

The same conventions hold in the component modules: one system call or one lock
hold is one step where the component's hazards are about losses of power or
interleavings, and one handler is one step where they are about sequences of
operations.

## Runs

`MCStaticHost` and `CaddyStartup` are checked directly. The components are checked
in three modules, `MCLifecycle`, `MCStorage` and `MCRecovery`. Each behaviour of
such a module belongs to one *part*, an instance of one component module with
constants of its own, and stays in it: `part` never changes, the variables `v1`,
`v2`, ... are the part's variables in the order of their declaration, and the
constant `Parts` is the set of instances a run explores. A property of such a run
is the conjunction of what one family of components promises, each conjunct
guarded by the part it is about; the named conjuncts are defined and commented in
the component's module. So one run answers one question about a group of
components that do not interact in the model, and the same conjunct is checked on
as many instances as its hazards need.

| Run | Checks |
|---|---|
| `publication_safety` | Two jobs on a tenant never published and a full one, any two faults. `ServedReleaseExists`: neither the active nor the running generation names a removed release. `ActiveWithinAuthority`: the reference is the source or candidate of the intent, or has exactly the observed routes. `TransitionNeverRefused`: whatever happened, recovery, activation and commit accept the transition again. `AuditedExactlyOnce`. `RetentionSettled`: without an intent, releases and records are the same bounded history. |
| `publication_liveness` | `ImplementsAtomicPublication` (refinement: a transition takes effect when its result is durable; no lost update, no second outcome), `AuditReserved`, `EveryJobSettles` and `RuntimeConverges` under any one fault other than power loss. |
| `startup` | `ReferencedGenerationsExist`, `ActiveServiceRunsSelected`, `RollbackOnlyWhenExhausted`, `TransactionResolves`. |
| `lifecycle_safety` | `ReplayIsFaithful`, `RoutesAreRecoverable`, `NamespacesSurvive`, `ArchivesAreKept`, `LifecycleIsSound`, `ExportsAreHonest`. |
| `lifecycle_liveness` | `JobsSettle`: accepted jobs are answered, intents clear, slots and admission come back. |
| `storage_safety` | `IntakeKeepsPromises`, `StoreIsAtomic`, `LocksAreSafe`, `HelpersWorkUnderLease`, `GenerationsAreSafe`, `ReleasesAreWhole`, `CaddyServesRecords`, `ArchivesAreExact`, `BundlesArePortable`, `ExtractionIsExact`. |
| `storage_liveness` | `OperationsEnd`. |
| `recovery_safety` | `AuditHistoryKept`, `LineageIsSingle`, `CapturesAreRestorable`, `RestoreIsGated`, `ReconciliationIsFaithful`. |
| `operators_safety` | `CredentialsAreClosed`, `RolloutIsFenced`, `ExchangesAreHonest`. |
| `recovery_liveness` | `RecoveryEnds`. |
| `reboot_convergence` | Expected violation of `RuntimeConverges` after one power loss. |
| `restore_reboot` | Expected violation of `RecoveryEnds` when a host reboots during a restore. |

### What the violations show

`reboot_convergence`: the worker selects the candidate, power is lost, the unit
starts at boot and its gate binds an ordinary start to the candidate. Before the
unit is active the recovered worker cannot verify Caddy and restores the source.
The launcher or the verifier now meets another active generation, the start
fails, and from then on the gate refuses ("active generation disagrees with
startup intent"). Only one attempt was counted, so the recovery unit clears
nothing; the worker cannot finish either, because Caddy is never active. The same
code heals a crash of Caddy alone (`publication_liveness`): a worker that lives
holds the lock until it has restored the source, so the gate never sees the
candidate.

`restore_reboot`: the verified receipt names the running Caddy invocation and is
written, immutable, before the journal advances. After a reboot between the two
writes no later invocation reproduces it and the restore can never be resumed.

### Deviations met while modelling

These have no run of their own. Where a property would be violated by one of
them, the property or the instance says so.

* An exhausted ordinary start loses its evidence: `clear_exhausted_ordinary_start`
  (`caddy_startup.py:451`) against ADR 0017:169.
* A worker selects another generation than the one a pending start is bound to
  (`deployment_activate.py:322`) against ADR 0017:172 and :176.
* A captured archive revalidation can never be reconciled
  (`host_restore_archive.py:100`).
* A temporary left in a tenant's own directory stops its deletion for good
  (`delete_state.py:185`); so does a release removal that was killed
  (`delete_commit.py:237`).
* On a file system without ordered metadata: emptying a retired generation whose
  rename is not durable (`caddy_generation.py:376`), selecting a visible but
  unsynced candidate (`deployment_recover.py:549`), advancing to restart-required
  on an unsynced reference (`caddy_bootstrap.py:82`), and removing a segment whose
  index is unsynced (`host_restore_audit_reconcile.py:165`).
* A committed job whose dispatch snapshot another tenant's commit overtook cannot
  be returned (`execution.py:3095`), nor some `state_drift` rejections
  (`execution.py:1204`); `AccountedRetriesReturn` exempts exactly these.
* Jobs retried for ever instead of being rejected: a restore after another
  tenant's change (`restore_prepare.py:136`), an archive whose history shrank
  while it waited (`archive_commit.py:233`), and archives or restores the
  lifecycle matrix does not list (`archive_handler.py:350`).

### Bounds

Core: two jobs are enough for every pair of racing transitions; a full tenant with
`MaxRetained = 2` makes a deploy retire the oldest and a rollback the newest
deployment, with the source among the retired ones, and a second tenant that was
never published has its routes carried along; `MaxRetained = 3` in the code
differs only in how many stay. Two faults reach "a crash, and a failure while
recovering from it". `MaxGenerations` and `MaxStartAttempts` have the code's value
3. In `CaddyStartup` eight failures exhaust three candidate and three recovery
attempts with two to spare. Components: two tenants, two or three jobs and one to
three faults per instance, six for the archive helper; each instance is listed
with its constants in its MC module. Symmetry is used in safety runs only, and
only for identities nothing tells apart. `CHECK_DEADLOCK FALSE`: when all jobs are
settled, or the bounds are used up, the system really has nothing to do.

### Fairness

Workers: strong fairness, because `flock()` blocks and every holder ends within
its unit's `RuntimeMaxSec`. Handoff: weak fairness; the reconciler's timer
(`OnUnitInactiveSec`) and its rotating durable cursor reach every unfinished job.
Caddy's unit: strong fairness (`Restart=`, blocking lock). Bootstrap: a play that
has begun goes on; no new play is ever forced. Services and timers of the
components: weak fairness of the process that runs, strong fairness where it
competes for a lock or retries a call that can fail finitely often. In the liveness
instances the steps of one process are one fair action each, combined by index over
the parts, so a behaviour of a part is fair exactly as its module's `FairSpec`
says; export workers are grouped, which is weaker. Faults, new jobs and edits by
others are never forced.

## Proofs

`CaddyStartup` proves, for every number of attempts, inputs, generations
and failures: `TypeOK`, `StartIntentWellFormed`, `ReferencedGenerationsExist`,
`ActiveServiceRunsSelected`, `ActiveBoundByIntent` and the action property
`RollbackOnlyWhenExhausted`. The assumptions are the named ones in `CaddyUnit`
and `CaddyStartup` (`None` is a value of its own; bounds are naturals). The
properties are not inductive. Pruning removes what the process that holds the
lock believes unreferenced, so `IndInv` adds what bootstrap and recovery have
established at each program counter (`BootInv`, `RecInv`), that they exclude each
other (`LockInv`), that a masked unit is down (`MaskInv`) and that identities grow
(`AgeInv`), which makes a candidate younger than its predecessor and "backwards"
meaningful. Each action is one case of `StepInv`; `CandidateAttempt` and
`RecoveryAttempt` are the two ways an intent is counted up.

`StaticHostProofs` proves, for every set of jobs and tenants, every bound and any
number of faults of every kind: `TypeOK`, `AuditedExactlyOnce` and the action
property `AuditReserved`. The assumptions are the named ones of `CaddyUnit`,
`HostState` and `StaticHost`. Whether an audit entry may be appended depends on
what the worker knows at its program counter, so the invariant has three parts.
`WorkerInv`: at the labels inside a lock hold the worker has the lock; while it
publishes an executor failure no intent is durable; during activation and commit
the intent is its own and both generations of the intent exist. `JobInv`: marker,
result, phase and audit entry of one job agree. `HostInv`: the intent belongs to a
claimed job without a failure, the active generation exists, the chain has no
repetition. `OthersKept` is the heart of it: a step taken while no other worker
holds the lock leaves what is known of every other job, so each action is checked
for its own job only. TLC checked the invariant on the instance of
`publication_safety` first.

The second half of `StaticHostProofs` proves the rest of the pipeline's safety, again
for every set of jobs and tenants, every bound and any number of faults: `ServedReleaseExists`,
`ActiveWithinAuthority`, `RetentionSettled`, `TransitionNeverRefused` and the
refinement `ImplementsAtomicPublication`. It adds one named assumption,
`RequestAssumption` (`None` is not a request of the abstract specification). None of
the five is inductive: a transition writes releases, deployments, desired state, the
reference and observed state in a fixed order, a crash may leave any prefix of it, and
the worker that resumes it knows how far it got only from what it read. The invariant
`PublicationInv`, added to the one above, therefore has

* `QuietInv`, for a host without an intent: every tenant is settled (what it retains
  is what it published, observed is desired), the active generation is derived from the
  observed state, and Caddy runs it or nothing;
* `BoundInv`, `ProgressInv`, `ServingInv`, `OthersInv`, for a host with one: the intent
  is the one its job was dispatched for; the tenant's records are untouched, recorded,
  desired or observed; each of these admits certain active and running generations;
  all other tenants are settled;
* `RecordInv` and `KnownInv`, for each worker: what its dispatched record and its
  program counter establish about how far the transition is.

A step by a worker with the lock keeps what is known of every other worker
(`OthersKnown`), so each action is one lemma about its own job. In the refinement
`Issue` is `Issue`, `PublishFailure` is `Fail`, `CommitResult` is `Publish` (or
nothing, when the result was already durable), and every other step stutters: so the
operator's view changes when the result is durable and at no other moment. TLC checked
`PublicationInv` on the instance of `publication_safety` before it was proved.

`PortableBounds` proves `ReleasesExportable`: every release within the limits of
`release_tree.py` has a portable bundle whose size, checksum file and central
directory stay within the committed bounds, for every number of files and every
length of path the limits admit.

`HostLocksProofs` proves, for every set of clients and helpers and every bound, all
safety properties of `HostLocks`: `TypeOK`, `NoDeadlock`, `LeaseExcludes`,
`CaptureIsStable` and `HeldIsLocked`. The assumptions are those of
`LocksAssumption`, which `MCStorage` has TLC evaluate. A description outlives the
process that opened it, so the invariant `LocksInv` says for each reference to a
description why it is there: the process registered the lock, was offered the export
lock, or captures under the two inner ones (`RefsInv`); that a description of an inner
lock has one registered owner, so that unlocking it takes it from nobody else; and that
the owner of what a Restic child reads still waits for that child (`CaptureInv`).
`NoDeadlock` follows with a measure (`Standing`): who waits for a lock stands at that
lock, who waits for the helper it lent the export lock to stands just behind that lock,
and everybody in a circle would wait for one that stands further on.

`ArchiveHelper` proves `WorkUnderLease`, `ProofsAreMade` and `JobsDoNotCoalesce` for
any number of kills and missed deadlines. `ArchiveInv` says what the lease carries
across the ends of coordinators: at most one helper has a request, its journal is still
the journal, it is the request of the running coordinator if there is one, and a reply or
a start job that ended well answers this very request. TLC checked both invariants on
instances of the two modules first.

`StateStore` proves all safety properties of the durable directory, for every set of
processes and any number of failed writes, kills and losses of power: `TypeOK`,
`NeverTorn`, `AcknowledgedJobKept`, `OnlyCondemnedIntentsGo`, `RemovedStaysRemoved`, and,
when the inventory accepts at least one record, `InventoryNeverRefused`. The assumptions
are those of `StoreAssumption`, which `MCStorage` has TLC evaluate: `None`, `Torn` and
`IntentBytes` are values of their own. The properties speak of what a directory shows, but
a loss of power brings back any state it had since its last sync; so `StoreInv` says it of
every such state (`JobState`, `IntentState`): the inode under the name is synced and whole,
the job continues the acknowledged one, no acknowledged intent is missing and no removed
one there. `Continues` is transitive (`ContinuesFacts`), and a replacement continues the
job the directory shows because the revision is compared under the lock
(`ReplacementContinues`). `LocalInv` carries what a writer knows from one system call to
the next: its temporary is an inode no state refers to, synced with the bytes it checked
before it is renamed. An inventory before every creation leaves at most one temporary,
which is why the ceiling of the sweep is never passed. TLC checked `RepositoryInv` first.

`JobIntakeProofs` proves all safety properties of issuance, for every set of sessions,
correlations and bindings, every bound on identities, connections and faults: `TypeOK`,
`PairsReconcilable`, `OneAnswerPerCorrelation` and `AcceptedBytesKept`. The assumptions are
those of `IntakeAssumption`: sessions, identities, records and `None` are values of their
own, and uploads are some of the bindings. The properties are not inductive, because the
two locks are held across several steps and the two records of a pair are written one
after the other. `IntakeInv` says in `PairInv` that every record of one index is matched by
the other except at most one correlation whose job is missing; in `SessionInv` what a
session has established at its program counter: the job it is bound to, and, while it takes
in bytes, that it holds the intake lock, that the slot is as it left it, and that nobody's
accepted bytes were there when it found the slot empty (which is what makes emptying it
on an error safe); and in `WorkerInv` when a worker's intent, result and intake claim
agree. Durable records only grow (`Kept`), so what the other sessions and workers know
survives a step that leaves their locks and bytes alone (`SessionKept`, `WorkerKept`,
`NeedsKept`), and each action is one lemma about the session or job that takes it. A
reconciler pass needs two arguments of its own: bytes somebody waits for belong to a job
that `NeedsWorker` selects, and a batch that is not empty has a last job in the cyclic
order, which the cursor can be set to. TLC checked `IntakeInv` first, with three
connections and a crash.

`MCStorage` carries these theorems over to the properties its run checks: a behaviour that
starts in a part is a behaviour of that part's module (`IntakePart`, `StorePart`,
`LocksPart`, `LocksLivePart`, `HelperPart`), whose theorems then give `IntakeKeepsPromises`,
`StoreIsAtomic`, `LocksAreSafe` and `HelpersWorkUnderLease`. So the formula TLC checks on
the instance is the formula the theorem states, and the component's own theorem says it
for every value of the constants.

Only model-checked: the properties of the other component modules
run through `MCLifecycle`, `MCStorage` and `MCRecovery` (among them the generation store,
the release store, tenant archives and captures, whose directories and remote stores would
each need an invariant like the one of `StateStore`); and everything out of the
prover's reach: liveness under fairness (`EveryJobSettles`, `RuntimeConverges`,
`TransactionResolves`, `JobsSettle`, `OperationsEnd`, `RecoveryEnds`), and what a
recursive definition computes for every input (orderings, digests and
measurements in `TreeMeasurement`, `ZipStructure`, `CaddyRoutes`).

## Not modelled

* Admission rate windows and the request decoder: arithmetic on clocks and pure
  parsing; a session that is refused leaves nothing behind, which `JobIntake`
  has as a session that fails.
* The control plane, provisioner and supporting services, infrastructure roles
  and images outside the Caddy role: other machines or configuration, no state of
  this host's protocols.
* Contents: bytes of releases, bundles and contracts are values that are equal or
  not; digests are the value they were taken of.
* Capacity of the audit chain and of the inventory beyond the limits the models
  name; wall-clock durations; logging and wording of errors.
* Mode `host-restore` of Caddy's start intent is part of `HostRestore` and not of
  the `CaddyUnit` the core shares.

`PROJECT.json` says for each component what is left out and why.

## Plan

1. Proofs about `GenerationStore` and `ReleaseStore`: what a record refers to survives
   collection and any crash.
2. Compose `RouteTransition` with `StaticHost`, so that one statement of
   `ServedReleaseExists` covers deployments and routes.
3. Split the component runs again where an instance can be enlarged.
