------------------------------ MODULE ExportSlot ------------------------------
\* The one export slot of a host (export_handler.py, export_spool.py,
\* export_delivery.py, export_snapshot.py, export_build.py): how a job fills it,
\* how the executor validates it, how an operator's session streams and
\* acknowledges it and how it is emptied, when workers and sessions are killed,
\* the host loses power, and other transitions change the tenant and use the
\* same workspace.
\*
\* EXPORT is held by one actor from `execute` to its `finally`, by a download
\* for as long as it streams; `tx` is the exclusive publication lock of one
\* repository transaction. A step is one durable write or one locked read.
EXTENDS Naturals, FiniteSets

CONSTANTS
    Jobs,           \* export jobs of one tenant
    Session,        \* an operator's session, or the reconciler's call
    Foreign,        \* another transition of the tenant, or of another one
    MaxSource,      \* bound: versions of the tenant's source
    MaxFaults,      \* bound: kills and losses of power
    None

SlotAssumption ==
    /\ IsFiniteSet(Jobs)
    /\ {MaxSource, MaxFaults} \subseteq Nat
    /\ Session \notin Jobs /\ Foreign \notin Jobs /\ None \notin Jobs

Actors == Jobs \cup {Session}
Retired == {"acknowledged", "expired"}

VARIABLES
    pc,         \* actor -> [at: its next step, of: the job it works for, then: where a retirement returns]
    lock,       \* the holder of the EXPORT lock
    tx,         \* the holder of an exclusive transaction that spans several steps
    job,        \* job -> its records: phase, result, audit, validated, delivery, decided
    expected,   \* job -> the version of the source it was authorized for
    late,       \* jobs whose retention has ended
    intent,     \* the owner of the one active intent
    work,       \* .work: "absent", "open", "bundle"
    slot,       \* the completed export: its job and version, as a process sees it
    disk,       \* the completed export as the last fsync of the spool left it
    source,     \* the version of the tenant's authority
    reason,     \* job -> why its handler rejected it
    errors,     \* the contradictions a worker or a session has met
    faults

vars == <<pc, lock, tx, job, expected, late, intent, work, slot, disk, source, reason, errors, faults>>

Idle == [at |-> "idle", of |-> None, then |-> "idle"]
Goto(a, l) == pc' = [pc EXCEPT ![a].at = l]
Free == tx = None
Occupant == IF slot = None THEN None ELSE slot.job
SyncSpool == disk' = slot

Init ==
    /\ pc = [a \in Actors |-> Idle]
    /\ lock = None /\ tx = None
    /\ job = [j \in Jobs |-> [phase |-> "claimed", result |-> None, audit |-> FALSE,
                              validated |-> FALSE, delivery |-> "unacknowledged", decided |-> FALSE]]
    /\ expected = [j \in Jobs |-> None]
    /\ late = {}
    /\ intent = None
    /\ work = "absent" /\ slot = None /\ disk = None
    /\ source = 0
    /\ reason = [j \in Jobs |-> None]
    /\ errors = {}
    /\ faults = 0

\* The actor stops with an error: its process ends and its locks go with it.
Fails(a, e) ==
    /\ errors' = errors \cup {e}
    /\ pc' = [pc EXCEPT ![a] = Idle]
    /\ lock' = IF lock = a THEN None ELSE lock
    /\ tx' = IF tx = a THEN None ELSE tx

-----------------------------------------------------------------------------
\* The executor dispatches or replays the job.

\* The job is authorized for the source of this moment.
Issue(j) ==
    /\ expected[j] = None /\ Free
    /\ expected' = [expected EXCEPT ![j] = source]
    /\ UNCHANGED <<pc, lock, tx, job, late, intent, work, slot, disk, source, reason, errors, faults>>

\* A job the recovery queue still owes work: without a result, with an active
\* intent, or not validated. A failed job is validated with its result.
Dispatch(j) ==
    /\ pc[j].at = "idle" /\ expected[j] # None /\ ~job[j].validated
    /\ IF job[j].result # None /\ intent # j
       THEN pc' = [pc EXCEPT ![j] = [at |-> "validate", of |-> j, then |-> "idle"]]
       ELSE pc' = [pc EXCEPT ![j] = [at |-> "lock", of |-> j, then |-> "idle"]]
    /\ UNCHANGED <<lock, tx, job, expected, late, intent, work, slot, disk, source, reason, errors, faults>>

\* ExportLifecycleHandler.execute takes the EXPORT lock.
AcquireExport(j) ==
    /\ pc[j].at = "lock" /\ lock = None
    /\ lock' = j
    /\ Goto(j, "recover")
    /\ UNCHANGED <<tx, job, expected, late, intent, work, slot, disk, source, reason, errors, faults>>

\* _find_intent: an intent of another correlation.
IntentOfAnother(j) == intent \notin {None, j}

\* _recover: with no intent the job is new or already has its result; an intent
\* without a bundle is withdrawn while nothing is committed; one with the bundle
\* goes on to the commitment.
Recover(j) ==
    /\ pc[j].at = "recover" /\ Free
    /\ IF IntentOfAnother(j) THEN Goto(j, "finally") /\ UNCHANGED <<tx, errors, lock, intent>>
       ELSE IF intent = None
       THEN Goto(j, IF job[j].result # None THEN "finally" ELSE "reconcile") /\ UNCHANGED <<tx, errors, lock, intent>>
       ELSE CASE Occupant = None ->
                 IF job[j].result # None \/ job[j].audit
                 THEN Fails(j, "lost-bundle") /\ UNCHANGED intent
                 ELSE intent' = None /\ Goto(j, "reconcile") /\ UNCHANGED <<tx, errors, lock>>
              [] Occupant # None /\ Occupant # j -> Fails(j, "foreign-bundle") /\ UNCHANGED intent
              [] Occupant = j -> tx' = j /\ Goto(j, "discard") /\ UNCHANGED <<errors, lock, intent>>
    /\ UNCHANGED <<job, expected, late, work, slot, disk, source, reason, faults>>

-----------------------------------------------------------------------------
\* ExportDelivery

\* _read: the job has validated export authority.
Readable(j) == job[j].phase = "completed" /\ job[j].validated /\ job[j].result = "succeeded"

\* _available: a retired export's bundle is removed if it is still there; one a
\* restore decided about has none; an export past its retention is retired,
\* which _retire commits before it removes the bundle.
Available(a, j, yes, no) ==
    CASE job[j].delivery \in Retired ->
            /\ IF Occupant = j
               THEN tx' = a /\ pc' = [pc EXCEPT ![a] = [at |-> "remove", of |-> j, then |-> no]]
               ELSE UNCHANGED tx /\ pc' = [pc EXCEPT ![a] = [at |-> no, of |-> j, then |-> no]]
            /\ UNCHANGED <<job, slot, lock, errors>>
      [] job[j].delivery \notin Retired /\ job[j].decided ->
            /\ pc' = [pc EXCEPT ![a] = [at |-> no, of |-> j, then |-> no]]
            /\ UNCHANGED <<job, slot, tx, lock, errors>>
      [] job[j].delivery \notin Retired /\ ~job[j].decided /\ Occupant # j ->
            Fails(a, "no-exact-slot") /\ UNCHANGED <<job, slot>>
      [] job[j].delivery \notin Retired /\ ~job[j].decided /\ Occupant = j /\ j \in late ->
            /\ job' = [job EXCEPT ![j].delivery = "expired"]
            /\ pc' = [pc EXCEPT ![a] = [at |-> "remove", of |-> j, then |-> no]]
            /\ tx' = a
            /\ UNCHANGED <<slot, lock, errors>>
      [] OTHER ->
            /\ pc' = [pc EXCEPT ![a] = [at |-> yes, of |-> j, then |-> no]]
            /\ UNCHANGED <<job, slot, tx, lock, errors>>

\* remove_completed: the exact slot, then the fsync of the next step.
RemoveCompleted(a) ==
    /\ pc[a].at = "remove"
    /\ slot' = IF Occupant = pc[a].of THEN None ELSE slot
    /\ Goto(a, "removed")
    /\ UNCHANGED <<lock, tx, job, expected, late, intent, work, disk, source, reason, errors, faults>>

Removed(a) ==
    /\ pc[a].at = "removed"
    /\ SyncSpool
    /\ Goto(a, pc[a].then)
    /\ tx' = None
    /\ UNCHANGED <<lock, job, expected, late, intent, work, slot, source, reason, errors, faults>>

\* reconcile_locked: abandoned work is removed and a retirement finished; a
\* bundle its executor has not validated is left to the recovery queue.
ReconcileLocked(a) ==
    /\ pc[a].at = "reconcile" /\ Free
    /\ work' = "absent"
    /\ LET next == IF a = Session THEN "close" ELSE "prepare"
       IN IF Occupant = None \/ ~job[Occupant].validated
          THEN Goto(a, next) /\ UNCHANGED <<job, slot, tx, lock, errors>>
          ELSE Available(a, Occupant, next, next)
    /\ SyncSpool
    /\ UNCHANGED <<expected, late, intent, source, reason, faults>>

-----------------------------------------------------------------------------
\* The construction

Reject(j, r) == reason' = [reason EXCEPT ![j] = r] /\ Goto(j, "finally")

\* prepare_workspace: one completed export, or too little room, rejects the job.
PrepareWorkspace(j) ==
    /\ pc[j].at = "prepare"
    /\ \/ /\ Occupant # None
          /\ Reject(j, "conflict") /\ work' = "absent" /\ UNCHANGED disk
       \/ Occupant = None /\ Reject(j, "capacity_exceeded") /\ UNCHANGED <<work, disk>>
       \/ Occupant = None /\ work' = "open" /\ SyncSpool /\ Goto(j, "capture") /\ UNCHANGED reason
    /\ UNCHANGED <<lock, tx, job, expected, late, intent, slot, source, errors, faults>>

\* _capture, _capture_archived: the source the job was authorized for, looked up
\* under the shared lock.
Capture(j) ==
    /\ pc[j].at = "capture" /\ Free
    /\ IF source # expected[j] THEN Reject(j, "state_drift") /\ UNCHANGED tx
       ELSE Goto(j, "copy") /\ tx' = j /\ UNCHANGED reason
    /\ UNCHANGED <<lock, job, expected, late, intent, work, slot, disk, source, errors, faults>>

\* capture_export_snapshot: copied into the workspace under the same lock, as far
\* as the spool's budget goes.
CopySnapshot(j) ==
    /\ pc[j].at = "copy"
    /\ tx' = None
    /\ \/ Goto(j, "build") /\ UNCHANGED reason
       \/ Reject(j, "capacity_exceeded")
    /\ UNCHANGED <<lock, job, expected, late, intent, work, slot, disk, source, errors, faults>>

\* build_snapshot_bundle: within the workspace and its reservations.
Build(j) ==
    /\ pc[j].at = "build"
    /\ \/ work' = "bundle" /\ Goto(j, "publish") /\ UNCHANGED reason
       \/ Reject(j, "capacity_exceeded") /\ UNCHANGED work
    /\ UNCHANGED <<lock, tx, job, expected, late, intent, slot, disk, source, errors, faults>>

\* _publish: beside another intent it waits, a source changed since the capture
\* rejects it, and the intent precedes the bundle.
Publish(j) ==
    /\ pc[j].at = "publish" /\ Free
    /\ IF intent # None THEN Goto(j, "finally") /\ UNCHANGED <<reason, tx, intent>>
       ELSE IF source # expected[j] THEN Reject(j, "state_drift") /\ UNCHANGED <<tx, intent>>
       ELSE \/ Reject(j, "capacity_exceeded") /\ UNCHANGED <<tx, intent>>
            \/ intent' = j /\ tx' = j /\ Goto(j, "rename") /\ UNCHANGED reason
    /\ UNCHANGED <<lock, job, expected, late, work, slot, disk, source, errors, faults>>

\* publish_bundle: the rename refuses to replace anything.
PublishBundle(j) ==
    /\ pc[j].at = "rename" /\ Occupant = None
    /\ slot' = [job |-> j, version |-> expected[j]]
    /\ work' = "open"
    /\ Goto(j, "publish-sync")
    /\ UNCHANGED <<lock, tx, job, expected, late, intent, disk, source, reason, errors, faults>>

\* Its reservation finds no room for one more fragment: the rejection leaves the
\* intent behind.
PublishBundleFull(j) ==
    /\ pc[j].at = "rename"
    /\ Reject(j, "capacity_exceeded")
    /\ tx' = None
    /\ UNCHANGED <<lock, job, expected, late, intent, work, slot, disk, source, errors, faults>>

PublishSync(j) ==
    /\ pc[j].at = "publish-sync"
    /\ SyncSpool
    /\ Goto(j, "discard")
    /\ UNCHANGED <<lock, tx, job, expected, late, intent, work, slot, source, reason, errors, faults>>

\* Mutant of DiscardForCommit: the fsync is left to the rename that preceded it.
DiscardUnsynced(j) ==
    /\ pc[j].at = "discard"
    /\ work' = "absent"
    /\ Goto(j, "commit")
    /\ UNCHANGED <<lock, tx, job, expected, late, intent, slot, disk, source, reason, errors, faults>>

\* discard_workspace before a commitment, new or recovered: it syncs the spool
\* also when there is no workspace left to remove.
DiscardForCommit(j) ==
    /\ pc[j].at = "discard"
    /\ work' = "absent"
    /\ SyncSpool
    /\ Goto(j, "commit")
    /\ UNCHANGED <<lock, tx, job, expected, late, intent, slot, source, reason, errors, faults>>

-----------------------------------------------------------------------------
\* _commit: the audit entry, the result, the phase, the intent, in this order.

\* build_expected_source and the bundle must still agree.
CommitDisagrees(j) == slot.version # expected[j] \/ source # expected[j]

CommitAudit(j) ==
    /\ pc[j].at = "commit"
    /\ IF CommitDisagrees(j) THEN Fails(j, "disagrees") /\ UNCHANGED job
       ELSE /\ job' = [job EXCEPT ![j].audit = TRUE]
            /\ Goto(j, "result") /\ UNCHANGED <<lock, tx, errors>>
    /\ UNCHANGED <<expected, late, intent, work, slot, disk, source, reason, faults>>

CommitResult(j) ==
    /\ pc[j].at = "result"
    /\ job' = [job EXCEPT ![j].result = "succeeded"]
    /\ Goto(j, "phase")
    /\ UNCHANGED <<lock, tx, expected, late, intent, work, slot, disk, source, reason, errors, faults>>

CommitPhase(j) ==
    /\ pc[j].at = "phase"
    /\ job' = [job EXCEPT ![j].phase = "completed"]
    /\ Goto(j, "intent")
    /\ UNCHANGED <<lock, tx, expected, late, intent, work, slot, disk, source, reason, errors, faults>>

CommitIntent(j) ==
    /\ pc[j].at = "intent"
    /\ intent' = None /\ tx' = None
    /\ Goto(j, "finally")
    /\ UNCHANGED <<lock, job, expected, late, work, slot, disk, source, reason, errors, faults>>

\* Every way out of `execute` discards the workspace and gives up the lock.
Finally(j) ==
    /\ pc[j].at = "finally"
    /\ work' = "absent" /\ SyncSpool
    /\ lock' = None
    /\ Goto(j, CASE job[j].result # None -> "validate"
                 [] job[j].result = None /\ reason[j] # None -> "failure"
                 [] OTHER -> "idle")
    /\ UNCHANGED <<tx, job, expected, late, intent, slot, source, reason, errors, faults>>

\* The executor publishes the rejection, unless the job has a bound intent.
PublishFailure(j) ==
    /\ pc[j].at = "failure" /\ Free
    /\ IF intent = j \/ job[j].result # None THEN UNCHANGED job
       ELSE job' = [job EXCEPT ![j].result = "failed", ![j].phase = "failed", ![j].audit = TRUE, ![j].validated = TRUE]
    /\ pc' = [pc EXCEPT ![j] = Idle]
    /\ reason' = [reason EXCEPT ![j] = None]
    /\ UNCHANGED <<lock, tx, expected, late, intent, work, slot, disk, source, errors, faults>>

-----------------------------------------------------------------------------
\* _validate_export_bundle, validate_export_bundle, _mark_execution_validated:
\* without the EXPORT lock.

Validate(j) ==
    /\ pc[j].at = "validate" /\ Free
    /\ IF \/ job[j].result = "failed" \/ intent = j
          \/ (job[j].delivery \in Retired /\ job[j].validated)
          \/ (job[j].decided /\ Occupant # j)
          \/ (slot = [job |-> j, version |-> expected[j]] /\ work = "absent")
       THEN Goto(j, IF intent = j THEN "idle" ELSE "mark") /\ UNCHANGED <<errors, lock, tx>>
       ELSE Fails(j, "no-exact-bundle")
    /\ UNCHANGED <<job, expected, late, intent, work, slot, disk, source, reason, faults>>

MarkValidated(j) ==
    /\ pc[j].at = "mark" /\ Free
    /\ job' = [job EXCEPT ![j].validated = TRUE]
    /\ pc' = [pc EXCEPT ![j] = Idle]
    /\ UNCHANGED <<lock, tx, expected, late, intent, work, slot, disk, source, reason, errors, faults>>

-----------------------------------------------------------------------------
\* An operator's session, and the reconciler's delivery call.

Begin(l, j) ==
    /\ pc[Session].at = "idle" /\ lock = None
    /\ lock' = Session
    /\ pc' = [pc EXCEPT ![Session] = [at |-> l, of |-> j, then |-> "close"]]
    /\ UNCHANGED <<tx, job, expected, late, intent, work, slot, disk, source, reason, errors, faults>>

\* The waiter returns the result of a validated job only.
Download(j) == Readable(j) /\ Begin("open", j)
Acknowledge(j) == Readable(j) /\ Begin("ack", j)
Reconcile == Begin("reconcile", None)

\* download: an available export is streamed under the lock.
OpenDownload ==
    /\ pc[Session].at = "open" /\ Free
    /\ Available(Session, pc[Session].of, "stream", "close")
    /\ UNCHANGED <<expected, late, intent, work, disk, source, reason, faults>>

\* _write_result, _ExportSource: the stream ends, complete or at its deadline: then the export is looked at again.
EndStream ==
    /\ pc[Session].at = "stream" /\ Free
    /\ Available(Session, pc[Session].of, "close", "close")
    /\ UNCHANGED <<expected, late, intent, work, disk, source, reason, faults>>

\* acknowledge: the receipt of the job's operator retires an available export.
AcknowledgeReceipt ==
    /\ pc[Session].at = "ack" /\ Free
    /\ Available(Session, pc[Session].of, "retire", "close")
    /\ UNCHANGED <<expected, late, intent, work, disk, source, reason, faults>>

\* commit_export_retirement
CommitRetirement ==
    /\ pc[Session].at = "retire" /\ tx \in {None, Session}
    /\ job' = [job EXCEPT ![pc[Session].of].delivery = "acknowledged"]
    /\ tx' = Session
    /\ pc' = [pc EXCEPT ![Session] = [@ EXCEPT !.at = "remove", !.then = "close"]]
    /\ UNCHANGED <<lock, expected, late, intent, work, slot, disk, source, reason, errors, faults>>

CloseSession ==
    /\ pc[Session].at = "close"
    /\ lock' = None
    /\ pc' = [pc EXCEPT ![Session] = Idle]
    /\ UNCHANGED <<tx, job, expected, late, intent, work, slot, disk, source, reason, errors, faults>>

-----------------------------------------------------------------------------
\* The rest of the host.

\* Another transition begins beside no intent, and ends; it may change the source.
ForeignBegins ==
    /\ intent = None /\ Free
    /\ intent' = Foreign
    /\ UNCHANGED <<pc, lock, tx, job, expected, late, work, slot, disk, source, reason, errors, faults>>

ForeignEnds ==
    /\ intent = Foreign /\ Free
    /\ intent' = None
    /\ source' \in {source} \cup (IF source < MaxSource THEN {source + 1} ELSE {})
    /\ UNCHANGED <<pc, lock, tx, job, expected, late, work, slot, disk, reason, errors, faults>>

\* An archive's construction uses the same workspace (ExportSpool.construction),
\* and is killed or ends at once.
ForeignConstruction ==
    /\ lock = None /\ Occupant = None /\ work = "absent"
    /\ work' = "open" /\ SyncSpool
    /\ faults < MaxFaults /\ faults' = faults + 1
    /\ UNCHANGED <<pc, lock, tx, job, expected, late, intent, slot, source, reason, errors>>

\* EXPORT_RETENTION after the acceptance.
RetentionEnds(j) ==
    /\ j \notin late /\ expected[j] # None
    /\ late' = late \cup {j}
    /\ UNCHANGED <<pc, lock, tx, job, expected, intent, work, slot, disk, source, reason, errors, faults>>

Kill(a) ==
    /\ pc[a].at # "idle" /\ faults < MaxFaults
    /\ faults' = faults + 1
    /\ pc' = [pc EXCEPT ![a] = Idle]
    /\ lock' = IF lock = a THEN None ELSE lock
    /\ tx' = IF tx = a THEN None ELSE tx
    /\ reason' = IF a \in Jobs THEN [reason EXCEPT ![a] = None] ELSE reason
    /\ UNCHANGED <<job, expected, late, intent, work, slot, disk, source, errors>>

PowerLoss ==
    /\ faults < MaxFaults
    /\ faults' = faults + 1
    /\ pc' = [a \in Actors |-> Idle]
    /\ lock' = None /\ tx' = None
    /\ slot' \in {slot, disk} /\ disk' = slot'
    /\ reason' = [j \in Jobs |-> None]
    /\ UNCHANGED <<job, expected, late, intent, work, source, errors>>

\* The host is restored from a backup of this moment, which holds no export: every
\* result that still promised a bundle gets a retirement decision.
HostRestored ==
    /\ faults < MaxFaults /\ intent = None
    /\ \A a \in Actors : pc[a].at = "idle"
    /\ faults' = faults + 1
    /\ slot' = None /\ disk' = None /\ work' = "absent"
    /\ job' = [j \in Jobs |-> [job[j] EXCEPT !.decided =
                  @ \/ (job[j].result = "succeeded" /\ job[j].delivery \notin Retired)]]
    /\ UNCHANGED <<pc, lock, tx, expected, late, intent, source, reason, errors>>

Worker(j) ==
    \/ Dispatch(j) \/ AcquireExport(j) \/ Recover(j) \/ ReconcileLocked(j)
    \/ PrepareWorkspace(j) \/ Capture(j) \/ CopySnapshot(j) \/ Build(j) \/ Publish(j) \/ PublishBundle(j) \/ PublishBundleFull(j)
    \/ PublishSync(j) \/ DiscardForCommit(j)
    \/ CommitAudit(j) \/ CommitResult(j) \/ CommitPhase(j) \/ CommitIntent(j) \/ Finally(j)
    \/ PublishFailure(j) \/ Validate(j) \/ MarkValidated(j)
    \/ RemoveCompleted(j) \/ Removed(j)

SessionStep ==
    \/ OpenDownload \/ EndStream \/ AcknowledgeReceipt \/ CommitRetirement \/ CloseSession
    \/ ReconcileLocked(Session) \/ RemoveCompleted(Session) \/ Removed(Session)

Next ==
    \/ \E j \in Jobs : Issue(j) \/ Worker(j) \/ Download(j) \/ Acknowledge(j) \/ RetentionEnds(j)
    \/ SessionStep \/ Reconcile
    \/ ForeignBegins \/ ForeignEnds \/ ForeignConstruction
    \/ \E a \in Actors : Kill(a)
    \/ PowerLoss \/ HostRestored

Spec == Init /\ [][Next]_vars

\* Processes run and give up their locks, the recovery timer keeps starting
\* workers and the delivery's reconciliation, other transitions end, and time
\* passes. A session's stream ends at its deadline. A worker that gets nowhere
\* because its lock or the intents are taken is started again (SF), and the last
\* reservation does not fail for ever on a host whose earlier ones succeed.
FairSpec ==
    /\ Spec
    /\ \A j \in Jobs :
        /\ WF_vars(Worker(j)) /\ SF_vars(AcquireExport(j)) /\ WF_vars(RetentionEnds(j))
        /\ SF_vars(Recover(j)) /\ SF_vars(Publish(j)) /\ SF_vars(Capture(j))
        /\ SF_vars(PublishBundle(j))
        /\ SF_vars(Validate(j)) /\ SF_vars(MarkValidated(j)) /\ SF_vars(PublishFailure(j))
    /\ WF_vars(SessionStep) /\ SF_vars(Reconcile) /\ SF_vars(ReconcileLocked(Session))
    /\ SF_vars(ForeignEnds)

-----------------------------------------------------------------------------
TypeOK ==
    /\ pc \in [Actors -> [at : STRING, of : Jobs \cup {None}, then : STRING]]
    /\ lock \in Actors \cup {None} /\ tx \in Actors \cup {None}
    /\ job \in [Jobs -> [phase : {"claimed", "completed", "failed"}, result : {None, "succeeded", "failed"},
                         audit : BOOLEAN, validated : BOOLEAN,
                         delivery : {"unacknowledged"} \cup Retired, decided : BOOLEAN]]
    /\ intent \in Jobs \cup {None, Foreign}
    /\ work \in {"absent", "open", "bundle"}
    /\ {slot, disk} \subseteq {None} \cup [job : Jobs, version : 0..MaxSource]
    /\ source \in 0..MaxSource /\ late \subseteq Jobs

\* A successful result keeps its bundle, of the source it was authorized for,
\* until its retirement is recorded: through kills, losses of power, other jobs
\* and the archive's use of the spool.
PromisedBundle ==
    \A j \in Jobs :
        job[j].result = "succeeded" /\ job[j].delivery = "unacknowledged" /\ ~job[j].decided =>
            slot = [job |-> j, version |-> expected[j]] /\ disk = slot

\* Every error that stands for a contradiction in the state - a committed export
\* that lost its bundle, a slot of another job, an unretired export without its
\* slot, a commitment that disagrees with its source, a slot that is not exactly
\* the validated bundle - is one no schedule reaches.
NoContradiction == errors = {}

\* The completed slot always has an owner that will empty it: the job of the
\* active intent, or one whose success is recorded. A rejected job leaves nothing.
SlotOwned ==
    /\ \A j \in Jobs : Occupant = j => intent = j \/ job[j].result = "succeeded"
    /\ \A j \in Jobs : job[j].result = "failed" => intent # j

\* A bundle stays where it is while it is streamed, and it is that job's.
StreamedBundleStays ==
    pc[Session].at = "stream" => Occupant = pc[Session].of /\ lock = Session

\* Once an export is retired, or its host restored without it, its bundle may
\* only disappear: nothing writes it again and nothing streams it.
RetiredForGood ==
    \A j \in Jobs :
      /\ job[j].delivery \in Retired => job'[j].delivery = job[j].delivery
      /\ (job[j].delivery \in Retired \/ job[j].decided) /\ pc'[Session].at = "stream" /\ pc[Session].at # "stream" =>
             pc'[Session].of # j

\* Once no other transition competes for the host's one intent, every authorized
\* export job ends with a validated result.
JobsSettle == intent = Foreign \/ \A j \in Jobs : expected[j] # None => job[j].validated

\* The slot is always emptied again, if only by its expiry.
SlotFreed == slot = None

===============================================================================
