-------------------------- MODULE RestoreReconcile --------------------------
\* What a host restore does with the work its backup caught half done: the
\* VALIDATED -> RECONCILED phase of HostRestore, over the private copy of the
\* captured records (host_restore_local.py and the reconcilers it calls).
\*
\* The backup holds at most one lifecycle transition in flight, any prefix of
\* whose durable writes may be there.  Which side of it the captured Caddy
\* selection shows decides how it ends: the candidate is completed with the
\* ordinary writes, the source is put back and the job answered with a
\* failure.  The coordinator can be killed between any two writes and is run
\* again; receipts it has written are immutable.
EXTENDS Naturals, Sequences, FiniteSets
LOCAL INSTANCE SequencesExt

CONSTANTS
    Ops,            \* operations whose transition may be in flight
    Others,         \* jobs beside the one in flight
    MaxCrashes,     \* coordinator deaths
    None

ReconcileAssumption ==
    /\ Ops \subseteq {"none", "create", "route", "deploy", "archive", "revalidate", "restore",
                      "delete", "emergency", "export", "construction", "retirement"}
    /\ MaxCrashes \in Nat

VARIABLES
    cap,            \* the captured transition, and what was captured of it
    records,        \* [desired, observed, release, record, bound] of its tenant
    tx,             \* its transaction (or emergency) intent exists
    companion,      \* its archive journal: "construction", "retirement" or None
    job,            \* its authorization: [phase, result]
    audit,          \* the entries of the captured jobs: <<job, status>>
    others,         \* job -> [op, phase, result]
    object,         \* the bucket holds the object the transition is about
    foreign,        \* the bucket holds an object the backup does not know
    prior,          \* the captured provenance: "none", "captured", "receipt", "moved"
    work,           \* local-work.json: the operation to finish, or None
    decision,       \* lifecycle decision: the side chosen, or None
    retired,        \* exports with a retirement decision
    done,           \* local-done.json: [companion] left for the archive helper, or None
    cleanup,        \* remote-cleanup decision: [preserve, named], or None
    ledger,         \* decisions.json: the decisions sealed, or None
    pc,             \* where the coordinator is
    crashes

state == <<records, tx, companion, job, audit, others>>
bucket == <<object, foreign>>
receipts == <<prior, work, decision, retired, done, cleanup, ledger>>
vars == <<cap, state, bucket, receipts, pc, crashes>>

Sides == {"source", "candidate"}
Self == "self"
Audited(j) == \E n \in DOMAIN audit : audit[n][1] = j
AuditedAs(j, s) == \E n \in DOMAIN audit : audit[n] = <<j, s>>
Remote == {"construction", "retirement"}

-----------------------------------------------------------------------------
\* The captured state.

\* The ordinary writes of each transition before its commit, and of the commit.
Opening(op) ==
    CASE op = "deploy" -> <<"release", "select">>
      [] op = "restore" -> <<"release", "select">>
      [] op = "emergency" -> <<"companion", "select">>
      [] op \in {"create", "route", "archive", "delete"} -> <<"select">>
      [] OTHER -> << >>

RouteCommit == <<"desired", "observed", "audit", "result", "phase", "intent">>
CreateCommit == <<"desired", "observed", "audit", "result", "phase", "intent">>
DeploymentCommit == <<"record", "desired", "observed", "audit", "result", "phase", "intent">>
ArchiveCommit == <<"bound", "desired", "observed", "audit", "result", "phase", "intent">>
RestoreCommit ==
    <<"record", "desired", "observed", "audit", "bound", "result", "phase", "intent">>

DeleteCommit == <<"audit", "desired", "observed", "bound", "result", "phase", "intent">>
\* An emergency has no authorization job, hence no phase.
EmergencyCommit == <<"audit", "bound", "desired", "observed", "result", "intent">>
ExportCommit == <<"audit", "result", "phase", "intent">>
RevalidationCommit == <<"audit", "result", "phase", "intent">>

CommitSteps(op) ==
    CASE op = "create" -> CreateCommit
      [] op = "route" -> RouteCommit
      [] op = "deploy" -> DeploymentCommit
      [] op = "archive" -> ArchiveCommit
      [] op = "restore" -> RestoreCommit
      [] op = "delete" -> DeleteCommit
      [] op = "emergency" -> EmergencyCommit
      [] op = "export" -> ExportCommit
      [] op = "revalidate" -> RevalidationCommit
      [] OTHER -> << >>

\* The archive record binds the object on one side of the transition only.
BoundOn(c, side) ==
    CASE c.op = "archive" -> side = "candidate"
      [] c.op \in {"restore", "delete", "emergency"} -> c.archived /\ side = "source"
      [] c.op = "revalidate" -> TRUE
      [] c.op = "construction" -> c.work = "bound-construction"
      [] c.op = "retirement" -> c.work = "unstarted-retirement"
      [] OTHER -> FALSE

\* The captures: the operation, whether its tenant has an archived object, how
\* much of its commit was done, and the selection.  A route or create may have
\* gone back to the source after its commit began; the others select the
\* candidate before it and return only while it has not.
Captures ==
    {c \in [op : Ops, archived : BOOLEAN, writes : 0..7, side : Sides,
            work : {"unbound-construction", "bound-construction",
                    "unstarted-retirement", "terminal-retirement", None}] :
        /\ c.archived => c.op \in {"archive", "revalidate", "restore", "delete", "emergency",
                                   "construction", "retirement"}
        /\ c.op \in {"archive", "revalidate", "restore", "construction", "retirement"} => c.archived
        /\ CASE c.op = "construction" -> c.work \in {"unbound-construction", "bound-construction"}
             [] c.op = "retirement" -> c.work \in {"unstarted-retirement", "terminal-retirement"}
             [] OTHER -> c.work = None
        /\ c.writes <= IF c.op = "construction" /\ c.work = "unbound-construction" THEN 3
                       ELSE IF CommitSteps(c.op) = << >> THEN 0
                       ELSE Len(Opening(c.op)) + Len(CommitSteps(c.op)) - 1
        /\ CASE c.op \in {"none", "construction", "retirement", "export", "revalidate"} ->
                    c.side = "source"
             [] c.op \in {"create", "route"} -> c.writes = 0 => c.side = "source"
             [] OTHER -> (c.side = "candidate") = (c.writes >= Len(Opening(c.op)))}

\* The writes of a capture that were made.
Written(c) ==
    LET all == Opening(c.op) \o CommitSteps(c.op)
    IN  {all[n] : n \in DOMAIN all \cap (1..c.writes)}

CapturedRecords(c) ==
    LET side(s) == IF s \in Written(c) THEN "candidate" ELSE "source"
    IN  [desired |-> side("desired"), observed |-> side("observed"),
         release |-> "release" \in Written(c), record |-> "record" \in Written(c),
         bound |-> BoundOn(c, side("bound"))]

CapturedCompanion(c) ==
    CASE c.op \in {"archive", "construction"} -> "construction"
      [] c.op \in {"restore", "retirement"} -> "retirement"
      [] c.op = "delete" /\ c.archived -> "retirement"
      [] c.op = "emergency" /\ c.archived /\ "companion" \in Written(c) -> "retirement"
      [] OTHER -> None

\* An unbound construction's job may be partly answered already; a bound one's
\* and a finished retirement's are.
CapturedJob(c) ==
    CASE c.work = "unbound-construction" ->
            [phase |-> IF c.writes >= 3 THEN "failed" ELSE "claimed",
             result |-> IF c.writes >= 2 THEN "failed" ELSE None]
      [] c.work \in {"bound-construction", "terminal-retirement"} ->
            [phase |-> "completed", result |-> "succeeded"]
      [] OTHER ->
            [phase |-> IF "phase" \in Written(c) THEN "completed" ELSE "claimed",
             result |-> IF "result" \in Written(c) THEN "succeeded" ELSE None]

CapturedAudit(c) ==
    IF c.work \in {"bound-construction", "terminal-retirement"} \/ "audit" \in Written(c)
    THEN <<<<Self, "succeeded">>>>
    ELSE IF c.work = "unbound-construction" /\ c.writes >= 1 THEN <<<<Self, "failed">>>>
    ELSE << >>

\* Other jobs wait, or are finished; an executor failure may lack its audit
\* entry when no intent reserved the next one.
OtherJobs ==
    {[op |-> "deploy", phase |-> "pending", result |-> None],
     [op |-> "rename", phase |-> "pending", result |-> None],
     [op |-> "deploy", phase |-> "completed", result |-> "succeeded"],
     [op |-> "export", phase |-> "completed", result |-> "succeeded"],
     [op |-> "rename", phase |-> "claimed", result |-> "failed"]}

Init ==
    /\ cap \in Captures
    /\ records = CapturedRecords(cap)
    /\ tx = (cap.op \notin {"none", "construction", "retirement"})
    /\ companion = CapturedCompanion(cap)
    /\ job = CapturedJob(cap)
    /\ others \in [Others -> OtherJobs]
    /\ \A o \in Others : others[o].result = "failed" => cap.op = "none"
    /\ audit = CapturedAudit(cap) \o
               SetToSeq({<<o, "succeeded">> : o \in {p \in Others : others[p].result = "succeeded"}})
    /\ object \in IF cap.archived THEN BOOLEAN ELSE {FALSE}
    /\ foreign \in BOOLEAN
    /\ prior \in {"none", "captured"}
    /\ work = None /\ decision = None /\ retired = {} /\ done = None
    /\ cleanup = None /\ ledger = None
    /\ pc = "idle"
    /\ crashes = 0

-----------------------------------------------------------------------------
\* The coordinator's run.

Goto(p) == pc' = p
\* Every HostRestoreError ends the process; the operator runs it again.
Stop == Goto("idle")

Run ==
    /\ pc = "idle"
    /\ Goto("prior")
    /\ UNCHANGED <<cap, state, bucket, receipts, crashes>>

\* import_prior_provenance: the receipt names the captured root, then the root
\* is renamed under the new history.
PriorReceipt ==
    /\ pc = "prior" /\ prior = "captured"
    /\ prior' = "receipt"
    /\ UNCHANGED <<cap, state, bucket, work, decision, retired, done, cleanup, ledger, pc, crashes>>

PriorRename ==
    /\ pc = "prior" /\ prior = "receipt"
    /\ prior' = "moved"
    /\ UNCHANGED <<cap, state, bucket, work, decision, retired, done, cleanup, ledger, pc, crashes>>

PriorImported ==
    /\ pc = "prior" /\ prior \in {"none", "moved"}
    /\ Goto("work")
    /\ UNCHANGED <<cap, state, bucket, receipts, crashes>>

\* The classification of the captured intents.
Classified ==
    CASE tx -> cap.op
      [] ~tx /\ companion = "construction" ->
            IF records.bound THEN "bound-construction" ELSE "unbound-construction"
      [] ~tx /\ companion = "retirement" ->
            IF job.result = None THEN "unstarted-retirement" ELSE "terminal-retirement"
      [] OTHER -> "none"

LocalWork ==
    /\ pc = "work"
    /\ work' = IF work = None THEN Classified ELSE work
    /\ Goto("verify")
    /\ UNCHANGED <<cap, state, bucket, prior, decision, retired, done, cleanup, ledger, crashes>>

-----------------------------------------------------------------------------
\* The archive helper's proof.

\* require_captured_selection, from the intent and the captured evidence alone.
\* A revalidation's source and candidate name one generation, and it has no
\* construction to plan from.
Selection == cap.side
Selectable == cap.op # "revalidate"

\* The object an intent adds to what tenants bind, and whether it must exist.
Terminal ==
    /\ job.result # None /\ AuditedAs(Self, job.result)
    /\ cap.op = "emergency" \/ job.phase \in {"completed", "failed"}
Preserve ==
    IF companion = "construction" THEN job.result = "succeeded" ELSE job.result \notin {"succeeded", None}

LifecycleRequires ==
    CASE cap.op = "archive" -> Selection = "candidate"
      [] cap.op \in {"restore", "delete"} -> cap.archived /\ Selection = "source"
      [] OTHER -> FALSE

Required ==
    IF tx /\ cap.op \in {"archive", "restore", "delete", "emergency"} THEN LifecycleRequires
    ELSE IF ~tx /\ companion = "retirement" /\ job.result # None THEN Preserve
    ELSE records.bound

Known == cap.archived /\ (records.bound \/ tx \/ companion # None)

\* collect_restore_archives refuses what it cannot classify.
Classifiable ==
    /\ tx => Selectable
    /\ (tx /\ cap.op = "emergency") => Selection = "candidate"
    /\ (~tx /\ companion = "construction" /\ records.bound) => Preserve
    /\ (~tx /\ companion = "construction" /\ ~records.bound) => job.phase \in {"claimed", "failed"}

Proven ==
    /\ Classifiable
    /\ Required => object
    /\ ~foreign
    /\ object => Known

\* A failed proof is tried again at the next run: the bucket never changes.
VerifyArchives ==
    /\ pc = "verify"
    /\ IF Proven THEN Goto(IF done = None THEN "exports" ELSE "cleanup") ELSE Stop
    /\ UNCHANGED <<cap, state, bucket, receipts, crashes>>

-----------------------------------------------------------------------------
\* LocalRecovery: exports, then the one transition.

\* Exports whose result promised a bundle the backup left out.
Undelivered == {o \in Others : others[o].op = "export" /\ others[o].result = "succeeded"}
               \cup (IF cap.op = "export" /\ job.result = "succeeded" THEN {Self} ELSE {})

RetireExport(o) ==
    /\ pc = "exports"
    /\ o \in Undelivered \ retired
    /\ retired' = retired \cup {o}
    /\ UNCHANGED <<cap, state, bucket, prior, work, decision, done, cleanup, ledger, pc, crashes>>

ExportsRetired ==
    /\ pc = "exports"
    /\ Undelivered \subseteq retired
    /\ Goto("decide")
    /\ UNCHANGED <<cap, state, bucket, receipts, crashes>>

\* The side the work ends on.
Chosen ==
    CASE work = "export" -> IF job.result = None THEN "source" ELSE "candidate"
      [] work \in {"unstarted-retirement", "unbound-construction"} -> "source"
      [] OTHER -> Selection

\* What each reconciler checks before it decides.  The intent may be gone only
\* when an earlier run removed it last.
RouteAdmitted == tx \/ job.phase \in {"completed", "failed"}
DeploymentAdmitted == RouteAdmitted /\ (Chosen = "candidate" => records.release)
CreateAdmitted == RouteAdmitted
ArchiveAdmitted == companion = "construction" /\ (Chosen = "candidate" => object)
RestoreAdmitted ==
    /\ companion = "retirement"
    /\ Chosen = "source" => object /\ records.bound
    /\ Chosen = "candidate" => records.release
    /\ Chosen = "candidate" /\ ~tx => job = [phase |-> "completed", result |-> "succeeded"]
DeleteAdmitted ==
    /\ Chosen = "source" /\ cap.archived => object
    /\ Chosen = "candidate" /\ ~tx => job = [phase |-> "completed", result |-> "succeeded"]
EmergencyAdmitted ==
    /\ Chosen = "candidate"
    /\ ~tx => job.result = "succeeded" /\ Audited(Self) /\ ~records.bound
ExportAdmitted ==
    job.result = None => job.phase = "claimed" /\ ~Audited(Self)
RetirementAdmitted == object /\ records.bound

Admitted ==
    CASE work = "route" -> RouteAdmitted
      [] work = "create" -> CreateAdmitted
      [] work = "deploy" -> DeploymentAdmitted
      [] work = "archive" -> ArchiveAdmitted
      [] work = "restore" -> RestoreAdmitted
      [] work = "delete" -> DeleteAdmitted
      [] work = "emergency" -> EmergencyAdmitted
      [] work = "export" -> ExportAdmitted
      [] work = "unstarted-retirement" -> RetirementAdmitted
      [] work = "unbound-construction" -> companion = "construction"
      [] work = "revalidate" -> FALSE

\* Only a lifecycle choice leaves a decision: a committed export has its
\* retirement instead, and a construction nobody bound fails like any other.
Decides == work \notin {"unbound-construction"} /\ ~(work = "export" /\ job.result # None)

\* commit_decision, before anything is changed; a second run must choose alike.
Decide ==
    /\ pc = "decide"
    /\ IF work \in {"none", "bound-construction", "terminal-retirement"}
       THEN Goto("leave") /\ UNCHANGED decision
       ELSE IF Admitted /\ (Decides => decision \in {None, Chosen})
       THEN Goto("check") /\ decision' = IF Decides THEN Chosen ELSE decision
       ELSE Stop /\ UNCHANGED decision
    /\ UNCHANGED <<cap, state, bucket, prior, work, retired, done, cleanup, ledger, crashes>>

-----------------------------------------------------------------------------
\* Carrying the decision out: the first write of its list that is missing.

\* The failure the source side publishes.
Failure == IF cap.op \in {"archive", "construction"} THEN "failed" ELSE "unavailable"

RestoreSource == <<"desired", "observed", "result", "audit", "phase", "intent">>
RestoreAbsence == <<"desired", "observed", "result", "audit", "phase", "intent">>
DeploymentSource ==
    <<"desired", "observed", "release", "record", "result", "audit", "phase", "intent">>
ArchiveSource == <<"observed", "desired", "bound", "intent", "audit", "result", "phase">>
UnstartedSource == <<"companion", "result", "audit", "phase">>
ConstructionSource == <<"audit", "result", "phase">>
AbandonExport == <<"intent">>

SourceSteps ==
    CASE work \in {"route", "delete"} -> RestoreSource
      [] work = "create" -> RestoreAbsence
      [] work \in {"deploy", "restore"} -> DeploymentSource
      [] work = "archive" -> ArchiveSource
      [] work = "export" -> AbandonExport
      [] work = "unstarted-retirement" -> UnstartedSource
      [] work = "unbound-construction" -> ConstructionSource

Steps == IF Chosen = "candidate" THEN CommitSteps(work) ELSE SourceSteps

\* Who answers the job, and with what.
Outcome == IF Chosen = "candidate" THEN "succeeded" ELSE Failure
Final == IF Chosen = "candidate" THEN "completed" ELSE "failed"

Done(s) ==
    CASE s = "desired" -> records.desired = Chosen
      [] s = "observed" -> records.observed = Chosen
      [] s = "release" -> records.release = (Chosen = "candidate")
      [] s = "record" -> records.record = (Chosen = "candidate")
      [] s = "bound" -> records.bound = BoundOn(cap, Chosen)
      [] s = "result" -> job.result # None
      [] s = "audit" -> Audited(Self)
      [] s = "phase" -> job.phase = Final
      [] s = "intent" -> ~tx
      [] s = "companion" -> companion = None

Missing == {n \in DOMAIN Steps : ~Done(Steps[n])}
NextWrite(s) ==
    /\ pc = "apply"
    /\ Missing # {}
    /\ Steps[CHOOSE n \in Missing : \A m \in Missing : n <= m] = s

\* A source whose transition already has another answer.
Contradicted ==
    /\ Chosen = "source" /\ work # "export"
    /\ IF work \in {"archive", "unbound-construction"}
       THEN job.result = "succeeded" \/ AuditedAs(Self, "succeeded")
       ELSE IF job.result # None THEN job.result # Failure
       ELSE Audited(Self) \/ job.phase # "claimed"

\* _restore_source, _restore_absence and _source refuse it.
CheckAnswer ==
    /\ pc = "check"
    /\ IF Contradicted THEN Stop ELSE Goto("apply")
    /\ UNCHANGED <<cap, state, bucket, receipts, crashes>>

PutDesired ==
    /\ NextWrite("desired")
    /\ records' = [records EXCEPT !.desired = Chosen]
    /\ UNCHANGED <<cap, tx, companion, job, audit, others, bucket, receipts, pc, crashes>>

PutObserved ==
    /\ NextWrite("observed")
    /\ records' = [records EXCEPT !.observed = Chosen]
    /\ UNCHANGED <<cap, tx, companion, job, audit, others, bucket, receipts, pc, crashes>>

\* _discard_candidate removes the release, then its record.
DiscardRelease ==
    /\ NextWrite("release")
    /\ records' = [records EXCEPT !.release = FALSE]
    /\ UNCHANGED <<cap, tx, companion, job, audit, others, bucket, receipts, pc, crashes>>

PutRecord ==
    /\ NextWrite("record")
    /\ records' = [records EXCEPT !.record = (Chosen = "candidate")]
    /\ UNCHANGED <<cap, tx, companion, job, audit, others, bucket, receipts, pc, crashes>>

BindArchive ==
    /\ NextWrite("bound")
    /\ records' = [records EXCEPT !.bound = BoundOn(cap, Chosen)]
    /\ UNCHANGED <<cap, tx, companion, job, audit, others, bucket, receipts, pc, crashes>>

PutAudit ==
    /\ NextWrite("audit")
    /\ audit' = Append(audit, <<Self, IF job.result = None THEN Outcome ELSE job.result>>)
    /\ UNCHANGED <<cap, records, tx, companion, job, others, bucket, receipts, pc, crashes>>

PutResult ==
    /\ NextWrite("result")
    /\ job' = [job EXCEPT !.result = Outcome]
    /\ UNCHANGED <<cap, records, tx, companion, audit, others, bucket, receipts, pc, crashes>>

PutPhase ==
    /\ NextWrite("phase")
    /\ job' = [job EXCEPT !.phase = Final]
    /\ UNCHANGED <<cap, records, tx, companion, audit, others, bucket, receipts, pc, crashes>>

RemoveIntent ==
    /\ NextWrite("intent")
    /\ tx' = FALSE
    /\ UNCHANGED <<cap, records, companion, job, audit, others, bucket, receipts, pc, crashes>>

\* cancel_unstarted_retirement.
CancelRetirement ==
    /\ NextWrite("companion")
    /\ companion' = None
    /\ UNCHANGED <<cap, records, tx, job, audit, others, bucket, receipts, pc, crashes>>

Applied ==
    /\ pc = "apply" /\ Missing = {}
    /\ Goto("leave")
    /\ UNCHANGED <<cap, state, bucket, receipts, crashes>>

\* local-done.json: no local intent is left.
LocalDone ==
    /\ pc = "leave"
    /\ IF tx THEN Stop /\ UNCHANGED done
       ELSE done' = [companion |-> companion] /\ Goto("cleanup")
    /\ UNCHANGED <<cap, state, bucket, prior, work, decision, retired, cleanup, ledger, crashes>>

-----------------------------------------------------------------------------
\* The archive helper's cleanup.

\* What the cleanup decision records.  A retirement names its object; a
\* construction the version it finds, or the one its earlier decision named.
Named == companion = "retirement" \/ object \/ (cleanup # None /\ cleanup.named)
Cleanup == [preserve |-> Preserve, named |-> Named]

\* Mutant of CleanupDecision: whatever the bucket holds is kept.
CleanupDecisionKeeps ==
    /\ pc = "cleanup" /\ companion # None
    /\ IF Terminal /\ Proven
       THEN cleanup' = [preserve |-> object, named |-> Named] /\ Goto("purge")
       ELSE Stop /\ UNCHANGED cleanup
    /\ UNCHANGED <<cap, state, bucket, prior, work, decision, retired, done, ledger, crashes>>

\* finish_restore_remote up to its decision.
CleanupDecision ==
    /\ pc = "cleanup" /\ companion # None
    /\ IF /\ Terminal /\ Proven
          /\ Preserve = records.bound
          /\ cleanup \in {None, Cleanup}
       THEN cleanup' = Cleanup /\ Goto("purge")
       ELSE Stop /\ UNCHANGED cleanup
    /\ UNCHANGED <<cap, state, bucket, prior, work, decision, retired, done, ledger, crashes>>

\* _delete_exact of an object no record binds.
Purge ==
    /\ pc = "purge"
    /\ object' = (object /\ Preserve)
    /\ Goto("unjournal")
    /\ UNCHANGED <<cap, state, foreign, receipts, crashes>>

RemoveCompanion ==
    /\ pc = "unjournal"
    /\ companion' = None
    /\ Goto("cleanup")
    /\ UNCHANGED <<cap, records, tx, job, audit, others, bucket, receipts, crashes>>

\* Nothing left to clean up, or _completed_cleanup of a journal that is gone;
\* the bucket must now be what tenants bind.
CleanedUp ==
    /\ pc = "cleanup" /\ companion = None
    /\ IF /\ done.companion # None =>
                cleanup # None /\ cleanup.preserve = records.bound
          /\ records.bound = object /\ ~foreign
       THEN Goto("jobs") ELSE Stop
    /\ UNCHANGED <<cap, state, bucket, receipts, crashes>>

-----------------------------------------------------------------------------
\* The other jobs.

\* finish_missing_input: the upload of a deploy was not in the backup; a request
\* whose source is stale fails as it would have.
Unanswerable(o) == others[o].op = "deploy" /\ others[o].result = None

PutMissingInput(o) ==
    /\ pc = "jobs"
    /\ Unanswerable(o)
    /\ \E r \in {"restore_input_unavailable", "failed"} :
            others' = [others EXCEPT ![o].result = r]
    /\ UNCHANGED <<cap, records, tx, companion, job, audit, bucket, receipts, pc, crashes>>

Failed(o) == others[o].result \in {"failed", "restore_input_unavailable"}

\* _repair_executor_failure_audit.
RepairAudit(o) ==
    /\ pc = "jobs"
    /\ Failed(o) /\ ~Audited(o)
    /\ audit' = Append(audit, <<o, others[o].result>>)
    /\ UNCHANGED <<cap, records, tx, companion, job, others, bucket, receipts, pc, crashes>>

\* _repair_terminal_phase_transaction.
RepairPhase(o) ==
    /\ pc = "jobs"
    /\ Failed(o) /\ Audited(o) /\ others[o].phase # "failed"
    /\ others' = [others EXCEPT ![o].phase = "failed"]
    /\ UNCHANGED <<cap, records, tx, companion, job, audit, bucket, receipts, pc, crashes>>

\* The interrupted job is validated like the others: answered jobs are
\* terminal and audited, unanswered ones wait and are not.
SettledJob(j, phase, result) ==
    IF result = None THEN phase \in {"pending", "claimed"} /\ ~Audited(j)
    ELSE AuditedAs(j, result) /\ phase \in {"completed", "failed"}

Settled ==
    /\ cap.op \notin {"none", "emergency"} => SettledJob(Self, job.phase, job.result)
    /\ \A o \in Others : SettledJob(o, others[o].phase, others[o].result) /\ ~Unanswerable(o)

JobsSettled ==
    /\ pc = "jobs" /\ Settled
    /\ Goto("seal")
    /\ UNCHANGED <<cap, state, bucket, receipts, crashes>>

\* The decisions a ledger names.
Decisions ==
    [lifecycle |-> decision, exports |-> retired, remote |-> cleanup]

\* seal_decisions; a ledger sealed earlier must be the same.
Seal ==
    /\ pc = "seal"
    /\ IF ledger \in {None, Decisions} THEN ledger' = Decisions /\ Goto("sealed")
       ELSE Stop /\ UNCHANGED ledger
    /\ UNCHANGED <<cap, state, bucket, prior, work, decision, retired, done, cleanup, crashes>>

\* The journal advances to RECONCILED: HostRestore goes on from here.
Reconciled ==
    /\ pc = "sealed"
    /\ Goto("reconciled")
    /\ UNCHANGED <<cap, state, bucket, receipts, crashes>>

Crash ==
    /\ pc \notin {"idle", "reconciled"}
    /\ crashes < MaxCrashes
    /\ crashes' = crashes + 1
    /\ Stop
    /\ UNCHANGED <<cap, state, bucket, receipts>>

-----------------------------------------------------------------------------
Finished == pc = "reconciled" /\ UNCHANGED vars

Coordinator ==
    \/ Run \/ PriorReceipt \/ PriorRename \/ PriorImported \/ LocalWork \/ VerifyArchives
    \/ (\E o \in Others \cup {Self} : RetireExport(o)) \/ ExportsRetired
    \/ Decide \/ CheckAnswer
    \/ PutDesired \/ PutObserved \/ DiscardRelease \/ PutRecord \/ BindArchive \/ PutAudit
    \/ PutResult \/ PutPhase \/ RemoveIntent \/ CancelRetirement \/ Applied \/ LocalDone
    \/ CleanupDecision \/ Purge \/ RemoveCompanion \/ CleanedUp
    \/ (\E o \in Others : PutMissingInput(o) \/ RepairAudit(o) \/ RepairPhase(o))
    \/ JobsSettled \/ Seal \/ Reconciled

Next == Coordinator \/ Crash \/ Finished

Spec == Init /\ [][Next]_vars
\* The operator runs a stopped restore again, and a process that is not killed
\* goes on.
FairSpec == Spec /\ WF_vars(Coordinator)
-----------------------------------------------------------------------------
\* Properties

TypeOK ==
    /\ cap \in Captures
    /\ records \in [desired : Sides, observed : Sides, release : BOOLEAN, record : BOOLEAN,
                    bound : BOOLEAN]
    /\ tx \in BOOLEAN /\ companion \in Remote \cup {None}
    /\ job \in [phase : {"claimed", "completed", "failed"},
                result : {"succeeded", "failed", "unavailable", None}]
    /\ object \in BOOLEAN /\ foreign \in BOOLEAN
    /\ decision \in Sides \cup {None}
    /\ retired \subseteq Others \cup {Self}
    /\ cleanup \in [preserve : BOOLEAN, named : BOOLEAN] \cup {None}
    /\ crashes \in 0..MaxCrashes

\* Write-ahead: no captured record, answer or intent of a transition is touched
\* before the choice for it is durable (commit_decision precedes every
\* mutation, so a run after a crash still knows what it must end on).
DecidedFirst ==
    LET touched == records # CapturedRecords(cap) \/ job # CapturedJob(cap)
                   \/ (cap.op \notin {"none", "construction", "retirement"} /\ ~tx)
    IN  touched => decision # None \/ Self \in retired \/ cap.work = "unbound-construction"

\* The side a capture must end on.
Ends == cap.side
Lifecycle == {"create", "route", "deploy", "archive", "restore", "delete", "emergency"}

\* A reconciled host is on the side its captured selection showed: both of the
\* tenant's records, the candidate's release and deployment record, the archive
\* record and the job's answer (require_captured_selection against mixed
\* records).
SelectionWins ==
    pc = "reconciled" =>
        /\ ~tx /\ companion = None
        /\ records.bound = BoundOn(cap, Ends)
        /\ cap.op \in Lifecycle =>
            /\ records.desired = Ends /\ records.observed = Ends
            /\ cap.op \in {"deploy", "restore"} =>
                records.release = (Ends = "candidate") /\ records.record = (Ends = "candidate")
            /\ (job.result = "succeeded") = (Ends = "candidate")

\* An answer the backup or an earlier run holds is never replaced, and the
\* audit chain only grows (results are immutable; _restore_source stops on a
\* contradictory one).
AnswersStand ==
    /\ job.result # None => job'.result = job.result
    /\ \A o \in Others : others[o].result # None => others'[o].result = others[o].result
    /\ IsPrefix(audit, audit')

\* Every answered job has exactly one audit entry, with its answer, on a
\* reconciled host; no job ever has two, nor one that disagrees with its result
\* (finish_restored_jobs and the repairs after a crash).
OneAuditPerAnswer ==
    /\ \A m, n \in DOMAIN audit : audit[m][1] = audit[n][1] => m = n
    /\ job.result # None /\ Audited(Self) => AuditedAs(Self, job.result)
    /\ pc = "reconciled" => Settled

\* The bucket of a reconciled host holds exactly what its records bind; and an
\* object the chosen side binds is never deleted on the way (Preserve, _terminal
\* and the re-read binding in finish_restore_remote).
BucketMatchesRecords ==
    /\ pc = "reconciled" => object = records.bound /\ ~foreign
    /\ cleanup # None => cleanup.preserve = BoundOn(cap, Ends)

BoundObjectKept == object /\ ~object' => ~BoundOn(cap, Ends)

\* A sealed ledger names every decision there will ever be (seal_decisions is
\* last, and a rerun after it decides nothing new).
LedgerExact == ledger # None => ledger = Decisions

\* A capture whose transition was answered against its own selection, or whose
\* export is audited without a result: the restore stops, by design.
Contradictory ==
    \/ cap.side = "source" /\ cap.op \in {"create", "route"}
            /\ Written(cap) \cap {"audit", "result", "phase"} # {}
    \/ cap.op = "export" /\ "audit" \in Written(cap) /\ "result" \notin Written(cap)

\* Nothing in the capture or the bucket forbids the restore.
Restorable ==
    /\ cap.op # "revalidate" /\ ~Contradictory
    /\ cap.op = "emergency" => cap.side = "candidate"
    /\ BoundOn(cap, Ends) => object
    /\ ~foreign

\* However often the coordinator is killed, running it again reconciles every
\* restorable capture: no receipt of an earlier run stands in its way.
Reconciles == Restorable => pc = "reconciled"

=============================================================================
