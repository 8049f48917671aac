---------------------------- MODULE AuditRotation ----------------------------
\* How closed segments of the audit chain leave the host (audit.py,
\* audit_rotation_*.py, audit_archive_*.py): rotation copies the oldest closed
\* segment into a protected snapshot of the backup repository, verifies it by
\* restoring it, indexes it and removes the local file; verification proves the
\* protected snapshots again; maintenance forgets and prunes ordinary ones.
\*
\* The three hold the repository's flock, so one of them runs at a time, while
\* workers append to the chain under the tenant-state lock. Processes are killed
\* and the host loses power anywhere. A directory is the sequence of the states
\* it passed through since its last fsync; the last one is what readers see.
EXTENDS Naturals, Sequences, FiniteSets
LOCAL INSTANCE SequencesExt
LOCAL INSTANCE FiniteSetsExt
LOCAL INSTANCE TLC

CONSTANTS
    MaxSegments,    \* bound: segments of the chain
    MaxOrdinary,    \* bound: ordinary snapshots taken
    MaxFaults,      \* bound: kills, failures and losses of power
    Late,           \* a snapshot whose client was killed may appear at any later time
    None

RotationAssumption ==
    {MaxSegments, MaxOrdinary, MaxFaults} \subseteq Nat /\ Late \in BOOLEAN

VARIABLES
    count,      \* segments of the chain, the open one included
    dir,        \* audit/: versions of the set of local segments
    arch,       \* audit/archive/: versions of its records
    stage,      \* the attempt staged for the snapshot
    snaps,      \* the snapshots of the repository
    flight,     \* audit snapshots whose client is gone before they were visible
    used,       \* identities given out: snapshots and attempts
    ordinary,   \* ordinary snapshots taken
    fresh,      \* the protection status is less than a day old
    op, at,     \* the running operation and its next step
    plan,       \* records still to publish
    wrote,      \* the first of them is written, not synced
    then,       \* the step after the plan
    seen,       \* the snapshots the running operation has listed and verified
    errors,     \* contradictions met
    faults

vars == <<count, dir, arch, stage, snaps, flight, used, ordinary, fresh, op, at, plan, wrote, then, seen, errors, faults>>
run == <<op, at, plan, wrote, then, seen>>
remote == <<snaps, flight, used, ordinary>>

Local == Last(dir)
A == Last(arch)
Audit(s) == {x \in s : x.seg # None}
IdsOf(s) == {x.id : x \in s}
Index(n) == A.index[n]

Init ==
    /\ count = 1
    /\ dir = <<{0}>>
    /\ arch = <<[head |-> 0, index |-> << >>, witness |-> {}, rot |-> None, dup |-> {},
                 maint |-> None, status |-> [category |-> "verified", head |-> 0]]>>
    /\ stage = None
    /\ snaps = {} /\ flight = {} /\ used = 0 /\ ordinary = 0
    /\ fresh = TRUE
    /\ op = None /\ at = None /\ plan = << >> /\ wrote = FALSE /\ then = None /\ seen = {}
    /\ errors = {}
    /\ faults = 0

-----------------------------------------------------------------------------
\* What every reader of the chain requires.

\* read_archive_prefix: the head's indexes and witnesses, complete and distinct.
PrefixComplete(a) ==
    /\ 0 .. a.head - 1 \subseteq DOMAIN a.index \cap a.witness
    /\ \A m, n \in 0 .. a.head - 1 : a.index[m].id = a.index[n].id => m = n

\* _pending: the records of an attempt that is not committed, in its phase.
PendingAgrees(a) ==
    a.rot # None =>
        /\ a.rot.seg \in {a.head, a.head - 1}
        /\ a.rot.seg \in DOMAIN a.index \cup a.witness => a.rot.phase \in {"verified", "indexed"}
        /\ a.rot.phase = "indexed" => a.rot.seg < a.head
        /\ a.rot.seg \in DOMAIN a.index =>
            /\ a.rot.seg \in a.witness
            /\ a.index[a.rot.seg].id \in a.rot.ids /\ a.index[a.rot.seg].attempt = a.rot.attempt

\* No authority without an intent, and duplicates of known segments only.
NothingUnclaimed(a) ==
    LET known == 0 .. a.head - 1 \cup (IF a.rot = None THEN {} ELSE {a.rot.seg})
    IN /\ DOMAIN a.index \cup a.witness \subseteq known
       /\ \A d \in a.dup : d.seg \in known /\ \A n \in 0 .. a.head - 1 : d.id # a.index[n].id

MaintenanceAgrees(a) == a.maint # None => a.maint.head = a.head

\* _read_segments: one contiguous local suffix that reaches past the archive.
SuffixContiguous(a, l) ==
    /\ l # {} /\ \A n \in l : n # Max(l) => n + 1 \in l
    /\ Min(l) <= a.head /\ Max(l) + 1 > a.head

\* _require_pending_local_segment
PendingIsLocal(a, l) ==
    a.rot # None /\ a.rot.seg >= a.head => a.rot.seg \in l /\ a.rot.seg + 1 \in l

Readable(a, l) ==
    /\ PrefixComplete(a) /\ PendingAgrees(a) /\ NothingUnclaimed(a) /\ MaintenanceAgrees(a)
    /\ SuffixContiguous(a, l) /\ PendingIsLocal(a, l)

-----------------------------------------------------------------------------
\* The workers

\* require_ordinary_protection: a fresh proof of the current head.
Protected == A.status = [category |-> "verified", head |-> A.head] /\ fresh

\* append_audit, _plan_audit_append: an entry that opens the next segment. An
\* administrator's needs no protection. The create syncs the directory.
AppendEntry(actor) ==
    /\ count < MaxSegments
    /\ Readable(A, Local)
    /\ actor = "tenant" => Protected
    /\ count' = count + 1
    /\ dir' = <<Local \cup {count}>>
    /\ UNCHANGED <<arch, stage, remote, fresh, run, errors, faults>>

\* MAX_PROTECTION_AGE_SECONDS
ProofAges ==
    /\ fresh
    /\ fresh' = FALSE
    /\ UNCHANGED <<count, dir, arch, stage, remote, run, errors, faults>>

\* A scheduled backup, between the operations.
OrdinaryBackup ==
    /\ op = None /\ ordinary < MaxOrdinary
    /\ ordinary' = ordinary + 1
    /\ used' = used + 1
    /\ snaps' = snaps \cup {[id |-> used, seg |-> None, attempt |-> None]}
    /\ UNCHANGED <<count, dir, arch, stage, flight, fresh, run, errors, faults>>

-----------------------------------------------------------------------------
\* The operations' common steps

Goto(l) == at' = l
EndRun == op' = None /\ at' = None /\ plan' = << >> /\ wrote' = FALSE /\ then' = None /\ seen' = {}
\* publish_records under the tenant-state lock, then on to the next step.
Commit(p, l) == plan' = p /\ wrote' = FALSE /\ then' = l /\ Goto("publish")

Begin(o) ==
    /\ op = None
    /\ op' = o
    /\ at' = CASE o = "verify" -> "verify" [] o = "rotate" -> "rotate-verify" [] OTHER -> "maintain-verify"
    /\ UNCHANGED <<count, dir, arch, stage, remote, fresh, plan, wrote, then, seen, errors, faults>>

\* An exception: _record_failure withdraws the protection, and the run ends.
Abort(e) ==
    /\ errors' = errors \cup (IF e = None THEN {} ELSE {e})
    /\ arch' = <<[A EXCEPT !.status = [category |-> "failed", head |-> A.head]]>>
    /\ EndRun

\* _publish: the temporary, its rename, and the directory's fsync; a record that
\* is already there is only synced.
WriteRecord ==
    /\ at = "publish" /\ plan # << >> /\ ~wrote
    /\ LET r == Head(plan)
       IN arch' = IF A[r.name] = r.value THEN arch ELSE Append(arch, [A EXCEPT ![r.name] = r.value])
    /\ wrote' = TRUE
    /\ UNCHANGED <<count, dir, stage, remote, fresh, op, at, plan, then, seen, errors, faults>>

SyncRecord ==
    /\ at = "publish" /\ plan # << >> /\ wrote
    /\ arch' = <<A>>
    /\ fresh' = (fresh \/ (Head(plan).name = "status" /\ Head(plan).value.category = "verified"))
    /\ plan' = Tail(plan) /\ wrote' = FALSE
    /\ UNCHANGED <<count, dir, stage, remote, op, at, then, seen, errors, faults>>

Published ==
    /\ at = "publish" /\ plan = << >>
    /\ IF then = "end" THEN EndRun ELSE Goto(then) /\ then' = None /\ UNCHANGED <<op, plan, wrote, seen>>
    /\ UNCHANGED <<count, dir, arch, stage, remote, fresh, errors, faults>>

-----------------------------------------------------------------------------
\* verify_protected_inventory: every audit snapshot is restored and compared.

\* referenced_snapshots
Referenced ==
    {Index(n).id : n \in 0 .. A.head - 1} \cup {d.id : d \in A.dup}
        \cup (IF A.rot = None THEN {} ELSE A.rot.ids)

Orphans(s) == {x \in Audit(s) : x.seg = A.head}

\* The reasons the inventory is refused.
InventoryError(s) ==
    CASE ~(Referenced \subseteq IdsOf(s)) -> "missing"
      [] \E x, y \in Audit(s) : x.seg = y.seg /\ x.attempt # y.attempt -> "competing"
      [] \E x \in Audit(s) : x.seg > A.head -> "gap"
      [] \E x \in Audit(s) : x.seg < A.head /\ Index(x.seg).attempt # x.attempt -> "disagrees"
      [] A.rot # None /\ \E x \in Orphans(s) : A.rot.attempt # x.attempt -> "unbound"
      [] OTHER -> None

\* _index_for_orphan: an index that was already written stays.
OrphanIndex(o) ==
    IF A.head \in DOMAIN A.index THEN A.index[A.head] ELSE [id |-> o.id, attempt |-> o.attempt]

\* commit_protected_proof: the attempt becomes verified, then
\* its witness, its index, the duplicates, the head, the attempt's end, the status.
VerifiedRecords(s) ==
    LET found == Orphans(s)
        o == CHOOSE x \in found : \A y \in found : x.id <= y.id
        n == A.head
        all == IF found = {} THEN A.index ELSE [k \in DOMAIN A.index \cup {n} |-> IF k = n THEN OrphanIndex(o) ELSE A.index[k]]
        head == IF found = {} THEN n ELSE n + 1
        rot == IF found = {} THEN A.rot
               ELSE [seg |-> n, attempt |-> o.attempt, phase |-> "verified", ids |-> IdsOf(found)]
    IN (IF found = {} THEN << >>
        ELSE <<[name |-> "rot", value |-> rot], [name |-> "witness", value |-> A.witness \cup {n}],
               [name |-> "index", value |-> all]>>)
       \o <<[name |-> "dup", value |-> {[seg |-> x.seg, id |-> x.id] : x \in {y \in Audit(s) : all[y.seg].id # y.id}}],
            [name |-> "head", value |-> head]>>
       \o (IF rot = None THEN << >> ELSE <<[name |-> "rot", value |-> [rot EXCEPT !.phase = "indexed"]]>>)
       \o <<[name |-> "status", value |-> [category |-> "verified", head |-> head]]>>

\* A pending attempt without any snapshot of it.
Uncreated(s) == A.rot # None /\ A.rot.seg = A.head /\ Orphans(s) = {}

VerifySteps == {"verify", "rotate-verify", "rotate-verify-staged", "rotate-verify-created",
                "maintain-verify", "maintain-verify-forgotten", "maintain-verify-pruning",
                "maintain-verify-pruned"}

AfterVerify ==
    [verify |-> "end"] @@ ("rotate-verify" :> "rotate-prepare") @@ ("rotate-verify-staged" :> "rotate-create")
        @@ ("rotate-verify-created" :> "rotate-unstage") @@ ("maintain-verify" :> "maintain-intent")
        @@ ("maintain-verify-forgotten" :> "maintain-forgotten") @@ ("maintain-verify-pruning" :> "maintain-prune-again")
        @@ ("maintain-verify-pruned" :> "maintain-checked")

\* discover_repository and the restored proof, without the tenant-state lock.
Verify ==
    /\ at \in VerifySteps /\ seen = {}
    /\ ~(op = "rotate" /\ A.maint # None)
    /\ IF InventoryError(snaps) # None
       THEN Abort(InventoryError(snaps)) /\ UNCHANGED <<count, dir, stage, remote, fresh, faults>>
       ELSE /\ seen' = snaps \cup {[id |-> None, seg |-> None, attempt |-> None]}
            /\ UNCHANGED <<count, dir, arch, stage, remote, fresh, op, at, plan, wrote, then, errors, faults>>

\* Rotation does not run beside an unfinished maintenance.
RotationWaits ==
    /\ op = "rotate" /\ at = "rotate-verify" /\ A.maint # None
    /\ Abort(None)
    /\ UNCHANGED <<count, dir, stage, remote, fresh, faults>>

\* The proof is committed under the lock; a rotation leaves an attempt without a
\* snapshot as it is, the others report it.
CommitProof ==
    /\ at \in VerifySteps /\ seen # {}
    /\ LET s == {x \in seen : x.id # None}
       IN IF Uncreated(s)
          THEN IF op = "rotate" /\ A.rot.phase = "prepared"
               THEN Goto(AfterVerify[at]) /\ UNCHANGED <<arch, op, plan, wrote, then, seen, errors>>
               ELSE Abort(IF A.rot.phase = "prepared" THEN None ELSE "lost-snapshot")
          ELSE IF Orphans(s) # {} /\ A.maint # None
          THEN Abort("orphan-in-maintenance")
          ELSE Commit(VerifiedRecords(s), AfterVerify[at]) /\ UNCHANGED <<arch, op, seen, errors>>
    /\ UNCHANGED <<count, dir, stage, remote, fresh, faults>>

-----------------------------------------------------------------------------
\* rotate_archive

Step(l) == op = "rotate" /\ at = l
Leave == UNCHANGED <<count, remote, fresh, faults>>

\* prepare_rotation: the oldest closed segment, if there is one. The fsync makes
\* an earlier removal of the intent durable.
PrepareRotation ==
    /\ Step("rotate-prepare")
    /\ stage' = IF A.rot = None THEN None ELSE stage
    /\ CASE A.rot # None ->
              Goto(IF A.rot.phase = "indexed" THEN "rotate-unstage" ELSE "rotate-stage")
              /\ UNCHANGED <<arch, op, plan, wrote, then, seen, used>>
         [] A.rot = None /\ count <= A.head + 1 -> arch' = <<A>> /\ EndRun /\ UNCHANGED used
         [] A.rot = None /\ count > A.head + 1 ->
              /\ arch' = <<A>>
              /\ used' = used + 1
              /\ Commit(<<[name |-> "rot", value |-> [seg |-> A.head, attempt |-> used, phase |-> "prepared", ids |-> {}]]>>,
                        "rotate-stage")
              /\ UNCHANGED <<op, seen>>
    /\ UNCHANGED <<count, dir, snaps, flight, ordinary, fresh, errors, faults>>

\* stage_attempt: the exact attempt, or nothing else, is staged.
StageAttempt ==
    /\ Step("rotate-stage")
    /\ IF stage \notin {None, A.rot.attempt} THEN Abort("stage-conflict") /\ UNCHANGED <<stage, dir>>
       ELSE stage' = A.rot.attempt /\ Goto("rotate-verify-staged") /\ seen' = {}
            /\ UNCHANGED <<arch, dir, op, plan, wrote, then, errors>>
    /\ Leave

\* create_rotation_snapshot, record_snapshot
CreateSnapshot ==
    /\ Step("rotate-create")
    /\ IF A.rot.phase = "indexed"
       THEN Goto("rotate-unstage") /\ UNCHANGED <<snaps, used, plan, wrote, then, seen>>
       ELSE /\ used' = used + 1
            /\ snaps' = snaps \cup {[id |-> used, seg |-> A.rot.seg, attempt |-> A.rot.attempt]}
            /\ Commit(<<[name |-> "rot", value |-> [A.rot EXCEPT !.phase = "discovered", !.ids = {used}]]>>,
                      "rotate-verify-created")
            /\ seen' = {}
    /\ UNCHANGED <<count, dir, arch, stage, flight, ordinary, fresh, op, errors, faults>>

\* The client is killed: its snapshot exists, or appears later, or never does.
CreateInterrupted ==
    /\ Step("rotate-create") /\ A.rot.phase = "prepared" /\ faults < MaxFaults
    /\ faults' = faults + 1
    /\ used' = used + 1
    /\ LET s == [id |-> used, seg |-> A.rot.seg, attempt |-> A.rot.attempt]
       IN \/ snaps' = snaps \cup {s} /\ UNCHANGED flight
          \/ Late /\ flight' = flight \cup {s} /\ UNCHANGED snaps
    /\ EndRun
    /\ UNCHANGED <<count, dir, arch, stage, ordinary, fresh, errors>>

SnapshotAppears ==
    /\ \E s \in flight : snaps' = snaps \cup {s} /\ flight' = flight \ {s}
    /\ UNCHANGED <<count, dir, arch, stage, used, ordinary, fresh, run, errors, faults>>

\* discard_stage
DiscardStage ==
    /\ Step("rotate-unstage")
    /\ IF stage \notin {None, A.rot.attempt} THEN Abort("stage-conflict") /\ UNCHANGED stage
       ELSE stage' = None /\ Goto("rotate-remove") /\ UNCHANGED <<arch, op, plan, wrote, then, seen, errors>>
    /\ UNCHANGED dir
    /\ Leave

\* Mutant of RemoveSource: the segment goes as soon as its snapshot is recorded.
RemoveSourceEarly ==
    /\ op = "rotate" /\ at \in {"rotate-remove", "rotate-verify-created"}
    /\ dir' = Append(dir, Local \ {A.rot.seg})
    /\ Goto("rotate-remove-sync")
    /\ UNCHANGED <<arch, stage, op, plan, wrote, then, seen, errors>>
    /\ Leave

\* remove_indexed_source: only an indexed attempt whose snapshots were just
\* proven; a segment already gone is left to the fsync.
RemoveSource ==
    /\ Step("rotate-remove")
    /\ IF A.rot.phase # "indexed" \/ ~(A.rot.ids \cup {Index(A.rot.seg).id} \subseteq IdsOf(seen))
       THEN Abort("unproven") /\ UNCHANGED dir
       ELSE /\ dir' = IF A.rot.seg \in Local THEN Append(dir, Local \ {A.rot.seg}) ELSE dir
            /\ Goto("rotate-remove-sync")
            /\ UNCHANGED <<arch, op, plan, wrote, then, seen, errors>>
    /\ UNCHANGED stage
    /\ Leave

RemoveSync ==
    /\ Step("rotate-remove-sync")
    /\ dir' = <<Local>>
    /\ Goto("rotate-complete")
    /\ UNCHANGED <<arch, stage, op, plan, wrote, then, seen, errors>>
    /\ Leave

\* complete_rotation: the intent goes after the segment.
CompleteRotation ==
    /\ Step("rotate-complete")
    /\ Commit(<<[name |-> "rot", value |-> None]>>, "end")
    /\ UNCHANGED <<dir, arch, stage, op, seen, errors>>
    /\ Leave

-----------------------------------------------------------------------------
\* _maintain

MStep(l) == op = "maintain" /\ at = l
Seen == {x \in seen : x.id # None}
SameElse == UNCHANGED <<count, dir, stage, fresh, faults>>

\* _require_maintenance_proof
ProofUnchanged(m) == m.head = A.head /\ m.protected = IdsOf(Audit(Seen)) /\ m.remove \cap m.protected = {}
\* _require_removed
AllRemoved(m) == m.remove \cap IdsOf(Seen) = {}

\* ordinary_retention_ids: some of the ordinary snapshots, by their ages.
SelectRemovals ==
    \E r \in SUBSET IdsOf(Seen \ Audit(Seen)) :
        Commit(<<[name |-> "maint", value |-> [head |-> A.head, protected |-> IdsOf(Audit(Seen)), remove |-> r, phase |-> "prepared"]]>>,
               "maintain-forget")

\* A new maintenance fixes its set; a resumed one goes on where it stood.
MaintenanceIntent ==
    /\ MStep("maintain-intent")
    /\ IF A.maint = None THEN SelectRemovals /\ UNCHANGED <<arch, op, seen, errors>>
       ELSE IF ~ProofUnchanged(A.maint) THEN Abort("protection-changed")
       ELSE IF A.maint.phase # "prepared" /\ ~AllRemoved(A.maint) THEN Abort("not-removed")
       ELSE /\ Goto(CASE A.maint.phase = "prepared" -> "maintain-forget"
                      [] A.maint.phase = "forgotten" -> "maintain-prune"
                      [] A.maint.phase = "pruning" -> "maintain-reverify"
                      [] OTHER -> "maintain-check")
            /\ UNCHANGED <<arch, op, plan, wrote, then, seen, errors>>
    /\ UNCHANGED remote /\ SameElse

\* forget_exact_ids
Forget ==
    /\ MStep("maintain-forget")
    /\ snaps' = {x \in snaps : x.id \notin A.maint.remove}
    /\ seen' = {} /\ Goto("maintain-verify-forgotten")
    /\ UNCHANGED <<arch, op, plan, wrote, then, errors, flight, used, ordinary>> /\ SameElse

ForgetInterrupted ==
    /\ MStep("maintain-forget") /\ faults < MaxFaults
    /\ faults' = faults + 1
    /\ \E gone \in SUBSET A.maint.remove : snaps' = {x \in snaps : x.id \notin gone}
    /\ EndRun
    /\ UNCHANGED <<count, dir, arch, stage, flight, used, ordinary, fresh, errors>>

\* After each destructive step the proof and the removal are looked at again.
Phase(l, p, next) ==
    /\ MStep(l)
    /\ IF ~ProofUnchanged(A.maint) THEN Abort("protection-changed")
       ELSE IF ~AllRemoved(A.maint) THEN Abort("not-removed")
       ELSE Commit(<<[name |-> "maint", value |-> [A.maint EXCEPT !.phase = p]]>>, next) /\ UNCHANGED <<arch, op, seen, errors>>
    /\ UNCHANGED remote /\ SameElse

Forgotten == Phase("maintain-forgotten", "forgotten", "maintain-prune")
Pruning == Phase("maintain-prune", "pruning", "maintain-check")
PruneAgain == Phase("maintain-prune-again", "pruning", "maintain-check")
Checked == Phase("maintain-checked", "checked", "maintain-remove")

\* prune_repository, check_repository: then everything is verified once more.
Recheck ==
    /\ op = "maintain" /\ at \in {"maintain-check", "maintain-reverify"}
    /\ seen' = {}
    /\ Goto(IF at = "maintain-check" THEN "maintain-verify-pruned" ELSE "maintain-verify-pruning")
    /\ UNCHANGED <<arch, op, plan, wrote, then, errors>> /\ UNCHANGED remote /\ SameElse

RemoveMaintenance ==
    /\ MStep("maintain-remove")
    /\ Commit(<<[name |-> "maint", value |-> None]>>, "end")
    /\ UNCHANGED <<arch, op, seen, errors>> /\ UNCHANGED remote /\ SameElse

-----------------------------------------------------------------------------
\* The process is killed, or its service fails and reports it.
Kill ==
    /\ op # None /\ faults < MaxFaults
    /\ faults' = faults + 1
    /\ EndRun
    /\ UNCHANGED <<count, dir, arch, stage, remote, fresh, errors>>

PowerLoss ==
    /\ faults < MaxFaults
    /\ faults' = faults + 1
    /\ \E a \in Range(arch), l \in Range(dir) : arch' = <<a>> /\ dir' = <<l>>
    /\ EndRun
    /\ UNCHANGED <<count, stage, remote, fresh, errors>>

Archivist ==
    \/ WriteRecord \/ SyncRecord \/ Published \/ Verify \/ RotationWaits \/ CommitProof
    \/ PrepareRotation \/ StageAttempt \/ CreateSnapshot \/ DiscardStage
    \/ RemoveSource \/ RemoveSync \/ CompleteRotation
    \/ MaintenanceIntent \/ Forget \/ Forgotten \/ Pruning \/ PruneAgain \/ Checked \/ Recheck \/ RemoveMaintenance

Next ==
    \/ \E actor \in {"tenant", "administrator"} : AppendEntry(actor)
    \/ ProofAges \/ OrdinaryBackup
    \/ \E o \in {"verify", "rotate", "maintain"} : Begin(o)
    \/ Archivist
    \/ CreateInterrupted \/ SnapshotAppears \/ ForgetInterrupted \/ Kill \/ PowerLoss

Spec == Init /\ [][Next]_vars

\* The three services run from their timers and end.
FairSpec == Spec /\ WF_vars(Archivist) /\ \A o \in {"verify", "rotate", "maintain"} : SF_vars(Begin(o))

-----------------------------------------------------------------------------
TypeOK ==
    /\ count \in 1 .. MaxSegments
    /\ \A l \in Range(dir) : l \subseteq 0 .. count - 1
    /\ \A a \in Range(arch) :
        /\ a.head \in 0 .. MaxSegments
        /\ a.rot # None => a.rot.phase \in {"prepared", "discovered", "verified", "indexed"}
                           /\ (a.rot.phase = "prepared" <=> a.rot.ids = {})
        /\ a.maint # None => a.maint.phase \in {"prepared", "forgotten", "pruning", "checked"}
    /\ op \in {None, "verify", "rotate", "maintain"}
    /\ flight \cap snaps = {}

\* Whatever the host remembers after a kill or a loss of power, every reader of
\* the audit chain accepts it.
ChainReadable == \A a \in Range(arch), l \in Range(dir) : Readable(a, l)

\* Every segment of the chain is on the host, or archived under the committed
\* head with its index, its witness and the snapshot the index names.
HistoryKept ==
    \A a \in Range(arch), l \in Range(dir), n \in 0 .. count - 1 :
        n \in l \/ (n < a.head /\ \E s \in snaps : s.id = a.index[n].id /\ s.seg = n)

\* No audit snapshot is ever removed from the repository.
EvidenceStays == Audit(snaps) \subseteq snaps'

\* A second snapshot of one segment exists only if the first could not be seen
\* when it was asked for: no attempt is sent blindly.
NoBlindSnapshot == ~Late => \A x, y \in Audit(snaps) : x.seg = y.seg => x = y

\* The contradictions that stop rotation and maintenance for good are never met.
NoContradiction == errors = {}

\* Maintenance and an attempt that waits for its snapshot are never both pending:
\* each would make the other refuse to run.
NeverBothPending == ~(A.maint # None /\ A.rot # None /\ A.rot.seg = A.head)

\* A closed segment leaves the host, and a started maintenance ends.
ClosedSegmentLeaves == A.head + 1 >= count /\ Local = {count - 1} /\ A.rot = None
MaintenanceEnds == A.maint = None

\* Ordinary work is admitted again and again.
AdmissionReturns == Protected
=============================================================================
