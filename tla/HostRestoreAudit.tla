--------------------------- MODULE HostRestoreAudit ---------------------------
\* The audit chain of a restored host (host_restore_audit.py,
\* host_restore_audit_reconcile.py). A backup captures the chain as it stands
\* between two runs of the archivist; the host is lost later, after it may have
\* archived more. The restore brings the captured files to a new host, whose
\* inodes differ, proves every protected snapshot again, adopts the ones the
\* capture does not know, lets the ordinary archivist finish what was pending and
\* verifies the whole. It refuses a capture the repository has outlived.
EXTENDS AuditRotation
LOCAL INSTANCE SequencesExt
LOCAL INSTANCE FiniteSetsExt
LOCAL INSTANCE TLC

CONSTANT Ordered    \* the file system keeps the order of its metadata changes

RestoreAssumption == Ordered \in BOOLEAN

VARIABLES
    host,       \* running, restoring, done (the finalizers work), released or refused
    cap,        \* the capture the operator will select
    disc,       \* the audit snapshots proven in this invocation, or None
    receipt,    \* the attempt whose new source was recorded
    why         \* the reason of a refusal

restore == <<host, cap, disc, receipt, why>>
all == <<vars, restore>>

RestoreInit == Init /\ host = "running" /\ cap = None /\ disc = None /\ receipt = None /\ why = None

-----------------------------------------------------------------------------
\* The backup and the loss of the host

\* The open segment of the capture may never get another entry (full). What a
\* killed archivist left unsynced has reached the disk before a backup reads it.
Capture(full) ==
    /\ host = "running" /\ cap = None
    /\ Len(arch) = 1 /\ Len(dir) = 1
    /\ OrdinaryBackup
    /\ cap' = [id |-> used, arch |-> A, dir |-> Local, count |-> count, full |-> full]
    /\ UNCHANGED <<host, disc, receipt, why>>

\* The files of the capture have other inodes: a pending attempt is bound to a
\* source of the lost host.
Foreign(r) == "foreign" \in DOMAIN r
Restored(a) == IF a.rot = None THEN a ELSE [a EXCEPT !.rot = [foreign |-> TRUE] @@ a.rot]

Disaster ==
    /\ host = "running" /\ cap # None /\ cap.id \in IdsOf(snaps)
    /\ host' = "restoring"
    /\ arch' = <<Restored(cap.arch)>> /\ dir' = <<cap.dir>> /\ count' = cap.count
    /\ stage' = None /\ fresh' = FALSE
    /\ EndRun
    /\ UNCHANGED <<cap, disc, receipt, why, remote, errors, faults>>

-----------------------------------------------------------------------------
\* Discovery

\* Segments of the repository that hold events after the capture.
Later(s) == {x \in Audit(s) : x.seg > cap.count - 1 \/ (x.seg = cap.count - 1 /\ ~cap.full)}

\* require_captured_timeline: one chain from the first segment, inside the capture.
CapturedTimeline(s) ==
    LET segs == {x.seg : x \in Audit(s)}
    IN CASE segs # {} /\ segs # 0 .. Max(segs) -> "gap"
         [] Later(s) # {} -> "later"
         [] OTHER -> None

\* _require_local_reference: what the host already knows agrees with the copy.
LocalReference(x) ==
    /\ x.seg < A.head => Index(x.seg).attempt = x.attempt
    /\ x.seg = A.head /\ A.rot # None /\ A.rot.seg = x.seg => A.rot.attempt = x.attempt

DiscoveryError(s) ==
    CASE ~(Referenced \subseteq IdsOf(s)) -> "unavailable"
      [] \E x \in Audit(s) : ~LocalReference(x) -> "mismatch"
      [] \E x, y \in Audit(s) : x.seg = y.seg /\ x.attempt # y.attempt -> "fork"
      [] OTHER -> CapturedTimeline(s)

-----------------------------------------------------------------------------
\* reconstruct_audit

RStep(l) == op = "restore" /\ at = l
Still == UNCHANGED <<count, stage, remote, fresh, errors, faults>>
SameRun == UNCHANGED <<plan, wrote, then, seen>>

Refuse(e) == host' = "refused" /\ why' = e /\ EndRun

BeginRestore ==
    /\ host = "restoring" /\ op = None
    /\ op' = "restore" /\ Goto("restore-observe") /\ disc' = None
    /\ SameRun /\ Still
    /\ UNCHANGED <<dir, arch, host, cap, receipt, why>>

\* observe_archive, _require_boundary and, once per invocation, discover_restore_audit.
Discover ==
    /\ RStep("restore-observe")
    /\ LET error == IF ~Readable(A, Local) \/ count # cap.count THEN "boundary"
                    ELSE IF disc = None THEN DiscoveryError(snaps) ELSE None
       IN IF error # None
          THEN Refuse(error) /\ UNCHANGED <<disc, cap, receipt>>
          ELSE /\ disc' = IF disc = None THEN Audit(snaps) ELSE disc
               /\ Goto("restore-bind") /\ SameRun
               /\ UNCHANGED <<op, host, cap, receipt, why>>
    /\ Still /\ UNCHANGED <<dir, arch>>

\* A source that is gone needs no binding.
NeedsBinding(r) == r # None /\ r.seg \in Local /\ Foreign(r)

\* _rebind_source: the immutable receipt, then the attempt with the new source.
RecordSource ==
    /\ RStep("restore-bind") /\ NeedsBinding(A.rot) /\ receipt = None
    /\ receipt' = A.rot.attempt
    /\ Still /\ UNCHANGED <<dir, arch, run, host, cap, disc, why>>

RebindSource ==
    /\ RStep("restore-bind") /\ NeedsBinding(A.rot) /\ receipt # None
    /\ IF receipt # A.rot.attempt THEN Refuse("source-changed") /\ UNCHANGED <<disc, cap, receipt>>
       ELSE /\ Commit(<<[name |-> "rot", value |-> [k \in DOMAIN A.rot \ {"foreign"} |-> A.rot[k]]]>>, "restore-indexed")
            /\ UNCHANGED <<op, seen, restore>>
    /\ Still /\ UNCHANGED <<dir, arch>>

\* A source that is gone was removed by an indexed attempt.
SourceBound ==
    /\ RStep("restore-bind") /\ ~NeedsBinding(A.rot)
    /\ IF A.rot # None /\ A.rot.seg \notin Local /\ ~(A.rot.phase = "indexed" /\ A.rot.seg < A.head)
       THEN Refuse("lost-source") /\ UNCHANGED <<disc, cap, receipt>>
       ELSE Goto("restore-indexed") /\ SameRun /\ UNCHANGED <<op, restore>>
    /\ Still /\ UNCHANGED <<dir, arch>>

IndexedPending == A.rot # None /\ A.rot.seg < A.head

\* next_restore_segment: the copies of the segment after the head.
NextCopies == {x \in disc : x.seg = A.head}

\* _finish_indexed: the end of an attempt whose segment is committed.
FinishPhase ==
    /\ RStep("restore-indexed") /\ IndexedPending /\ A.rot.phase # "indexed"
    /\ Commit(<<[name |-> "rot", value |-> [A.rot EXCEPT !.phase = "indexed"]]>>, "restore-indexed")
    /\ Still /\ UNCHANGED <<op, seen, dir, arch, restore>>

\* remove_indexed_source: proven in this invocation, from the bound source.
FinishRemove ==
    /\ RStep("restore-indexed") /\ IndexedPending /\ A.rot.phase = "indexed"
    /\ IF ~(A.rot.ids \cup {Index(A.rot.seg).id} \subseteq IdsOf(disc)) \/ NeedsBinding(A.rot) \/ (A.rot.seg \in Local /\ Foreign(A.rot))
       THEN Refuse("unproven") /\ UNCHANGED <<dir, disc, cap, receipt>>
       ELSE /\ dir' = IF A.rot.seg \in Local THEN Append(dir, Local \ {A.rot.seg}) ELSE dir
            /\ Goto("restore-remove-sync") /\ SameRun /\ UNCHANGED <<op, restore>>
    /\ Still /\ UNCHANGED arch

\* The directory's fsync, then complete_rotation. An ordered file system commits
\* the earlier changes of the other directory with it.
FinishSync ==
    /\ RStep("restore-remove-sync")
    /\ dir' = <<Local>> /\ arch' = (IF Ordered THEN <<A>> ELSE arch)
    /\ Commit(<<[name |-> "rot", value |-> None]>>, "restore-observe")
    /\ Still /\ UNCHANGED <<op, seen, restore>>

\* The records of an adoption: no status and no duplicates before the end.
AdoptRecords ==
    LET o == CHOOSE x \in NextCopies : \A y \in NextCopies : x.id <= y.id
        n == A.head
        r == [seg |-> n, attempt |-> o.attempt, phase |-> "verified", ids |-> IdsOf(NextCopies)]
        index == [k \in DOMAIN A.index \cup {n} |-> IF k = n THEN OrphanIndex(o) ELSE A.index[k]]
    IN <<[name |-> "rot", value |-> r], [name |-> "witness", value |-> A.witness \cup {n}],
         [name |-> "index", value |-> index], [name |-> "head", value |-> n + 1],
         [name |-> "rot", value |-> [r EXCEPT !.phase = "indexed"]]>>

\* _adopt_next, _index_for_orphan
Adopt ==
    /\ RStep("restore-indexed") /\ ~IndexedPending /\ NextCopies # {}
    /\ LET error == CASE A.maint # None -> "maintenance"
                      [] count <= A.head + 1 -> "no-successor"
                      [] A.rot # None /\ Foreign(A.rot) -> "source-changed"
                      [] OTHER -> None
       IN IF error # None THEN Refuse(error) /\ UNCHANGED <<disc, cap, receipt>>
          ELSE Commit(AdoptRecords, "restore-indexed") /\ UNCHANGED <<op, seen, restore>>
    /\ Still /\ UNCHANGED <<dir, arch>>

\* The ordinary archivist: rotate_archive, maintain_archive or the last verify_archive.
HandOver(o, label) ==
    /\ op' = o /\ Goto(label) /\ seen' = {} /\ disc' = (IF o = "verify" THEN disc ELSE None)
    /\ UNCHANGED <<plan, wrote, then, host, cap, receipt, why>>

Finished == RStep("restore-indexed") /\ ~IndexedPending /\ NextCopies = {}

Resume ==
    /\ Finished
    /\ IF A.rot # None THEN HandOver("rotate", "rotate-verify")
       ELSE IF A.maint = None THEN HandOver("verify", "verify")
       ELSE IF cap.id \in A.maint.remove THEN Refuse("retention") /\ UNCHANGED <<disc, cap, receipt>>
       ELSE IF A.maint.head # A.head \/ A.maint.protected # IdsOf(disc)
       THEN Refuse("protection-changed") /\ UNCHANGED <<disc, cap, receipt>>
       ELSE HandOver("maintain", "maintain-verify")
    /\ Still /\ UNCHANGED <<dir, arch>>

\* The last verification has the inventory that was discovered.
Ending == host \in {"restoring", "done"} /\ op = "verify" /\ at = "publish" /\ plan = << >>

Complete ==
    /\ Ending
    /\ IF Audit(Seen) # disc
       THEN errors' = errors \cup {"inventory-changed"} /\ UNCHANGED host
       ELSE host' = (IF host = "restoring" THEN "done" ELSE "released") /\ UNCHANGED errors
    /\ EndRun /\ disc' = None
    /\ UNCHANGED <<count, dir, arch, stage, remote, fresh, faults, cap, receipt, why>>

\* verify_reconstructed_audit, after the finalizers appended: nothing is pending
\* and the captured prefix is proven again before the host is released.
VerifyReconstructed ==
    /\ host = "done" /\ op = None
    /\ IF A.rot # None \/ A.maint # None \/ count < cap.count \/ DiscoveryError(snaps) # None
       THEN Refuse("reappeared") /\ UNCHANGED <<disc, cap, receipt>>
       ELSE op' = "verify" /\ Goto("verify") /\ disc' = Audit(snaps) /\ SameRun
            /\ UNCHANGED <<host, cap, receipt, why>>
    /\ Still /\ UNCHANGED <<dir, arch>>

-----------------------------------------------------------------------------
\* What a loss of power may leave: with ordered metadata a removed segment implies
\* the records written before it.
Survives(a, l) == Ordered /\ Len(dir) > 1 /\ l = Local => a = A

PowerFails == PowerLoss /\ Survives(Last(arch'), Last(dir'))

Coordinator ==
    \/ Discover \/ RecordSource \/ RebindSource \/ SourceBound \/ FinishPhase \/ FinishRemove
    \/ FinishSync \/ Adopt \/ Resume \/ Complete
    \/ host \in {"restoring", "done"} /\ ~Ending /\ Archivist /\ UNCHANGED restore

Restoring ==
    \/ BeginRestore \/ Coordinator \/ VerifyReconstructed
    \/ host = "done" /\ AppendEntry("administrator") /\ UNCHANGED restore
    \/ host \in {"restoring", "done"} /\ (CreateInterrupted \/ ForgetInterrupted \/ Kill \/ PowerFails)
       /\ disc' = None /\ UNCHANGED <<host, cap, receipt, why>>

\* The life of the host before its loss; what it does after the restore is
\* AuditRotation's subject.
Running ==
    \/ AppendEntry("administrator") \/ OrdinaryBackup \/ \E o \in {"rotate", "maintain"} : Begin(o)
    \/ Archivist \/ CreateInterrupted \/ ForgetInterrupted \/ Kill \/ PowerFails

RestoreNext ==
    \/ host = "running" /\ Running /\ UNCHANGED restore
    \/ \E full \in BOOLEAN : Capture(full)
    \/ Disaster
    \/ Restoring

RestoreSpec == RestoreInit /\ [][RestoreNext]_all

\* The coordinator goes on, and the operator resumes a restore that stopped.
RestoreFairSpec == RestoreSpec /\ WF_all(Coordinator) /\ WF_all(BeginRestore) /\ WF_all(VerifyReconstructed)

-----------------------------------------------------------------------------
RestoreTypeOK ==
    /\ host \in {"running", "restoring", "done", "released", "refused"}
    /\ cap # None => cap.dir \subseteq 0 .. cap.count - 1
    /\ disc # None => disc \subseteq Audit(snaps)
    /\ receipt # None => receipt < used
    /\ why # None <=> host = "refused"

\* Whatever survives a loss of power, before, while and after the host is restored,
\* every reader of the chain accepts it.
AlwaysReadable == \A a \in Range(arch), l \in Range(dir) : Survives(a, l) => Readable(a, l)

\* A segment leaves the new host only after its verified snapshot is durably
\* indexed there: whatever survives, each segment of the captured chain is local or
\* archived under the head.
AlwaysKept ==
    \A a \in Range(arch), l \in Range(dir), n \in 0 .. count - 1 :
        Survives(a, l) =>
            n \in l \/ (n < a.head /\ \E s \in snaps : s.id = a.index[n].id /\ s.seg = n)

\* A restore stops for good only when the repository holds more than the capture:
\* later segments, or new ones beside a maintenance the capture left pending.
RefusedForCause ==
    host = "refused" =>
        \/ why = "later" /\ Later(snaps) # {}
        \/ why = "no-successor" /\ \E x \in Audit(snaps) : x.seg = cap.count - 1
        \/ why = "maintenance" /\ cap.arch.maint # None /\ \E x \in Audit(snaps) : x.seg >= cap.arch.head

\* While the repository proves events after the capture, nothing of the captured
\* authority is changed: the timeline is judged before any index is extended.
NothingExtended == host \in {"restoring", "refused"} /\ Later(snaps) # {} => A = Restored(cap.arch) /\ Local = cap.dir

\* The archivist never meets an attempt whose source is of the lost host.
SourcesBound == op \in {"rotate", "verify", "maintain"} /\ A.rot # None /\ A.rot.seg \in Local => ~Foreign(A.rot)

\* A restore is done when every audit snapshot is known to the new host, nothing is
\* pending, and the head is the one that was proven.
CompleteWhenDone ==
    host = "restoring" /\ host' = "done" =>
     /\ IdsOf(Audit(snaps)) = Referenced /\ A.rot = None /\ A.maint = None
     /\ A.status = [category |-> "verified", head |-> A.head] /\ count = cap.count

\* A restore ends: the host is released, or the capture is refused.
RestoreSettles == host \notin {"restoring", "done"}
=============================================================================
