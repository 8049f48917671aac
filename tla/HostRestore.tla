---------------------------- MODULE HostRestore ----------------------------
\* Reconstruction of a host from a backup (host_restore_*.py): the source host
\* is fenced, the coordinator on the destination restores private roots,
\* reconciles them, swaps them in with fresh kernel locks, starts Caddy behind
\* a closed firewall, proves its certificates and only then admits ordinary
\* work and public traffic.
\*
\* Restore r carries the service from host r to host r + 1, so a chain of hosts
\* is fenced and rebuilt one after the other.  Processes can be killed between
\* any two durable writes, hosts can reboot (losing runtime masks, the firewall
\* table and the volatile schedule marker) and Caddy can die.
EXTENDS Naturals, Sequences, FiniteSets

CONSTANTS
    N,              \* hosts of the chain
    MaxAttempts,    \* MAX_CADDY_START_ATTEMPTS
    MaxCrashes,     \* coordinator and fence processes killed or out of time
    MaxReboots,     \* host reboots
    MaxDeaths,      \* Caddy processes that die
    None

HostRestoreAssumption ==
    /\ N \in Nat \ {0} /\ MaxAttempts \in Nat \ {0}
    /\ MaxCrashes \in Nat /\ MaxReboots \in Nat /\ MaxDeaths \in Nat

Hosts == 1..N
Restores == 1..(N - 1)
SourceOf(r) == r
DestinationOf(r) == r + 1

\* RestorePhase, in order.
Phases == <<"prepared", "restored", "validated", "reconciled",
            "runtime-prepared", "installed", "verified", "complete">>
PhaseNames == {Phases[n] : n \in DOMAIN Phases}
Index(p) == CHOOSE n \in DOMAIN Phases : Phases[n] = p
Successor(p) == Phases[Index(p) + 1]

RootOrder == <<"caddy", "content", "state">>
LockOrder == <<"intake", "export", "publication", "tenant-state">>
Names(order) == {order[n] : n \in DOMAIN order}
Roots == Names(RootOrder)
Locks == Names(LockOrder)

VARIABLES
    gate,           \* host -> restore named by restore-gate.json, or None
    journal,        \* host -> [restore, phase] of host-restore.json, or None
    history,        \* host -> phases with an immutable journal-<phase>.json
    receipts,       \* host -> phases with an immutable <phase>.json
    evidence,       \* host -> other immutable records of the restore
    proof,          \* host -> Caddy invocation verified.json names, or 0
    ingress,        \* host -> ingress-pending.json exists
    fenced,         \* restores whose source-fence receipt was written
    roots,          \* host -> root -> where the candidate and its prior are
    locks,          \* host -> lock -> which inode has the active name
    intent,         \* host -> Caddy start intent of the restore, or None
    certs,          \* host -> Caddy storage holds the certificates
    masked,         \* host -> unit groups masked until the next boot
    ready,          \* host -> the volatile schedules-ready marker
    firewall,       \* host -> the restore table drops public web traffic
    caddy,          \* host -> running Caddy invocation, or 0
    invocations,    \* host -> Caddy invocations so far
    ordinary,       \* host -> some ordinary unit runs
    session,        \* host -> a forced-command session passed admission
    proc,           \* host -> holder of host-restore.lock, or None
    crashes, reboots, deaths

durable == <<gate, journal, history, receipts, evidence, proof, ingress, fenced>>
trees == <<roots, locks>>
units == <<masked, ready, firewall, ordinary, session>>
process == <<intent, certs, caddy, invocations>>
counters == <<crashes, reboots, deaths>>
vars == <<durable, trees, units, process, proc, counters>>

At(h, pc) == proc[h] # None /\ proc[h].pc = pc
Goto(h, pc) == proc' = [proc EXCEPT ![h].pc = pc]
Fail(h) == proc' = [proc EXCEPT ![h] = None] /\ UNCHANGED <<durable, trees, units, process, counters>>
Phase(h) == IF journal[h] = None THEN 0 ELSE Index(journal[h].phase)
Reached(h, p) == Phase(h) >= Index(p)
Completed(h) == Reached(h, "complete")
Restore(h) == proc[h].restore

\* The host holds the tenants' authority: it is the first of the chain, or all
\* its roots were swapped in and all its kernel locks are fresh.
RootsInstalled(h) == \A n \in Roots : roots[h][n] = "installed"
LocksFresh(h) == \A n \in Locks : locks[h][n] = "fresh"
Authority(h) == RootsInstalled(h) /\ LocksFresh(h)
Serving(h) == caddy[h] # 0 /\ ~firewall[h]
Working(h) == ordinary[h] \/ session[h]

-----------------------------------------------------------------------------
\* Admission.

\* Reading the gate or the ingress marker fails when it is another restore's.
GateForeign(h) == gate[h] # None /\ (journal[h] = None \/ journal[h].restore # gate[h])
GatePending(h) == gate[h] # None

\* Mutant of RestoreAdmission: a gate of any phase admits.
MutantAdmissionAnyPhase(h, forCaddy, boot) ==
    IF gate[h] = None
    THEN journal[h] = None \/ (Completed(h) /\ ~(boot /\ ingress[h]))
    ELSE ~GateForeign(h) /\ (forCaddy => Reached(h, "installed"))

RestoreAdmission(h, forCaddy, boot) ==
    IF gate[h] = None
    THEN journal[h] = None \/ (Completed(h) /\ ~(boot /\ ingress[h]))
    ELSE ~GateForeign(h) /\ forCaddy /\ Reached(h, "installed")

\* The boot gate: a present gate, or a refused boot admission, closes the
\* firewall before Caddy or any firewall reload can admit traffic.
BootFirewall(h) == gate[h] # None \/ ~RestoreAdmission(h, FALSE, TRUE)

\* require_restore_startup: until completion only the restore's own start
\* intent may start Caddy, and only once the roots are installed.
RequireRestoreStartup(h) ==
    \/ journal[h] = None
    \/ Completed(h) /\ intent[h] = None
    \/ intent[h] # None /\ intent[h].restore = journal[h].restore /\ Reached(h, "installed")

\* prepare_start: a start is refused before the generation is selected, and
\* after the bounded number of attempts.
PrepareStart(h) ==
    IF intent[h] = None THEN intent
    ELSE [intent EXCEPT ![h] = [@ EXCEPT !.phase = "candidate-starting", !.attempts = @ + 1]]

StartAdmitted(h) ==
    /\ "caddy" \notin masked[h]
    /\ roots[h]["caddy"] = "installed"
    /\ RestoreAdmission(h, TRUE, FALSE)
    /\ RequireRestoreStartup(h)
    /\ intent[h] # None => intent[h].phase # "candidate-prepared" /\ intent[h].attempts < MaxAttempts

Launch(h) ==
    /\ intent' = PrepareStart(h)
    /\ invocations' = [invocations EXCEPT ![h] = @ + 1]
    /\ caddy' = [caddy EXCEPT ![h] = invocations[h] + 1]
    /\ UNCHANGED certs

\* systemd starts Caddy: at boot, or after it died.
StartCaddy(h) ==
    /\ caddy[h] = 0 /\ StartAdmitted(h) /\ Launch(h)
    /\ UNCHANGED <<durable, trees, units, proc, counters>>

\* A timer, a socket or a boot dependency starts an ordinary unit, whose
\* ExecStartPre and entry point both ask for admission.
StartOrdinary(h) ==
    /\ ~ordinary[h] /\ "ordinary" \notin masked[h] /\ RestoreAdmission(h, FALSE, FALSE)
    /\ ordinary' = [ordinary EXCEPT ![h] = TRUE]
    /\ UNCHANGED <<durable, trees, masked, ready, firewall, session, process, proc, counters>>

StopOrdinary(h) ==
    /\ ordinary[h]
    /\ ordinary' = [ordinary EXCEPT ![h] = FALSE]
    /\ UNCHANGED <<durable, trees, masked, ready, firewall, session, process, proc, counters>>

\* An operator's forced command holds the artifact-selection lock shared; the
\* fence holds it exclusively.
StartSession(h) ==
    /\ ~session[h] /\ Authority(h) /\ RestoreAdmission(h, FALSE, FALSE)
    /\ proc[h] # None => proc[h].kind # "fence"
    /\ session' = [session EXCEPT ![h] = TRUE]
    /\ UNCHANGED <<durable, trees, masked, ready, firewall, ordinary, process, proc, counters>>

EndSession(h) ==
    /\ session[h]
    /\ session' = [session EXCEPT ![h] = FALSE]
    /\ UNCHANGED <<durable, trees, masked, ready, firewall, ordinary, process, proc, counters>>

-----------------------------------------------------------------------------
\* Steps the fence and the coordinator share.

\* close_gate: the immutable gate record is written before anything stops; a
\* gate of another restore is a conflict.
CloseGate(h, next) ==
    /\ At(h, "gate")
    /\ IF gate[h] \in {None, Restore(h)}
       THEN /\ gate' = [gate EXCEPT ![h] = Restore(h)] /\ Goto(h, next)
            /\ UNCHANGED <<journal, history, receipts, evidence, proof, ingress, fenced,
                           trees, units, process, counters>>
       ELSE Fail(h)

ClosePublicIngress(h) ==
    /\ At(h, "ingress")
    /\ firewall' = [firewall EXCEPT ![h] = TRUE] /\ Goto(h, "mask")
    /\ UNCHANGED <<durable, trees, masked, ready, ordinary, session, process, counters>>

\* quiesce_host: Caddy is left alone once the roots are installed.
StopsCaddy(h) == proc[h].kind = "fence" \/ ~Reached(h, "installed")

MaskUnits(h) ==
    /\ At(h, "mask")
    /\ ready' = [ready EXCEPT ![h] = FALSE]
    /\ masked' = [masked EXCEPT ![h] = @ \cup {"ordinary"} \cup
                                       IF StopsCaddy(h) THEN {"caddy"} ELSE {}]
    /\ Goto(h, "stop")
    /\ UNCHANGED <<durable, trees, firewall, ordinary, session, process, counters>>

StopUnits(h) ==
    /\ At(h, "stop")
    /\ ordinary' = [ordinary EXCEPT ![h] = FALSE]
    /\ caddy' = IF StopsCaddy(h) THEN [caddy EXCEPT ![h] = 0] ELSE caddy
    /\ Goto(h, IF proc[h].kind = "fence" THEN "receipt" ELSE "begin")
    /\ UNCHANGED <<durable, trees, masked, ready, firewall, session, intent, certs,
                   invocations, counters>>

-----------------------------------------------------------------------------
\* source_fence_receipt, under the exclusive selection lock.

StartFence(r) ==
    LET h == SourceOf(r) IN
    /\ proc[h] = None /\ r \notin fenced /\ Authority(h) /\ ~session[h]
    /\ proc' = [proc EXCEPT ![h] = [kind |-> "fence", restore |-> r, pc |-> "gate", seen |-> 0]]
    /\ UNCHANGED <<durable, trees, units, process, counters>>

FenceReceipt(h) ==
    /\ At(h, "receipt") /\ proc[h].kind = "fence"
    /\ fenced' = IF ordinary[h] \/ caddy[h] # 0 THEN fenced ELSE fenced \cup {Restore(h)}
    /\ proc' = [proc EXCEPT ![h] = None]
    /\ UNCHANGED <<gate, journal, history, receipts, evidence, proof, ingress,
                   trees, units, process, counters>>

-----------------------------------------------------------------------------
\* The coordinator: HostRestore.run.

\* require_source_fence: the receipt the source wrote.
SourceFenced(r) == r \in fenced

\* The operator starts the coordinator with the transferred fence receipt.  A
\* completed restore whose admission was committed only finishes its ingress;
\* a completed one still gated compares its bindings; another restore's journal
\* or gate is refused.
StartRestore(r) ==
    LET h == DestinationOf(r)
        Enter(pc) == proc' = [proc EXCEPT ![h] = [kind |-> "restore", restore |-> r,
                                                  pc |-> pc, seen |-> 0]]
    IN
    /\ proc[h] = None /\ SourceFenced(r)
    /\ journal[h] # None => journal[h].restore = r /\ (Completed(h) => ~GateForeign(h))
    /\ IF Completed(h) /\ ~GatePending(h)
       THEN ingress[h] /\ Enter("firewall")
       ELSE Enter("gate")
    /\ UNCHANGED <<durable, trees, units, process, counters>>

\* begin_restore_authority: the immutable first history record, then the
\* journal; a restore that began before must have the same bindings.
BeginHistory(h) ==
    /\ At(h, "begin")
    /\ IF journal[h] = None
       THEN history' = [history EXCEPT ![h] = @ \cup {"prepared"}] /\ Goto(h, "journal")
       ELSE history' = history /\ Goto(h, "cold")
    /\ UNCHANGED <<gate, journal, receipts, evidence, proof, ingress, fenced,
                   trees, units, process, counters>>

BeginJournal(h) ==
    /\ At(h, "journal")
    /\ journal' = [journal EXCEPT ![h] = [restore |-> Restore(h), phase |-> "prepared"]]
    /\ Goto(h, "cold")
    /\ UNCHANGED <<gate, history, receipts, evidence, proof, ingress, fenced,
                   trees, units, process, counters>>

\* require_cold_storage: Caddy's storage is empty when the receipt is first
\* written, and stays so until the roots are installed.
ColdStorage(h) ==
    /\ "cold-storage" \in evidence[h] \/ journal[h].phase = "prepared"
    /\ ~Reached(h, "installed") => ~certs[h]

RequireColdStorage(h) ==
    /\ At(h, "cold")
    /\ IF ColdStorage(h)
       THEN /\ evidence' = [evidence EXCEPT ![h] = @ \cup {"cold-storage"}]
            /\ Goto(h, IF Reached(h, "verified") THEN "verify" ELSE "phase")
            /\ UNCHANGED <<gate, journal, history, receipts, proof, ingress, fenced,
                           trees, units, process, counters>>
       ELSE Fail(h)

InPhase(h, phase) == At(h, "phase") /\ journal[h].phase = phase
Pending(order, place, done) == SelectSeq(order, LAMBDA n : place[n] # done)

\* _materialize: each private root is bound by an immutable identity record and
\* filled by a verified restic restore, which is repeated as often as needed.
Materialize(h) ==
    /\ InPhase(h, "prepared")
    /\ \E n \in {"content", "state"} :
        /\ roots[h][n] = "absent"
        /\ n = "state" => roots[h]["content"] = "candidate"
        /\ roots' = [roots EXCEPT ![h][n] = "candidate"]
        /\ proc' = IF n = "state" THEN [proc EXCEPT ![h].pc = "receipt"] ELSE proc
    /\ UNCHANGED <<durable, locks, units, process, counters>>

Materialized(h) ==
    /\ InPhase(h, "prepared") /\ roots[h]["state"] = "candidate"
    /\ Goto(h, "receipt")
    /\ UNCHANGED <<durable, trees, units, process, counters>>

\* _validate and the rest of _reconcile read the private roots, or settle them
\* (module RestoreReconcile); the audit chain is rebuilt once, under a marker.
Validate(h) ==
    /\ InPhase(h, "restored") /\ Goto(h, "receipt")
    /\ UNCHANGED <<durable, trees, units, process, counters>>

Reconcile(h) ==
    /\ InPhase(h, "validated")
    /\ IF "audit-done" \in evidence[h]
       THEN evidence' = evidence /\ Goto(h, "receipt")
       ELSE evidence' = [evidence EXCEPT ![h] = @ \cup {"audit-done"}] /\ proc' = proc
    /\ UNCHANGED <<gate, journal, history, receipts, proof, ingress, fenced,
                   trees, units, process, counters>>

\* prepare_restored_runtime: the private Caddy root with its one generation,
\* the committed mapping, the start intent and the selection.
PrepareLayout(h) ==
    /\ InPhase(h, "reconciled") /\ roots[h]["caddy"] = "absent"
    /\ roots' = [roots EXCEPT ![h]["caddy"] = "candidate"]
    /\ UNCHANGED <<durable, locks, units, process, proc, counters>>

BeginHostRestore(h) ==
    /\ InPhase(h, "reconciled") /\ roots[h]["caddy"] = "candidate" /\ intent[h] = None
    /\ evidence' = [evidence EXCEPT ![h] = @ \cup {"runtime-mapping"}]
    /\ intent' = [intent EXCEPT ![h] = [restore |-> Restore(h), phase |-> "candidate-prepared",
                                        attempts |-> 0]]
    /\ UNCHANGED <<gate, journal, history, receipts, proof, ingress, fenced, trees, units,
                   certs, caddy, invocations, proc, counters>>

SelectRuntime(h) ==
    /\ InPhase(h, "reconciled") /\ intent[h] # None
    /\ IF intent[h].phase \in {"candidate-prepared", "restart-required"}
       THEN /\ intent' = [intent EXCEPT ![h].phase = "restart-required"]
            /\ Goto(h, "receipt")
            /\ UNCHANGED <<durable, trees, units, certs, caddy, invocations, counters>>
       ELSE Fail(h)

\* install_roots: inode evidence before the first rename, then two renames per
\* root; what is found in place decides where an interrupted swap goes on.
RecordRoots(h) ==
    /\ InPhase(h, "runtime-prepared") /\ "root-install" \notin evidence[h]
    /\ IF ordinary[h] \/ caddy[h] # 0 \/ \E n \in Roots : roots[h][n] # "candidate"
       THEN Fail(h)
       ELSE /\ evidence' = [evidence EXCEPT ![h] = @ \cup {"root-install"}]
            /\ UNCHANGED <<gate, journal, history, receipts, proof, ingress, fenced, trees,
                           units, process, proc, counters>>

InstallRoot(h) ==
    /\ InPhase(h, "runtime-prepared") /\ "root-install" \in evidence[h]
    /\ LET left == Pending(RootOrder, roots[h], "installed") IN
        /\ left # <<>>
        /\ roots' = [roots EXCEPT ![h][Head(left)] =
                        IF @ = "candidate" THEN "moved" ELSE "installed"]
    /\ UNCHANGED <<durable, locks, units, process, proc, counters>>

\* recreate_kernel_locks: the restored lock files are set aside and fresh inodes
\* take their names, with the same evidence and the same two renames.
RecordLocks(h) ==
    /\ InPhase(h, "runtime-prepared") /\ Pending(RootOrder, roots[h], "installed") = <<>>
    /\ "kernel-locks" \notin evidence[h]
    /\ evidence' = [evidence EXCEPT ![h] = @ \cup {"kernel-locks"}]
    /\ UNCHANGED <<gate, journal, history, receipts, proof, ingress, fenced, trees,
                   units, process, proc, counters>>

ReplaceLock(h) ==
    /\ InPhase(h, "runtime-prepared") /\ "kernel-locks" \in evidence[h]
    /\ LET left == Pending(LockOrder, locks[h], "fresh") IN
        IF left = <<>>
        THEN locks' = locks /\ Goto(h, "receipt")
        ELSE /\ locks' = [locks EXCEPT ![h][Head(left)] =
                            IF @ = "original" THEN "moved" ELSE "fresh"]
             /\ proc' = proc
    /\ UNCHANGED <<durable, roots, units, process, counters>>

\* _verify: the installed roots and locks, quiescence, then Caddy's start.
VerifyInstalled(h) ==
    /\ At(h, "verify") \/ InPhase(h, "installed")
    /\ IF Authority(h) /\ ~ordinary[h] /\ ColdStorage(h)
       THEN Goto(h, "start") /\ UNCHANGED <<durable, trees, units, process, counters>>
       ELSE Fail(h)

CoordinatorStart(h) ==
    /\ At(h, "start")
    /\ masked' = [masked EXCEPT ![h] = @ \ {"caddy"}]
    /\ Goto(h, "launch")
    /\ UNCHANGED <<durable, trees, ready, firewall, ordinary, session, process, counters>>

CoordinatorLaunch(h) ==
    /\ At(h, "launch")
    /\ IF caddy[h] # 0
       THEN Goto(h, "running") /\ UNCHANGED <<durable, trees, units, process, counters>>
       ELSE IF StartAdmitted(h)
            THEN Launch(h) /\ Goto(h, "running") /\ UNCHANGED <<durable, trees, units, counters>>
            ELSE Fail(h)

\* verify_installed_runtime: the running invocation is the restore's own start.
VerifyRunning(h) ==
    /\ At(h, "running")
    /\ IF caddy[h] # 0 /\ RequireRestoreStartup(h)
       THEN /\ proc' = [proc EXCEPT ![h].seen = caddy[h], ![h].pc = "tls"]
            /\ UNCHANGED <<durable, trees, units, process, counters>>
       ELSE Fail(h)

\* verify_cold_tls, as far as the certificates go.
Certified(h) == certs[h]

\* The certificates are awaited until the coordinator's deadline; then the same
\* invocation must still be running.
VerifyTls(h) ==
    /\ At(h, "tls") /\ Certified(h)
    /\ IF caddy[h] = proc[h].seen
       THEN /\ Goto(h, IF journal[h].phase = "installed" THEN "receipt"
                       ELSE IF Completed(h) THEN "startup" ELSE "receipt")
            /\ UNCHANGED <<durable, trees, units, process, counters>>
       ELSE Fail(h)

\* The ACME issuer, through Caddy: external.
IssueCertificates(h) ==
    /\ caddy[h] # 0 /\ ~certs[h]
    /\ certs' = [certs EXCEPT ![h] = TRUE]
    /\ UNCHANGED <<durable, trees, units, intent, caddy, invocations, proc, counters>>

-----------------------------------------------------------------------------
\* RestoreStore.advance: the immutable receipt, the immutable history record,
\* then the journal.  The verified receipt names the Caddy invocation, so a
\* receipt left by an earlier attempt conflicts with that of a later invocation.

ReceiptPhase(h) == Successor(journal[h].phase)
Conflicts(h) == /\ journal[h].phase = "installed" /\ "verified" \in receipts[h]
                /\ proof[h] # proc[h].seen

WriteReceipt(h) ==
    /\ At(h, "receipt") /\ proc[h].kind = "restore"
    /\ IF Conflicts(h) THEN Fail(h)
       ELSE /\ receipts' = [receipts EXCEPT ![h] = @ \cup {ReceiptPhase(h)}]
            /\ proof' = [proof EXCEPT ![h] = IF journal[h].phase = "installed"
                                             THEN proc[h].seen ELSE @]
            /\ Goto(h, "history")
            /\ UNCHANGED <<gate, journal, history, evidence, ingress, fenced,
                           trees, units, process, counters>>

WriteHistory(h) ==
    /\ At(h, "history")
    /\ history' = [history EXCEPT ![h] = @ \cup {ReceiptPhase(h)}]
    /\ Goto(h, "replace")
    /\ UNCHANGED <<gate, journal, receipts, evidence, proof, ingress, fenced,
                   trees, units, process, counters>>

\* After verified the loop seals the provenance; after complete it activates.
AdvanceJournal(h) ==
    /\ At(h, "replace")
    /\ journal' = [journal EXCEPT ![h].phase = ReceiptPhase(h)]
    /\ Goto(h, CASE ReceiptPhase(h) = "verified" -> "receipt"
                 [] ReceiptPhase(h) = "complete" -> "startup"
                 [] OTHER -> "phase")
    /\ UNCHANGED <<gate, history, receipts, evidence, proof, ingress, fenced,
                   trees, units, process, counters>>

-----------------------------------------------------------------------------
\* activate_completed_restore and finish_public_ingress.

CompleteStartup(h) ==
    /\ At(h, "startup")
    /\ IF intent[h] = None \/ intent[h].phase = "candidate-starting"
       THEN /\ intent' = [intent EXCEPT ![h] = None] /\ Goto(h, "ready")
            /\ UNCHANGED <<durable, trees, units, certs, caddy, invocations, counters>>
       ELSE Fail(h)

RestoreSchedules(h) ==
    /\ At(h, "ready")
    /\ ready' = [ready EXCEPT ![h] = TRUE]
    /\ masked' = [masked EXCEPT ![h] = @ \ {"ordinary"}]
    /\ Goto(h, "pending")
    /\ UNCHANGED <<durable, trees, firewall, ordinary, session, process, counters>>

IngressReady(h) ==
    /\ At(h, "pending")
    /\ ingress' = [ingress EXCEPT ![h] = TRUE] /\ Goto(h, "open")
    /\ UNCHANGED <<gate, journal, history, receipts, evidence, proof, fenced,
                   trees, units, process, counters>>

OpenGate(h) ==
    /\ At(h, "open")
    /\ gate' = [gate EXCEPT ![h] = None] /\ Goto(h, "firewall")
    /\ UNCHANGED <<journal, history, receipts, evidence, proof, ingress, fenced,
                   trees, units, process, counters>>

RemovePublicGate(h) ==
    /\ At(h, "firewall")
    /\ firewall' = [firewall EXCEPT ![h] = FALSE] /\ Goto(h, "marker")
    /\ UNCHANGED <<durable, trees, masked, ready, ordinary, session, process, counters>>

FinishPublicIngress(h) ==
    /\ At(h, "marker")
    /\ ingress' = [ingress EXCEPT ![h] = FALSE]
    /\ proc' = [proc EXCEPT ![h] = None]
    /\ UNCHANGED <<gate, journal, history, receipts, evidence, proof, fenced,
                   trees, units, process, counters>>

-----------------------------------------------------------------------------
\* Faults.

\* The process is killed, or its 30 minutes end.
Crash(h) ==
    /\ crashes < MaxCrashes /\ proc[h] # None
    /\ crashes' = crashes + 1 /\ proc' = [proc EXCEPT ![h] = None]
    /\ UNCHANGED <<durable, trees, units, process, reboots, deaths>>

CaddyDies(h) ==
    /\ deaths < MaxDeaths /\ caddy[h] # 0
    /\ deaths' = deaths + 1 /\ caddy' = [caddy EXCEPT ![h] = 0]
    /\ UNCHANGED <<durable, trees, units, intent, certs, invocations, proc, crashes, reboots>>

Reboot(h) ==
    /\ reboots < MaxReboots
    /\ reboots' = reboots + 1
    /\ proc' = [proc EXCEPT ![h] = None]
    /\ caddy' = [caddy EXCEPT ![h] = 0]
    /\ ordinary' = [ordinary EXCEPT ![h] = FALSE]
    /\ session' = [session EXCEPT ![h] = FALSE]
    /\ masked' = [masked EXCEPT ![h] = {}]
    /\ ready' = [ready EXCEPT ![h] = FALSE]
    /\ firewall' = [firewall EXCEPT ![h] = BootFirewall(h)]
    /\ UNCHANGED <<durable, trees, intent, certs, invocations, crashes, deaths>>

-----------------------------------------------------------------------------
PerHost(v) == [h \in Hosts |-> v]

\* The first host is in service; the others are freshly prepared machines.
Init ==
    /\ gate = PerHost(None) /\ journal = PerHost(None)
    /\ history = PerHost({}) /\ receipts = PerHost({}) /\ evidence = PerHost({})
    /\ proof = PerHost(0) /\ ingress = PerHost(FALSE) /\ fenced = {}
    /\ roots = [h \in Hosts |-> [n \in Roots |-> IF h = 1 THEN "installed" ELSE "absent"]]
    /\ locks = [h \in Hosts |-> [n \in Locks |-> IF h = 1 THEN "fresh" ELSE "original"]]
    /\ intent = PerHost(None) /\ certs = [h \in Hosts |-> h = 1]
    /\ masked = PerHost({}) /\ ready = PerHost(FALSE) /\ firewall = PerHost(FALSE)
    /\ caddy = [h \in Hosts |-> IF h = 1 THEN 1 ELSE 0]
    /\ invocations = [h \in Hosts |-> IF h = 1 THEN 1 ELSE 0]
    /\ ordinary = PerHost(FALSE) /\ session = PerHost(FALSE) /\ proc = PerHost(None)
    /\ crashes = 0 /\ reboots = 0 /\ deaths = 0

Shared(h) ==
    \/ CloseGate(h, "ingress") \/ ClosePublicIngress(h) \/ MaskUnits(h) \/ StopUnits(h)
    \/ FenceReceipt(h)
Prelude(h) == BeginHistory(h) \/ BeginJournal(h) \/ RequireColdStorage(h)
Build(h) ==
    \/ Materialize(h) \/ Materialized(h) \/ Validate(h) \/ Reconcile(h)
    \/ PrepareLayout(h) \/ BeginHostRestore(h) \/ SelectRuntime(h)
Install(h) == RecordRoots(h) \/ InstallRoot(h) \/ RecordLocks(h) \/ ReplaceLock(h)
Verify(h) ==
    \/ VerifyInstalled(h) \/ CoordinatorStart(h) \/ CoordinatorLaunch(h)
    \/ VerifyRunning(h) \/ VerifyTls(h)
Advance(h) == WriteReceipt(h) \/ WriteHistory(h) \/ AdvanceJournal(h)
Activate(h) ==
    \/ CompleteStartup(h) \/ RestoreSchedules(h) \/ IngressReady(h) \/ OpenGate(h)
    \/ RemovePublicGate(h) \/ FinishPublicIngress(h)
Step(h) == \/ Shared(h) \/ Prelude(h) \/ Build(h) \/ Install(h)
           \/ Verify(h) \/ Advance(h) \/ Activate(h)
Environment(h) ==
    \/ StartCaddy(h) \/ StartOrdinary(h) \/ StopOrdinary(h)
    \/ StartSession(h) \/ EndSession(h) \/ IssueCertificates(h)

Next ==
    \/ \E r \in Restores : StartFence(r) \/ StartRestore(r)
    \/ \E h \in Hosts : \/ Step(h) \/ Environment(h)
                        \/ Crash(h) \/ CaddyDies(h) \/ Reboot(h)

Spec == Init /\ [][Next]_vars

\* The coordinator runs; the operator starts it again until the restore is
\* finished; systemd starts Caddy; the issuer answers.
FairSpec ==
    /\ Spec
    /\ \A h \in Hosts : WF_vars(Step(h)) /\ WF_vars(StartCaddy(h)) /\ WF_vars(IssueCertificates(h))
    /\ \A r \in Restores : WF_vars(StartRestore(r))

-----------------------------------------------------------------------------
\* Properties.

Intents == [restore : Restores, attempts : 0..MaxAttempts,
            phase : {"candidate-prepared", "restart-required", "candidate-starting"}]
TypeOK ==
    /\ gate \in [Hosts -> Restores \cup {None}]
    /\ journal \in [Hosts -> [restore : Restores, phase : PhaseNames] \cup {None}]
    /\ history \in [Hosts -> SUBSET PhaseNames] /\ receipts \in [Hosts -> SUBSET PhaseNames]
    /\ evidence \in [Hosts -> SUBSET {"cold-storage", "audit-done", "runtime-mapping",
                                      "root-install", "kernel-locks"}]
    /\ fenced \subseteq Restores
    /\ roots \in [Hosts -> [Roots -> {"absent", "candidate", "moved", "installed"}]]
    /\ locks \in [Hosts -> [Locks -> {"original", "moved", "fresh"}]]
    /\ intent \in [Hosts -> Intents \cup {None}]
    /\ masked \in [Hosts -> SUBSET {"ordinary", "caddy"}]
    /\ {ingress, certs, ready, firewall, ordinary, session} \subseteq [Hosts -> BOOLEAN]
    /\ {caddy, invocations, proof} \subseteq [Hosts -> Nat]
    /\ {crashes, reboots, deaths} \subseteq Nat

\* No two hosts of the chain are in service: when one that holds the tenants'
\* authority serves the public, or runs ordinary work or an operator's session,
\* no other one does, whichever of the two rebooted or was interrupted.
Live(h) == Authority(h) /\ (Serving(h) \/ Working(h))
SingleService == \A a, b \in Hosts : Live(a) /\ Live(b) => a = b

\* Nothing runs on a half-installed host: between the first root's swap and the
\* last fresh kernel lock neither Caddy nor any ordinary unit is running.
Mixed(h) == ~Authority(h) /\ \E n \in Roots : roots[h][n] \in {"moved", "installed"}
NothingRunsHalfInstalled == \A h \in Hosts : Mixed(h) => caddy[h] = 0 /\ ~ordinary[h]

\* Every phase the journal claims has its history record and its receipt, and
\* the evidence its work left, at every instant a crash could strike.
EvidenceComplete ==
    \A h \in Hosts : journal[h] # None =>
        /\ \A n \in 1..Phase(h) : Phases[n] \in history[h]
        /\ \A n \in 2..Phase(h) : Phases[n] \in receipts[h]
        /\ Reached(h, "restored") => roots[h]["state"] # "absent" /\ roots[h]["content"] # "absent"
        /\ Reached(h, "installed") => Authority(h)

\* A restored host shows itself to the public only after the restore is
\* complete, its certificates are in place and its source is fenced.
PublicOnlyWhenProven ==
    \A h \in Hosts \ {1} : Serving(h) =>
        Completed(h) /\ certs[h] /\ (h - 1) \in fenced

\* Ordinary admission is final: once a completed restore's gate is removed, no
\* repeated run of the same restore closes it over work done since.
NeverRegated ==
    \A h \in Hosts : Completed(h) /\ gate[h] = None =>
         gate'[h] = None \/ gate'[h] # journal[h].restore

Open(r) == LET h == DestinationOf(r) IN
    /\ Completed(h) /\ gate[h] # r /\ ~ingress[h]
    /\ firewall[h] => gate[h] # None

\* A fenced service comes back: the restore of a fenced host is eventually
\* complete and open to the public, through killed coordinators.
RestoreCompletes == \A r \in Restores : r \in fenced => Open(r)
=============================================================================
