----------------------------- MODULE StateStore -----------------------------
\* The state repository on its durable directory (repository.py, durable.py,
\* state_inventory.py): what a job record and an intent record go through when
\* several processes read them, later replace, create or remove them from what
\* they read, fail, are killed, and the host loses power at any system call.
\*
\* The filesystem promises only what fsync(2) promises: a directory is, after a
\* loss of power, in some state it passed through since it was last synced, and
\* bytes that were not synced may be torn.
EXTENDS Naturals, Sequences, FiniteSetTheorems, TLAPS
Seqs == INSTANCE SequencesExt

CONSTANTS
    Procs,
    Authorities,        \* dispatch authorities a process may try to bind
    MaxIntents,         \* IntentInventoryLimits.maximum_records
    MaxTransactions,    \* bound: transactions begun
    MaxFaults,          \* bound: failed writes, kills and losses of power
    IntentBytes,        \* intents of one transition all have the same bytes
    None, Torn

Phase == {"pending", "claimed", "completed"}
Delivery == {"unacknowledged", "acknowledged", "expired"}
Job == [phase : Phase, dispatch : Authorities \cup {None}, validated : BOOLEAN, delivery : Delivery]
Dirs == {"jobs", "intents"}
Operations == {"claim", "complete", "bind", "validate", "retire", "create", "remove"}

\* None, Torn and IntentBytes are no
\* process, inode, operation or job.
StoreAssumption ==
    /\ MaxIntents \in Nat /\ MaxTransactions \in Nat /\ MaxFaults \in Nat
    /\ None \notin Nat \cup Procs \cup Operations
    /\ Torn # IntentBytes /\ {Torn, IntentBytes} \cap Job = {}

VARIABLES
    fs,         \* directory -> its states since its last fsync: [rec, temps]
    data,       \* inode -> [value, synced]; an inode number is a generation
    owner,      \* who holds the exclusive tenant-state lock
    pc,         \* process -> where its transaction stands
    op,         \* process -> the operation of its transaction
    seen,       \* process -> [job, intent] as it last read them, or None
    cand,       \* process -> the bytes to publish
    temp,       \* process -> the inode of its temporary
    begun, faults,
    acked,      \* the job as last acknowledged to a caller
    created,    \* intents whose creation was acknowledged
    condemned,  \* intents some process was given the token to remove
    removed     \* intents whose removal was acknowledged

store == <<fs, data>>
local == <<pc, op, seen, cand, temp>>
ghosts == <<acked, created, condemned, removed>>
vars == <<fs, data, owner, local, begun, faults, ghosts>>

Visible(d) == Seqs!Last(fs[d])
Value(i) == data[i].value
CurrentJob == Value(Visible("jobs").rec)
NewJob == [phase |-> "pending", dispatch |-> None, validated |-> FALSE, delivery |-> "unacknowledged"]

Init ==
    /\ fs = [d \in Dirs |-> <<[rec |-> IF d = "jobs" THEN 1 ELSE None, temps |-> {}]>>]
    /\ data = <<[value |-> NewJob, synced |-> TRUE]>>
    /\ owner = None
    /\ pc = [p \in Procs |-> "idle"]
    /\ op = [p \in Procs |-> None]
    /\ seen = [p \in Procs |-> None]
    /\ cand = [p \in Procs |-> None]
    /\ temp = [p \in Procs |-> None]
    /\ begun = 0 /\ faults = 0
    /\ acked = NewJob
    /\ created = {} /\ condemned = {} /\ removed = {}

-----------------------------------------------------------------------------
\* The directory.

Becomes(d, s) == fs' = [fs EXCEPT ![d] = Append(@, s)]
Synced(d) == fs' = [fs EXCEPT ![d] = <<Seqs!Last(@)>>]
Where(o) == IF o \in {"create", "remove"} THEN "intents" ELSE "jobs"
Entries(s) == Cardinality(s.temps) + (IF s.rec = None THEN 0 ELSE 1)

\* The entries publication_temporaries accepts before it removes any.
SweepCeiling == MaxIntents + 1

Go(p, where) == pc' = [pc EXCEPT ![p] = where]

-----------------------------------------------------------------------------
\* Transactions.

\* read: both records under a shared lock. The intent is remembered with its
\* inode generation: the token a removal needs.
Read(p) ==
    /\ pc[p] = "idle" /\ owner = None
    /\ LET i == Visible("intents").rec IN
        /\ seen' = [seen EXCEPT ![p] =
                [job |-> CurrentJob, intent |-> i,
                 bytes |-> IF i = None THEN None ELSE Value(i)]]
        /\ condemned' = condemned \cup ({i} \ {None})
    /\ seen' # seen
    /\ UNCHANGED <<store, owner, pc, op, cand, temp, begun, faults, acked, created, removed>>

\* IntentRemovalToken: a removal names the document as it was read.
RemovalToken(p) == seen[p].intent

\* An exclusive transaction begins; the locks are kernel locks. An intent, and a
\* replacement that reserves space, is preceded by an inventory.
Begin(p) ==
    /\ pc[p] = "idle" /\ owner = None /\ begun < MaxTransactions
    /\ owner' = p
    /\ begun' = begun + 1
    /\ \E o \in Operations :
        /\ o \in {"claim", "complete", "bind", "validate"} => seen[p] # None
        /\ o = "claim" => seen[p].job.phase = "pending"
        /\ o = "complete" => seen[p].job.phase = "claimed"
        /\ o = "remove" => seen[p] # None /\ RemovalToken(p) # None
        /\ op' = [op EXCEPT ![p] = o]
        /\ Go(p, IF o \in {"claim", "complete", "retire"} THEN "check" ELSE "measure")
    /\ UNCHANGED <<store, seen, cand, temp, faults, ghosts>>

\* measure_intent_records (and the same of the authorization directories):
\* abandoned temporaries go first.
Measure(p) ==
    /\ pc[p] = "measure"
    /\ LET s == Visible("intents") IN
        IF Entries(s) > SweepCeiling
        THEN /\ Go(p, "refused")
             /\ UNCHANGED fs
        ELSE /\ Go(p, "check")
             /\ IF s.temps = {} THEN UNCHANGED fs
                ELSE fs' = [fs EXCEPT !["intents"] = <<[s EXCEPT !.temps = {}]>>]
    /\ UNCHANGED <<data, owner, op, seen, cand, temp, begun, faults, ghosts>>

\* The revision is a digest of the bytes the caller read.
SameRevision(p) == seen[p].job = CurrentJob

\* What the caller asks for, from the copy it read.
Candidates(p) ==
    LET j == seen[p].job IN
    CASE op[p] = "claim" -> {[j EXCEPT !.phase = "claimed"]}
      [] op[p] = "complete" -> {[j EXCEPT !.phase = "completed"]}
      [] op[p] = "bind" -> {[j EXCEPT !.dispatch = a] : a \in Authorities}
      [] op[p] = "validate" -> {[j EXCEPT !.validated = TRUE]}

\* _validate_authorization_phase_replacement
PhaseReplacement(old, new) == [old EXCEPT !.phase = new.phase] = new

\* _validate_dispatch_authority_replacement: bound once, before validation.
DispatchReplacement(old, new) ==
    /\ ~old.validated /\ ~new.validated
    /\ old.dispatch \in {None, new.dispatch}
    /\ [old EXCEPT !.dispatch = new.dispatch] = new

\* _validate_execution_validation_replacement
ValidationReplacement(old, new) ==
    /\ ~old.validated /\ new.validated
    /\ old.phase = "completed"
    /\ [old EXCEPT !.validated = TRUE] = new

Allowed(o, old, new) ==
    CASE o \in {"claim", "complete"} -> PhaseReplacement(old, new)
      [] o = "bind" -> DispatchReplacement(old, new)
      [] o = "validate" -> ValidationReplacement(old, new)

Publish(p, v) ==
    /\ cand' = [cand EXCEPT ![p] = v]
    /\ Go(p, "open")

\* The checks every replacement makes before it writes.
CheckReplacement(p) ==
    /\ pc[p] = "check" /\ op[p] \in {"claim", "complete", "bind", "validate"}
    /\ \E new \in Candidates(p) :
        IF SameRevision(p) /\ Allowed(op[p], CurrentJob, new)
        THEN Publish(p, new)
        ELSE Go(p, "refused") /\ UNCHANGED cand
    /\ UNCHANGED <<store, owner, op, seen, temp, begun, faults, ghosts>>

\* commit_export_retirement reads and replaces in one transaction.
CheckRetirement(p) ==
    /\ pc[p] = "check" /\ op[p] = "retire"
    /\ IF /\ CurrentJob.phase = "completed" /\ CurrentJob.validated
          /\ CurrentJob.delivery = "unacknowledged"
       THEN \E why \in {"acknowledged", "expired"} :
                Publish(p, [CurrentJob EXCEPT !.delivery = why])
       ELSE Go(p, "refused") /\ UNCHANGED cand
    /\ UNCHANGED <<store, owner, op, seen, temp, begun, faults, ghosts>>

CheckCreation(p) ==
    /\ pc[p] = "check" /\ op[p] = "create"
    /\ Publish(p, IntentBytes)
    /\ UNCHANGED <<store, owner, op, seen, temp, begun, faults, ghosts>>

\* remove_reconciled_intent, remove_exact_deployment: the bytes and the inode.
SameGeneration(p) ==
    /\ Visible("intents").rec = RemovalToken(p)
    /\ Value(Visible("intents").rec) = seen[p].bytes

CheckRemoval(p) ==
    /\ pc[p] = "check" /\ op[p] = "remove"
    /\ Go(p, IF SameGeneration(p) THEN "unlink" ELSE "refused")
    /\ UNCHANGED <<store, owner, op, seen, cand, temp, begun, faults, ghosts>>

-----------------------------------------------------------------------------
\* create_immutable, replace and remove, one system call at a time.

OpenTemp(p) ==
    /\ pc[p] = "open"
    /\ LET d == Where(op[p])
           i == Len(data) + 1
       IN  /\ data' = Append(data, [value |-> Torn, synced |-> FALSE])
           /\ Becomes(d, [Visible(d) EXCEPT !.temps = @ \cup {i}])
           /\ temp' = [temp EXCEPT ![p] = i]
    /\ Go(p, "write")
    /\ UNCHANGED <<owner, op, seen, cand, begun, faults, ghosts>>

WriteAll(p) ==
    /\ pc[p] = "write"
    /\ data' = [data EXCEPT ![temp[p]].value = cand[p]]
    /\ Go(p, "sync")
    /\ UNCHANGED <<fs, owner, op, seen, cand, temp, begun, faults, ghosts>>

\* A write or fsync that fails (no space, an I/O error) raises.
WriteFails(p) ==
    /\ pc[p] \in {"write", "sync"} /\ faults < MaxFaults
    /\ faults' = faults + 1
    /\ Go(p, "discard")
    /\ UNCHANGED <<store, owner, op, seen, cand, temp, begun, ghosts>>

SyncFile(p) ==
    /\ pc[p] = "sync"
    /\ data' = [data EXCEPT ![temp[p]].synced = TRUE]
    /\ Go(p, "rename")
    /\ UNCHANGED <<fs, owner, op, seen, cand, temp, begun, faults, ghosts>>

Renamed(p, d) ==
    /\ Becomes(d, [rec |-> temp[p], temps |-> Visible(d).temps \ {temp[p]}])
    /\ Go(p, "dirsync")

\* os.replace
RenameReplace(p) ==
    /\ pc[p] = "rename" /\ op[p] # "create"
    /\ Renamed(p, "jobs")
    /\ UNCHANGED <<data, owner, op, seen, cand, temp, begun, faults, ghosts>>

\* renameat2(RENAME_NOREPLACE)
RenameNoReplace(p) ==
    /\ pc[p] = "rename" /\ op[p] = "create"
    /\ IF Visible("intents").rec = None
       THEN Renamed(p, "intents")
       ELSE Go(p, "discard") /\ UNCHANGED fs
    /\ UNCHANGED <<data, owner, op, seen, cand, temp, begun, faults, ghosts>>

\* _remove_temporary
RemoveTemporary(p) ==
    /\ pc[p] = "discard"
    /\ LET d == Where(op[p]) IN
        fs' = [fs EXCEPT ![d] = <<[Visible(d) EXCEPT !.temps = @ \ {temp[p]}]>>]
    /\ Go(p, "refused")
    /\ UNCHANGED <<data, owner, op, seen, cand, temp, begun, faults, ghosts>>

Unlink(p) ==
    /\ pc[p] = "unlink"
    /\ Becomes("intents", [Visible("intents") EXCEPT !.rec = None])
    /\ Go(p, "dirsync")
    /\ UNCHANGED <<data, owner, op, seen, cand, temp, begun, faults, ghosts>>

\* The caller reads the record back and is told.
Acknowledge(p) ==
    CASE op[p] = "create" -> created' = created \cup {temp[p]} /\ UNCHANGED <<acked, removed>>
      [] op[p] = "remove" -> removed' = removed \cup {seen[p].intent} /\ UNCHANGED <<acked, created>>
      [] OTHER -> acked' = CurrentJob /\ UNCHANGED <<created, removed>>

\* Mutant of SyncDirectory: the rename is acknowledged before it is durable.
SyncDirectorySkipped(p) ==
    /\ pc[p] = "dirsync"
    /\ Acknowledge(p)
    /\ Go(p, "done")
    /\ UNCHANGED <<store, owner, op, seen, cand, temp, begun, faults, condemned>>

SyncDirectory(p) ==
    /\ pc[p] = "dirsync"
    /\ Synced(Where(op[p]))
    /\ Acknowledge(p)
    /\ Go(p, "done")
    /\ UNCHANGED <<data, owner, op, seen, cand, temp, begun, faults, condemned>>

\* The transaction is left; its copies stay with the caller.
Release(p) ==
    /\ pc[p] \in {"done", "refused"}
    /\ owner' = None
    /\ Go(p, "idle")
    /\ op' = [op EXCEPT ![p] = None]
    /\ cand' = [cand EXCEPT ![p] = None]
    /\ temp' = [temp EXCEPT ![p] = None]
    /\ UNCHANGED <<store, seen, begun, faults, ghosts>>

-----------------------------------------------------------------------------
Forgets(P) ==
    LET gone(f, v) == [p \in Procs |-> IF p \in P THEN v ELSE f[p]] IN
    /\ pc' = gone(pc, "idle")
    /\ op' = gone(op, None)
    /\ seen' = gone(seen, None)
    /\ cand' = gone(cand, None)
    /\ temp' = gone(temp, None)
    /\ owner' = IF owner \in P THEN None ELSE owner

Kill(p) ==
    /\ faults < MaxFaults /\ pc[p] # "idle"
    /\ faults' = faults + 1
    /\ Forgets({p})
    /\ UNCHANGED <<store, begun, ghosts>>

PowerLoss ==
    /\ faults < MaxFaults
    /\ faults' = faults + 1
    /\ Forgets(Procs)
    /\ \E j \in DOMAIN fs["jobs"], k \in DOMAIN fs["intents"] :
        fs' = [d \in Dirs |-> <<fs[d][IF d = "jobs" THEN j ELSE k]>>]
    /\ \E torn \in SUBSET {i \in DOMAIN data : ~data[i].synced} :
        data' = [i \in DOMAIN data |->
            [value |-> IF i \in torn THEN Torn ELSE data[i].value, synced |-> TRUE]]
    /\ UNCHANGED <<begun, ghosts>>

Rest == begun = MaxTransactions /\ owner = None /\ UNCHANGED vars

Next ==
    \/ \E p \in Procs :
        \/ Read(p) \/ Begin(p) \/ Measure(p) \/ Release(p) \/ Kill(p)
        \/ CheckReplacement(p) \/ CheckRetirement(p) \/ CheckCreation(p) \/ CheckRemoval(p)
        \/ OpenTemp(p) \/ WriteAll(p) \/ WriteFails(p) \/ SyncFile(p)
        \/ RenameReplace(p) \/ RenameNoReplace(p) \/ RemoveTemporary(p)
        \/ Unlink(p) \/ SyncDirectory(p)
    \/ PowerLoss
    \/ Rest

Spec == Init /\ [][Next]_vars
-----------------------------------------------------------------------------
\* Properties

TypeOK ==
    /\ \A d \in Dirs : fs[d] # << >>
    /\ \A d \in Dirs : \A k \in DOMAIN fs[d] :
        /\ fs[d][k].rec \in DOMAIN data \cup {None}
        /\ fs[d][k].temps \subseteq DOMAIN data
    /\ \A i \in DOMAIN data : data[i].value \in Job \cup {Torn, IntentBytes}
    /\ owner \in Procs \cup {None}
    /\ acked \in Job
    /\ \A p \in Procs : pc[p] \notin {"idle"} => owner = p

\* Whatever a reader can meet is a complete record, after any crash
\* (create_immutable and replace sync the bytes before the name).
NeverTorn == \A d \in Dirs : Visible(d).rec # None => Value(Visible(d).rec) # Torn

Rank(ph) == CASE ph = "pending" -> 0 [] ph = "claimed" -> 1 [] ph = "completed" -> 2

\* No acknowledged change of a job is lost or contradicted: not by a process
\* that works from an old copy, not by a crash (compare_and_swap, the
\* replacement rules, the directory sync before the acknowledgement).
AcknowledgedJobKept ==
    LET j == CurrentJob IN
    NeverTorn =>
        /\ Rank(acked.phase) <= Rank(j.phase)
        /\ acked.dispatch # None => j.dispatch = acked.dispatch
        /\ acked.validated => j.validated
        /\ acked.delivery # "unacknowledged" => j.delivery = acked.delivery

\* An intent whose creation was acknowledged is there until somebody who read
\* that very inode removes it, however often the same bytes are published
\* again (the metadata generation of the removal tokens, RENAME_NOREPLACE).
OnlyCondemnedIntentsGo == created \ condemned \subseteq {Visible("intents").rec}

\* An intent whose removal was acknowledged does not come back after a crash.
RemovedStaysRemoved == Visible("intents").rec \notin removed

\* The temporaries of interrupted writers never make an inventory refuse the
\* directory, which nothing but an inventory cleans.
InventoryNeverRefused ==
    \A p \in Procs : pc[p] = "measure" => Entries(Visible("intents")) <= SweepCeiling
-----------------------------------------------------------------------------
\* Proofs, for every set of processes and any number of failed writes, kills and
\* losses of power.
\*
\* A loss of power may bring back any state a directory had since its last sync,
\* so what the properties say of the visible state the invariant says of all of
\* these (JobState, IntentState): each is whole, none is behind what was
\* acknowledged. What a writer knows at each system call is LocalInv.

States(h) == {h[k] : k \in DOMAIN h}
History(d) == States(fs[d])
Directory == [rec : Nat \cup {None}, temps : SUBSET Nat]
Inode == [value : Job \cup {Torn, IntentBytes}, synced : BOOLEAN]
JobOperations == {"claim", "complete", "bind", "validate", "retire"}
Places ==
    {"idle", "measure", "check", "open", "write", "sync", "rename", "discard", "unlink", "dirsync",
     "done", "refused"}

\* The job j takes back nothing that a says.
Continues(a, j) ==
    /\ Rank(a.phase) <= Rank(j.phase)
    /\ a.dispatch # None => j.dispatch = a.dispatch
    /\ a.validated => j.validated
    /\ a.delivery # "unacknowledged" => j.delivery = a.delivery

JobState(s) ==
    /\ s \in Directory /\ s.temps \subseteq DOMAIN data /\ s.rec \in DOMAIN data
    /\ data[s.rec].synced /\ data[s.rec].value \in Job
    /\ Continues(acked, data[s.rec].value)

IntentState(s) ==
    /\ s \in Directory /\ s.temps \subseteq DOMAIN data
    /\ s.rec # None => /\ s.rec \in DOMAIN data /\ data[s.rec].synced
                       /\ data[s.rec].value = IntentBytes
    /\ created \ condemned \subseteq {s.rec}
    /\ s.rec \notin removed
    /\ \A x, y \in s.temps : x = y

FilesInv ==
    /\ fs \in [Dirs -> Seq(Directory)] /\ \A d \in Dirs : fs[d] # << >>
    /\ data \in Seq(Inode)

StoreInv ==
    /\ FilesInv
    /\ \A s \in History("jobs") : JobState(s)
    /\ \A s \in History("intents") : IntentState(s)
    /\ acked \in Job /\ created \subseteq DOMAIN data /\ removed \subseteq DOMAIN data

LocalTypeOK ==
    /\ pc \in [Procs -> Places]
    /\ op \in [Procs -> Operations \cup {None}]
    /\ DOMAIN seen = Procs /\ DOMAIN cand = Procs
    /\ temp \in [Procs -> Nat \cup {None}]
    /\ owner \in Procs \cup {None}

\* What a process remembers of a read.
SeenInv(p) ==
    seen[p] # None =>
        /\ seen[p].job \in Job
        /\ seen[p].intent # None => seen[p].intent \in DOMAIN data /\ seen[p].intent \in condemned

\* The transaction was begun with what its operation needs.
BegunInv(p) ==
    /\ owner = p /\ op[p] \in Operations
    /\ op[p] \in {"claim", "complete", "bind", "validate", "remove"} => seen[p] # None
    /\ op[p] = "claim" => seen[p].job.phase = "pending"
    /\ op[p] = "complete" => seen[p].job.phase = "claimed"
    /\ op[p] = "remove" => seen[p].intent # None

\* The bytes continue the job the directory shows.
CandidateInv(p) ==
    IF op[p] = "create" THEN cand[p] = IntentBytes
    ELSE op[p] \in JobOperations /\ cand[p] \in Job /\ Continues(CurrentJob, cand[p])

\* The temporary is nobody else's, and was never a record.
TemporaryInv(p) ==
    /\ temp[p] \in DOMAIN data /\ temp[p] \notin removed
    /\ \A d \in Dirs : \A s \in History(d) : s.rec # temp[p]

\* How far the publication of a record is.
WriterInv(p) ==
    /\ pc[p] \in {"open", "write", "sync", "rename"} => CandidateInv(p)
    /\ pc[p] \in {"write", "sync", "rename", "discard"} => TemporaryInv(p)
    /\ pc[p] \in {"sync", "rename"} => data[temp[p]].value = cand[p]
    /\ pc[p] = "rename" => data[temp[p]].synced
    /\ pc[p] \in {"check", "open"} /\ op[p] = "create" => Visible("intents").temps = {}
    /\ pc[p] = "unlink" => op[p] = "remove" /\ Visible("intents").rec = seen[p].intent
    /\ pc[p] = "dirsync" /\ op[p] = "create" =>
        temp[p] \in DOMAIN data /\ Visible("intents").rec = temp[p]
    /\ pc[p] = "dirsync" /\ op[p] = "remove" => Visible("intents").rec = None

LocalInv(p) == SeenInv(p) /\ (pc[p] # "idle" => BegunInv(p) /\ WriterInv(p))

RepositoryInv == StoreInv /\ LocalTypeOK /\ \A p \in Procs : LocalInv(p)

-----------------------------------------------------------------------------
\* The states a directory may come back in.
LEMMA StatesFacts ==
    ASSUME NEW h \in Seq(Directory), h # << >>, NEW s \in Directory
    PROVE  /\ Seqs!Last(h) \in States(h) /\ Seqs!Last(h) \in Directory
           /\ Append(h, s) \in Seq(Directory) /\ Append(h, s) # << >>
           /\ States(Append(h, s)) = States(h) \cup {s} /\ Seqs!Last(Append(h, s)) = s
           /\ <<s>> \in Seq(Directory) /\ <<s>> # << >> /\ States(<<s>>) = {s} /\ Seqs!Last(<<s>>) = s
<1>1. Len(h) \in Nat \ {0} /\ DOMAIN h = 1..Len(h)
  OBVIOUS
<1>2. Seqs!Last(h) \in States(h) /\ Seqs!Last(h) \in Directory
  BY <1>1 DEF Seqs!Last, States
<1> DEFINE a == Append(h, s)
<1>3. /\ a \in Seq(Directory) /\ Len(a) = Len(h) + 1 /\ DOMAIN a = 1..(Len(h) + 1) /\ a # << >>
      /\ a[Len(h) + 1] = s /\ \A k \in 1..Len(h) : a[k] = h[k]
  BY <1>1
<1>4. States(a) = States(h) \cup {s}
  <2>1. ASSUME NEW k \in DOMAIN a PROVE a[k] \in States(h) \cup {s}
    <3>1. k = Len(h) + 1 \/ k \in 1..Len(h)
      BY <1>1, <1>3
    <3> QED
      BY <1>1, <1>3, <3>1 DEF States
  <2>2. ASSUME NEW l \in DOMAIN h PROVE h[l] \in States(a)
    <3>1. l \in DOMAIN a /\ a[l] = h[l]
      BY <1>1, <1>3
    <3> QED
      BY <3>1 DEF States
  <2>3. Len(h) + 1 \in DOMAIN a
    BY <1>1, <1>3
  <2> QED
    BY <1>3, <2>1, <2>2, <2>3 DEF States
<1>5. Seqs!Last(a) = s
  BY <1>3 DEF Seqs!Last
<1>6. /\ <<s>> \in Seq(Directory) /\ <<s>> # << >> /\ Seqs!Last(<<s>>) = s /\ States(<<s>>) = {s}
  BY DEF Seqs!Last, States
<1> QED
  BY <1>2, <1>3, <1>4, <1>5, <1>6

\* A directory passes through one more state, or is known to be in one.
LEMMA DirectoryStep ==
    ASSUME FilesInv, NEW d \in Dirs, NEW s \in Directory, data' \in Seq(Inode),
           \/ Becomes(d, s)
           \/ fs' = [fs EXCEPT ![d] = <<s>>]
    PROVE  /\ FilesInv'
           /\ Visible(d)' = s
           /\ \A t \in History(d)' : t \in History(d) \cup {s}
           /\ fs' = [fs EXCEPT ![d] = <<s>>] => History(d)' = {s}
           /\ \A e \in Dirs \ {d} : History(e)' = History(e) /\ Visible(e)' = Visible(e)
<1>1. fs[d] \in Seq(Directory) /\ fs[d] # << >> /\ fs \in [Dirs -> Seq(Directory)]
  BY DEF FilesInv
<1>2. PICK h \in Seq(Directory) :
        fs' = [fs EXCEPT ![d] = h] /\ h \in {Append(fs[d], s), <<s>>}
  BY <1>1, StatesFacts DEF Becomes
<1>3. /\ h # << >> /\ Seqs!Last(h) = s /\ \A t \in States(h) : t \in States(fs[d]) \cup {s}
  <2>1. CASE h = Append(fs[d], s)
    <3>1. h # << >> /\ Seqs!Last(h) = s /\ States(h) = States(fs[d]) \cup {s}
      BY <1>1, <2>1, StatesFacts
    <3> QED
      BY <3>1
  <2>2. CASE h = <<s>>
    <3>1. h # << >> /\ Seqs!Last(h) = s /\ States(h) = {s}
      BY <1>1, <2>2, StatesFacts
    <3> QED
      BY <3>1
  <2> QED
    BY <1>2, <2>1, <2>2
<1>4. /\ fs' \in [Dirs -> Seq(Directory)] /\ fs'[d] = h
      /\ \A e \in Dirs \ {d} : fs'[e] = fs[e]
  BY <1>1, <1>2
<1>5. FilesInv'
  BY <1>3, <1>4 DEF FilesInv
<1>6. ASSUME fs' = [fs EXCEPT ![d] = <<s>>] PROVE History(d)' = {s}
  <2>1. fs'[d] = <<s>>
    BY <1>1, <1>6
  <2> QED
    BY <1>1, <2>1, StatesFacts DEF History
<1>7. \A e \in Dirs \ {d} : History(e)' = History(e) /\ Visible(e)' = Visible(e)
  BY <1>4 DEF History, Visible
<1> QED
  BY <1>3, <1>4, <1>5, <1>6, <1>7 DEF History, Visible

\* The order in which jobs continue.
LEMMA ContinuesFacts ==
    ASSUME NEW a \in Job, NEW b \in Job, NEW c \in Job
    PROVE  /\ Continues(a, a)
           /\ Continues(a, b) /\ Continues(b, c) => Continues(a, c)
<1>1. Rank(a.phase) \in Nat /\ Rank(b.phase) \in Nat /\ Rank(c.phase) \in Nat
  BY DEF Job, Phase, Rank
<1>2. Continues(a, a)
  BY <1>1 DEF Continues
<1>3. ASSUME Continues(a, b), Continues(b, c) PROVE Continues(a, c)
  BY <1>1, <1>3 DEF Continues
<1> QED
  BY <1>2, <1>3

\* The visible states are states of the histories.
LEMMA VisibleFacts ==
    ASSUME StoreInv
    PROVE  /\ \A d \in Dirs : Visible(d) \in History(d) /\ Visible(d) \in Directory
           /\ JobState(Visible("jobs")) /\ IntentState(Visible("intents"))
           /\ CurrentJob \in Job /\ Continues(acked, CurrentJob)
           /\ "jobs" \in Dirs /\ "intents" \in Dirs
<1>1. ASSUME NEW d \in Dirs PROVE Visible(d) \in History(d) /\ Visible(d) \in Directory
  <2>1. fs \in [Dirs -> Seq(Directory)] /\ fs[d] # << >>
    BY DEF StoreInv, FilesInv
  <2>2. [rec |-> None, temps |-> {}] \in Directory
    BY DEF Directory
  <2> QED
    BY <2>1, <2>2, StatesFacts DEF Visible, History
<1>2. "jobs" \in Dirs /\ "intents" \in Dirs
  BY DEF Dirs
<1>3. JobState(Visible("jobs")) /\ IntentState(Visible("intents"))
  BY <1>1, <1>2 DEF StoreInv
<1> QED
  BY <1>1, <1>2, <1>3 DEF JobState, CurrentJob, Value

\* Inodes are never renumbered, and what is acknowledged is only added to by an
\* acknowledgement.
LEMMA StateKept ==
    ASSUME NEW s, UNCHANGED <<acked, created, removed>>, condemned \subseteq condemned',
           DOMAIN data \subseteq DOMAIN data',
           s.rec \in DOMAIN data => data'[s.rec] = data[s.rec]
    PROVE  /\ JobState(s) => JobState(s)'
           /\ IntentState(s) => IntentState(s)'
<1>1. JobState(s) => JobState(s)'
  BY DEF JobState
<1>2. IntentState(s) => IntentState(s)'
  BY DEF IntentState
<1> QED
  BY <1>1, <1>2

LEMMA StoreKept ==
    ASSUME StoreInv, UNCHANGED <<fs, data, acked, created, removed>>, condemned \subseteq condemned'
    PROVE  /\ StoreInv' /\ CurrentJob' = CurrentJob
           /\ \A d \in Dirs : History(d)' = History(d) /\ Visible(d)' = Visible(d)
<1>1. /\ CurrentJob' = CurrentJob
      /\ \A d : History(d)' = History(d) /\ Visible(d)' = Visible(d)
  BY DEF CurrentJob, Value, Visible, History
<1>2. \A s \in History("jobs") : JobState(s)'
  BY StateKept DEF StoreInv
<1>3. \A s \in History("intents") : IntentState(s)'
  BY StateKept DEF StoreInv
<1> QED
  BY <1>1, <1>2, <1>3 DEF StoreInv, FilesInv

\* Only the owner of the lock is in a transaction.
LEMMA OneOwner ==
    ASSUME RepositoryInv, NEW p \in Procs, pc[p] # "idle"
    PROVE  \A q \in Procs \ {p} : pc[q] = "idle"
BY DEF RepositoryInv, LocalInv, BegunInv

\* Nobody outside a transaction is affected by a step of another process.
LEMMA IdleKept ==
    ASSUME RepositoryInv, NEW q \in Procs, pc'[q] = "idle", seen'[q] \in {seen[q], None},
           DOMAIN data \subseteq DOMAIN data', condemned \subseteq condemned'
    PROVE  LocalInv(q)'
BY DEF RepositoryInv, LocalInv, SeenInv

\* A step inside a transaction: the others stay as they are.
LEMMA OwnerStep ==
    ASSUME RepositoryInv, NEW p \in Procs, pc[p] # "idle",
           NEW w \in Places, Go(p, w),
           UNCHANGED <<owner, op, seen, condemned>>, DOMAIN data \subseteq DOMAIN data',
           temp' \in [Procs -> Nat \cup {None}], DOMAIN cand' = Procs,
           StoreInv', WriterInv(p)'
    PROVE  RepositoryInv'
<1>1. /\ pc \in [Procs -> Places] /\ pc'[p] = w
      /\ \A q \in Procs \ {p} : pc'[q] = "idle"
  BY OneOwner DEF RepositoryInv, LocalTypeOK, Go
<1>2. ASSUME NEW q \in Procs \ {p} PROVE LocalInv(q)'
  BY <1>1, IdleKept
<1>3. LocalInv(p)'
  <2>1. SeenInv(p) /\ BegunInv(p)
    BY DEF RepositoryInv, LocalInv
  <2>2. SeenInv(p)' /\ BegunInv(p)'
    BY <2>1 DEF SeenInv, BegunInv
  <2> QED
    BY <2>2 DEF LocalInv
<1>4. LocalTypeOK'
  BY <1>1 DEF RepositoryInv, LocalTypeOK, Go
<1> QED
  BY <1>2, <1>3, <1>4 DEF RepositoryInv

\* A step after which nobody is in a transaction.
LEMMA EndStep ==
    ASSUME RepositoryInv, StoreInv', LocalTypeOK',
           DOMAIN data \subseteq DOMAIN data', condemned \subseteq condemned',
           \A q \in Procs : pc'[q] = "idle" /\ seen'[q] \in {seen[q], None}
    PROVE  RepositoryInv'
<1>1. ASSUME NEW q \in Procs PROVE LocalInv(q)'
  BY IdleKept
<1> QED
  BY <1>1 DEF RepositoryInv

-----------------------------------------------------------------------------
\* The steps of a transaction before it writes.

LEMMA ReadStep ==
    ASSUME StoreAssumption, RepositoryInv, NEW p \in Procs, Read(p)
    PROVE  RepositoryInv'
<1>1. StoreInv /\ StoreInv'
  BY StoreKept DEF Read, store, RepositoryInv
<1>2. LocalTypeOK'
  BY DEF Read, RepositoryInv, LocalTypeOK
<1>3. ASSUME NEW q \in Procs PROVE LocalInv(q)'
  <2>1. pc'[q] = "idle"
    BY DEF Read, RepositoryInv, LocalInv, BegunInv, StoreAssumption
  <2>2. CASE q # p
    <3>1. seen'[q] = seen[q] /\ condemned \subseteq condemned' /\ data' = data
      BY <2>2 DEF Read, store, RepositoryInv, LocalTypeOK
    <3> QED
      BY <2>1, <3>1, IdleKept
  <2>3. CASE q = p
    <3> DEFINE i == Visible("intents").rec
    <3>1. /\ seen'[p].job = CurrentJob /\ seen'[p].intent = i
          /\ condemned' = condemned \cup ({i} \ {None}) /\ data' = data
      BY DEF Read, store, RepositoryInv, LocalTypeOK
    <3>2. CurrentJob \in Job /\ (i # None => i \in DOMAIN data)
      BY <1>1, VisibleFacts DEF IntentState
    <3> HIDE DEF i
    <3> QED
      BY <2>1, <2>3, <3>1, <3>2 DEF LocalInv, SeenInv
  <2> QED
    BY <2>2, <2>3
<1> QED
  BY <1>1, <1>2, <1>3 DEF RepositoryInv

LEMMA BeginStep ==
    ASSUME StoreAssumption, RepositoryInv, NEW p \in Procs, Begin(p)
    PROVE  RepositoryInv'
<1>1. StoreInv'
  BY StoreKept DEF Begin, store, ghosts, RepositoryInv
<1>2. PICK o \in Operations :
        /\ o \in {"claim", "complete", "bind", "validate"} => seen[p] # None
        /\ o = "claim" => seen[p].job.phase = "pending"
        /\ o = "complete" => seen[p].job.phase = "claimed"
        /\ o = "remove" => seen[p] # None /\ RemovalToken(p) # None
        /\ op' = [op EXCEPT ![p] = o]
        /\ Go(p, IF o \in {"claim", "complete", "retire"} THEN "check" ELSE "measure")
  BY DEF Begin
<1>3. PICK w \in {"check", "measure"} :
        /\ pc' = [pc EXCEPT ![p] = w]
        /\ o = "create" => w = "measure"
  BY <1>2 DEF Go
<1>4. /\ LocalTypeOK /\ owner' = p
      /\ UNCHANGED <<seen, cand, temp, data, condemned>>
  BY DEF Begin, store, ghosts, RepositoryInv
<1>5. LocalTypeOK'
  BY <1>2, <1>3, <1>4 DEF LocalTypeOK, Places
<1>6. ASSUME NEW q \in Procs \ {p} PROVE LocalInv(q)'
  <2>1. pc[q] = "idle"
    BY DEF Begin, RepositoryInv, LocalInv, BegunInv, StoreAssumption
  <2>2. pc'[q] = "idle"
    BY <1>3, <1>4, <2>1 DEF LocalTypeOK
  <2> QED
    BY <1>4, <2>2, IdleKept
<1>7. LocalInv(p)'
  <2>1. pc'[p] = w /\ op'[p] = o
    BY <1>2, <1>3, <1>4 DEF LocalTypeOK
  <2>2. SeenInv(p)'
    BY <1>4 DEF SeenInv, RepositoryInv, LocalInv
  <2>3. BegunInv(p)'
    BY <1>2, <1>4, <2>1 DEF BegunInv, RemovalToken
  <2>4. WriterInv(p)'
    BY <1>3, <2>1 DEF WriterInv
  <2> QED
    BY <2>2, <2>3, <2>4 DEF LocalInv
<1> QED
  BY <1>1, <1>5, <1>6, <1>7 DEF RepositoryInv

\* A transaction that refuses, or is told, has nothing left to write.
LEMMA NothingToWrite ==
    ASSUME NEW p \in Procs, pc \in [Procs -> Places], NEW w \in {"refused", "done"}, Go(p, w)
    PROVE  WriterInv(p)'
<1>1. pc'[p] = w
  BY DEF Go
<1> QED
  BY <1>1 DEF WriterInv

LEMMA MeasureStep ==
    ASSUME StoreAssumption, RepositoryInv, NEW p \in Procs, Measure(p)
    PROVE  RepositoryInv'
<1> DEFINE s == Visible("intents")
<1>1. /\ StoreInv /\ LocalTypeOK /\ pc[p] # "idle"
      /\ UNCHANGED <<data, owner, op, seen, cand, temp, acked, created, condemned, removed>>
  BY DEF Measure, RepositoryInv, ghosts
<1>2. /\ s \in Directory /\ IntentState(s) /\ "jobs" \in Dirs /\ "intents" \in Dirs
      /\ "jobs" # "intents"
  BY <1>1, VisibleFacts
<1>3. CASE Go(p, "refused") /\ UNCHANGED fs
  <2>1. StoreInv' /\ WriterInv(p)'
    BY <1>1, <1>3, StoreKept, NothingToWrite DEF LocalTypeOK
  <2> QED
    BY <1>1, <1>3, <2>1, OwnerStep DEF LocalTypeOK, Places
<1>4. CASE Go(p, "check") /\ s.temps = {} /\ UNCHANGED fs
  <2>1. StoreInv' /\ Visible("intents")' = s
    BY <1>1, <1>2, <1>4, StoreKept
  <2>2. pc'[p] = "check"
    BY <1>1, <1>4 DEF Go, LocalTypeOK
  <2>3. WriterInv(p)'
    BY <1>4, <2>1, <2>2 DEF WriterInv
  <2> QED
    BY <1>1, <1>4, <2>1, <2>3, OwnerStep DEF LocalTypeOK, Places
<1>5. CASE Go(p, "check") /\ fs' = [fs EXCEPT !["intents"] = <<[s EXCEPT !.temps = {}]>>]
  <2>1. PICK t \in Directory :
            fs' = [fs EXCEPT !["intents"] = <<t>>] /\ t.rec = s.rec /\ t.temps = {}
    <3>1. /\ [s EXCEPT !.temps = {}] \in Directory
          /\ [s EXCEPT !.temps = {}].rec = s.rec /\ [s EXCEPT !.temps = {}].temps = {}
      BY <1>2 DEF Directory
    <3> HIDE DEF s
    <3> QED
      BY <1>5, <3>1
  <2>2. IntentState(t)
    BY <1>2, <2>1 DEF IntentState
  <2>3. FilesInv /\ data' \in Seq(Inode)
    BY <1>1 DEF StoreInv, FilesInv
  <2>4. /\ FilesInv' /\ Visible("intents")' = t /\ History("intents")' = {t}
        /\ History("jobs")' = History("jobs")
    BY <1>2, <1>5, <2>1, <2>3, DirectoryStep
  <2>5. IntentState(t)' /\ \A x \in History("jobs") : JobState(x)'
    BY <1>1, <2>2, StateKept DEF StoreInv
  <2>6. StoreInv'
    BY <1>1, <2>4, <2>5 DEF StoreInv
  <2>7. pc'[p] = "check"
    BY <1>1, <1>5 DEF Go, LocalTypeOK
  <2>8. WriterInv(p)'
    BY <2>1, <2>4, <2>7 DEF WriterInv
  <2> QED
    BY <1>1, <1>5, <2>6, <2>8, OwnerStep DEF LocalTypeOK, Places
<1> QED
  BY <1>3, <1>4, <1>5 DEF Measure

\* A replacement that passes the checks takes nothing back.
LEMMA ReplacementContinues ==
    ASSUME NEW p \in Procs, NEW new \in Candidates(p), seen[p].job \in Job,
           BegunInv(p), op[p] \in {"claim", "complete", "bind", "validate"},
           SameRevision(p), Allowed(op[p], CurrentJob, new)
    PROVE  new \in Job /\ Continues(CurrentJob, new)
<1> DEFINE j == seen[p].job
<1>1. j \in Job /\ j = CurrentJob
  BY DEF SameRevision
<1>2. j.phase \in Phase /\ j.dispatch \in Authorities \cup {None} /\ j.validated \in BOOLEAN
      /\ j.delivery \in Delivery
  BY <1>1 DEF Job
<1>3. CASE op[p] = "claim"
  <2>1. new = [j EXCEPT !.phase = "claimed"] /\ j.phase = "pending"
    BY <1>3 DEF Candidates, BegunInv
  <2> QED
    BY <1>1, <1>2, <2>1 DEF Job, Phase, Continues, Rank
<1>4. CASE op[p] = "complete"
  <2>1. new = [j EXCEPT !.phase = "completed"] /\ j.phase = "claimed"
    BY <1>4 DEF Candidates, BegunInv
  <2> QED
    BY <1>1, <1>2, <2>1 DEF Job, Phase, Continues, Rank
<1>5. CASE op[p] = "bind"
  <2>1. PICK a \in Authorities : new = [j EXCEPT !.dispatch = a]
    BY <1>5 DEF Candidates
  <2>2. j.dispatch \in {None, new.dispatch}
    BY <1>1, <1>5 DEF Allowed, DispatchReplacement
  <2> QED
    BY <1>1, <1>2, <2>1, <2>2 DEF Job, Phase, Continues, Rank
<1>6. CASE op[p] = "validate"
  <2>1. new = [j EXCEPT !.validated = TRUE]
    BY <1>6 DEF Candidates
  <2>2. /\ new \in Job /\ new.phase = j.phase /\ new.dispatch = j.dispatch
        /\ new.delivery = j.delivery
    BY <1>1, <2>1 DEF Job
  <2>3. new.validated
    BY <1>1, <2>1 DEF Job
  <2>4. Rank(j.phase) <= Rank(new.phase)
    BY <1>2, <2>2 DEF Phase, Rank
  <2> QED
    BY <1>1, <2>2, <2>3, <2>4 DEF Continues
<1> QED
  BY <1>3, <1>4, <1>5, <1>6

\* A check that finds the bytes to publish.
LEMMA PublishStep ==
    ASSUME RepositoryInv, NEW p \in Procs, pc[p] = "check", NEW v, Publish(p, v),
           UNCHANGED <<store, owner, op, seen, temp, ghosts>>,
           IF op[p] = "create" THEN v = IntentBytes
           ELSE op[p] \in JobOperations /\ v \in Job /\ Continues(CurrentJob, v)
    PROVE  RepositoryInv'
<1>1. StoreInv /\ LocalTypeOK /\ WriterInv(p) /\ Go(p, "open")
  BY DEF RepositoryInv, LocalInv, Publish
<1>2. /\ StoreInv' /\ CurrentJob' = CurrentJob
      /\ Visible("intents")' = Visible("intents")
  BY <1>1, StoreKept DEF store, ghosts, Dirs
<1>3. pc'[p] = "open" /\ cand'[p] = v /\ DOMAIN cand' = Procs
  BY <1>1 DEF Publish, Go, LocalTypeOK
<1>4. CandidateInv(p)'
  BY <1>2, <1>3 DEF CandidateInv
<1>5. WriterInv(p)'
  BY <1>1, <1>2, <1>3, <1>4 DEF WriterInv
<1> QED
  BY <1>1, <1>2, <1>3, <1>5, OwnerStep DEF LocalTypeOK, Places, store, ghosts

\* A check that refuses.
LEMMA RefusedStep ==
    ASSUME RepositoryInv, NEW p \in Procs, pc[p] # "idle", Go(p, "refused"),
           UNCHANGED <<store, owner, op, seen, cand, temp, ghosts>>
    PROVE  RepositoryInv'
<1>1. StoreInv /\ LocalTypeOK /\ StoreInv'
  BY StoreKept DEF RepositoryInv, store, ghosts
<1>2. WriterInv(p)'
  BY <1>1, NothingToWrite DEF LocalTypeOK
<1> QED
  BY <1>1, <1>2, OwnerStep DEF LocalTypeOK, Places, store, ghosts

LEMMA CheckStep ==
    ASSUME StoreAssumption, RepositoryInv, NEW p \in Procs,
           \/ CheckReplacement(p) \/ CheckRetirement(p) \/ CheckCreation(p) \/ CheckRemoval(p)
    PROVE  RepositoryInv'
<1>1. StoreInv /\ LocalTypeOK /\ (pc[p] # "idle" => SeenInv(p) /\ BegunInv(p) /\ WriterInv(p))
  BY DEF RepositoryInv, LocalInv
<1>2. CASE CheckReplacement(p)
  <2>1. /\ pc[p] = "check" /\ op[p] \in {"claim", "complete", "bind", "validate"}
        /\ UNCHANGED <<store, owner, op, seen, temp, ghosts>>
    BY <1>2 DEF CheckReplacement
  <2>2. PICK new \in Candidates(p) :
            IF SameRevision(p) /\ Allowed(op[p], CurrentJob, new)
            THEN Publish(p, new)
            ELSE Go(p, "refused") /\ UNCHANGED cand
    BY <1>2 DEF CheckReplacement
  <2>3. CASE SameRevision(p) /\ Allowed(op[p], CurrentJob, new)
    <3>1. seen[p].job \in Job /\ BegunInv(p)
      BY <1>1, <2>1 DEF SeenInv, BegunInv
    <3>2. new \in Job /\ Continues(CurrentJob, new)
      BY <2>1, <2>3, <3>1, ReplacementContinues
    <3>3. op[p] # "create" /\ op[p] \in JobOperations
      BY <2>1 DEF JobOperations
    <3> QED
      BY <2>1, <2>2, <2>3, <3>2, <3>3, PublishStep
  <2>4. CASE ~(SameRevision(p) /\ Allowed(op[p], CurrentJob, new))
    BY <2>1, <2>2, <2>4, RefusedStep
  <2> QED
    BY <2>3, <2>4
<1>3. CASE CheckRetirement(p)
  <2>1. /\ pc[p] = "check" /\ op[p] = "retire"
        /\ UNCHANGED <<store, owner, op, seen, temp, ghosts>>
    BY <1>3 DEF CheckRetirement
  <2>2. CASE Go(p, "refused") /\ UNCHANGED cand
    BY <2>1, <2>2, RefusedStep
  <2>3. ASSUME CurrentJob.delivery = "unacknowledged", NEW why \in {"acknowledged", "expired"},
               Publish(p, [CurrentJob EXCEPT !.delivery = why])
        PROVE  RepositoryInv'
    <3> DEFINE v == [CurrentJob EXCEPT !.delivery = why]
    <3>1. CurrentJob \in Job
      BY <1>1, VisibleFacts
    <3>2. v \in Job /\ Continues(CurrentJob, v)
      BY <2>3, <3>1 DEF Job, Phase, Delivery, Continues, Rank
    <3>3. op[p] # "create" /\ op[p] \in JobOperations
      BY <2>1 DEF JobOperations
    <3> HIDE DEF v
    <3>4. Publish(p, v)
      BY <2>3 DEF v
    <3> QED
      BY <2>1, <3>2, <3>3, <3>4, PublishStep
  <2> QED
    BY <1>3, <2>2, <2>3 DEF CheckRetirement
<1>4. CASE CheckCreation(p)
  BY <1>4, PublishStep DEF CheckCreation
<1>5. CASE CheckRemoval(p)
  <2>1. /\ pc[p] = "check" /\ op[p] = "remove"
        /\ UNCHANGED <<store, owner, op, seen, cand, temp, ghosts>>
        /\ Go(p, IF SameGeneration(p) THEN "unlink" ELSE "refused")
    BY <1>5 DEF CheckRemoval
  <2>2. CASE ~SameGeneration(p)
    BY <2>1, <2>2, RefusedStep
  <2>3. CASE SameGeneration(p)
    <3>1. Go(p, "unlink") /\ Visible("intents").rec = seen[p].intent
      BY <2>1, <2>3 DEF SameGeneration, RemovalToken
    <3>2. StoreInv' /\ Visible("intents")' = Visible("intents")
      BY <1>1, <2>1, StoreKept DEF store, ghosts, Dirs
    <3>3. pc'[p] = "unlink"
      BY <1>1, <3>1 DEF Go, LocalTypeOK
    <3>4. WriterInv(p)'
      BY <2>1, <3>1, <3>2, <3>3 DEF WriterInv
    <3> QED
      BY <1>1, <2>1, <3>1, <3>2, <3>4, OwnerStep DEF LocalTypeOK, Places, store, ghosts
  <2> QED
    BY <2>2, <2>3
<1> QED
  BY <1>2, <1>3, <1>4, <1>5

-----------------------------------------------------------------------------
\* create_immutable, replace and remove.

\* The new inode is not one that any state of a directory, or anything that was
\* acknowledged, refers to.
LEMMA OpenStep ==
    ASSUME StoreAssumption, RepositoryInv, NEW p \in Procs, OpenTemp(p)
    PROVE  RepositoryInv'
<1>1. /\ StoreInv /\ LocalTypeOK /\ FilesInv /\ WriterInv(p) /\ BegunInv(p) /\ pc[p] = "open"
      /\ UNCHANGED <<owner, op, seen, cand, acked, created, condemned, removed>>
  BY DEF OpenTemp, RepositoryInv, LocalInv, StoreInv, ghosts
<1>2. PICK d \in Dirs, i \in Nat :
        /\ d = Where(op[p]) /\ i = Len(data) + 1
        /\ data' = Append(data, [value |-> Torn, synced |-> FALSE])
        /\ Becomes(d, [Visible(d) EXCEPT !.temps = @ \cup {i}])
        /\ temp' = [temp EXCEPT ![p] = i]
  <2>1. Where(op[p]) \in Dirs /\ Len(data) + 1 \in Nat
    BY <1>1 DEF Where, Dirs, FilesInv
  <2> QED
    BY <2>1 DEF OpenTemp
<1>3. /\ data' \in Seq(Inode) /\ DOMAIN data = 1..Len(data) /\ DOMAIN data' = 1..i
      /\ \A x \in DOMAIN data : data'[x] = data[x]
      /\ i \notin DOMAIN data /\ i \in DOMAIN data' /\ DOMAIN data \subseteq DOMAIN data'
  <2>1. [value |-> Torn, synced |-> FALSE] \in Inode
    BY DEF Inode
  <2> QED
    BY <1>1, <1>2, <2>1 DEF FilesInv
<1>4. PICK t \in Directory :
        /\ Becomes(d, t) /\ t.rec = Visible(d).rec /\ t.temps = Visible(d).temps \cup {i}
  BY <1>1, <1>2, VisibleFacts DEF Directory
<1>5. /\ FilesInv' /\ Visible(d)' = t
      /\ \A x \in History(d)' : x \in History(d) \cup {t}
      /\ \A e \in Dirs \ {d} : History(e)' = History(e) /\ Visible(e)' = Visible(e)
  BY <1>1, <1>3, <1>4, DirectoryStep
<1>6. \A e \in Dirs : Visible(e)'.rec = Visible(e).rec
  BY <1>4, <1>5
<1>7. /\ \A x \in History("jobs") : JobState(x)'
      /\ \A x \in History("intents") : IntentState(x)'
  BY <1>1, <1>3, StateKept DEF StoreInv
<1>8. d = "jobs" => JobState(t)'
  <2>1. JobState(Visible("jobs"))
    BY <1>1, VisibleFacts
  <2> QED
    BY <1>1, <1>3, <1>4, <2>1 DEF JobState
<1>9. d = "intents" => IntentState(t)'
  <2> HAVE d = "intents"
  <2>1. IntentState(Visible("intents"))
    BY <1>1, VisibleFacts
  <2>2. op[p] = "create"
    BY <1>1, <1>2 DEF Where, WriterInv, CandidateInv, JobOperations
  <2>3. t.temps = {i}
    BY <1>1, <1>4, <2>2 DEF WriterInv
  <2> QED
    BY <1>1, <1>3, <1>4, <2>1, <2>3 DEF IntentState
<1>10. StoreInv'
  <2>1. \A x \in History("jobs")' : JobState(x)'
    BY <1>5, <1>7, <1>8 DEF Dirs
  <2>2. \A x \in History("intents")' : IntentState(x)'
    BY <1>5, <1>7, <1>9 DEF Dirs
  <2> QED
    BY <1>1, <1>3, <1>5, <2>1, <2>2 DEF StoreInv
<1>11. pc'[p] = "write" /\ temp'[p] = i /\ temp' \in [Procs -> Nat \cup {None}] /\ Go(p, "write")
  BY <1>1, <1>2 DEF OpenTemp, Go, LocalTypeOK
<1>12. CandidateInv(p)'
  <2>1. Visible("jobs").rec \in DOMAIN data
    BY <1>1, VisibleFacts DEF JobState
  <2>2. CurrentJob' = CurrentJob
    BY <1>3, <1>6, <2>1 DEF CurrentJob, Value, Dirs
  <2> QED
    BY <1>1, <2>2 DEF WriterInv, CandidateInv
<1>13. TemporaryInv(p)'
  <2>1. i \notin removed'
    BY <1>1, <1>3 DEF StoreInv
  <2>2. ASSUME NEW e \in Dirs, NEW x \in History(e) PROVE x.rec # i
    BY <1>1, <1>3 DEF StoreInv, JobState, IntentState, StoreAssumption, Dirs
  <2>3. t.rec # i
    BY <1>1, <1>4, <2>2, VisibleFacts
  <2>4. ASSUME NEW e \in Dirs, NEW x \in History(e)' PROVE x.rec # i
    BY <1>5, <2>2, <2>3
  <2> QED
    BY <1>3, <1>11, <2>1, <2>4 DEF TemporaryInv
<1>14. WriterInv(p)'
  BY <1>11, <1>12, <1>13 DEF WriterInv
<1> QED
  BY <1>1, <1>3, <1>10, <1>11, <1>14, OwnerStep DEF LocalTypeOK, Places

\* A change of the temporary's inode changes no record.
LEMMA TemporaryChanged ==
    ASSUME StoreAssumption, RepositoryInv, NEW p \in Procs, pc[p] \in {"write", "sync"},
           NEW v \in Inode, data' = [data EXCEPT ![temp[p]] = v],
           UNCHANGED <<fs, op, cand, temp, ghosts>>
    PROVE  /\ StoreInv' /\ DOMAIN data' = DOMAIN data /\ data'[temp[p]] = v
           /\ CandidateInv(p)' /\ TemporaryInv(p)'
<1>1. /\ StoreInv /\ FilesInv /\ CandidateInv(p) /\ TemporaryInv(p)
      /\ UNCHANGED <<acked, created, condemned, removed>>
  BY DEF RepositoryInv, LocalInv, WriterInv, StoreInv, ghosts
<1>2. /\ data' \in Seq(Inode) /\ DOMAIN data' = DOMAIN data /\ data'[temp[p]] = v
      /\ \A x \in DOMAIN data \ {temp[p]} : data'[x] = data[x]
  BY <1>1 DEF FilesInv, TemporaryInv
<1>3. \A d \in Dirs : History(d)' = History(d) /\ Visible(d)' = Visible(d)
  BY DEF History, Visible
<1>4. /\ \A x \in History("jobs") : JobState(x)'
      /\ \A x \in History("intents") : IntentState(x)'
  <2>1. \A d \in Dirs : \A x \in History(d) : x.rec \in DOMAIN data => data'[x.rec] = data[x.rec]
    BY <1>1, <1>2 DEF TemporaryInv
  <2> QED
    BY <1>1, <1>2, <2>1, StateKept DEF StoreInv, Dirs
<1>5. StoreInv'
  BY <1>1, <1>2, <1>3, <1>4 DEF StoreInv, FilesInv, Dirs
<1>6. CurrentJob' = CurrentJob
  <2>1. /\ Visible("jobs") \in History("jobs") /\ "jobs" \in Dirs
        /\ Visible("jobs").rec \in DOMAIN data
    BY <1>1, VisibleFacts DEF JobState
  <2> QED
    BY <1>1, <1>2, <1>3, <2>1 DEF TemporaryInv, CurrentJob, Value
<1>7. CandidateInv(p)' /\ TemporaryInv(p)'
  BY <1>1, <1>2, <1>3, <1>6 DEF CandidateInv, TemporaryInv
<1> QED
  BY <1>2, <1>5, <1>7

LEMMA WriteStep ==
    ASSUME StoreAssumption, RepositoryInv, NEW p \in Procs, WriteAll(p) \/ SyncFile(p)
    PROVE  RepositoryInv'
<1>1. /\ LocalTypeOK /\ FilesInv /\ WriterInv(p) /\ pc[p] \in {"write", "sync"}
      /\ UNCHANGED <<fs, owner, op, seen, cand, temp, ghosts>>
  BY DEF WriteAll, SyncFile, RepositoryInv, LocalInv, StoreInv
<1>2. CandidateInv(p) /\ temp[p] \in DOMAIN data /\ data[temp[p]] \in Inode
  BY <1>1 DEF WriterInv, TemporaryInv, FilesInv
<1>3. CASE WriteAll(p)
  <2>1. PICK v \in Inode : data' = [data EXCEPT ![temp[p]] = v] /\ v.value = cand[p]
    <3>1. cand[p] \in Job \cup {IntentBytes}
      BY <1>2 DEF CandidateInv
    <3>2. /\ [data[temp[p]] EXCEPT !.value = cand[p]] \in Inode
          /\ [data[temp[p]] EXCEPT !.value = cand[p]].value = cand[p]
      BY <1>2, <3>1 DEF Inode
    <3> QED
      BY <1>3, <3>2 DEF WriteAll
  <2>2. /\ StoreInv' /\ DOMAIN data' = DOMAIN data /\ data'[temp[p]] = v
        /\ CandidateInv(p)' /\ TemporaryInv(p)'
    BY <1>1, <2>1, TemporaryChanged
  <2>3. pc'[p] = "sync" /\ Go(p, "sync")
    BY <1>1, <1>3 DEF WriteAll, Go, LocalTypeOK
  <2>4. WriterInv(p)'
    BY <1>1, <2>1, <2>2, <2>3 DEF WriterInv
  <2> QED
    BY <1>1, <2>2, <2>3, <2>4, OwnerStep DEF LocalTypeOK, Places, ghosts
<1>4. CASE SyncFile(p)
  <2>1. PICK v \in Inode : data' = [data EXCEPT ![temp[p]] = v] /\ v.value = cand[p] /\ v.synced
    <3>1. /\ [data[temp[p]] EXCEPT !.synced = TRUE] \in Inode
          /\ [data[temp[p]] EXCEPT !.synced = TRUE].value = cand[p]
      BY <1>1, <1>2, <1>4 DEF Inode, WriterInv, SyncFile
    <3>2. [data[temp[p]] EXCEPT !.synced = TRUE].synced
      BY <1>2 DEF Inode
    <3> QED
      BY <1>4, <3>1, <3>2 DEF SyncFile
  <2>2. /\ StoreInv' /\ DOMAIN data' = DOMAIN data /\ data'[temp[p]] = v
        /\ CandidateInv(p)' /\ TemporaryInv(p)'
    BY <1>1, <2>1, TemporaryChanged
  <2>3. pc'[p] = "rename" /\ Go(p, "rename")
    BY <1>1, <1>4 DEF SyncFile, Go, LocalTypeOK
  <2>4. WriterInv(p)'
    BY <1>1, <2>1, <2>2, <2>3 DEF WriterInv
  <2> QED
    BY <1>1, <2>2, <2>3, <2>4, OwnerStep DEF LocalTypeOK, Places, ghosts
<1> QED
  BY <1>3, <1>4

\* A writer that gives up keeps its temporary to remove it.
LEMMA GiveUpStep ==
    ASSUME StoreAssumption, RepositoryInv, NEW p \in Procs,
           pc[p] \in {"write", "sync", "rename"}, Go(p, "discard"),
           UNCHANGED <<store, owner, op, seen, cand, temp, ghosts>>
    PROVE  RepositoryInv'
<1>1. StoreInv /\ LocalTypeOK /\ TemporaryInv(p)
  BY DEF RepositoryInv, LocalInv, WriterInv
<1>2. /\ StoreInv' /\ \A d \in Dirs : History(d)' = History(d)
      /\ UNCHANGED <<data, condemned, removed>>
  BY <1>1, StoreKept DEF store, ghosts
<1>3. pc'[p] = "discard" /\ TemporaryInv(p)'
  BY <1>1, <1>2 DEF Go, LocalTypeOK, TemporaryInv
<1>4. WriterInv(p)'
  BY <1>3 DEF WriterInv
<1> QED
  BY <1>1, <1>2, <1>4, OwnerStep DEF LocalTypeOK, Places

\* A step that changes one directory and no inode.
LEMMA NameStep ==
    ASSUME StoreAssumption, RepositoryInv, NEW p \in Procs, pc[p] # "idle",
           NEW d \in Dirs, NEW t \in Directory,
           Becomes(d, t) \/ fs' = [fs EXCEPT ![d] = <<t>>],
           d = "jobs" => JobState(t), d = "intents" => IntentState(t),
           UNCHANGED <<data, owner, op, seen, cand, temp, ghosts>>,
           NEW w \in Places, Go(p, w), Visible(d)' = t => WriterInv(p)'
    PROVE  RepositoryInv'
<1>1. /\ StoreInv /\ FilesInv /\ LocalTypeOK /\ data' \in Seq(Inode)
      /\ UNCHANGED <<acked, created, condemned, removed>>
  BY DEF RepositoryInv, StoreInv, FilesInv, ghosts
<1>2. /\ FilesInv' /\ Visible(d)' = t
      /\ \A x \in History(d)' : x \in History(d) \cup {t}
      /\ \A e \in Dirs \ {d} : History(e)' = History(e)
  BY <1>1, DirectoryStep
<1>3. /\ \A x : JobState(x) => JobState(x)'
      /\ \A x : IntentState(x) => IntentState(x)'
  BY <1>1, StateKept
<1>4. \A x \in History("jobs")' : JobState(x)'
  BY <1>1, <1>2, <1>3 DEF StoreInv, Dirs
<1>5. \A x \in History("intents")' : IntentState(x)'
  BY <1>1, <1>2, <1>3 DEF StoreInv, Dirs
<1>6. StoreInv'
  BY <1>1, <1>2, <1>4, <1>5 DEF StoreInv
<1> QED
  BY <1>1, <1>2, <1>6, OwnerStep DEF LocalTypeOK

\* The rename: the bytes under the name are whole and synced, and take nothing
\* back.
LEMMA RenameStep ==
    ASSUME StoreAssumption, RepositoryInv, NEW p \in Procs, RenameReplace(p) \/ RenameNoReplace(p)
    PROVE  RepositoryInv'
<1>1. /\ StoreInv /\ LocalTypeOK /\ pc[p] = "rename" /\ BegunInv(p)
      /\ CandidateInv(p) /\ TemporaryInv(p)
      /\ data[temp[p]].value = cand[p] /\ data[temp[p]].synced
      /\ UNCHANGED <<data, owner, op, seen, cand, temp, ghosts>>
  BY DEF RenameReplace, RenameNoReplace, RepositoryInv, LocalInv, WriterInv
<1>2. temp[p] \in Nat
  BY <1>1 DEF TemporaryInv, StoreInv, FilesInv
<1>3. CASE RenameReplace(p)
  <2>1. PICK t \in Directory :
            Becomes("jobs", t) /\ t.rec = temp[p] /\ t.temps = Visible("jobs").temps \ {temp[p]}
    BY <1>1, <1>2, <1>3, VisibleFacts DEF RenameReplace, Renamed, Directory
  <2>2. /\ op[p] # "create" /\ op[p] \in JobOperations /\ cand[p] \in Job
        /\ Continues(CurrentJob, cand[p]) /\ Go(p, "dirsync")
    BY <1>1, <1>3 DEF RenameReplace, Renamed, CandidateInv
  <2>3. JobState(t)
    <3>1. JobState(Visible("jobs")) /\ CurrentJob \in Job /\ Continues(acked, CurrentJob)
      BY <1>1, VisibleFacts
    <3>2. Continues(acked, cand[p])
      BY <1>1, <2>2, <3>1, ContinuesFacts DEF StoreInv
    <3> QED
      BY <1>1, <2>1, <2>2, <3>1, <3>2 DEF JobState, TemporaryInv
  <2>4. pc'[p] = "dirsync" /\ op'[p] \in JobOperations
    BY <1>1, <2>2 DEF Go, LocalTypeOK
  <2>5. WriterInv(p)'
    BY <2>4 DEF WriterInv, JobOperations
  <2> QED
    BY <1>1, <2>1, <2>2, <2>3, <2>5, NameStep DEF Dirs, Places
<1>4. CASE RenameNoReplace(p) /\ Visible("intents").rec = None
  <2>1. PICK t \in Directory :
            /\ Becomes("intents", t)
            /\ t.rec = temp[p] /\ t.temps = Visible("intents").temps \ {temp[p]}
    BY <1>1, <1>2, <1>4, VisibleFacts DEF RenameNoReplace, Renamed, Directory
  <2>2. op[p] = "create" /\ cand[p] = IntentBytes /\ Go(p, "dirsync")
    BY <1>1, <1>4 DEF RenameNoReplace, Renamed, CandidateInv
  <2>3. IntentState(t)
    <3>1. IntentState(Visible("intents"))
      BY <1>1, VisibleFacts
    <3>2. created \ condemned = {}
      <4>1. created \ condemned \subseteq {None} /\ created \subseteq Nat
        BY <1>1, <1>4, <3>1 DEF IntentState, StoreInv, FilesInv
      <4> QED
        BY <4>1 DEF StoreAssumption
    <3> QED
      BY <1>1, <2>1, <2>2, <3>1, <3>2 DEF IntentState, TemporaryInv
  <2>4. pc'[p] = "dirsync" /\ op'[p] = "create" /\ temp'[p] = temp[p] /\ temp[p] \in DOMAIN data'
    BY <1>1, <2>2 DEF Go, LocalTypeOK, TemporaryInv
  <2>5. Visible("intents")' = t => WriterInv(p)'
    BY <2>1, <2>4 DEF WriterInv
  <2> QED
    BY <1>1, <2>1, <2>2, <2>3, <2>5, NameStep DEF Dirs, Places
<1>5. CASE RenameNoReplace(p) /\ Visible("intents").rec # None
  <2>1. Go(p, "discard") /\ UNCHANGED store
    BY <1>1, <1>5 DEF RenameNoReplace, store
  <2> QED
    BY <1>1, <2>1, GiveUpStep
<1> QED
  BY <1>3, <1>4, <1>5

LEMMA RemoveTemporaryStep ==
    ASSUME StoreAssumption, RepositoryInv, NEW p \in Procs, RemoveTemporary(p)
    PROVE  RepositoryInv'
<1>1. /\ StoreInv /\ LocalTypeOK /\ pc[p] # "idle"
      /\ Go(p, "refused") /\ UNCHANGED <<data, owner, op, seen, cand, temp, ghosts>>
  BY DEF RemoveTemporary, RepositoryInv
<1>2. PICK d \in Dirs :
        fs' = [fs EXCEPT ![d] = <<[Visible(d) EXCEPT !.temps = @ \ {temp[p]}]>>]
  BY DEF RemoveTemporary, Where, Dirs
<1>3. PICK t \in Directory :
        /\ fs' = [fs EXCEPT ![d] = <<t>>]
        /\ t.rec = Visible(d).rec /\ t.temps = Visible(d).temps \ {temp[p]}
  <2> DEFINE u == [Visible(d) EXCEPT !.temps = @ \ {temp[p]}]
  <2>1. /\ u \in Directory /\ u.rec = Visible(d).rec /\ u.temps = Visible(d).temps \ {temp[p]}
    BY <1>1, VisibleFacts DEF Directory
  <2>2. fs' = [fs EXCEPT ![d] = <<u>>]
    BY <1>2
  <2> HIDE DEF u
  <2> QED
    BY <2>1, <2>2
<1>4. JobState(Visible("jobs")) /\ IntentState(Visible("intents"))
  BY <1>1, VisibleFacts
<1>5. d = "jobs" => JobState(t)
  BY <1>3, <1>4 DEF JobState
<1>6. d = "intents" => IntentState(t)
  BY <1>3, <1>4 DEF IntentState
<1>7. WriterInv(p)'
  BY <1>1, NothingToWrite DEF LocalTypeOK
<1> QED
  BY <1>1, <1>3, <1>5, <1>6, <1>7, NameStep DEF Places

\* The unlink: the intent that goes is one the process was given the token for.
LEMMA UnlinkStep ==
    ASSUME StoreAssumption, RepositoryInv, NEW p \in Procs, Unlink(p)
    PROVE  RepositoryInv'
<1>1. /\ StoreInv /\ LocalTypeOK /\ pc[p] = "unlink" /\ op[p] = "remove"
      /\ SeenInv(p) /\ BegunInv(p) /\ Visible("intents").rec = seen[p].intent
      /\ Go(p, "dirsync") /\ UNCHANGED <<data, owner, op, seen, cand, temp, ghosts>>
  BY DEF Unlink, RepositoryInv, LocalInv, WriterInv
<1>2. PICK t \in Directory :
        Becomes("intents", t) /\ t.rec = None /\ t.temps = Visible("intents").temps
  BY <1>1, VisibleFacts DEF Unlink, Directory
<1>3. IntentState(t)
  <2>1. IntentState(Visible("intents"))
    BY <1>1, VisibleFacts
  <2>2. seen[p].intent \in condemned
    BY <1>1 DEF SeenInv, BegunInv
  <2>3. created \ condemned = {}
    BY <1>1, <2>1, <2>2 DEF IntentState
  <2>4. None \notin removed
    BY <1>1 DEF StoreInv, FilesInv, StoreAssumption
  <2> QED
    BY <1>2, <2>1, <2>3, <2>4 DEF IntentState
<1>4. pc'[p] = "dirsync" /\ op'[p] = "remove"
  BY <1>1 DEF Go, LocalTypeOK
<1>5. Visible("intents")' = t => WriterInv(p)'
  BY <1>2, <1>4 DEF WriterInv
<1> QED
  BY <1>1, <1>2, <1>3, <1>5, NameStep DEF Dirs, Places

\* The sync of the directory: from here on it is in the state it shows, which is
\* what the caller is told.
LEMMA SyncDirectoryStep ==
    ASSUME StoreAssumption, RepositoryInv, NEW p \in Procs, SyncDirectory(p)
    PROVE  RepositoryInv'
<1>1. /\ StoreInv /\ FilesInv /\ LocalTypeOK /\ pc[p] = "dirsync"
      /\ SeenInv(p) /\ BegunInv(p) /\ WriterInv(p) /\ data' \in Seq(Inode) /\ data' = data
      /\ Go(p, "done") /\ UNCHANGED <<owner, op, seen, cand, temp, condemned>>
  BY DEF SyncDirectory, RepositoryInv, LocalInv, StoreInv, FilesInv
<1>2. PICK d \in Dirs : d = Where(op[p]) /\ fs' = [fs EXCEPT ![d] = <<Visible(d)>>]
  BY DEF SyncDirectory, Synced, Visible, Where, Dirs
<1>3. /\ JobState(Visible("jobs")) /\ IntentState(Visible("intents"))
      /\ CurrentJob \in Job /\ "jobs" \in Dirs /\ "intents" \in Dirs
  BY <1>1, VisibleFacts
<1>4. PICK t \in Directory : t = Visible(d) /\ fs' = [fs EXCEPT ![d] = <<t>>]
  BY <1>1, <1>2, VisibleFacts
<1>5. /\ FilesInv' /\ History(d)' = {t}
      /\ \A e \in Dirs \ {d} : History(e)' = History(e)
  BY <1>1, <1>4, DirectoryStep
<1>6. WriterInv(p)'
  BY <1>1, NothingToWrite DEF LocalTypeOK
<1>7. CASE op[p] = "create"
  <2>1. /\ d = "intents" /\ created' = created \cup {temp[p]} /\ UNCHANGED <<acked, removed>>
        /\ temp[p] \in DOMAIN data /\ t.rec = temp[p] /\ IntentState(t)
    BY <1>1, <1>2, <1>3, <1>4, <1>7 DEF Where, SyncDirectory, Acknowledge, WriterInv
  <2>2. IntentState(t)'
    BY <1>1, <2>1 DEF IntentState
  <2>3. \A x \in History("jobs") : JobState(x)'
    BY <1>1, <2>1 DEF StoreInv, JobState
  <2>4. StoreInv'
    BY <1>1, <1>3, <1>5, <2>1, <2>2, <2>3 DEF StoreInv
  <2> QED
    BY <1>1, <1>6, <2>4, OwnerStep DEF LocalTypeOK, Places
<1>8. CASE op[p] = "remove"
  <2>1. /\ d = "intents" /\ removed' = removed \cup {seen[p].intent} /\ UNCHANGED <<acked, created>>
        /\ t.rec = None /\ IntentState(t)
    BY <1>1, <1>2, <1>3, <1>4, <1>8 DEF Where, SyncDirectory, Acknowledge, WriterInv
  <2>2. seen[p].intent \in DOMAIN data
    BY <1>1, <1>8 DEF SeenInv, BegunInv
  <2>3. None \notin removed'
    BY <1>1, <2>1, <2>2 DEF StoreInv, FilesInv, StoreAssumption
  <2>4. IntentState(t)'
    BY <1>1, <2>1, <2>3 DEF IntentState
  <2>5. \A x \in History("jobs") : JobState(x)'
    BY <1>1, <2>1 DEF StoreInv, JobState
  <2>6. StoreInv'
    BY <1>1, <1>3, <1>5, <2>1, <2>2, <2>4, <2>5 DEF StoreInv
  <2> QED
    BY <1>1, <1>6, <2>6, OwnerStep DEF LocalTypeOK, Places
<1>9. CASE op[p] \notin {"create", "remove"}
  <2>1. d = "jobs" /\ acked' = CurrentJob /\ UNCHANGED <<created, removed>> /\ JobState(t)
    BY <1>1, <1>2, <1>3, <1>4, <1>9 DEF Where, SyncDirectory, Acknowledge
  <2>2. data[t.rec].value = CurrentJob
    BY <1>4, <2>1 DEF CurrentJob, Value
  <2>3. JobState(t)'
    <3>1. Continues(CurrentJob, CurrentJob)
      BY <1>3, ContinuesFacts
    <3>2. Continues(acked', data'[t.rec].value)
      BY <1>1, <2>1, <2>2, <3>1
    <3> QED
      BY <1>1, <2>1, <3>2 DEF JobState
  <2>4. \A x \in History("intents") : IntentState(x)'
    BY <1>1, <2>1 DEF StoreInv, IntentState
  <2>5. StoreInv'
    BY <1>1, <1>3, <1>5, <2>1, <2>3, <2>4 DEF StoreInv
  <2> QED
    BY <1>1, <1>6, <2>5, OwnerStep DEF LocalTypeOK, Places
<1> QED
  BY <1>7, <1>8, <1>9

LEMMA ReleaseStep ==
    ASSUME StoreAssumption, RepositoryInv, NEW p \in Procs, Release(p)
    PROVE  RepositoryInv'
<1>1. StoreInv /\ LocalTypeOK /\ StoreInv' /\ UNCHANGED <<data, seen, condemned>>
  BY StoreKept DEF Release, RepositoryInv, store, ghosts
<1>2. LocalTypeOK'
  BY <1>1 DEF Release, Go, LocalTypeOK, Places
<1>3. \A q \in Procs : pc'[q] = "idle"
  BY <1>1, OneOwner DEF Release, Go, LocalTypeOK
<1> QED
  BY <1>1, <1>2, <1>3, EndStep

\* A process dies, or all of them do.
LEMMA ForgetsStep ==
    ASSUME StoreAssumption, RepositoryInv, NEW P \in SUBSET Procs, Forgets(P),
           P = Procs \/ \E p \in P : pc[p] # "idle"
    PROVE  /\ LocalTypeOK'
           /\ \A q \in Procs : pc'[q] = "idle" /\ seen'[q] \in {seen[q], None}
<1>1. LocalTypeOK
  BY DEF RepositoryInv
<1>2. LocalTypeOK'
  <2>1. pc' \in [Procs -> Places]
    BY <1>1 DEF Forgets, LocalTypeOK, Places
  <2>2. op' \in [Procs -> Operations \cup {None}] /\ temp' \in [Procs -> Nat \cup {None}]
    BY <1>1 DEF Forgets, LocalTypeOK
  <2>3. DOMAIN seen' = Procs /\ DOMAIN cand' = Procs /\ owner' \in Procs \cup {None}
    BY <1>1 DEF Forgets, LocalTypeOK
  <2> QED
    BY <2>1, <2>2, <2>3 DEF LocalTypeOK
<1>3. ASSUME NEW q \in Procs PROVE pc'[q] = "idle" /\ seen'[q] \in {seen[q], None}
  <2>1. q \in P \/ pc[q] = "idle"
    BY OneOwner
  <2> QED
    BY <2>1 DEF Forgets
<1> QED
  BY <1>2, <1>3

LEMMA KillStep ==
    ASSUME StoreAssumption, RepositoryInv, NEW p \in Procs, Kill(p)
    PROVE  RepositoryInv'
<1>1. StoreInv' /\ UNCHANGED <<data, condemned>>
  BY StoreKept DEF Kill, RepositoryInv, store, ghosts
<1>2. {p} \in SUBSET Procs /\ Forgets({p}) /\ \E q \in {p} : pc[q] # "idle"
  BY DEF Kill
<1>3. LocalTypeOK' /\ \A q \in Procs : pc'[q] = "idle" /\ seen'[q] \in {seen[q], None}
  BY <1>2, ForgetsStep
<1> QED
  BY <1>1, <1>3, EndStep

\* A loss of power: every state of the histories is one the invariant is about,
\* and what a record refers to was synced before it got its name.
LEMMA PowerLossStep ==
    ASSUME StoreAssumption, RepositoryInv, PowerLoss
    PROVE  RepositoryInv'
<1>1. StoreInv /\ FilesInv /\ Forgets(Procs) /\ UNCHANGED <<acked, created, condemned, removed>>
  BY DEF PowerLoss, RepositoryInv, StoreInv, ghosts
<1>2. PICK j \in DOMAIN fs["jobs"], k \in DOMAIN fs["intents"] :
        fs' = [d \in Dirs |-> <<fs[d][IF d = "jobs" THEN j ELSE k]>>]
  BY DEF PowerLoss
<1>3. PICK torn \in SUBSET {i \in DOMAIN data : ~data[i].synced} :
        data' = [i \in DOMAIN data |->
            [value |-> IF i \in torn THEN Torn ELSE data[i].value, synced |-> TRUE]]
  BY DEF PowerLoss
<1>4. fs["jobs"] \in Seq(Directory) /\ fs["intents"] \in Seq(Directory)
  BY <1>1 DEF FilesInv, Dirs
<1>5. PICK s \in Directory, t \in Directory :
        /\ s = fs["jobs"][j] /\ t = fs["intents"][k]
        /\ s \in History("jobs") /\ t \in History("intents")
  BY <1>2, <1>4 DEF History, States
<1>6. /\ fs'["jobs"] = <<s>> /\ fs'["intents"] = <<t>> /\ DOMAIN fs' = Dirs
      /\ fs' = [d \in Dirs |-> fs'[d]]
  BY <1>2, <1>5 DEF Dirs
<1>7. /\ fs' \in [Dirs -> Seq(Directory)] /\ \A d \in Dirs : fs'[d] # << >>
      /\ History("jobs")' = {s} /\ History("intents")' = {t}
  <2>1. <<s>> \in Seq(Directory) /\ <<s>> # << >> /\ States(<<s>>) = {s}
    BY DEF States
  <2>2. <<t>> \in Seq(Directory) /\ <<t>> # << >> /\ States(<<t>>) = {t}
    BY DEF States
  <2> QED
    BY <1>6, <2>1, <2>2 DEF Dirs, History
<1>8. /\ data' \in Seq(Inode) /\ DOMAIN data' = DOMAIN data
      /\ \A i \in DOMAIN data : data[i].synced => data'[i].value = data[i].value /\ data'[i].synced
  <2>1. /\ Len(data) \in Nat /\ DOMAIN data = 1..Len(data)
        /\ \A i \in DOMAIN data : data[i] \in Inode
    BY <1>1 DEF FilesInv
  <2>2. ASSUME NEW i \in DOMAIN data PROVE data'[i] \in Inode
    BY <1>3, <2>1 DEF Inode
  <2>3. DOMAIN data' = 1..Len(data) /\ data' = [i \in 1..Len(data) |-> data'[i]]
    BY <1>3, <2>1
  <2>4. data' \in Seq(Inode)
    BY <2>1, <2>2, <2>3
  <2>5. ASSUME NEW i \in DOMAIN data, data[i].synced
        PROVE  data'[i].value = data[i].value /\ data'[i].synced
    BY <1>3, <2>5
  <2> QED
    BY <2>1, <2>3, <2>4, <2>5
<1>9. JobState(s)'
  <2>1. JobState(s)
    BY <1>1, <1>5 DEF StoreInv
  <2> QED
    BY <1>1, <1>8, <2>1 DEF JobState
<1>10. IntentState(t)'
  <2>1. IntentState(t)
    BY <1>1, <1>5 DEF StoreInv
  <2> QED
    BY <1>1, <1>8, <2>1 DEF IntentState
<1>11. StoreInv'
  BY <1>1, <1>7, <1>8, <1>9, <1>10 DEF StoreInv, FilesInv
<1>12. LocalTypeOK' /\ \A q \in Procs : pc'[q] = "idle" /\ seen'[q] \in {seen[q], None}
  BY <1>1, ForgetsStep
<1> QED
  BY <1>1, <1>8, <1>11, <1>12, EndStep

-----------------------------------------------------------------------------
LEMMA RepositoryInitially ==
    ASSUME StoreAssumption, Init
    PROVE  RepositoryInv
<1>1. PICK s \in Directory, t \in Directory :
        /\ s = [rec |-> 1, temps |-> {}] /\ t = [rec |-> None, temps |-> {}]
        /\ fs = [d \in Dirs |-> IF d = "jobs" THEN <<s>> ELSE <<t>>]
  <2>1. [rec |-> 1, temps |-> {}] \in Directory /\ [rec |-> None, temps |-> {}] \in Directory
    BY DEF Directory
  <2> QED
    BY <2>1 DEF Init, Dirs
<1>2. /\ fs["jobs"] = <<s>> /\ fs["intents"] = <<t>>
      /\ fs \in [Dirs -> Seq(Directory)] /\ \A d \in Dirs : fs[d] # << >>
  <2>1. <<s>> \in Seq(Directory) /\ <<s>> # << >>
    OBVIOUS
  <2>2. <<t>> \in Seq(Directory) /\ <<t>> # << >>
    OBVIOUS
  <2> QED
    BY <1>1, <2>1, <2>2 DEF Dirs
<1>3. History("jobs") = {s} /\ History("intents") = {t}
  <2>1. States(<<s>>) = {s}
    BY DEF States
  <2>2. States(<<t>>) = {t}
    BY DEF States
  <2> QED
    BY <1>2, <2>1, <2>2 DEF History
<1>4. NewJob \in Job
  BY DEF NewJob, Job, Phase, Delivery
<1>5. data \in Seq(Inode) /\ DOMAIN data = {1} /\ data[1].value = NewJob /\ data[1].synced
  BY <1>4 DEF Init, Inode
<1>6. JobState(s) /\ IntentState(t)
  <2>1. Continues(NewJob, NewJob)
    BY <1>4, ContinuesFacts
  <2> QED
    BY <1>1, <1>4, <1>5, <2>1 DEF Init, JobState, IntentState
<1>7. StoreInv
  BY <1>2, <1>3, <1>4, <1>5, <1>6 DEF StoreInv, FilesInv, Init
<1>8. LocalTypeOK /\ \A p \in Procs : LocalInv(p)
  BY DEF Init, LocalTypeOK, LocalInv, SeenInv, Places
<1> QED
  BY <1>7, <1>8 DEF RepositoryInv

LEMMA RepositoryStep ==
    ASSUME StoreAssumption, RepositoryInv, [Next]_vars
    PROVE  RepositoryInv'
<1>1. ASSUME UNCHANGED vars PROVE RepositoryInv'
  <2>1. /\ StoreInv' /\ CurrentJob' = CurrentJob
        /\ \A d \in Dirs : History(d)' = History(d) /\ Visible(d)' = Visible(d)
    BY <1>1, StoreKept DEF RepositoryInv, vars, ghosts
  <2>2. LocalTypeOK'
    BY <1>1 DEF RepositoryInv, LocalTypeOK, vars, local
  <2>3. ASSUME NEW p \in Procs PROVE LocalInv(p)'
    <3>1. SeenInv(p) => SeenInv(p)'
      BY <1>1 DEF SeenInv, vars, local, ghosts
    <3>2. BegunInv(p) => BegunInv(p)'
      BY <1>1 DEF BegunInv, vars, local
    <3>3. CandidateInv(p) => CandidateInv(p)'
      BY <1>1, <2>1 DEF CandidateInv, vars, local
    <3>4. TemporaryInv(p) => TemporaryInv(p)'
      BY <1>1, <2>1 DEF TemporaryInv, vars, local, ghosts
    <3>5. WriterInv(p) => WriterInv(p)'
      BY <1>1, <2>1, <3>3, <3>4 DEF WriterInv, Dirs, vars, local
    <3> QED
      BY <1>1, <3>1, <3>2, <3>5 DEF RepositoryInv, LocalInv, vars, local
  <2> QED
    BY <2>1, <2>2, <2>3 DEF RepositoryInv
<1>2. ASSUME NEW p \in Procs, WriteFails(p) PROVE RepositoryInv'
  BY <1>2, GiveUpStep DEF WriteFails
<1> QED
  BY <1>1, <1>2, ReadStep, BeginStep, MeasureStep, ReleaseStep, KillStep, CheckStep, OpenStep,
     WriteStep, RenameStep, RemoveTemporaryStep, UnlinkStep, SyncDirectoryStep, PowerLossStep
     DEF Next, Rest

LEMMA RepositoryInvariance == ASSUME StoreAssumption PROVE Spec => []RepositoryInv
<1>1. Init => RepositoryInv
  BY RepositoryInitially
<1>2. RepositoryInv /\ [Next]_vars => RepositoryInv'
  BY RepositoryStep
<1> QED
  BY <1>1, <1>2, PTL DEF Spec

\* Directories and inodes have their shape and one process at a time is in a
\* transaction (the exclusive tenant-state lock), through every crash.
THEOREM StoreTypes == ASSUME StoreAssumption PROVE Spec => []TypeOK
<1>1. ASSUME RepositoryInv PROVE TypeOK
  <2>1. StoreInv /\ FilesInv /\ LocalTypeOK /\ \A p \in Procs : LocalInv(p)
    BY <1>1 DEF RepositoryInv, StoreInv
  <2>2. ASSUME NEW d \in Dirs, NEW k \in DOMAIN fs[d]
        PROVE  fs[d][k].rec \in DOMAIN data \cup {None} /\ fs[d][k].temps \subseteq DOMAIN data
    <3>1. fs[d][k] \in History(d)
      BY DEF History, States
    <3>2. JobState(fs[d][k]) \/ IntentState(fs[d][k])
      BY <2>1, <3>1 DEF StoreInv, Dirs
    <3> QED
      BY <3>2 DEF JobState, IntentState
  <2>3. \A i \in DOMAIN data : data[i].value \in Job \cup {Torn, IntentBytes}
    <3>1. \A i \in DOMAIN data : data[i] \in Inode
      BY <2>1 DEF FilesInv
    <3> QED
      BY <3>1 DEF Inode
  <2>4. \A p \in Procs : pc[p] # "idle" => owner = p
    BY <2>1 DEF LocalInv, BegunInv
  <2> QED
    BY <2>1, <2>2, <2>3, <2>4 DEF TypeOK, StoreInv, FilesInv, LocalTypeOK
<1> QED
  BY <1>1, RepositoryInvariance, PTL

\* Whatever a reader can meet is a complete record, after any crash
\* (create_immutable and replace sync the bytes before the name).
THEOREM RecordsWhole == ASSUME StoreAssumption PROVE Spec => []NeverTorn
<1>1. ASSUME RepositoryInv PROVE NeverTorn
  <2>1. JobState(Visible("jobs")) /\ IntentState(Visible("intents"))
    BY <1>1, VisibleFacts DEF RepositoryInv
  <2> QED
    BY <2>1 DEF NeverTorn, Dirs, JobState, IntentState, Value, StoreAssumption
<1> QED
  BY <1>1, RepositoryInvariance, PTL

\* No acknowledged change of a job is lost or contradicted, by a process that
\* works from an old copy or by a loss of power at any system call
\* (compare_and_swap, the replacement rules, the sync before the answer).
THEOREM JobKept == ASSUME StoreAssumption PROVE Spec => []AcknowledgedJobKept
<1>1. ASSUME RepositoryInv PROVE AcknowledgedJobKept
  <2>1. Continues(acked, CurrentJob)
    BY <1>1, VisibleFacts DEF RepositoryInv
  <2> QED
    BY <2>1 DEF AcknowledgedJobKept, Continues
<1> QED
  BY <1>1, RepositoryInvariance, PTL

\* An intent whose creation was acknowledged goes only when a process that read
\* that very inode removes it (the removal tokens, RENAME_NOREPLACE).
THEOREM IntentKept == ASSUME StoreAssumption PROVE Spec => []OnlyCondemnedIntentsGo
<1>1. ASSUME RepositoryInv PROVE OnlyCondemnedIntentsGo
  BY <1>1, VisibleFacts DEF RepositoryInv, IntentState, OnlyCondemnedIntentsGo
<1> QED
  BY <1>1, RepositoryInvariance, PTL

\* An intent whose removal was acknowledged does not come back after a crash.
THEOREM IntentGone == ASSUME StoreAssumption PROVE Spec => []RemovedStaysRemoved
<1>1. ASSUME RepositoryInv PROVE RemovedStaysRemoved
  BY <1>1, VisibleFacts DEF RepositoryInv, IntentState, RemovedStaysRemoved
<1> QED
  BY <1>1, RepositoryInvariance, PTL

\* However many writers were interrupted, an inventory that accepts a record
\* finds no more entries than it sweeps (every create is preceded by an
\* inventory, so at most one temporary is ever left).
THEOREM InventoryAccepted ==
    ASSUME StoreAssumption, MaxIntents >= 1 PROVE Spec => []InventoryNeverRefused
<1>1. ASSUME RepositoryInv PROVE InventoryNeverRefused
  <2> DEFINE s == Visible("intents")
  <2>1. \A x, y \in s.temps : x = y
    BY <1>1, VisibleFacts DEF RepositoryInv, IntentState
  <2> HIDE DEF s
  <2>2. Cardinality(s.temps) \in {0, 1}
    <3>1. CASE s.temps = {}
      BY <3>1, FS_EmptySet
    <3>2. CASE s.temps # {}
      <4>1. PICK x \in s.temps : TRUE
        BY <3>2
      <4>2. s.temps = {x}
        BY <2>1, <4>1
      <4> QED
        BY <4>2, FS_Singleton
    <3> QED
      BY <3>1, <3>2
  <2>3. Entries(s) <= SweepCeiling
    BY <2>2 DEF Entries, SweepCeiling, StoreAssumption
  <2> QED
    BY <2>3 DEF InventoryNeverRefused, s
<1> QED
  BY <1>1, RepositoryInvariance, PTL
=============================================================================
