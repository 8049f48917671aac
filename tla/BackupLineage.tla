----------------------------- MODULE BackupLineage -----------------------------
\* The lineage of a host's backup repository (backup_lineage.py, backup_entrypoint.py,
\* backup_restic.py, production_namespace.py, production_lineage.py). A repository
\* belongs to one host history: a random identity is kept in the state directory
\* (locks/genesis), published as a snapshot of the repository, and only then kept as
\* the primary record (platform/) and as the head of an empty audit archive. Before
\* there is a lineage, legacy retention may forget ordinary snapshots.
\*
\* One process at a time holds the repository's lock, and the restic child it starts
\* inherits it. Processes are killed anywhere, their child goes on; the host loses
\* power and with it the directory entries that no fsync has made durable.
EXTENDS Naturals, FiniteSets, Sequences
LOCAL INSTANCE SequencesExt

CONSTANTS
    Ordinary,       \* ordinary snapshots of the time before the lineage
    MaxIdentities,  \* bound: identities generated
    MaxFaults,      \* bound: kills, timeouts and losses of power
    MaxVerifies,    \* bound: processes that only verify or retire
    None

LineageAssumption == {MaxIdentities, MaxFaults, MaxVerifies} \subseteq Nat

VARIABLES
    disk,       \* the records of the state directory
    safe,       \* what of them survives a loss of power
    temporary,  \* the namespace's unfinished file: None, "partial" or "whole"
    remote,     \* the repository: ordinary snapshots and snapshots of a lineage
    proc,       \* the process that holds the repository's lock, or None
    child,      \* the restic child that holds it, or None
    identities, faults, verifies,
    refused

vars == <<disk, safe, temporary, remote, proc, child, identities, faults, verifies, refused>>

Records == {"namespace", "genesis", "primary", "archive", "head"}
DirectoryOf(r) ==
    CASE r = "genesis" -> "locks" [] r \in {"namespace", "primary"} -> "platform"
      [] r = "archive" -> "audit" [] r = "head" -> "archive"
Lineages == {s \in remote : s.kind = "lineage"}

Init ==
    /\ disk = [r \in Records |-> None] /\ safe = disk
    /\ temporary = None
    /\ remote = {[kind |-> "ordinary", of |-> o, n |-> 0] : o \in Ordinary}
    /\ proc = None /\ child = None
    /\ identities = 0 /\ faults = 0 /\ verifies = 0
    /\ refused = FALSE

-----------------------------------------------------------------------------
\* A process: the steps it has left, the snapshots it has seen and the lineage it holds.
At(s) == proc # None /\ Head(proc.todo) = s
Then(steps) == [proc EXCEPT !.todo = steps \o Tail(@)]
Goes(p) == proc' = IF p.todo = << >> THEN None ELSE p
Done(steps) == Goes(Then(steps))
Refuse == proc' = None /\ refused' = TRUE
Fails == proc' = None /\ UNCHANGED refused
Sync(d) == safe' = [r \in Records |-> IF DirectoryOf(r) = d THEN disk[r] ELSE safe[r]]
Counters == UNCHANGED <<identities, faults, verifies>>
Storage == UNCHANGED <<disk, safe, temporary, remote, child>>

\* ensure_lineage: discovery, the local genesis and its publication if the repository
\* has none, and the commit.
Ensure == <<"discover", "propose", "commit">>
Steps(kind) ==
    CASE kind = "namespace" -> <<"namespace">>
      [] kind = "initialize" -> <<"inspect">> \o Ensure \o <<"observe", "inspect", "archive", "inspect">>
      [] kind = "verify" -> Ensure
      [] kind = "retire" -> <<"inventory", "forget", "inventory">>

\* The lock of the repository is free when the process and its child are gone.
Mutual == proc = None /\ child = None

\* identity_main, initialize, maintain_archive_free_repository: the operator's rollout
\* calls the first two in order.
Start(kind) ==
    /\ Mutual
    /\ kind = "namespace" => safe["namespace"] = None
    /\ kind = "initialize" => safe["namespace"] # None /\ safe["head"] = None
    /\ kind \in {"verify", "retire"} => verifies < MaxVerifies /\ safe["namespace"] # None
    /\ verifies' = IF kind \in {"verify", "retire"} THEN verifies + 1 ELSE verifies
    /\ proc' = [kind |-> kind, todo |-> Steps(kind), seen |-> {}, own |-> None]
    /\ UNCHANGED <<disk, safe, temporary, remote, child, identities, faults, refused>>

\* initialize_namespace: an unfinished file of the same bytes is removed and written
\* again, the record is renamed and its directory synced; a record of another
\* transaction is refused.
Namespace ==
    /\ At("namespace")
    /\ CASE disk["namespace"] = None /\ temporary # "whole" ->
              /\ temporary' = IF temporary = None THEN "partial" ELSE "whole"
              /\ UNCHANGED <<disk, safe, proc, refused>>
         [] disk["namespace"] = None /\ temporary = "whole" ->
              /\ disk' = [disk EXCEPT !["namespace"] = "original"]
              /\ temporary' = None
              /\ UNCHANGED <<safe, proc, refused>>
         [] disk["namespace"] # None /\ temporary = None ->
              /\ Sync("platform") /\ Done(<< >>)
              /\ UNCHANGED <<disk, temporary, refused>>
         [] OTHER -> Refuse /\ UNCHANGED <<disk, safe, temporary>>
    /\ UNCHANGED <<remote, child>> /\ Counters

\* _inspect: the local records fit together.
LocalAgrees ==
    /\ disk["namespace"] # None
    /\ disk["primary"] # None => disk["genesis"] = disk["primary"]
    /\ disk["head"] # None => disk["primary"] = disk["head"]

Inspect ==
    /\ At("inspect")
    /\ IF LocalAgrees THEN Done(<< >>) /\ UNCHANGED refused ELSE Refuse
    /\ Storage /\ Counters

\* discover_repository: one listing of the snapshots.
Discover ==
    /\ At("discover")
    /\ Goes([Then(<< >>) EXCEPT !.seen = remote])
    /\ Storage /\ Counters /\ UNCHANGED refused

\* repository_genesis: the lineage the listing shows, which must be one.
SeenLineages == {s \in proc.seen : s.kind = "lineage"}
SeenGenesis == IF SeenLineages = {} THEN None ELSE (CHOOSE s \in SeenLineages : TRUE).of

\* require_repository_history: snapshots of a lineage need the local genesis.
HistoryAgrees ==
    /\ Cardinality(SeenLineages) <= 1
    /\ SeenLineages # {} => disk["genesis"] = SeenGenesis

\* lineage_for_repository without commit: the local genesis is read and its directory
\* synced, or a new identity is made and published durably.
Propose ==
    /\ At("propose")
    /\ IF SeenGenesis # None \/ proc.kind = "verify"
       THEN Done(<< >>) /\ UNCHANGED <<disk, safe, identities, refused>>
       ELSE IF disk["primary"] # None
       THEN Refuse /\ UNCHANGED <<disk, safe, identities>>
       ELSE IF disk["genesis"] # None
       THEN /\ Sync("locks")
            /\ Goes([Then(<<"publish", "readback">>) EXCEPT !.own = disk["genesis"]])
            /\ UNCHANGED <<disk, identities, refused>>
       ELSE /\ identities < MaxIdentities
            /\ identities' = identities + 1
            /\ disk' = [disk EXCEPT !["genesis"] = identities']
            /\ Goes([Then(<<"sync locks", "publish", "readback">>) EXCEPT !.own = identities'])
            /\ UNCHANGED <<safe, refused>>
    /\ UNCHANGED <<temporary, remote, child, faults, verifies>>

\* create_immutable: the sync of the directory.
SyncStep ==
    \E d \in {"locks", "platform", "audit", "archive"} :
        /\ At("sync " \o d)
        /\ Sync(d) /\ Done(<< >>)
        /\ UNCHANGED <<disk, temporary, remote, child, refused>> /\ Counters

\* publish_repository_genesis, _run_restic, inherit_restic_leases: the child gets the locks.
Publish ==
    /\ At("publish")
    /\ child' = proc.own
    /\ proc' = [proc EXCEPT !.todo = <<"wait">> \o Tail(@)]
    /\ UNCHANGED <<disk, safe, temporary, remote, refused>> /\ Counters

\* restic saves the snapshot and ends; a listing that follows shows it.
SaveSnapshot ==
    /\ child # None
    /\ remote' = remote \cup {[kind |-> "lineage", of |-> child, n |-> Cardinality(Lineages)]}
    /\ child' = None
    /\ UNCHANGED <<disk, safe, temporary, proc, refused>> /\ Counters

Wait ==
    /\ At("wait") /\ child = None
    /\ Goes([Then(<< >>) EXCEPT !.seen = remote])
    /\ Storage /\ Counters /\ UNCHANGED refused

\* The snapshot is read back and compared.
Readback ==
    /\ At("readback")
    /\ IF HistoryAgrees /\ SeenGenesis = proc.own THEN Done(<< >>) /\ UNCHANGED refused ELSE Refuse
    /\ Storage /\ Counters

\* Mutant of Commit: the primary record is not synced.
CommitUnsynced ==
    /\ At("commit")
    /\ IF disk["primary"] = None /\ proc.kind = "verify"
       THEN Fails /\ UNCHANGED <<disk, safe>>
       ELSE IF ~HistoryAgrees \/ SeenGenesis = None \/ (disk["primary"] # None /\ disk["primary"] # disk["genesis"])
       THEN Refuse /\ UNCHANGED <<disk, safe>>
       ELSE /\ Sync("locks")
            /\ disk' = [disk EXCEPT !["primary"] = disk["genesis"]]
            /\ Done(<< >>)
            /\ UNCHANGED refused
    /\ UNCHANGED <<temporary, remote, child>> /\ Counters

\* lineage_for_repository with commit: repository and local genesis agree, and the
\* primary record is published or its directory synced.
Commit ==
    /\ At("commit")
    /\ IF disk["primary"] = None /\ proc.kind = "verify"
       THEN Fails /\ UNCHANGED <<disk, safe>>
       ELSE IF ~HistoryAgrees \/ SeenGenesis = None \/ (disk["primary"] # None /\ disk["primary"] # disk["genesis"])
       THEN Refuse /\ UNCHANGED <<disk, safe>>
       ELSE /\ Sync("locks")
            /\ disk' = [disk EXCEPT !["primary"] = disk["genesis"]]
            /\ Done(<<"sync platform">>)
            /\ UNCHANGED refused
    /\ UNCHANGED <<temporary, remote, child>> /\ Counters

\* initialize: the repository is listed again.
Observe ==
    /\ At("observe")
    /\ IF {s.of : s \in Lineages} = {disk["primary"]} /\ Cardinality(Lineages) = 1
       THEN Done(<< >>) /\ UNCHANGED refused ELSE Refuse
    /\ Storage /\ Counters

\* initialize_empty_archive: the directory, synced in its parent, and the empty head.
Archive ==
    /\ At("archive")
    /\ disk' = [disk EXCEPT !["archive"] = "directory"]
    /\ Done(<<"sync audit", "head">>)
    /\ UNCHANGED <<safe, temporary, remote, child, refused>> /\ Counters

PublishHead ==
    /\ At("head")
    /\ disk' = [disk EXCEPT !["head"] = disk["primary"]]
    /\ Done(<<"sync archive">>)
    /\ UNCHANGED <<safe, temporary, remote, child, refused>> /\ Counters

\* _archive_free_inventory: legacy retention stops for good when anything of a lineage exists.
Inventory ==
    /\ At("inventory")
    /\ IF Lineages # {} \/ \E r \in {"genesis", "primary", "archive"} : disk[r] # None
       THEN Fails
       ELSE Goes([Then(<< >>) EXCEPT !.seen = remote]) /\ UNCHANGED refused
    /\ Storage /\ Counters

\* maintain_archive_free_repository: exactly the listed ordinary snapshots are forgotten.
Forget ==
    /\ At("forget")
    /\ \E old \in SUBSET {s \in proc.seen : s.kind = "ordinary"} : remote' = remote \ old
    /\ Done(<< >>)
    /\ UNCHANGED <<disk, safe, temporary, child, refused>> /\ Counters

ProcessStep ==
    Namespace \/ Inspect \/ Discover \/ Propose \/ SyncStep \/ Publish \/ Wait \/ Readback \/ Commit
    \/ Observe \/ Archive \/ PublishHead \/ Inventory \/ Forget

-----------------------------------------------------------------------------
Fault == faults < MaxFaults /\ faults' = faults + 1

\* The process is killed; its child goes on.
Kill ==
    /\ proc # None /\ Fault
    /\ proc' = None
    /\ UNCHANGED <<disk, safe, temporary, remote, child, identities, verifies, refused>>

\* The deadline of restic: the child is killed, before or after it saved its snapshot.
TimeOut ==
    /\ At("wait") /\ Fault
    /\ proc' = None /\ child' = None
    /\ \/ UNCHANGED remote
       \/ /\ child # None
          /\ remote' = remote \cup {[kind |-> "lineage", of |-> child, n |-> Cardinality(Lineages)]}
    /\ UNCHANGED <<disk, safe, temporary, identities, verifies, refused>>

\* Every entry that is not synced is kept or lost.
PowerLoss ==
    /\ Fault
    /\ \E kept \in SUBSET Records :
          disk' = [r \in Records |->
                     IF r \in kept /\ (r = "head" => safe["archive"] # None \/ "archive" \in kept)
                     THEN disk[r] ELSE safe[r]]
    /\ safe' = disk'
    /\ temporary' \in (IF temporary = None THEN {None} ELSE {None, "partial", temporary})
    /\ proc' = None /\ child' = None
    /\ UNCHANGED <<remote, identities, verifies, refused>>

StartAny == \E kind \in {"namespace", "initialize", "verify", "retire"} : Start(kind)
Rest == Mutual /\ safe["head"] # None /\ UNCHANGED vars

Next == StartAny \/ ProcessStep \/ SaveSnapshot \/ Kill \/ TimeOut \/ PowerLoss \/ Rest

Spec == Init /\ [][Next]_vars

\* The operator runs the two phases again until they are done.
FairSpec ==
    /\ Spec
    /\ SF_vars(Start("namespace")) /\ SF_vars(Start("initialize"))
    /\ WF_vars(ProcessStep) /\ WF_vars(SaveSnapshot)

-----------------------------------------------------------------------------
TypeOK ==
    /\ DOMAIN disk = Records /\ DOMAIN safe = Records
    /\ \A r \in {"genesis", "primary", "head"} : disk[r] \in 1..identities \cup {None}
    /\ \A r \in Records : safe[r] # None => disk[r] = safe[r]
    /\ temporary \in {None, "partial", "whole"}
    /\ child \in 1..identities \cup {None}
    /\ identities \in 0..MaxIdentities /\ faults \in 0..MaxFaults /\ verifies \in 0..MaxVerifies

\* repository_genesis refuses an ambiguous repository: there is never more than one
\* snapshot of a lineage, although publications are repeated after a fault.
OneGenesis == Cardinality(Lineages) <= 1

\* lineage_for_repository, _sync_directory("locks"): a repository that belongs to a lineage
\* belongs to the one the host has durably, so a loss of power cannot make it foreign.
RemoteIsOurs == \A s \in Lineages : safe["genesis"] = s.of

\* The primary record exists only with the snapshot that proves it, and the head only
\* with the primary record.
PrimaryIsProved ==
    /\ disk["primary"] # None => \E s \in Lineages : s.of = disk["primary"]
    /\ disk["head"] # None => safe["primary"] = disk["head"]

\* Legacy retention forgets nothing once a lineage has begun, a publication under way
\* included.
RetentionStopsForGood ==
    remote \ remote' # {} => Lineages = {} /\ child = None /\ disk["genesis"] = None

\* No process ever stops with a contradiction.
NeverRefused == ~refused

\* With finitely many faults the migration completes.
LineageCompletes == safe["head"] # None
=============================================================================
