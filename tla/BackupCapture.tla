----------------------------- MODULE BackupCapture -----------------------------
\* The capture of a backup (backup_coordinator.py, backup_capture.py,
\* backup_inventory.py, backup_sources.py, backup_snapshot.py, the role's backup
\* script, and for the rollout production_capture.py, production_database.py,
\* production_backup.py and production_rollout_backup.py).
\*
\* A capture describes the host under shared publication and state locks, stages the
\* descriptor beside a dump of the database, and has restic read the same trees. The
\* restic child inherits the locks. A worker changes the host under exclusive locks and
\* may be killed in the middle, which leaves an intent. Script, capture agent, worker
\* and the rollout's process are killed anywhere; the host loses power.
\*
\* A rollout's capture is retained: its dump, its proposal and its result are immutable
\* records that a later attempt takes up.
EXTENDS Naturals, FiniteSets, Sequences
LOCAL INSTANCE SequencesExt

CONSTANTS
    Rollout,        \* BOOLEAN: the rollout's capture, or the scheduled one with a worker
    MaxCaptures,    \* bound: captures started
    MaxChanges,     \* bound: transitions of the worker
    MaxFaults,      \* bound: kills and losses of power
    None

CaptureAssumption ==
    Rollout \in BOOLEAN /\ {MaxCaptures, MaxChanges, MaxFaults} \subseteq Nat

VARIABLES
    live,       \* the host: versions of its releases, records and Caddy selection, and an intent
    worker,     \* the worker is in the middle of a transition
    staged,     \* the staging directory: the database dump and the descriptor
    repo,       \* the snapshots
    script,     \* the scheduled script: None, "dump", "agent", "finish"
    proc,       \* the capture agent, or the rollout's process
    child,      \* restic
    status,     \* the snapshot of each success the script has recorded
    store, safe,\* the rollout's records, and what of them is durable
    captures, faults, refused

vars == <<live, worker, staged, repo, script, proc, child, status, store, safe, captures, faults, refused>>

Part == 0   \* a dump that is still being written
NoHistory == [content |-> 0, state |-> 0, whole |-> TRUE, caddy |-> 0, intent |-> FALSE]
NoRecords == [original |-> None, proposal |-> None, result |-> None]
Init ==
    /\ live = NoHistory /\ worker = FALSE
    /\ staged = [database |-> None, descriptor |-> None]
    /\ repo = {} /\ status = {}
    /\ script = None /\ proc = None /\ child = None
    /\ store = NoRecords /\ safe = NoRecords
    /\ captures = 0 /\ faults = 0 /\ refused = FALSE

-----------------------------------------------------------------------------
\* Locks: shared by captures and their restic, exclusive for the worker.
Shared == (proc # None /\ proc.shared) \/ (child # None /\ child.shared)
\* The repository's lock, held by script, agent and restic.
Free == script = None /\ proc = None /\ child = None

\* The worker: a release and its intent first, then the records; a later one resumes.
WorkerBegin ==
    /\ ~Rollout /\ ~worker /\ ~Shared
    /\ live.intent \/ live.state < MaxChanges
    /\ worker' = TRUE
    /\ live' = IF live.intent THEN live
               ELSE [live EXCEPT !.intent = TRUE, !.content = live.content + 1]
    /\ UNCHANGED <<staged, repo, script, proc, child, status, store, safe, captures, faults, refused>>

\* Caddy is switched, the records are written one by one, and the intent goes last.
WorkerActivate ==
    /\ worker /\ live.intent /\ live.caddy # live.content
    /\ live' = [live EXCEPT !.caddy = live.content]
    /\ UNCHANGED <<worker, staged, repo, script, proc, child, status, store, safe, captures, faults, refused>>

WorkerRecord ==
    /\ worker /\ live.intent /\ live.caddy = live.content /\ live.state # live.content
    /\ live' = [live EXCEPT !.state = live.content, !.whole = FALSE]
    /\ UNCHANGED <<worker, staged, repo, script, proc, child, status, store, safe, captures, faults, refused>>

WorkerCommit ==
    /\ worker /\ live.intent /\ live.state = live.content
    /\ live' = [live EXCEPT !.whole = TRUE, !.intent = FALSE]
    /\ worker' = FALSE
    /\ UNCHANGED <<staged, repo, script, proc, child, status, store, safe, captures, faults, refused>>

-----------------------------------------------------------------------------
At(s) == proc # None /\ proc.todo # << >> /\ Head(proc.todo) = s
Then(steps) == [proc EXCEPT !.todo = steps \o Tail(@)]
Done(steps) == proc' = Then(steps)
Refuse == proc' = None /\ refused' = TRUE
Host == UNCHANGED <<live, worker, script, status, captures, faults>>
Records == UNCHANGED <<store, safe>>

\* capture_backup: what every capture does.
Describing == <<"state", "releases", "sources", "caddy", "described">>
Capture == <<"lock">> \o Describing \o <<"stage", "restic", "readback", "unlock">>

\* The script: a dump of the database under its final name, then the agent.
StartScript ==
    /\ ~Rollout /\ Free /\ captures < MaxCaptures
    /\ captures' = captures + 1
    /\ script' = "dump"
    /\ staged' = [staged EXCEPT !.database = Part]
    /\ UNCHANGED <<live, worker, repo, proc, child, status, store, safe, faults, refused>>

\* capture_main, capture_backup: the repository and its lineage are looked at, and the
\* identity of the capture is made.
StartAgent ==
    /\ script = "dump"
    /\ staged' = [staged EXCEPT !.database = captures]
    /\ script' = "agent"
    /\ proc' = [todo |-> Capture, id |-> captures, shared |-> FALSE, descriptor |-> None]
    /\ UNCHANGED <<live, worker, repo, child, status, store, safe, captures, faults, refused>>

\* The publication and state locks, shared, wait for the worker.
Lock ==
    /\ At("lock") /\ ~worker
    /\ proc' = [Then(<< >>) EXCEPT !.shared = TRUE]
    /\ Host /\ Records /\ UNCHANGED <<staged, repo, child, refused>>

NoDescription == [id |-> None, content |-> None, state |-> None, caddy |-> None]
Checked(ok, described) ==
    /\ IF ok THEN proc' = [Then(<< >>) EXCEPT !.descriptor = described] /\ UNCHANGED refused ELSE Refuse
    /\ Host /\ Records /\ UNCHANGED <<staged, repo, child>>

\* _tenant: only an interrupted tenant may lack records.
Classified == ~live.whole => live.intent
StateRead == [state |-> live.state, whole |-> live.whole, intent |-> live.intent]

\* capture_state_inventory: records and intents as they are.
DescribeState ==
    /\ At("state")
    /\ Checked(Classified, [NoDescription EXCEPT !.id = proc.id, !.state = StateRead])

\* _candidates, _release_authority: the releases a record or an intent speaks for.
Authorized(described) ==
    {described.state.state} \cup (IF described.state.intent THEN {described.state.state + 1} ELSE {})

\* _releases: every published release is spoken for.
DescribeReleases ==
    /\ At("releases")
    /\ Checked(live.content \in Authorized(proc.descriptor), proc.descriptor)

\* measure_backup_sources: the trees restic will read.
DescribeSources ==
    /\ At("sources")
    /\ Checked(StateRead = proc.descriptor.state, [proc.descriptor EXCEPT !.content = live.content])

\* capture_caddy_evidence: the selected generation.
DescribeCaddy ==
    /\ At("caddy")
    /\ Checked(TRUE, [proc.descriptor EXCEPT !.caddy = live.caddy])

\* A retained descriptor must be the one described now.
Described ==
    /\ At("described")
    /\ Checked(Rollout /\ store.proposal # None => store.proposal.descriptor = proc.descriptor, proc.descriptor)

\* _stage_descriptor: the dump is there, and the descriptor is replaced.
Stage ==
    /\ At("stage")
    /\ IF staged.database \in {None, Part} THEN Refuse /\ UNCHANGED staged
       ELSE /\ staged' = [staged EXCEPT !.descriptor = proc.descriptor]
            /\ Done(<< >>) /\ UNCHANGED refused
    /\ Host /\ Records /\ UNCHANGED <<repo, child>>

NoTree == [content |-> None, state |-> None, database |-> None, descriptor |-> None]

\* create_coherent_snapshot, _run_restic, inherit_restic_leases: restic reads the same
\* trees under the same locks.
Restic ==
    /\ At("restic")
    /\ child' = [shared |-> TRUE, reads |-> <<"content", "state", "database", "descriptor">>, tree |-> NoTree]
    /\ Done(<<"wait">>)
    /\ Host /\ Records /\ UNCHANGED <<staged, repo, refused>>

\* restic reads one source after the other; what is missing is left out of the snapshot.
ResticRead ==
    /\ child # None /\ child.reads # << >>
    /\ LET r == Head(child.reads)
           found == CASE r = "content" -> live.content
                      [] r = "state" -> StateRead
                      [] r = "database" -> staged.database
                      [] r = "descriptor" -> staged.descriptor
       IN  child' = [child EXCEPT !.reads = Tail(@), !.tree[r] = found]
    /\ UNCHANGED <<live, worker, staged, repo, script, proc, status, store, safe, captures, faults, refused>>

ResticSave ==
    /\ child # None /\ child.reads = << >>
    /\ repo' = repo \cup {[number |-> Cardinality(repo), tree |-> child.tree]}
    /\ child' = None
    /\ UNCHANGED <<live, worker, staged, script, proc, status, store, safe, captures, faults, refused>>

Wait ==
    /\ At("wait") /\ child = None
    /\ Done(<< >>)
    /\ Host /\ Records /\ UNCHANGED <<staged, repo, child, refused>>

\* The snapshot with the capture's tag is one, and its descriptor is the staged one.
Matches(id) == {s \in repo : s.tree.descriptor # None /\ s.tree.descriptor.id = id}
Readback ==
    /\ At("readback")
    /\ IF /\ Cardinality(Matches(proc.id)) = 1
          /\ \A s \in Matches(proc.id) : s.tree.descriptor = proc.descriptor
       THEN Done(<< >>) /\ UNCHANGED refused
       ELSE Refuse
    /\ Host /\ Records /\ UNCHANGED <<staged, repo, child>>

Unlock ==
    /\ At("unlock")
    /\ proc' = [Then(<< >>) EXCEPT !.shared = FALSE]
    /\ Host /\ Records /\ UNCHANGED <<staged, repo, child, refused>>

\* record_status: only a success names its snapshot.
RecordStatus == status' = IF proc # None THEN status \cup {captures} ELSE status

\* finish: the agent has ended; the dump is removed and the outcome recorded.
Finish ==
    /\ script = "agent" /\ (proc # None => proc.todo = << >>)
    /\ RecordStatus
    /\ staged' = [staged EXCEPT !.database = None]
    /\ script' = None /\ proc' = None
    /\ UNCHANGED <<live, worker, repo, child, store, safe, captures, faults, refused>>

\* The agent outlived its script: nobody records its outcome.
AgentEnds ==
    /\ ~Rollout /\ script = None /\ proc # None /\ proc.todo = << >>
    /\ proc' = None
    /\ Host /\ Records /\ UNCHANGED <<staged, repo, child, refused>>

ScheduledStep ==
    Lock \/ DescribeState \/ DescribeReleases \/ DescribeSources \/ DescribeCaddy \/ Described \/ Stage \/ Restic \/ Wait \/ Readback \/ Unlock \/ StartAgent \/ Finish \/ AgentEnds

-----------------------------------------------------------------------------
\* The rollout's capture.
Keep(r, v) == store' = [store EXCEPT ![r] = v]

\* run: an attempt starts when nothing of the earlier one is left (the action unit).
StartRollout ==
    /\ Rollout /\ Free /\ safe.result = None /\ captures < MaxCaptures
    /\ captures' = captures + 1
    /\ proc' = [todo |-> <<"protect", "retain", "dump", "recover">>, id |-> captures',
                shared |-> FALSE, descriptor |-> None]
    /\ UNCHANGED <<live, worker, staged, repo, script, child, status, store, safe, faults, refused>>

\* _protect, _live: the host has no history yet, and the repository its one lineage.
Protect ==
    /\ At("protect")
    /\ IF live = NoHistory THEN Done(<< >>) /\ UNCHANGED refused
       ELSE Refuse
    /\ Host /\ Records /\ UNCHANGED <<staged, repo, child>>

\* retain_database: one dump is the original one; unfinished dumps keep their numbers.
RetainDatabase ==
    /\ At("retain")
    /\ IF store.original = None
       THEN Keep("original", captures) /\ UNCHANGED safe /\ UNCHANGED proc
       ELSE safe' = store /\ Done(<< >>) /\ UNCHANGED store
    /\ Host /\ UNCHANGED <<staged, repo, child, refused>>

\* stage_database: a copy of the retained dump, renamed and synced.
StageDatabase ==
    /\ At("dump")
    /\ staged' = [staged EXCEPT !.database = store.original]
    /\ Done(<< >>)
    /\ Host /\ Records /\ UNCHANGED <<repo, child, refused>>

RolloutCapture ==
    <<"lock">> \o Describing \o <<"stage", "propose", "restic", "readback", "unlock", "result">>

\* Mutant of RecoverCapture: the repository is not searched for the proposal's capture.
RecoverCaptureAgain ==
    /\ At("recover")
    /\ safe' = store /\ UNCHANGED <<store, refused>>
    /\ proc' = [Then(RolloutCapture)
                EXCEPT !.id = IF store.proposal # None THEN store.proposal.descriptor.id ELSE @]
    /\ Host /\ UNCHANGED <<staged, repo, child>>

\* capture_rollout_backup: an earlier proposal whose capture the repository has is
\* finished; otherwise it is captured again under the same identity.
RecoverCapture ==
    /\ At("recover")
    /\ safe' = store /\ UNCHANGED store
    /\ LET p == store.proposal
           found == IF p = None THEN {} ELSE Matches(p.descriptor.id)
       IN  CASE Cardinality(found) = 1 /\ \A s \in found : s.tree.descriptor = p.descriptor ->
                  proc' = [Then(<<"result">>) EXCEPT !.id = p.descriptor.id] /\ UNCHANGED refused
             [] found = {} /\ store.result = None /\ (p # None => p.database = staged.database) ->
                  /\ proc' = [Then(RolloutCapture)
                              EXCEPT !.id = IF p # None THEN p.descriptor.id ELSE @]
                  /\ UNCHANGED refused
             [] OTHER -> Refuse
    /\ Host /\ UNCHANGED <<staged, repo, child>>

\* retained: the proposal is durable before restic starts.
Propose ==
    /\ At("propose")
    /\ IF store.proposal = None
       THEN /\ Keep("proposal", [descriptor |-> proc.descriptor, database |-> staged.database])
            /\ UNCHANGED <<safe, proc>>
       ELSE safe' = store /\ Done(<< >>) /\ UNCHANGED store
    /\ Host /\ UNCHANGED <<staged, repo, child, refused>>

\* _finish, verify_backup: the result, after which the snapshot is restored privately
\* and compared.
KeepResult ==
    /\ At("result")
    /\ IF store.result = None
       THEN Keep("result", proc.id) /\ UNCHANGED <<safe, proc>>
       ELSE safe' = store /\ Done(<<"verify">>) /\ UNCHANGED store
    /\ Host /\ UNCHANGED <<staged, repo, child, refused>>

\* _verify_backup, inspect_restore_tree, validate_restored_authority.
Restorable(s) ==
    /\ s.tree.database \notin {None, Part}
    /\ s.tree.descriptor # None
    /\ s.tree.content = s.tree.descriptor.content
    /\ s.tree.state = s.tree.descriptor.state
Verify ==
    /\ At("verify")
    /\ IF \A s \in Matches(proc.id) : Restorable(s) THEN proc' = None /\ UNCHANGED refused ELSE Refuse
    /\ Host /\ Records /\ UNCHANGED <<staged, repo, child>>

RolloutStep ==
    Protect \/ RetainDatabase \/ StageDatabase \/ RecoverCapture \/ Propose \/ KeepResult
    \/ Verify

-----------------------------------------------------------------------------
Fault == faults < MaxFaults /\ faults' = faults + 1

\* The capture's process is killed, restic goes on; a rollout's action unit stops it before
\* the next attempt.
KillAgent ==
    /\ proc # None /\ Fault
    /\ proc' = None
    /\ child' \in (IF Rollout THEN {child, None} ELSE {child})
    /\ UNCHANGED <<live, worker, staged, repo, script, status, store, safe, captures, refused>>

KillScript ==
    /\ script # None /\ Fault
    /\ script' = None
    /\ UNCHANGED <<live, worker, staged, repo, proc, child, status, store, safe, captures, refused>>

KillWorker ==
    /\ worker /\ Fault
    /\ worker' = FALSE
    /\ UNCHANGED <<live, staged, repo, script, proc, child, status, store, safe, captures, refused>>

\* Deadline: restic is killed and the capture fails.
KillRestic ==
    /\ child # None /\ At("wait") /\ Fault
    /\ child' = None /\ proc' = None
    /\ UNCHANGED <<live, worker, staged, repo, script, status, store, safe, captures, refused>>

PowerLoss ==
    /\ Fault
    /\ \E kept \in SUBSET DOMAIN store : store' = [r \in DOMAIN store |-> IF r \in kept THEN store[r] ELSE safe[r]]
    /\ safe' = store'
    /\ proc' = None /\ child' = None /\ script' = None /\ worker' = FALSE
    /\ UNCHANGED <<live, staged, repo, status, captures, refused>>

Faults == KillAgent \/ KillScript \/ KillWorker \/ KillRestic \/ PowerLoss

Rest == Free /\ captures = MaxCaptures /\ UNCHANGED vars
RolloutRest == Rollout /\ Free /\ safe.result # None /\ UNCHANGED vars

Next ==
    StartScript \/ StartRollout \/ ScheduledStep \/ RolloutStep \/ ResticRead \/ ResticSave
    \/ WorkerBegin \/ WorkerActivate \/ WorkerRecord \/ WorkerCommit \/ Faults \/ Rest \/ RolloutRest

Spec == Init /\ [][Next]_vars

\* Timers and the operator start the next capture; running processes make progress, and the
\* worker leaves the locks free often enough.
FairSpec ==
    /\ Spec
    /\ WF_vars(StartScript) /\ WF_vars(StartRollout)
    /\ SF_vars(ScheduledStep) /\ WF_vars(RolloutStep) /\ WF_vars(ResticRead) /\ WF_vars(ResticSave)
    /\ WF_vars(WorkerActivate \/ WorkerRecord \/ WorkerCommit)

-----------------------------------------------------------------------------
TypeOK ==
    /\ live.content \in 0..MaxChanges /\ live.state \in 0..live.content /\ live.intent \in BOOLEAN
    /\ staged.database \in {None, Part} \cup 1..MaxCaptures
    /\ script \in {None, "dump", "agent"}
    /\ status \subseteq 1..MaxCaptures
    /\ captures \in 0..MaxCaptures /\ faults \in 0..MaxFaults

\* capture_backup, inherit_restic_leases: the trees of a snapshot are those its descriptor
\* describes, also when the agent died and a worker was waiting; unless it holds an intent
\* its Caddy selection is the one of its records.
SnapshotsAreCoherent ==
    \A s \in repo :
        /\ s.tree.descriptor # None
        /\ s.tree.content = s.tree.descriptor.content
        /\ s.tree.state = s.tree.descriptor.state
        /\ s.tree.descriptor.caddy = s.tree.state.state \/ s.tree.state.intent

\* finish: a recorded success has one snapshot, with a whole dump, that a restore accepts.
SuccessIsRestorable ==
    \A c \in status : Cardinality(Matches(c)) = 1 /\ \A s \in Matches(c) : Restorable(s)

\* No capture stops with a contradiction: an interrupted host can be captured, and a
\* retained capture can be taken up.
NeverRefused == ~refused

\* capture_rollout_backup: however often it is retried, a rollout leaves one capture, of
\* its retained dump.
OneRolloutCapture ==
    Rollout => /\ Cardinality(repo) <= 1
               /\ \A s \in repo : Restorable(s) /\ s.tree.database = store.original

\* _finish: a result is of a snapshot the repository has.
ResultHasSnapshot == store.result # None => Matches(store.result) # {}

\* With finitely many faults a rollout's capture is verified, and a scheduled capture
\* succeeds.
CaptureSucceeds == IF Rollout THEN safe.result # None ELSE status # {}
=============================================================================
