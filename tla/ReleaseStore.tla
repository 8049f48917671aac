---------------------------- MODULE ReleaseStore ----------------------------
\* The immutable releases of one tenant (release_store.py) with the private
\* staging they are extracted into (zip_structure.py), as a deployment
\* (deployment_prepare.py, deployment_recover.py, deployment_commit.py) and a
\* deletion (delete_commit.py, emergency_commit.py) change them, and a backup
\* (backup_capture.py) reads them: every mkdir, rename, unlink and fsync.
\*
\* Whoever changes releases holds the publication and the tenant-state locks, so
\* one process is at work. It is killed anywhere and the host loses power; the
\* file system commits metadata in order, so a loss of power leaves one of the
\* versions since the last fsync. Files are synced one by one as they are written.
EXTENDS Naturals, Sequences, FiniteSets
LOCAL INSTANCE SequencesExt
LOCAL INSTANCE FiniteSetsExt
LOCAL INSTANCE Functions

CONSTANTS
    Operations,      \* which of "deploy" and "delete" are run
    Files,           \* files of a release
    MaxReleases,     \* _MAXIMUM_TENANT_RELEASES: the selected release and its predecessors
    MaxDeployments,  \* bound
    MaxFaults,       \* bound
    None

ReleaseAssumption ==
    /\ Operations \subseteq {"deploy", "delete"}
    /\ Files \in Nat \ {0} /\ MaxReleases \in Nat \ {0} /\ MaxDeployments \in Nat /\ MaxFaults \in Nat

MaxStaging == 2      \* _MAXIMUM_STAGING_ENTRIES

VARIABLES
    disk,       \* versions of the directories: [spaces, releases, staging]
    next,       \* the next deployment
    records,    \* the deployment records of the tenant, oldest first
    intent,     \* the durable intent
    tombstone,  \* the deletion is in the audit log
    gone,       \* the tenant's state is removed
    todo,       \* the running operation's remaining steps
    errors,     \* refusals that no retry resolves
    faults

vars == <<disk, next, records, intent, tombstone, gone, todo, errors, faults>>

-----------------------------------------------------------------------------
\* spaces: which of the tenant's two directories exist; releases and staging: the
\* entries with their names, and how many of its files each tree has.
Now == Last(disk)
Images == Range(disk)

Change(v) == disk' = IF v = Now THEN disk ELSE Append(disk, v)
Sync == disk' = <<Now>>

Final(d) == <<"final", d>>
Retired(d) == <<"retired", d>>
Staged(d) == <<"staged", d>>
Discarded(d) == <<"discarded", d>>

Without(f, x) == Restrict(f, DOMAIN f \ {x})
With(f, x, n) == [y \in DOMAIN f \cup {x} |-> IF y = x THEN n ELSE f[y]]
Moved(f, x, y) == With(Without(f, x), y, f[x])

Whole(v, d) == Final(d) \in DOMAIN v.releases /\ v.releases[Final(d)] = Files
StagedWhole(v, d) == Staged(d) \in DOMAIN v.staging /\ v.staging[Staged(d)] = Files

Step(s, x) == [do |-> s, on |-> x]
At(s) == todo # << >> /\ Head(todo).do = s
On == Head(todo).on
Then(steps) == todo' = steps \o Tail(todo)
Rest == UNCHANGED <<next, records, intent, tombstone, gone, errors, faults>>
Fault == faults < MaxFaults /\ faults' = faults + 1

Refuse(e) ==
    /\ todo' = << >> /\ errors' = errors \cup {e}
    /\ UNCHANGED <<disk, next, records, intent, tombstone, gone, faults>>

Sorted(S) == SetToSortSeq(S, LAMBDA a, b : a[2] < b[2])

-----------------------------------------------------------------------------
\* Inventories

\* _published_inventory: only a tenant directory with exactly its releases, and
\* only deployments among them.
Readable(v) ==
    /\ v.spaces # {} => v.spaces = {"tenant", "releases"}
    /\ \A x \in DOMAIN v.releases : x[1] = "final"
Published(v) == {x[2] : x \in DOMAIN v.releases}
\* the bound on a tenant's history, with one more for a transition's candidate
Bounded(v, candidates) ==
    LET n == Cardinality(Published(v))
    IN n <= MaxReleases \/ (n = MaxReleases + 1 /\ candidates # {} /\ Max(Published(v)) \in candidates)

\* _measure_retained_releases: exactly the recorded releases, each as recorded.
Inventory ==
    /\ At("inventory")
    /\ IF Readable(Now) /\ Bounded(Now, {}) /\ Published(Now) = Range(records) /\ \A d \in Range(records) : Whole(Now, d)
       THEN Then(<< >>) /\ UNCHANGED disk /\ Rest
       ELSE Refuse("inventory")

\* _capture_releases: nothing staged, and every release recorded or the candidate's.
Candidates == IF intent # None /\ intent.kind = "deploy" THEN {intent.dep} ELSE {}
CaptureAdmitted ==
    /\ DOMAIN Now.staging = {}
    /\ Readable(Now) /\ Bounded(Now, Candidates)
    /\ Published(Now) \subseteq Range(records) \cup Candidates

-----------------------------------------------------------------------------
\* Staging

\* _remove_staging_tree, _remove_tree: the files, then the directory.
TreeSteps(where, x) ==
    [k \in 1 .. Files |-> Step("unlink", <<where, x>>)] \o <<Step("sync", None), Step("rmdir", <<where, x>>), Step("sync", None)>>

\* _remove_discard_transition: out of the staging names first.
DiscardSteps(d) == <<Step("discard", d), Step("sync", None)>> \o TreeSteps("staging", Discarded(d))

\* reconcile_staging: everything but the protected tree goes.
Reconcile ==
    /\ At("reconcile")
    /\ LET names == DOMAIN Now.staging
           stale == {x \in names : x[2] \notin On}
           Steps(x) == IF x[1] = "discarded" THEN TreeSteps("staging", x) ELSE DiscardSteps(x[2])
       IN IF Cardinality(names) > MaxStaging \/ \E x, y \in names : x # y /\ x[2] = y[2]
          THEN Refuse("staging")
          ELSE /\ Then(FlattenSeq([k \in 1 .. Cardinality(stale) |-> Steps(Sorted(stale)[k])]))
               /\ UNCHANGED disk /\ Rest

\* extract_deployment_zip: a fresh directory, ...
MakeStaging ==
    /\ At("make")
    /\ IF Staged(On) \in DOMAIN Now.staging THEN Refuse("exists")
       ELSE /\ Change([Now EXCEPT !.staging = With(@, Staged(On), 0)])
            /\ Then(<< >>) /\ Rest

\* ... one file after the other, each synced with its directory ...
Extract ==
    /\ At("extract")
    /\ disk' = <<[Now EXCEPT !.staging[Staged(On)] = @ + 1]>>
    /\ Then(<< >>) /\ Rest

\* ... or, when one fails, nothing: _remove_extraction empties it where it is.
ExtractFails ==
    /\ At("extract") /\ Fault
    /\ todo' = TreeSteps("staging", Staged(On))
    /\ UNCHANGED <<disk, next, records, intent, tombstone, gone, errors>>

\* stage: what was extracted is measured against its authority.
MeasureStaged ==
    /\ At("measure")
    /\ IF StagedWhole(Now, On) THEN Then(<< >>) /\ UNCHANGED disk /\ Rest ELSE Refuse("staged")

\* A quota is exceeded, or the intent cannot be created: discard_staged.
StageRejected ==
    /\ At("intend") /\ On.kind = "deploy" /\ Fault
    /\ todo' = DiscardSteps(On.dep)
    /\ UNCHANGED <<disk, next, records, intent, tombstone, gone, errors>>

Intend ==
    /\ At("intend")
    /\ intent' = On
    /\ Sync
    /\ Then(<< >>)
    /\ UNCHANGED <<next, records, tombstone, gone, errors, faults>>

-----------------------------------------------------------------------------
\* Publication

\* _open_or_create_directory
OpenNamespace ==
    /\ At("space")
    /\ Change([Now EXCEPT !.spaces = @ \cup {On}])
    /\ Then(<<Step("sync", None)>>) /\ Rest

\* publish: a tree that is there already must be the same.
Publish ==
    /\ At("publish")
    /\ IF ~StagedWhole(Now, On) \/ (Final(On) \in DOMAIN Now.releases /\ ~Whole(Now, On)) THEN Refuse("published")
       ELSE IF Final(On) \in DOMAIN Now.releases
       THEN Then(<<Step("sync", None)>> \o DiscardSteps(On)) /\ UNCHANGED disk /\ Rest
       ELSE /\ Change([Now EXCEPT !.releases = With(@, Final(On), Now.staging[Staged(On)]),
                                  !.staging = Without(@, Staged(On))])
            /\ Then(<<Step("sync", None)>>) /\ Rest

\* measure, after the rename and again before the commit
MeasurePublished ==
    /\ At("verify")
    /\ IF Whole(Now, On) THEN Then(<< >>) /\ UNCHANGED disk /\ Rest ELSE Refuse("published")

PublishSteps(d) == <<Step("space", "tenant"), Step("space", "releases"), Step("publish", d), Step("verify", d)>>

\* resume_publication
ResumeSteps(d) ==
    IF Staged(d) \in DOMAIN Now.staging
    THEN <<Step("reconcile", {d}), Step("measure", d)>> \o PublishSteps(d)
    ELSE <<Step("reconcile", {}), Step("verify", d)>>

-----------------------------------------------------------------------------
\* Removal

Unlink ==
    /\ At("unlink")
    /\ LET x == On[2] IN
       IF On[1] = "staging"
       THEN Change([Now EXCEPT !.staging = IF x \in DOMAIN @ /\ @[x] > 0 THEN [@ EXCEPT ![x] = @ - 1] ELSE @])
       ELSE Change([Now EXCEPT !.releases = IF x \in DOMAIN @ /\ @[x] > 0 THEN [@ EXCEPT ![x] = @ - 1] ELSE @])
    /\ Then(<< >>) /\ Rest

RemoveDirectory ==
    /\ At("rmdir")
    /\ IF On[1] = "staging" THEN Change([Now EXCEPT !.staging = Without(@, On[2])])
       ELSE Change([Now EXCEPT !.releases = Without(@, On[2])])
    /\ Then(<< >>) /\ Rest

Discard ==
    /\ At("discard")
    /\ IF Staged(On) \in DOMAIN Now.staging
       THEN IF Discarded(On) \in DOMAIN Now.staging THEN Refuse("staging")
            ELSE Change([Now EXCEPT !.staging = Moved(@, Staged(On), Discarded(On))]) /\ Then(<< >>) /\ Rest
       ELSE UNCHANGED disk /\ Then(<< >>) /\ Rest

SyncDirectory ==
    /\ At("sync")
    /\ Sync
    /\ Then(<< >>) /\ Rest

\* Mutant of RemoveRelease: the tree is emptied under its own name.
RemoveInPlace ==
    /\ At("remove")
    /\ Then(IF Final(On) \in DOMAIN Now.releases THEN TreeSteps("releases", Final(On)) \o <<Step("close", None)>> ELSE <<Step("close", None)>>)
    /\ UNCHANGED disk /\ Rest

\* remove_release: out of the deployments' names first, unless that is done.
RemoveRelease ==
    /\ At("remove")
    /\ LET canonical == Final(On) \in DOMAIN Now.releases
           retired == Retired(On) \in DOMAIN Now.releases
       IN IF "releases" \notin Now.spaces THEN Then(<<Step("close", None)>>) /\ UNCHANGED disk /\ Rest
          ELSE IF (canonical /\ retired) \/ (canonical /\ ~Whole(Now, On)) THEN Refuse("retired")
          ELSE /\ Then((IF canonical THEN <<Step("retire", On), Step("sync", None)>> ELSE << >>)
                         \o (IF canonical \/ retired THEN TreeSteps("releases", Retired(On)) ELSE <<Step("sync", None)>>)
                         \o <<Step("close", None)>>)
               /\ UNCHANGED disk /\ Rest

Retire ==
    /\ At("retire")
    /\ Change([Now EXCEPT !.releases = Moved(@, Final(On), Retired(On))])
    /\ Then(<< >>) /\ Rest

\* _remove_empty_directory, for the releases and then for the tenant
CloseNamespace ==
    /\ At("close")
    /\ IF "releases" \in Now.spaces /\ DOMAIN Now.releases = {}
       THEN Change([Now EXCEPT !.spaces = @ \ {"releases"}]) /\ Then(<<Step("sync", None), Step("closetenant", None)>>)
       ELSE UNCHANGED disk /\ Then(IF "releases" \in Now.spaces THEN << >> ELSE <<Step("closetenant", None)>>)
    /\ Rest

CloseTenant ==
    /\ At("closetenant")
    /\ Change([Now EXCEPT !.spaces = @ \ {"tenant"}])
    /\ Then(<<Step("sync", None)>>) /\ Rest

-----------------------------------------------------------------------------
\* Deployments

\* The records beyond the selected release and its predecessors.
Retention(rs) == IF Len(rs) > MaxReleases THEN Range(SubSeq(rs, 1, Len(rs) - MaxReleases)) ELSE {}

CommitSteps(d) == <<Step("verify", d), Step("record", d), Step("retireold", None), Step("finish", None)>>

BeginDeploy ==
    /\ "deploy" \in Operations /\ todo = << >> /\ intent = None /\ ~gone /\ next <= MaxDeployments
    /\ next' = next + 1
    /\ todo' = <<Step("reconcile", {}), Step("inventory", None), Step("make", next)>>
                 \o [k \in 1 .. Files |-> Step("extract", next)]
                 \o <<Step("sync", None), Step("measure", next), Step("intend", [kind |-> "deploy", dep |-> next])>>
                 \o PublishSteps(next) \o CommitSteps(next)
    /\ UNCHANGED <<disk, records, intent, tombstone, gone, errors, faults>>

\* _resume_release_publication, and the commit again
RecoverDeploy ==
    /\ todo = << >> /\ intent # None /\ intent.kind = "deploy"
    /\ todo' = ResumeSteps(intent.dep) \o CommitSteps(intent.dep)
    /\ UNCHANGED <<disk, next, records, intent, tombstone, gone, errors, faults>>

\* The deployment record and the selection.
Record ==
    /\ At("record")
    /\ records' = IF On \in Range(records) THEN records ELSE Append(records, On)
    /\ Sync
    /\ Then(<< >>)
    /\ UNCHANGED <<next, intent, tombstone, gone, errors, faults>>

\* Every retired release, and then every record of one.
RetireOld ==
    /\ At("retireold")
    /\ LET old == Retention(records)
       IN Then([k \in 1 .. Cardinality(old) |-> Step("remove", SetToSortSeq(old, <)[k])] \o <<Step("forget", old)>>)
    /\ UNCHANGED disk /\ Rest

Forget ==
    /\ At("forget")
    /\ records' = SelectSeq(records, LAMBDA d : d \notin On)
    /\ Sync
    /\ Then(<< >>)
    /\ UNCHANGED <<next, intent, tombstone, gone, errors, faults>>

Finish ==
    /\ At("finish")
    /\ intent' = None
    /\ Sync
    /\ Then(<< >>)
    /\ UNCHANGED <<next, records, tombstone, gone, errors, faults>>

-----------------------------------------------------------------------------
\* Deletion

BeginDelete ==
    /\ "delete" \in Operations /\ todo = << >> /\ intent = None /\ ~gone
    /\ todo' = <<Step("intend", [kind |-> "delete", dep |-> 0]), Step("admit", None)>>
    /\ UNCHANGED <<disk, next, records, intent, tombstone, gone, errors, faults>>

RecoverDelete ==
    /\ todo = << >> /\ intent # None /\ intent.kind = "delete"
    /\ todo' = IF gone THEN <<Step("finish", None)>> ELSE <<Step("admit", None)>>
    /\ UNCHANGED <<disk, next, records, intent, tombstone, gone, errors, faults>>

\* finalize_delete_transition, verify_emergency_releases: the releases that are
\* left are recorded ones, and all of them before the tombstone.
AdmitDelete ==
    /\ At("admit")
    /\ IF /\ Readable(Now) /\ Bounded(Now, {})
          /\ Published(Now) \subseteq Range(records)
          /\ ~tombstone => Published(Now) = Range(records)
          /\ \A d \in Published(Now) : Whole(Now, d)
       THEN /\ Then(<<Step("tombstone", None)>> \o [k \in DOMAIN records |-> Step("remove", records[k])] \o <<Step("erase", None), Step("finish", None)>>)
            /\ UNCHANGED disk /\ Rest
       ELSE Refuse("deletion")

Tombstone ==
    /\ At("tombstone")
    /\ tombstone' = TRUE
    /\ Sync
    /\ Then(<< >>)
    /\ UNCHANGED <<next, records, intent, gone, errors, faults>>

\* remove_deleted_state, once no release is left
Erase ==
    /\ At("erase")
    /\ IF ~Readable(Now) \/ Now.spaces # {} THEN Refuse("deletion")
       ELSE /\ records' = << >> /\ gone' = TRUE
            /\ Sync
            /\ Then(<< >>)
            /\ UNCHANGED <<next, intent, tombstone, errors, faults>>

-----------------------------------------------------------------------------
Kill ==
    /\ todo # << >> /\ Fault
    /\ todo' = << >>
    /\ UNCHANGED <<disk, next, records, intent, tombstone, gone, errors>>

PowerLoss ==
    /\ Fault
    /\ \E v \in Images : disk' = <<v>>
    /\ todo' = << >>
    /\ UNCHANGED <<next, records, intent, tombstone, gone, errors>>

Init ==
    /\ \/ disk = <<[spaces |-> {}, releases |-> << >>, staging |-> << >>]>> /\ records = << >>
       \/ disk = <<[spaces |-> {"tenant", "releases"}, releases |-> [x \in {Final(1)} |-> Files], staging |-> << >>]>> /\ records = <<1>>
    /\ next = 2
    /\ intent = None /\ tombstone = FALSE /\ gone = FALSE
    /\ todo = << >> /\ errors = {} /\ faults = 0

Work ==
    \/ Inventory \/ Reconcile \/ MakeStaging \/ Extract \/ MeasureStaged \/ Intend
    \/ OpenNamespace \/ Publish \/ MeasurePublished
    \/ Unlink \/ RemoveDirectory \/ Discard \/ SyncDirectory \/ RemoveRelease \/ Retire \/ CloseNamespace \/ CloseTenant
    \/ RecoverDeploy \/ Record \/ RetireOld \/ Forget \/ Finish
    \/ RecoverDelete \/ AdmitDelete \/ Tombstone \/ Erase

Next == Work \/ BeginDeploy \/ BeginDelete \/ ExtractFails \/ StageRejected \/ Kill \/ PowerLoss

Spec == Init /\ [][Next]_vars
\* The reconciler runs whatever is left, again and again.
FairSpec == Spec /\ WF_vars(Work)

-----------------------------------------------------------------------------
TypeOK ==
    /\ \A v \in Images :
        /\ v.spaces \subseteq {"tenant", "releases"}
        /\ DOMAIN v.releases \subseteq {"final", "retired"} \X (1 .. MaxDeployments)
        /\ DOMAIN v.staging \subseteq {"staged", "discarded"} \X (1 .. MaxDeployments)
        /\ Range(v.releases) \cup Range(v.staging) \subseteq 0 .. Files
        /\ Cardinality(DOMAIN v.staging) <= MaxStaging
    /\ Range(records) \subseteq 1 .. MaxDeployments
    /\ next \in 1 .. MaxDeployments + 1 /\ faults \in 0 .. MaxFaults

\* Whatever a loss of power leaves, the selected release is whole.
SelectedIsWhole ==
    records # << >> /\ ~tombstone => \A v \in Images : Whole(v, Last(records))

\* A deployment that has its intent has its content: staged or published, whole.
CandidateIsKept ==
    intent # None /\ intent.kind = "deploy" =>
        \A v \in Images : Whole(v, intent.dep) \/ StagedWhole(v, intent.dep)

\* What a backup is allowed to copy is whole, and nothing recorded is missing from it.
CaptureIsWhole ==
    todo = << >> /\ CaptureAdmitted /\ ~tombstone =>
        /\ \A d \in Published(Now) : Whole(Now, d)
        /\ intent = None => Range(records) \subseteq Published(Now)

\* Between operations the published releases are exactly the recorded ones.
NothingUnrecorded ==
    intent = None /\ todo = << >> => \A v \in Images : Readable(v) /\ Published(v) = Range(records)

\* No byte of a tenant outlives its removal from the state, whatever the power does.
ErasedCompletely ==
    gone => \A v \in Images : v.spaces = {} /\ v.releases = << >>

\* No operation and no recovery refuses what an interrupted one has left.
NeverRefused == errors = {}

\* A deployment that has its intent ends.
DeploymentsEnd == intent = None
=============================================================================
