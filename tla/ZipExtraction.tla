---------------------------- MODULE ZipExtraction ----------------------------
\* extract_deployment_zip (zip_structure.py): an admitted archive is streamed
\* into a new staging tree. What the archive declares of a member need not be
\* what its stream holds; the archive may be changed or replaced, the staging
\* name may be given to another directory, and any operation may fail. Sizes are
\* counted in file system fragments.
EXTENDS Naturals, Sequences, FiniteSets
LOCAL INSTANCE SequencesExt
LOCAL INSTANCE FiniteSetsExt
LOCAL INSTANCE TLC

CONSTANTS
    Members,    \* source path -> [path (normalized), size] of the declared regular files
    Paths,      \* materialized_paths: every normalized path of the tree
    Streams,    \* what a stream may be: fragments it yields, check sum right, ends where declared
    Total,      \* fragments of the file system
    Floor,      \* fragments that must stay available
    MaxChanges  \* bound: steps of others

Files == {Members[s].path : s \in DOMAIN Members}

ExtractionAssumption ==
    /\ Files \subseteq Paths
    /\ \A p \in Paths : Len(p) > 1 => Front(p) \in Paths \ Files
    /\ {Total, Floor, MaxChanges} \subseteq Nat
    /\ \A s \in DOMAIN Members : Members[s].size \in Nat

VARIABLES
    archive,   \* the snapshot: stream of each member, version of the opened inode, whether the path still names it
    before,    \* its version when it was opened
    pc,        \* step of the extraction
    left,      \* paths or members the step still has to handle
    expanded,  \* fragments of the open member written so far
    tree,      \* the extraction's own directory: path -> content, << >> is the root
    dirty,     \* its inodes, and ".." for the staging parent, that are not synchronized
    name,      \* what the staging name is: "absent", "own", "empty" or "full" (someone else's)
    identity,  \* whether the created directory's identity is known
    free,      \* available fragments
    changes,   \* steps of others so far
    failed     \* an operation of the removal itself failed

vars == <<archive, before, pc, left, expanded, tree, dirty, name, identity, free, changes, failed>>

Root == << >>
Parent == <<"..">>
Directory == [kind |-> "directory", data |-> << >>]

-----------------------------------------------------------------------------
\* What the inspected structure says

\* _extraction_reservation: the files, and one fragment for every entry and the root.
FileFragments == FoldSet(LAMBDA s, n : n + Members[s].size, 0, DOMAIN Members)
Reservation == FileFragments + Cardinality(Paths) + 1

\* _extracted_directories, shallow ones first, and the members in their order.
Directories == Paths \ Files
ByDepth == SetToSortSeq(Directories, LAMBDA p, q : Len(p) < Len(q))
Sorted == SetToSeq(DOMAIN Members)

\* The release digest that deployment_zip_release_tree_digest derives from the
\* archive, and the one the tree's measurement derives from the tree.
Content(s) == [kind |-> "regular", data |-> [i \in 1 .. Members[s].size |-> <<s, 0>>]]
ArchiveTree ==
    [p \in Paths |-> IF p \in Files THEN Content(CHOOSE s \in DOMAIN Members : Members[s].path = p) ELSE Directory]
\* Fragments on disk: what the files hold and one for every inode.
Allocated(t) == FoldSet(LAMBDA p, n : n + Len(t[p].data) + 1, 0, DOMAIN t)

-----------------------------------------------------------------------------
Init ==
    /\ archive \in [stream : [DOMAIN Members -> Streams], version : {0}, named : {TRUE}]
    /\ before = 0 /\ pc = "open" /\ left = << >> /\ expanded = 0
    /\ tree = << >> /\ dirty = {} /\ name \in {"absent", "full"} /\ identity = FALSE
    /\ free \in Floor .. Total /\ changes = 0 /\ failed = FALSE

\* Others

Other == changes < MaxChanges /\ changes' = changes + 1 /\ pc \notin {"done", "refused"}
alone == <<before, pc, left, expanded, dirty, identity, failed>>

ChangeArchive ==
    /\ Other /\ archive' = [archive EXCEPT !.version = @ + 1] /\ UNCHANGED <<alone, tree, name, free>>
ReplaceArchive ==
    /\ Other /\ archive.named /\ archive' = [archive EXCEPT !.named = FALSE] /\ UNCHANGED <<alone, tree, name, free>>
\* Not between the creation and the first look at it, which no program can tell.
ReplaceStaging ==
    /\ Other /\ name = "own" /\ pc # "stat" /\ name' \in {"empty", "full", "absent"} /\ UNCHANGED <<alone, archive, tree, free>>
AddEntry ==
    /\ Other /\ name = "own" /\ free > 0 /\ <<"foreign">> \notin DOMAIN tree /\ tree' = (<<"foreign">> :> Directory) @@ tree
    /\ free' = free - 1 /\ UNCHANGED <<alone, archive, name>>
UseSpace ==
    /\ Other /\ free > 0 /\ free' = free - 1 /\ UNCHANGED <<alone, archive, tree, name>>

-----------------------------------------------------------------------------
\* The extraction

held == <<archive, before, name, identity, free, changes, failed>>
Goto(p, l) == pc' = p /\ left' = l

\* A failure: the tree is removed when its identity is known.
Fail ==
    /\ Goto(IF identity THEN "remove" ELSE "refused", << >>)
    /\ UNCHANGED <<archive, before, expanded, tree, dirty, name, identity, free, changes, failed>>

\* _validate_open_identity and _metadata_generation.
SameSnapshot(v) == archive.named /\ archive.version = v

OpenArchive ==
    /\ pc = "open"
    /\ IF archive.named THEN Goto("admit", << >>) ELSE Goto("refused", << >>)
    /\ before' = archive.version
    /\ UNCHANGED <<archive, expanded, tree, dirty, name, identity, free, changes, failed>>

\* admit_release_capacity: what stays available after the reservation.
AdmitCapacity ==
    /\ pc = "admit"
    /\ IF free >= Reservation + Floor THEN Goto("mkdir", << >>) ELSE Goto("refused", << >>)
    /\ UNCHANGED <<held, expanded, tree, dirty>>

MakeStaging ==
    /\ pc = "mkdir"
    /\ IF name = "absent" /\ free > 0
       THEN /\ Goto("stat", << >>) /\ name' = "own" /\ tree' = Root :> Directory /\ free' = free - 1
            /\ dirty' = {Root, Parent} /\ UNCHANGED <<archive, before, expanded, identity, changes, failed>>
       ELSE Goto("refused", << >>) /\ UNCHANGED <<held, expanded, tree, dirty>>

\* An empty directory of that name goes; anything else stays.
RemoveEmpty ==
    IF name = "empty" \/ (name = "own" /\ DOMAIN tree = {Root})
    THEN name' = "absent" /\ tree' = (IF name = "own" THEN << >> ELSE tree)
         /\ free' = (IF name = "own" THEN free + 1 ELSE free)
    ELSE UNCHANGED <<name, tree, free>>

\* _open_created_staging: the identity that the name has, and the open directory's.
\* When the probe fails, an empty directory is removed; when only the open fails,
\* the one that was created.
StatStaging ==
    /\ pc = "stat" /\ UNCHANGED <<archive, before, expanded, dirty, identity, changes>>
    /\ \/ /\ Goto("openroot", << >>) /\ UNCHANGED <<name, tree, free, failed>>
       \/ /\ Goto("refused", << >>) /\ RemoveEmpty /\ failed' = (DOMAIN tree # {Root})
OpenRoot ==
    /\ pc = "openroot" /\ UNCHANGED <<archive, before, expanded, dirty, changes>>
    /\ \/ /\ name = "own" /\ identity' = TRUE /\ Goto("directories", ByDepth) /\ UNCHANGED <<name, tree, free, failed>>
       \/ /\ name # "own" /\ Goto("refused", << >>) /\ UNCHANGED <<name, tree, free, identity, failed>>
       \/ /\ name = "own" /\ Goto("refused", << >>) /\ RemoveEmpty /\ UNCHANGED identity
          /\ failed' = (DOMAIN tree # {Root})

\* A new inode is synchronized with its parent before the next one is made.
Made(p, content) == tree' = (p :> content) @@ tree
MakeDirectory ==
    /\ pc = "directories" /\ left # << >>
    /\ IF Head(left) \notin DOMAIN tree /\ free > 0
       THEN /\ Made(Head(left), Directory) /\ free' = free - 1 /\ Goto("directories", Tail(left))
            /\ UNCHANGED <<archive, before, expanded, dirty, name, identity, changes, failed>>
       ELSE Fail

\* _extract_regular_member: the file is created at the normalized path.
FileOf(s) == Members[s].path

\* A fragment may be written only if it stays within the declaration.
ChunkFits(s, n) == n + 1 <= Members[s].size

StartFiles ==
    /\ pc = "directories" /\ left = << >> /\ Goto("create", Sorted) /\ UNCHANGED <<held, expanded, tree, dirty>>
CreateFile ==
    /\ pc = "create" /\ left # << >>
    /\ LET p == FileOf(Head(left))
       IN  IF p \notin DOMAIN tree /\ free > 0 /\ (Len(p) = 1 \/ Front(p) \in DOMAIN tree)
           THEN /\ Made(p, [kind |-> "regular", data |-> << >>]) /\ free' = free - 1 /\ expanded' = 0
                /\ dirty' = dirty \cup {p, Front(p)} /\ pc' = "stream"
                /\ UNCHANGED <<archive, before, left, name, identity, changes, failed>>
           ELSE Fail
\* One fragment of the stream: validated, then written.
StreamChunk ==
    /\ pc = "stream"
    /\ LET s == Head(left)
           p == FileOf(s)
       IN  /\ expanded < archive.stream[s].yields
           /\ IF ChunkFits(s, expanded) /\ free > 0
              THEN /\ tree' = [tree EXCEPT ![p].data = Append(@, <<s, archive.version>>)]
                   /\ expanded' = expanded + 1 /\ free' = free - 1
                   /\ UNCHANGED <<archive, before, pc, left, dirty, name, identity, changes, failed>>
              ELSE Fail
\* The stream ends: its end, its length and its check sum are compared. Bytes
\* that changed underneath may or may not change the check sum that is seen.
EndFile ==
    /\ pc = "stream"
    /\ LET s == Head(left)
           p == FileOf(s)
           st == archive.stream[s]
       IN  /\ expanded = st.yields
           /\ \/ /\ st.ends /\ st.crc /\ expanded = Members[s].size
                 /\ dirty' = dirty \ {p, Front(p)} /\ Goto("create", Tail(left))
                 /\ UNCHANGED <<held, expanded, tree>>
              \/ /\ ~(st.ends /\ st.crc /\ expanded = Members[s].size) \/ archive.version # before
                 /\ Fail

\* _validate_extracted_tree: exactly the structure's namespace and inodes.
ValidateTree ==
    /\ pc = "create" /\ left = << >>
    /\ IF DOMAIN tree \ {Root} = Paths /\ Allocated(tree) <= Reservation
       THEN Goto("sync", << >>) /\ UNCHANGED <<held, expanded, tree, dirty>>
       ELSE Fail

\* Mutant: the staging parent is not synchronized.
MutantSyncRootOnly ==
    /\ pc = "sync" /\ dirty' = dirty \ {Root} /\ Goto("source", << >>) /\ UNCHANGED <<held, expanded, tree>>

SyncRoots ==
    /\ pc = "sync" /\ dirty' = dirty \ {Root, Parent} /\ Goto("source", << >>) /\ UNCHANGED <<held, expanded, tree>>
RevalidateSource ==
    /\ pc = "source"
    /\ IF SameSnapshot(before) THEN Goto("capacity", << >>) /\ UNCHANGED <<held, expanded, tree, dirty>> ELSE Fail
ValidateCapacity ==
    /\ pc = "capacity"
    /\ IF free >= Floor THEN Goto("result", << >>) /\ UNCHANGED <<held, expanded, tree, dirty>> ELSE Fail
\* The name still is the directory. What others add from here on is found when
\* the staged tree is measured.
ValidateResult ==
    /\ pc = "result"
    /\ IF name = "own"
       THEN Goto("done", << >>) /\ UNCHANGED <<held, expanded, tree, dirty>> ELSE Fail

\* Any operation may fail.
OperationFails ==
    /\ pc \in {"directories", "create", "stream", "sync", "source", "result"} /\ Fail

-----------------------------------------------------------------------------
\* _remove_extraction

\* Only the directory that was created is emptied.
RemovesNamed == name = "own"

RemoveContents ==
    /\ pc = "remove" /\ UNCHANGED <<archive, before, left, expanded, dirty, identity, changes>>
    /\ \/ /\ RemovesNamed /\ pc' = "rmdir" /\ failed' = FALSE
          /\ IF name = "own"
             THEN tree' = Root :> Directory /\ free' = free + Allocated(tree) - 1 /\ name' = name
             ELSE name' = "empty" /\ UNCHANGED <<tree, free>>
       \/ /\ RemovesNamed /\ name = "own" /\ pc' = "refused" /\ failed' = TRUE /\ UNCHANGED <<name, tree, free>>
       \/ /\ ~RemovesNamed /\ pc' = "refused" /\ UNCHANGED <<name, tree, free, failed>>
\* The name is compared again; only an empty directory can go.
RemoveRoot ==
    /\ pc = "rmdir" /\ pc' = "refused" /\ UNCHANGED <<archive, before, left, expanded, dirty, identity, changes>>
    /\ IF RemovesNamed
       THEN RemoveEmpty /\ failed' = (DOMAIN tree # {Root})
       ELSE UNCHANGED <<name, tree, free, failed>>

RemoveExtraction == RemoveContents \/ RemoveRoot

Step ==
    \/ OpenArchive \/ AdmitCapacity \/ MakeStaging \/ StatStaging \/ OpenRoot \/ MakeDirectory
    \/ StartFiles \/ CreateFile \/ StreamChunk \/ EndFile \/ ValidateTree \/ SyncRoots
    \/ RevalidateSource \/ ValidateCapacity \/ ValidateResult \/ RemoveExtraction
Others == ChangeArchive \/ ReplaceArchive \/ ReplaceStaging \/ AddEntry \/ UseSpace
Next == Step \/ OperationFails \/ Others

Spec == Init /\ [][Next]_vars

-----------------------------------------------------------------------------
\* Properties

TypeOK ==
    /\ pc \in {"open", "admit", "mkdir", "stat", "openroot", "directories", "create", "stream", "sync", "source",
               "capacity", "result", "remove", "rmdir", "done", "refused"}
    /\ name \in {"absent", "own", "empty", "full"} /\ free \in 0 .. Total /\ before \in 0 .. MaxChanges
    /\ name = "own" => Root \in DOMAIN tree

\* A successful extraction is the archive's tree: the paths, the types and the
\* bytes that the release digest of the same snapshot is made of, all of one
\* version of it, and all of it on disk (extract_deployment_zip against
\* deployment_zip_release_tree_digest).
ResultIsArchive ==
    pc = "done" => /\ \A p \in Paths : tree[p].kind = ArchiveTree[p].kind /\ Len(tree[p].data) = Len(ArchiveTree[p].data)
                   /\ \A s \in DOMAIN Members : \A i \in DOMAIN tree[Members[s].path].data :
                          tree[Members[s].path].data[i] = <<s, before>>

\* At a success every inode and every name of the tree is synchronized.
ResultIsDurable == pc = "done" => dirty = {}

\* Whatever the streams hold, the extraction never has more on disk than was
\* reserved for it (_validate_expanded_chunk, _extraction_reservation).
WithinReservation == Allocated([p \in DOMAIN tree \ {<<"foreign">>} |-> tree[p]]) <= Reservation

\* As long as nobody else uses the file system, an admitted extraction never
\* takes it below the floor (admit_release_capacity).
FloorKept == changes = 0 => free >= Floor

\* A failed extraction leaves nothing of its own under the staging name, unless
\* the removal itself failed.
FailureLeavesNothing == pc = "refused" /\ ~failed => name # "own"

\* A directory of someone else under the staging name keeps its entries.
ForeignKept == name = "full" => name' = "full"

\* The process is scheduled.
Fairness == WF_vars(Step)
LiveSpec == Spec /\ Fairness

\* An extraction ends, whatever the streams hold: a stream that yields too
\* little, too much or no end is refused, not waited for.
ExtractionEnds == pc \in {"done", "refused"}

=============================================================================
