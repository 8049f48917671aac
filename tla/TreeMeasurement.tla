--------------------------- MODULE TreeMeasurement ---------------------------
\* _measure_release_tree (release_tree.py): a directory tree is scanned, hashed
\* and validated again, while someone else may change it. Every inode has a
\* version that no change leaves alone: its identity and its change time. A
\* change of a directory's entries is a change of the directory.
EXTENDS Naturals, Sequences, FiniteSets
LOCAL INSTANCE SequencesExt

CONSTANTS
    Shape,       \* the paths that may exist, as sequences of names; << >> is the root
    Directories, \* those of them that are directories
    Chunks,      \* chunks of a file that are read one after the other
    MaxEntries,  \* maximum_entries
    MaxChanges   \* bound: changes by others

TreeAssumption ==
    /\ << >> \in Directories /\ Directories \subseteq Shape
    /\ \A p \in Shape \ {<< >>} : Front(p) \in Directories
    /\ Chunks \in Nat \ {0} /\ MaxEntries \in Nat /\ MaxChanges \in Nat

VARIABLES
    tree,      \* the paths there are, with version and content
    clock,     \* the last version given
    phase,     \* "scan", "hash", "validate", "done" or "failed"
    stack,     \* directories of the scan: path, whether opened, and entries seen
    entries,   \* entries found: path and version
    root,      \* the root's version when it was opened
    left,      \* entries still to hash or to validate
    chunks,    \* chunks of the open file read so far
    digest,    \* what was hashed: path and chunks
    start,     \* clock when the measurement began
    instant    \* the tree when the scan and the hashes were over

vars == <<tree, clock, phase, stack, entries, root, left, chunks, digest, start, instant>>
others == <<tree, clock>>
mine == <<phase, stack, entries, root, left, chunks, digest, start, instant>>

-----------------------------------------------------------------------------
Child(p, q) == q # << >> /\ Front(q) = p
Beneath(p, q) == Len(q) >= Len(p) /\ SubSeq(q, 1, Len(p)) = p
IsDirectory(p) == p \in Directories
Version(p) == tree[p].version
Content(k) == [i \in 1 .. Chunks |-> k]

\* Paths in the order of the digest: by path, and deepest first.
Before(p, q) == \E i \in 1 .. Len(q) : /\ \A j \in 1 .. i - 1 : j <= Len(p) /\ p[j] = q[j]
                                       /\ i > Len(p) \/ p[i] < q[i]
Deeper(p, q) == Len(p) > Len(q) \/ (Len(p) = Len(q) /\ Before(p, q))

-----------------------------------------------------------------------------
\* Changes by others

Changed == clock' = clock + 1 /\ clock < MaxChanges

\* One chunk of a file is written in place.
Write(p) ==
    /\ Changed /\ p \in DOMAIN tree /\ ~IsDirectory(p)
    /\ \E i \in 1 .. Chunks : tree' = [tree EXCEPT ![p] = [version |-> clock + 1, content |-> [@.content EXCEPT ![i] = clock + 1]]]

\* A file or an empty directory is created, or a file is replaced by another.
Place(p) ==
    /\ Changed /\ p # << >> /\ Front(p) \in DOMAIN tree
    /\ IsDirectory(p) => p \notin DOMAIN tree
    /\ tree' = [q \in DOMAIN tree \cup {p} |->
                  IF q = p THEN [version |-> clock + 1, content |-> Content(clock + 1)]
                  ELSE IF q = Front(p) THEN [tree[q] EXCEPT !.version = clock + 1] ELSE tree[q]]

\* A file or a directory with all beneath it is moved away.
TakeAway(p) ==
    /\ Changed /\ p # << >> /\ p \in DOMAIN tree
    /\ tree' = [q \in {x \in DOMAIN tree : ~Beneath(p, x)} |->
                  IF q = Front(p) THEN [tree[q] EXCEPT !.version = clock + 1] ELSE tree[q]]

\* Others change the tree before, during and after.
Interfere == \E p \in Shape : (Write(p) \/ Place(p) \/ TakeAway(p)) /\ UNCHANGED mine

-----------------------------------------------------------------------------
\* The measurement

Fail == phase' = "failed" /\ UNCHANGED <<stack, entries, root, left, chunks, digest, start, instant>>
Same(p, v) == p \in DOMAIN tree /\ Version(p) = v

\* The root is opened, and its version taken.
OpenRoot ==
    /\ phase = "open"
    /\ root' = Version(<< >>) /\ start' = clock
    /\ stack' = <<[path |-> << >>, opened |-> TRUE, seen |-> {}]>>
    /\ phase' = "scan"
    /\ UNCHANGED <<entries, left, chunks, digest, instant>>

Top == Last(stack)
Unseen == {p \in DOMAIN tree : Child(Top.path, p) /\ p \notin Top.seen}

\* _scan_directory, _scan_entry: an entry is met and its version taken.
ScanEntry ==
    /\ phase = "scan" /\ stack # << >> /\ Top.opened /\ Top.path \in DOMAIN tree
    /\ \E p \in Unseen :
        IF Cardinality(entries) >= MaxEntries THEN Fail
        ELSE /\ entries' = entries \cup {[path |-> p, version |-> Version(p)]}
             /\ LET seen == [stack EXCEPT ![Len(stack)].seen = @ \cup {p}]
                IN stack' = IF IsDirectory(p) THEN Append(seen, [path |-> p, opened |-> FALSE, seen |-> {}]) ELSE seen
             /\ UNCHANGED <<phase, root, left, chunks, digest, start, instant>>

\* _scan_child_directory: it is still the one that was met.
OpenDirectory ==
    /\ phase = "scan" /\ stack # << >> /\ ~Top.opened
    /\ IF ~\E e \in entries : e.path = Top.path /\ Same(e.path, e.version) THEN Fail
       ELSE /\ stack' = [stack EXCEPT ![Len(stack)].opened = TRUE]
            /\ UNCHANGED <<phase, entries, root, left, chunks, digest, start, instant>>

\* A directory's entries are all met; one that was moved away has no more.
CloseDirectory ==
    /\ phase = "scan" /\ stack # << >> /\ Top.opened
    /\ Top.path \notin DOMAIN tree \/ Unseen = {}
    /\ stack' = Front(stack)
    /\ UNCHANGED <<phase, entries, root, left, chunks, digest, start, instant>>

FilesOf(S) == {e \in S : ~IsDirectory(e.path)}

\* AFTER_SCAN: the entries are hashed in the order of their paths.
ScanOver ==
    /\ phase = "scan" /\ stack = << >>
    /\ phase' = "hash"
    /\ left' = SetToSortSeq(FilesOf(entries), LAMBDA a, b : Before(a.path, b.path))
    /\ chunks' = << >>
    /\ UNCHANGED <<stack, entries, root, digest, start, instant>>

ReadFile ==
    /\ chunks' = Append(chunks, IF Head(left).path \in DOMAIN tree THEN tree[Head(left).path].content[Len(chunks) + 1] ELSE 0)
    /\ UNCHANGED <<phase, stack, entries, root, left, digest, start, instant>>

\* _hash_file: compared when it is opened, read chunk by chunk, and compared
\* again. What is read of a file that was replaced meanwhile does not matter.
HashFile ==
    /\ phase = "hash" /\ left # << >>
    /\ LET e == Head(left) IN
       \/ Len(chunks) \in {0, Chunks} /\ ~Same(e.path, e.version) /\ Fail
       \/ (Len(chunks) = 0 => Same(e.path, e.version)) /\ Len(chunks) < Chunks /\ ReadFile
       \/ /\ Len(chunks) = Chunks /\ Same(e.path, e.version)
          /\ digest' = digest \cup {<<e.path, chunks>>}
          /\ chunks' = << >> /\ left' = Tail(left)
          /\ UNCHANGED <<phase, stack, entries, root, start, instant>>

\* Contents as the digest has them, of the tree as it is.
Digest == {<<p, tree[p].content>> : p \in {q \in DOMAIN tree : ~IsDirectory(q)}}
Paths == DOMAIN tree \ {<< >>}

\* Mutant of HashOver: directories are not validated again.
HashOverFiles ==
    /\ phase = "hash" /\ left = << >>
    /\ phase' = "validate"
    /\ left' = SetToSortSeq(FilesOf(entries), LAMBDA a, b : Deeper(a.path, b.path))
    /\ instant' = [digest |-> Digest, paths |-> Paths]
    /\ UNCHANGED <<stack, entries, root, chunks, digest, start>>

\* BEFORE_FINAL_VALIDATION
HashOver ==
    /\ phase = "hash" /\ left = << >>
    /\ phase' = "validate"
    /\ left' = SetToSortSeq(entries, LAMBDA a, b : Deeper(a.path, b.path))
    /\ instant' = [digest |-> Digest, paths |-> Paths]
    /\ UNCHANGED <<stack, entries, root, chunks, digest, start>>

\* _validate_tree: every entry, the deepest first, ...
ValidateEntry ==
    /\ phase = "validate" /\ left # << >>
    /\ IF Same(Head(left).path, Head(left).version)
       THEN left' = Tail(left) /\ UNCHANGED <<phase, stack, entries, root, chunks, digest, start, instant>>
       ELSE Fail

\* ... and the root.
ValidateRoot ==
    /\ phase = "validate" /\ left = << >>
    /\ IF Version(<< >>) = root
       THEN phase' = "done" /\ UNCHANGED <<stack, entries, root, left, chunks, digest, start, instant>>
       ELSE Fail

Measure ==
    /\ \/ OpenRoot \/ ScanEntry \/ OpenDirectory \/ CloseDirectory \/ ScanOver
       \/ HashFile \/ HashOver \/ ValidateEntry \/ ValidateRoot
    /\ UNCHANGED others

Init ==
    /\ tree \in {[p \in S |-> [version |-> 0, content |-> Content(0)]] :
                    S \in {T \in SUBSET Shape : << >> \in T /\ \A p \in T \ {<< >>} : Front(p) \in T}}
    /\ clock = 0
    /\ phase = "open" /\ stack = << >> /\ entries = {} /\ root = 0 /\ left = << >> /\ chunks = << >>
    /\ digest = {} /\ start = 0 /\ instant = [digest |-> {}, paths |-> {}]

Next == Interfere \/ Measure

Spec == Init /\ [][Next]_vars /\ WF_vars(Measure)

-----------------------------------------------------------------------------
TypeOK ==
    /\ DOMAIN tree \subseteq Shape /\ clock \in 0 .. MaxChanges
    /\ phase \in {"open", "scan", "hash", "validate", "done", "failed"}
    /\ {e.path : e \in entries} \subseteq Shape \ {<< >>} /\ Cardinality(entries) <= MaxEntries
    /\ Len(stack) <= Cardinality(Directories) /\ Len(chunks) <= Chunks

\* A measurement that succeeds is the tree of one instant: every file with all of
\* its content, every directory, nothing missing and nothing more.
MeasuresOneInstant ==
    phase = "done" => /\ digest = instant.digest
                      /\ {e.path : e \in entries} = instant.paths

\* A tree that nobody changes is never refused for having changed.
QuietTreeMeasured ==
    phase = "failed" => clock # start \/ Cardinality(Paths) > MaxEntries

\* A measurement ends.
MeasurementEnds == phase \in {"done", "failed"}
=============================================================================
