--------------------------- MODULE PortableBundle ---------------------------
\* Portable bundles (portable_bundle.py): a release tree is encoded as a stored
\* archive with one canonical encoding, the archive leaves the host, and what
\* comes back is inspected and imported. The source tree may change while it is
\* encoded, operations may fail, and the copy that comes back may be edited.
\* Content is a number, and so are its check sums and digests: equal content,
\* equal numbers. The chunks of a file are TreeMeasurement's subject, the
\* extraction of the content ZipExtraction's.
EXTENDS Naturals, Sequences, FiniteSets
LOCAL INSTANCE SequencesExt
LOCAL INSTANCE TLC

CONSTANTS
    Trees,       \* the release trees: path -> kind
    Rank,        \* path -> its place in the order of encoded paths
    Index,       \* the path of index.html
    Contents,    \* contents of files; 0 is no content
    Manifests,   \* canonical manifests
    MaxEntries,  \* maximum_entries
    MaxChanges,  \* bound: changes of the source tree
    MaxEdits     \* bound: edits of the copy

BundleAssumption ==
    /\ \A t \in Trees : DOMAIN t \subseteq DOMAIN Rank
    /\ \A p, q \in DOMAIN Rank : p # q => Rank[p] # Rank[q]
    /\ Contents \subseteq Nat \ {0} /\ {MaxEntries, MaxChanges, MaxEdits} \subseteq Nat

VARIABLES
    tree,     \* the source: path -> kind, content and version; << >> is the root
    clock,    \* last version given
    pc,       \* step of the construction
    start,    \* the first measurement: path -> kind and content
    stack,    \* directories still to list, with the version they must have
    children, \* children of the open directory still to scan
    entries,  \* entries scanned so far
    temp,     \* the temporary output: records written so far, or None
    output,   \* the output name: a bundle or None
    written,  \* entries written so far
    copy,     \* the bundle that comes back, or None
    edits,    \* edits so far
    verdict   \* of the inspection: "none", "refused", or "imported"

vars == <<tree, clock, pc, start, stack, children, entries, temp, output, written, copy, edits, verdict>>
source == <<tree, clock>>
build == <<pc, start, stack, children, entries, temp, output, written>>
back == <<copy, edits, verdict>>

Root == << >>
Kinds(t) == [p \in DOMAIN t \ {Root} |-> [kind |-> t[p].kind, data |-> t[p].data]]
ByRank(ps) == SetToSortSeq(ps, LAMBDA p, q : Rank[p] < Rank[q])
ChildrenOf(t, p) == {q \in DOMAIN t : q # Root /\ Front(q) = p}

-----------------------------------------------------------------------------
\* The encoding

FixedNames == <<"format.json", "manifest.json", "checksums.sha256", "content/">>
Record(p, k) ==
    [path |-> p, kind |-> k.kind, data |-> k.data, crc |-> k.data, gap |-> 0, fields |-> "canonical"]

\* _checksums: the digests of all files in the order of their paths.
Checksums(t) ==
    LET files == SelectSeq(ByRank(DOMAIN t), LAMBDA p : t[p].kind = "file")
    IN  [i \in DOMAIN files |-> [path |-> files[i], digest |-> t[files[i]].data]]

Encode(t, m) ==
    [names |-> FixedNames, format |-> 1, manifest |-> m, checksums |-> Checksums(t),
     content |-> [i \in 1 .. Cardinality(DOMAIN t) |-> Record(ByRank(DOMAIN t)[i], t[ByRank(DOMAIN t)[i]])]]

\* The tree whose content a bundle holds.
Decode(b) == [p \in {b.content[i].path : i \in DOMAIN b.content} |->
                 LET r == CHOOSE r \in {b.content[i] : i \in DOMAIN b.content} : r.path = p
                 IN  [kind |-> r.kind, data |-> r.data]]

-----------------------------------------------------------------------------
Init ==
    /\ \E t \in Trees, d \in Contents :
          tree = [p \in DOMAIN t \cup {Root} |->
                     IF p = Root THEN [kind |-> "directory", data |-> 0, version |-> 0]
                     ELSE [kind |-> t[p], data |-> IF t[p] = "file" THEN d ELSE 0, version |-> 0]]
    /\ clock = 0 /\ pc = "measure" /\ start = << >> /\ stack = << >> /\ children = << >> /\ entries = << >>
    /\ temp = << >> /\ output = << >> /\ written = 0
    /\ copy = << >> /\ edits = 0 /\ verdict = "none"

\* Others change the source: a file's content, or a directory's entries.
Change == clock < MaxChanges /\ clock' = clock + 1 /\ pc \notin {"done", "failed"} /\ UNCHANGED <<build, back>>
Rewrite(p, d) ==
    /\ Change /\ tree[p].kind = "file" /\ d # tree[p].data
    /\ tree' = [tree EXCEPT ![p] = [@ EXCEPT !.data = d, !.version = clock + 1]]
AddFile(p, d) ==
    /\ Change /\ p \notin DOMAIN tree /\ Front(p) \in DOMAIN tree /\ tree[Front(p)].kind = "directory"
    /\ tree' = (p :> [kind |-> "file", data |-> d, version |-> clock + 1])
               @@ [tree EXCEPT ![Front(p)].version = clock + 1]
RemoveFile(p) ==
    /\ Change /\ tree[p].kind = "file"
    /\ tree' = [[q \in DOMAIN tree \ {p} |-> tree[q]] EXCEPT ![Front(p)].version = clock + 1]
Others ==
    \/ \E p \in DOMAIN tree, d \in Contents : Rewrite(p, d)
    \/ \E p \in DOMAIN Rank, d \in Contents : AddFile(p, d)
    \/ \E p \in DOMAIN tree : RemoveFile(p)

-----------------------------------------------------------------------------
\* build_portable_bundle

\* A failure removes the output that was linked and the temporary file.
Fail == /\ pc' = "failed" /\ temp' = << >> /\ output' = (IF pc \in {"unlink", "verify"} THEN << >> ELSE output)
        /\ UNCHANGED <<source, back, start, stack, children, entries, written>>

Measure ==
    /\ pc = "measure" /\ start' = Kinds(tree) /\ stack' = <<[path |-> Root, version |-> tree[Root].version]>>
    /\ pc' = "scan" /\ UNCHANGED <<source, back, children, entries, temp, output, written>>

\* _scan_snapshot: a directory is opened as it was seen, and its children are listed.
ListDirectory ==
    /\ pc = "scan" /\ children = << >> /\ stack # << >>
    /\ LET d == stack[Len(stack)]
       IN  IF d.path \in DOMAIN tree /\ tree[d.path].version = d.version
           THEN /\ stack' = Front(stack) /\ children' = ByRank(ChildrenOf(tree, d.path))
                /\ UNCHANGED <<source, back, pc, start, entries, temp, output, written>>
           ELSE Fail
\* A child is inspected, and hashed when it is a file (_hash_source_file).
ScanChild ==
    /\ pc = "scan" /\ children # << >>
    /\ LET p == Head(children)
       IN  IF p \in DOMAIN tree /\ Len(entries) < MaxEntries
           THEN /\ entries' = Append(entries, [path |-> p, kind |-> tree[p].kind, data |-> tree[p].data, version |-> tree[p].version])
                /\ stack' = IF tree[p].kind = "directory" THEN <<[path |-> p, version |-> tree[p].version]>> \o stack ELSE stack
                /\ children' = Tail(children) /\ UNCHANGED <<source, back, pc, start, temp, output, written>>
           ELSE Fail

Scanned == [p \in {entries[i].path : i \in DOMAIN entries} |->
               LET e == CHOOSE e \in {entries[i] : i \in DOMAIN entries} : e.path = p IN [kind |-> e.kind, data |-> e.data]]

\* The scan counts what the measurement counted, and holds an index file.
CompareScan ==
    /\ pc = "scan" /\ children = << >> /\ stack = << >>
    /\ IF /\ Cardinality(DOMAIN Scanned) = Cardinality(DOMAIN start)
          /\ Index \in DOMAIN Scanned /\ Scanned[Index].kind = "file"
       THEN /\ pc' = "create"
            /\ entries' = SetToSortSeq({entries[i] : i \in DOMAIN entries}, LAMBDA d, e : Rank[d.path] < Rank[e.path])
            /\ UNCHANGED <<source, back, start, stack, children, temp, output, written>>
       ELSE Fail

\* The temporary file and the fixed records of the envelope.
CreateTemporary ==
    /\ pc = "create"
    /\ IF output = << >>
       THEN /\ pc' = "write" /\ temp' = <<[Encode(Scanned, CHOOSE m \in Manifests : TRUE) EXCEPT !.content = << >>]>>
            /\ UNCHANGED <<source, back, start, stack, children, entries, output, written>>
       ELSE Fail

\* A file is read again and must be what was scanned.
WriteMember ==
    /\ pc = "write" /\ written < Len(entries)
    /\ LET e == entries[written + 1]
       IN  IF e.kind = "directory" \/ (e.path \in DOMAIN tree /\ tree[e.path].version = e.version)
           THEN /\ temp' = [temp EXCEPT ![1].content = Append(@, Record(e.path, e))]
                /\ written' = written + 1 /\ UNCHANGED <<source, back, pc, start, stack, children, entries, output>>
           ELSE Fail
WriteCentral ==
    /\ pc = "write" /\ written = Len(entries) /\ pc' = "recheck"
    /\ UNCHANGED <<source, back, start, stack, children, entries, temp, output, written>>

\* Mutant: only the entries that were found are looked at again.
MutantSourceUnchangedEntries ==
    \A i \in DOMAIN entries : entries[i].path \in DOMAIN tree /\ (entries[i].kind = "file" => tree[entries[i].path].version = entries[i].version)

\* The second measurement, and the generation of the root and of every entry.
SourceUnchanged ==
    /\ Kinds(tree) = start
    /\ \A i \in DOMAIN entries : entries[i].path \in DOMAIN tree /\ tree[entries[i].path].version = entries[i].version

Recheck ==
    /\ pc = "recheck"
    /\ IF SourceUnchanged
       THEN pc' = "link" /\ UNCHANGED <<source, back, start, stack, children, entries, temp, output, written>>
       ELSE Fail

\* The output name is linked, never replaced.
LinkOutput ==
    /\ pc = "link"
    /\ IF output = << >>
       THEN output' = temp /\ pc' = "unlink" /\ UNCHANGED <<source, back, start, stack, children, entries, temp, written>>
       ELSE Fail
UnlinkTemporary ==
    /\ pc = "unlink" /\ temp' = << >> /\ pc' = "verify"
    /\ UNCHANGED <<source, back, start, stack, children, entries, output, written>>
VerifyOutput ==
    /\ pc = "verify" /\ pc' = "done"
    /\ UNCHANGED <<source, back, start, stack, children, entries, temp, output, written>>

\* Any operation fails: the disk is full, a bound of the bundle is crossed.
OperationFails == pc \notin {"done", "failed"} /\ Fail

Build ==
    \/ Measure \/ ListDirectory \/ ScanChild \/ CompareScan \/ CreateTemporary \/ WriteMember
    \/ WriteCentral \/ Recheck \/ LinkOutput \/ UnlinkTemporary \/ VerifyOutput \/ OperationFails

-----------------------------------------------------------------------------
\* The bundle leaves the host and comes back, perhaps edited

Receive ==
    /\ pc = "done" /\ copy = << >> /\ copy' = output /\ UNCHANGED <<source, build, edits, verdict>>
Edit(b) == /\ copy # << >> /\ verdict = "none" /\ edits < MaxEdits /\ edits' = edits + 1
           /\ copy' = <<b>> /\ UNCHANGED <<source, build, verdict>>
EditRecord(i, r) == Edit([copy[1] EXCEPT !.content[i] = r])
EditContent ==
    \E i \in DOMAIN copy[1].content :
       LET r == copy[1].content[i]
       IN  \/ \E d \in Contents \cup {0} : EditRecord(i, [r EXCEPT !.data = d])
           \/ \E d \in Contents : EditRecord(i, [r EXCEPT !.data = d, !.crc = d])
           \/ EditRecord(i, [r EXCEPT !.kind = IF @ = "file" THEN "directory" ELSE "file"])
           \/ EditRecord(i, [r EXCEPT !.gap = 1])
           \/ EditRecord(i, [r EXCEPT !.fields = "other"])
           \/ \E p \in DOMAIN Rank : EditRecord(i, [r EXCEPT !.path = p])
           \/ Edit([copy[1] EXCEPT !.content = RemoveAt(@, i)])
           \/ Edit([copy[1] EXCEPT !.content = Append(@, r)])
           \/ i > 1 /\ Edit([copy[1] EXCEPT !.content = [@ EXCEPT ![i] = copy[1].content[i - 1], ![i - 1] = r]])
EditEnvelope ==
    \/ Edit([copy[1] EXCEPT !.format = 2])
    \/ Edit([copy[1] EXCEPT !.names = <<@[2], @[1], @[3], @[4]>>])
    \/ \E m \in Manifests \cup {"noncanonical"} : Edit([copy[1] EXCEPT !.manifest = m])
    \/ \E i \in DOMAIN copy[1].checksums : Edit([copy[1] EXCEPT !.checksums = RemoveAt(@, i)])
    \/ \E i \in DOMAIN copy[1].checksums, d \in Contents : Edit([copy[1] EXCEPT !.checksums[i].digest = d])
    \/ \E i \in DOMAIN copy[1].checksums, p \in DOMAIN Rank : Edit([copy[1] EXCEPT !.checksums[i].path = p])

\* _validate_portable_central_fields: the only fields a record may have.
FieldsAccepted(r) == r.fields = "canonical" /\ (r.kind = "directory" => r.data = 0 /\ r.crc = 0)

\* _validate_portable_locals: the regions follow each other in the records' order.
RegionsAccepted(b) == \A i \in DOMAIN b.content : b.content[i].gap = 0

\* _validate_portable_envelope: the fixed names, content in path order, and a
\* record for every directory.
EnvelopeAccepted(b) ==
    LET c == b.content
        explicit == {c[i].path : i \in DOMAIN c}
    IN  /\ b.names = FixedNames /\ Len(c) <= MaxEntries
        /\ \A i \in 1 .. Len(c) - 1 : Rank[c[i].path] < Rank[c[i + 1].path]
        /\ \A p \in explicit : Len(p) > 1 => \E i \in DOMAIN c : c[i].path = Front(p) /\ c[i].kind = "directory"
        /\ \E i \in DOMAIN c : c[i].path = Index /\ c[i].kind = "file"

\* _read_portable_record: the bytes have the check sum of the record.
BytesAccepted(b) == \A i \in DOMAIN b.content : b.content[i].data = b.content[i].crc

\* _validate_checksum_manifest: the lines are exactly those of the content.
ChecksumsAccepted(b) == b.checksums = Checksums(Decode(b))

Accepted(b) ==
    /\ \A i \in DOMAIN b.content : FieldsAccepted(b.content[i])
    /\ RegionsAccepted(b) /\ EnvelopeAccepted(b)
    /\ b.format = 1 /\ b.manifest \in Manifests
    /\ BytesAccepted(b) /\ ChecksumsAccepted(b)

\* import_portable_bundle: an accepted bundle's content becomes a staged tree.
Import ==
    /\ copy # << >> /\ verdict = "none"
    /\ verdict' = IF Accepted(copy[1]) THEN "imported" ELSE "refused"
    /\ UNCHANGED <<source, build, copy, edits>>

Next == Others \/ Build \/ Receive \/ (copy # << >> /\ (EditContent \/ EditEnvelope)) \/ Import

Spec == Init /\ [][Next]_vars

-----------------------------------------------------------------------------
\* Properties

TypeOK ==
    /\ pc \in {"measure", "scan", "create", "write", "recheck", "link", "unlink", "verify", "done", "failed"}
    /\ written \in 0 .. Len(entries) /\ Len(temp) <= 1 /\ Len(output) <= 1 /\ Len(copy) <= 1
    /\ temp # << >> => Len(temp[1].content) = written
    /\ verdict \in {"none", "refused", "imported"}

\* A published bundle is the encoding of the tree as it was measured, whatever
\* happened to the tree while it was listed, hashed and read again.
PublishedIsSnapshot == pc = "done" => output[1] = Encode(start, output[1].manifest)

\* A construction that failed leaves neither an output nor a temporary file.
FailureLeavesNothing == pc = "failed" => output = << >> /\ temp = << >>

\* What the host itself encoded is accepted, and its import is the tree.
RoundTrip ==
    copy # << >> /\ copy = output => Accepted(copy[1]) /\ Decode(copy[1]) = start

\* There is one encoding of a tree: a bundle that is accepted is the one that
\* would be built from the tree it holds, so its digest identifies the content.
AcceptedIsCanonical ==
    verdict = "imported" => copy[1] = Encode(Decode(copy[1]), copy[1].manifest)

=============================================================================
