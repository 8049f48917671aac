---------------------------- MODULE ZipStructure ----------------------------
\* Structural admission of a deployment archive (zip_structure.py). The archive
\* is read as the code reads it: the end record, the central records one by
\* one, the paths they claim, and the local headers. What a record says is
\* chosen when it is read; a name is a sequence of components, and lengths are
\* counted in units of a local header's fixed part.
EXTENDS Naturals, Sequences, FiniteSets
LOCAL INSTANCE SequencesExt

CONSTANTS
    Sources,     \* source paths that names decode to, as sequences of components
    NFC,         \* component -> its normalized form
    CaseFold,    \* normalized component -> its case-folded form
    Unsafe,      \* components refused anywhere: relative, control, separator, too long, empty
    Drives,      \* components refused in the first place only
    Reserved,    \* the case-folded first component that Cloudflare keeps
    IndexName,   \* index.html
    Attributes,  \* attributes of a record: Unix type, DOS directory bit, volume label
    Data,        \* what a record says of its data: method, sizes and check sum
    Counts,      \* record counts of an end record
    Extents,     \* sizes of the data area
    Offsets,     \* local header offsets
    Extras,      \* lengths of a local header's variable part
    MaxEntries, MaxDepth, MaxFile, MaxExpanded, MaxRatio

ZipAssumption ==
    /\ \A s \in Sources : s \in Seq(DOMAIN NFC)
    /\ \A c \in DOMAIN NFC : NFC[c] \in DOMAIN CaseFold
    /\ {MaxEntries, MaxDepth, MaxFile, MaxExpanded, MaxRatio} \subseteq Nat
    /\ Counts \cup Extents \cup Offsets \cup Extras \subseteq Nat

VARIABLES
    verdict,  \* "open", "accepted" or "rejected"
    phase,    \* part being read: "end", "central", "paths", "offsets" or "local"
    end,      \* the end record: number of records and size of the data area
    entries,  \* central records accepted so far
    claims,   \* path claims so far, in the order of the records
    folded,   \* case-folded path -> the claim that established it
    done,     \* entries whose paths are claimed
    members   \* local regions validated so far: first unit and end

vars == <<verdict, phase, end, entries, claims, folded, done, members>>

Init ==
    /\ verdict = "open" /\ phase = "end" /\ end = [count |-> 0, extent |-> 0]
    /\ entries = << >> /\ claims = {} /\ folded = << >> /\ done = 0 /\ members = << >>

-----------------------------------------------------------------------------
\* Paths

Normalized(source) == [i \in DOMAIN source |-> NFC[source[i]]]
Folded(path) == [i \in DOMAIN path |-> CaseFold[path[i]]]
Parents(path) == [i \in 1 .. Len(path) - 1 |-> SubSeq(path, 1, i)]

\* The names _decode_name accepts.
NameAccepted(name) ==
    /\ name.source # << >>
    /\ Len(name.source) <= MaxDepth
    /\ name.source[1] \notin Drives
    /\ \A i \in DOMAIN name.source : name.source[i] \notin Unsafe
    /\ CaseFold[NFC[name.source[1]]] # Reserved

\* The inode type that attributes and name marker agree on, or "refused".
EntryType(a, marker) ==
    LET byName == IF marker THEN "directory" ELSE "regular"
    IN  IF \/ a.label
           \/ a.unix = "special"
           \/ a.unix # "none" /\ a.unix # byName
           \/ a.dos /\ byName # "directory"
        THEN "refused" ELSE byName

\* The data a record may declare for its type.
DataAccepted(type, d) ==
    /\ d.method \in {"stored", "deflate"}
    /\ IF type = "directory"
       THEN d.method = "stored" /\ d.compressed = 0 /\ d.expanded = 0 /\ d.crc = 0
       ELSE /\ d.expanded <= MaxFile
            /\ d.method = "stored" => d.compressed = d.expanded
            /\ d.expanded > 0 => d.compressed > 0 /\ d.expanded <= d.compressed * MaxRatio

-----------------------------------------------------------------------------
\* Claims of paths, one record after the other

Claim(source, type, explicit) ==
    [source |-> source, path |-> Normalized(source), type |-> type, explicit |-> explicit]

Established(st, c) == {d \in st.claims : d.path = c.path}

\* add_claim's refusals, in its order.
ClaimRefused(st, c) ==
    \/ \E d \in Established(st, c) : d.source # c.source
    \/ /\ Folded(c.path) \in DOMAIN st.folded
       /\ LET d == st.folded[Folded(c.path)] IN d.path # c.path \/ d.source # c.source
    \/ \E d \in Established(st, c) : d.type # c.type
    \/ c.explicit /\ \E d \in Established(st, c) : d.explicit

AddClaim(st, c) ==
    LET new == st.claims \cup {c}
    IN  IF st.error \/ ClaimRefused(st, c) THEN [st EXCEPT !.error = TRUE]
        ELSE IF ~c.explicit /\ Established(st, c) # {} THEN st
        ELSE [claims |-> new,
              folded |-> IF Folded(c.path) \in DOMAIN st.folded THEN st.folded
                         ELSE [p \in DOMAIN st.folded \cup {Folded(c.path)} |->
                                  IF p = Folded(c.path) THEN c ELSE st.folded[p]],
              error |-> Cardinality({d.path : d \in new}) > MaxEntries]

\* An entry claims its parents, which it need not list, and its own path.
EntryClaims(e) ==
    LET above == Parents(e.source)
    IN  Append([i \in DOMAIN above |-> Claim(above[i], "directory", FALSE)], Claim(e.source, e.type, TRUE))

-----------------------------------------------------------------------------
\* The steps of _inspect

At(p) == verdict = "open" /\ phase = p
Reject == verdict' = "rejected" /\ UNCHANGED <<phase, end, entries, claims, folded, done, members>>
Continue(p) == phase' = p /\ UNCHANGED <<verdict, end, entries, claims, folded, done, members>>

\* The end record stands at the physical end, of one disk, without comment, and
\* adjacent to a central directory of the number of records it names.
ReadEnd ==
    /\ At("end")
    /\ \E n \in Counts, x \in Extents :
          IF n = 0 \/ n > MaxEntries THEN Reject
          ELSE /\ end' = [count |-> n, extent |-> x] /\ phase' = "central"
               /\ UNCHANGED <<verdict, entries, claims, folded, done, members>>

\* _central_entry: one central record.
ReadCentral ==
    /\ At("central") /\ Len(entries) < end.count
    /\ \E s \in Sources, marker \in BOOLEAN, a \in Attributes, d \in Data, o \in Offsets :
          LET type == EntryType(a, marker)
          IN  IF /\ NameAccepted([source |-> s, marker |-> marker])
                 /\ type # "refused" /\ DataAccepted(type, d)
              THEN /\ entries' = Append(entries, [source |-> s, type |-> type, data |-> d, offset |-> o])
                   /\ UNCHANGED <<verdict, phase, end, claims, folded, done, members>>
              ELSE Reject

\* The records must use the directory up: trailing bytes are refused.
CloseCentral ==
    /\ At("central") /\ Len(entries) = end.count
    /\ Continue("paths") \/ Reject

\* _materialized_paths: the claims of the next entry.
ClaimPaths ==
    /\ At("paths") /\ done < Len(entries)
    /\ LET st == FoldLeft(AddClaim, [claims |-> claims, folded |-> folded, error |-> FALSE], EntryClaims(entries[done + 1]))
       IN  IF st.error THEN Reject
           ELSE /\ claims' = st.claims /\ folded' = st.folded /\ done' = done + 1
                /\ UNCHANGED <<verdict, phase, end, entries, members>>

\* A root-level index.html that is a regular file is required.
RequireIndex ==
    /\ At("paths") /\ done = Len(entries)
    /\ IF \E c \in claims : c.path = <<IndexName>> /\ c.explicit /\ c.type = "regular"
       THEN Continue("offsets") ELSE Reject

\* No two records share a local header.
RequireDistinctOffsets ==
    /\ At("offsets")
    /\ IF \A i, j \in DOMAIN entries : i # j => entries[i].offset # entries[j].offset
       THEN Continue("local") ELSE Reject

\* The local header of the next entry: it lies inside the snapshot, says what
\* the central record says, and its data ends before the central directory.
ReadLocal ==
    /\ At("local") /\ Len(members) < Len(entries)
    /\ \E x \in Extras, same \in BOOLEAN :
          LET e == entries[Len(members) + 1]
              dataEnd == e.offset + 1 + x + e.data.compressed
          IN  IF same /\ dataEnd <= end.extent
              THEN /\ members' = Append(members, [first |-> e.offset, end |-> dataEnd])
                   /\ UNCHANGED <<verdict, phase, end, entries, claims, folded, done>>
              ELSE Reject

\* The regions in the order of their first unit.
InOrder(ms) == SetToSortSeq({ms[i] : i \in DOMAIN ms}, LAMBDA m, n : m.first < n.first)

Adjacent(ms, extent) ==
    LET s == InOrder(ms)
    IN  /\ s[1].first = 0
        /\ \A i \in 1 .. Len(s) - 1 : s[i + 1].first = s[i].end
        /\ s[Len(s)].end = extent

ExpandedBytes == FoldLeft(LAMBDA n, e : IF e.type = "regular" THEN n + e.data.expanded ELSE n, 0, entries)

\* The regions cover the data area exactly, and the files fit the tenant tree.
CloseRegions ==
    /\ At("local") /\ Len(members) = Len(entries)
    /\ IF Adjacent(members, end.extent) /\ ExpandedBytes <= MaxExpanded
       THEN verdict' = "accepted" /\ UNCHANGED <<phase, end, entries, claims, folded, done, members>>
       ELSE Reject

Next == ReadEnd \/ ReadCentral \/ CloseCentral \/ ClaimPaths \/ RequireIndex \/ RequireDistinctOffsets
        \/ ReadLocal \/ CloseRegions

Spec == Init /\ [][Next]_vars

-----------------------------------------------------------------------------
\* Properties

TypeOK ==
    /\ verdict \in {"open", "accepted", "rejected"}
    /\ phase \in {"end", "central", "paths", "offsets", "local"}
    /\ done \in 0 .. Len(entries) /\ Len(members) \in 0 .. Len(entries)
    /\ \A c \in claims : c.path = Normalized(c.source) /\ c.type \in {"regular", "directory"}

\* Two records agree when no path of the one, or of a directory above it, is
\* spelled differently or has another type in the other, whatever the order.
Claimed(es) == UNION {{EntryClaims(es[i])[k] : k \in DOMAIN EntryClaims(es[i])} : i \in DOMAIN es}
Coherent(es) ==
    /\ \A c, d \in Claimed(es) : Folded(c.path) = Folded(d.path) => c.source = d.source /\ c.type = d.type
    /\ \A i, j \in DOMAIN es : i # j => es[i].source # es[j].source
    /\ Cardinality({c.path : c \in Claimed(es)}) <= MaxEntries

\* The claims kept while the records are read (add_claim) refuse an archive
\* exactly when its records contradict each other, in whatever order they come.
AdmittedExactly ==
    /\ Coherent(SubSeq(entries, 1, done))
    /\ verdict = "rejected" /\ phase = "paths" /\ done < Len(entries) => ~Coherent(SubSeq(entries, 1, done + 1))

\* What _materialized_paths returns is a tree that can be made: everything lies in directories
\* of the tree, no file has anything below it, and no two paths are the same on
\* a file system that ignores case or normalizes names.
TreeIsExtractable ==
    phase \in {"offsets", "local"} =>
        LET paths == {c.path : c \in claims}
        IN  /\ \A p \in paths : \A i \in 1 .. Len(p) - 1 :
                  \E c \in claims : c.path = SubSeq(p, 1, i) /\ c.type = "directory"
            /\ \A c \in claims : c.type = "regular" => \A p \in paths : ~(Len(p) > Len(c.path) /\ SubSeq(p, 1, Len(c.path)) = c.path)
            /\ Cardinality({Folded(p) : p \in paths}) = Cardinality(paths)
            /\ \A e \in {entries[i] : i \in DOMAIN entries} : Normalized(e.source) \in paths

\* Every unit of an accepted archive's data area belongs to one member: nothing
\* is hidden between, behind or inside the regions (_validate_local_regions).
Tiled == \A u \in 0 .. end.extent - 1 : Cardinality({i \in DOMAIN members : members[i].first <= u /\ u < members[i].end}) = 1
RegionsTile ==
    /\ verdict = "accepted" => Tiled
    /\ verdict = "rejected" /\ phase = "local" /\ Len(members) = Len(entries) => ~Tiled \/ ExpandedBytes > MaxExpanded

=============================================================================
