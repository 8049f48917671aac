--------------------------- MODULE PortableBounds ---------------------------
\* The byte bounds of releases and of portable bundles (release_tree.py,
\* zip_structure.py, portable_bundle.py): every release that the host admits can
\* be exported and imported again. A release grows by batches of entries whose
\* paths have the same length.
EXTENDS Integers, TLAPS

CONSTANTS
    Batches,   \* sizes of batches of entries
    Lengths,   \* path lengths
    Sizes,     \* file sizes
    Manifests  \* manifest sizes

BoundsAssumption ==
    /\ \A n \in Batches : n \in Nat
    /\ \A l \in Lengths : l \in 1 .. 1024
    /\ \A s \in Sizes : s \in Nat
    /\ \A m \in Manifests : m \in 1 .. 16384

\* Limits of a release tree.
MaxEntries == 5000
MaxContent == 104857600
MaxFile == 26214400
MaxPath == 1024

\* Limits of a bundle.
MaxBundle == 125829120
MaxChecksums == 5495158
MaxCentral == 8388608
MaxManifest == 16384
MaxExpanded == 111149056
MaxName == 1057

VARIABLES
    files,        \* regular files of the release
    directories,  \* directories of the release
    filePaths,    \* bytes of the paths of the files
    dirPaths,     \* bytes of the paths of the directories
    content,      \* bytes of the files
    manifest      \* bytes of the manifest

vars == <<files, directories, filePaths, dirPaths, content, manifest>>

-----------------------------------------------------------------------------
\* Sizes of the encoding

\* "lowerduckpond-export-v1/", and "content/" behind it.
Envelope == 24
Prefix == 32
LocalHeader == 30
CentralHeader == 46
EndRecord == 22
FormatBytes == 46

\* The names of the four fixed records.
FixedNameBytes == (Envelope + 11) + (Envelope + 13) + (Envelope + 16) + Prefix

\* A directory's name ends in a slash.
NameBytes == FixedNameBytes + Prefix * (files + directories) + filePaths + dirPaths + directories

\* A checksum line: the digest, two spaces, the path and the end of the line.
ChecksumLine == 64 + 2 + 1
ChecksumBytes == (ChecksumLine + 11) + (ChecksumLine + 13) + (ChecksumLine + 8) * files + filePaths

Records == 4 + files + directories
CentralBytes == CentralHeader * Records + NameBytes
ExpandedBytes == FormatBytes + manifest + ChecksumBytes + content
BundleBytes == LocalHeader * Records + NameBytes + ExpandedBytes + CentralBytes + EndRecord

-----------------------------------------------------------------------------
\* Growth of a release, as _scan_entry admits it

Init ==
    /\ files = 1 /\ filePaths = 10 /\ directories = 0 /\ dirPaths = 0
    /\ content \in Sizes /\ content <= MaxFile /\ manifest \in Manifests

AddFiles(n, l, s) ==
    /\ files + directories + n <= MaxEntries
    /\ s <= MaxFile /\ content + n * s <= MaxContent
    /\ files' = files + n /\ filePaths' = filePaths + n * l /\ content' = content + n * s
    /\ UNCHANGED <<directories, dirPaths, manifest>>
AddDirectories(n, l) ==
    /\ files + directories + n <= MaxEntries
    /\ directories' = directories + n /\ dirPaths' = dirPaths + n * l
    /\ UNCHANGED <<files, filePaths, content, manifest>>

Next == \E n \in Batches, l \in Lengths : AddDirectories(n, l) \/ \E s \in Sizes : AddFiles(n, l, s)

Spec == Init /\ [][Next]_vars

-----------------------------------------------------------------------------
\* Properties

\* Every admitted release has a bundle within all bounds that the construction
\* (_write_output, _checksums) and the inspection (_inspect_portable_source,
\* _validate_portable_envelope) put on it.
AlwaysExportable ==
    /\ BundleBytes <= MaxBundle /\ ChecksumBytes <= MaxChecksums /\ CentralBytes <= MaxCentral
    /\ ExpandedBytes <= MaxExpanded /\ Prefix + MaxPath + 1 <= MaxName

-----------------------------------------------------------------------------
\* Proofs: every release within the limits has a bundle within the limits

\* The limits a release is admitted under.
Admitted ==
    /\ files \in Nat /\ directories \in Nat /\ filePaths \in Nat /\ dirPaths \in Nat
    /\ content \in Nat /\ manifest \in 1 .. MaxManifest
    /\ files + directories <= MaxEntries
    /\ filePaths <= MaxPath * files /\ dirPaths <= MaxPath * directories
    /\ content <= MaxContent

\* A batch of paths is no longer than as many paths of the greatest length.
LEMMA BatchPaths ==
    ASSUME NEW n \in Nat, NEW l \in 1 .. 1024
    PROVE  n * l \in Nat /\ n * l <= 1024 * n
  BY SMT

\* The limits of the tree bound the encoding.
LEMMA AdmittedFits == Admitted => AlwaysExportable
  BY SMT DEF Admitted, AlwaysExportable, BundleBytes, ChecksumBytes, CentralBytes, ExpandedBytes, NameBytes, Records,
         FixedNameBytes, ChecksumLine, Envelope, Prefix, LocalHeader, CentralHeader, EndRecord, FormatBytes,
         MaxEntries, MaxContent, MaxPath, MaxBundle, MaxChecksums, MaxCentral, MaxManifest, MaxExpanded, MaxName

\* A new release is admitted.
LEMMA InitAdmitted ==
    ASSUME BoundsAssumption, Init
    PROVE  Admitted
<1>1. content \in Nat /\ manifest \in 1 .. 16384
  BY BoundsAssumption DEF BoundsAssumption, Init
<1>2. files = 1 /\ filePaths = 10 /\ directories = 0 /\ dirPaths = 0 /\ content <= MaxFile
  BY SMT DEF Init
<1> QED
  BY <1>1, <1>2, SMT DEF Admitted, MaxEntries, MaxContent, MaxFile, MaxPath, MaxManifest

\* Growing keeps the release within the limits.
LEMMA NextAdmitted ==
    ASSUME BoundsAssumption, Admitted, [Next]_vars
    PROVE  Admitted'
<1>1. ASSUME NEW n \in Batches, NEW l \in Lengths, AddDirectories(n, l) PROVE Admitted'
  <2>1. n \in Nat /\ l \in 1 .. 1024
    BY BoundsAssumption DEF BoundsAssumption
  <2>2. n * l \in Nat /\ n * l <= 1024 * n
    BY <2>1, BatchPaths
  <2> QED
    BY <1>1, <2>1, <2>2, SMT DEF Admitted, AddDirectories, MaxPath, MaxEntries
<1>2. ASSUME NEW n \in Batches, NEW l \in Lengths, NEW s \in Sizes, AddFiles(n, l, s) PROVE Admitted'
  <2>1. n \in Nat /\ l \in 1 .. 1024 /\ s \in Nat
    BY BoundsAssumption DEF BoundsAssumption
  <2>2. n * l \in Nat /\ n * l <= 1024 * n
    BY <2>1, BatchPaths
  <2>3. n * s \in Nat
    BY <2>1
  <2> QED
    BY <1>2, <2>1, <2>2, <2>3, SMT DEF Admitted, AddFiles, MaxPath, MaxEntries, MaxContent
<1>3. CASE UNCHANGED vars
  BY <1>3 DEF Admitted, vars
<1> QED
  BY <1>1, <1>2, <1>3 DEF Next

\* Every release that the tree limits admit can be exported: its bundle, its
\* checksum file and its central directory stay within their bounds.
THEOREM ReleasesExportable ==
    ASSUME BoundsAssumption
    PROVE  Spec => []AlwaysExportable
<1>1. Init => Admitted
  BY InitAdmitted
<1>2. Admitted /\ [Next]_vars => Admitted'
  BY NextAdmitted
<1>3. Admitted => AlwaysExportable
  BY AdmittedFits
<1> QED
  BY <1>1, <1>2, <1>3, PTL DEF Spec

=============================================================================
