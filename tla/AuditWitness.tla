---------------------------- MODULE AuditWitness ----------------------------
(***************************************************************************)
(* The compact form in which archived audit history stays on the host      *)
(* (audit_archive_formats.py): a segment of the log is replaced by its     *)
(* witness, from which the exact segment must come back for ever, and is   *)
(* bound by a descriptor, an index and a head (audit_archive_store.py).    *)
(* Proofs of both directions share a cache of two pairs, which threads use *)
(* at the same time.                                                       *)
(*                                                                         *)
(* A digest is the value it was taken of.  Bytes are units.                *)
(***************************************************************************)
EXTENDS Naturals, Sequences, FiniteSets

CONSTANTS
    None,
    Correlations,
    Callers,       \* threads of the archive service
    Evidences,     \* the deletion evidence entries have: "absent" or "object"
    MaxEntries,    \* MAX_WITNESSED_ENTRIES
    MaxSegments,   \* MAX_ARCHIVED_SEGMENTS
    MaxBytes       \* MAX_SEGMENT_BYTES

AuditWitnessAssumption == {MaxEntries, MaxSegments, MaxBytes} \subseteq Nat \ {0}

VARIABLES
    open,      \* the entries of the open segment
    indexes,   \* the archived segments' indexes
    witnesses, \* and their witnesses
    head,      \* the archive's head
    cache,     \* _PROOF_CACHE: <<segment, evidence>> pairs, most recent first
    pending,   \* per caller: the proof it computes after a miss, or None
    answered   \* the last call and its answer

vars == <<open, indexes, witnesses, head, cache, pending, answered>>

---------------------------------------------------------------------------
(* Entries, segments and witnesses. *)

CacheSize == 2

Forms == {"canonical", "padded"}

LineBytes(entry) == IF entry.evidence = "absent" THEN 3 ELSE 5
RowBytes(row) == IF row.evidence = "null" THEN 2 ELSE 4

Total(Bytes(_), s) ==
    LET upto[n \in 0..Len(s)] == IF n = 0 THEN 0 ELSE upto[n - 1] + Bytes(s[n])
    IN  upto[Len(s)]

SegmentBytes(raw) == Total(LineBytes, raw.entries)
WitnessBytes(w) == 1 + Total(RowBytes, w.rows)

\* canonical_audit_entry: evidence is absent or an object, never null.
ValidEntry(entry) == entry.evidence # "null"

\* _SegmentChain.add for every entry of a segment.
ChainHolds(s) ==
    /\ s # <<>> /\ Len(s) <= MaxEntries
    /\ \A n \in DOMAIN s :
         /\ ValidEntry(s[n]) /\ s[n].sequence < MaxEntries
         /\ s[n].sequence = s[1].sequence + n - 1
         /\ n > 1 => s[n].previous = s[n - 1]
         /\ \A k \in 1..n - 1 : s[k].correlation # s[n].correlation

\* A row has the fixed columns; absent evidence becomes null in it.
Row(entry) == [entry EXCEPT !.evidence = IF entry.evidence = "absent" THEN "null" ELSE @]
Entry(row) == [row EXCEPT !.evidence = IF row.evidence = "null" THEN "absent" ELSE @]

Map(Op(_), s) == [n \in DOMAIN s |-> Op(s[n])]

Evidence(s, w) ==
    [first |-> s[1].sequence, count |-> Len(s), predecessor |-> s[1].previous,
     terminal |-> s[Len(s)], witness |-> w]

\* _inspect_segment without its cache.
Inspect(raw) ==
    LET w == [rows |-> Map(Row, raw.entries), form |-> "canonical"]
    IN  IF /\ raw.form = "canonical" /\ raw.entries # <<>> /\ SegmentBytes(raw) <= MaxBytes
           /\ ChainHolds(raw.entries) /\ WitnessBytes(w) <= MaxBytes
        THEN Evidence(raw.entries, w) ELSE None

\* segment_from_witness without its cache: the segment and its evidence.
Expand(w) ==
    LET raw == [entries |-> Map(Entry, w.rows), form |-> "canonical"]
    IN  IF /\ w.form = "canonical" /\ w.rows # <<>> /\ WitnessBytes(w) <= MaxBytes
           /\ ChainHolds(raw.entries) /\ SegmentBytes(raw) <= MaxBytes
        THEN <<raw, Evidence(raw.entries, w)>> ELSE None

---------------------------------------------------------------------------
(* Descriptors, indexes and heads. *)

\* _position_digest: no digest exactly at the empty boundary.
PositionDigest(value, position) == (position = 0) = (value = None)

Describe(raw, number, previous) ==
    LET e == Inspect(raw)
    IN  [number |-> number, first |-> e.first, last |-> e.first + e.count - 1,
         count |-> e.count, bytes |-> SegmentBytes(raw), sha256 |-> raw,
         predecessor |-> e.predecessor, terminal |-> e.terminal,
         previousDescriptor |-> previous,
         witnessBytes |-> WitnessBytes(e.witness), witnessDigest |-> e.witness]

ValidateRotation(d) ==
    /\ d.number < MaxSegments /\ d.first < MaxEntries /\ d.last < MaxEntries
    /\ d.bytes \in 1..MaxBytes /\ d.witnessBytes \in 1..d.bytes
    /\ (d.number = 0) = (d.first = 0)
    /\ d.count > 0 /\ d.last - d.first + 1 = d.count
    /\ PositionDigest(d.predecessor, d.first)
    /\ PositionDigest(d.previousDescriptor, d.number)

VerifySegment(d, raw) ==
    LET e == Inspect(raw)
    IN  /\ ValidateRotation(d) /\ e # None
        /\ raw = d.sha256 /\ SegmentBytes(raw) = d.bytes
        /\ e.first = d.first /\ e.count = d.count
        /\ e.predecessor = d.predecessor /\ e.terminal = d.terminal
        /\ WitnessBytes(e.witness) = d.witnessBytes /\ e.witness = d.witnessDigest

Tags(d) == {d}      \* required_archive_tags: lineage, rotation and repository

DecodeIndex(i) ==
    /\ ValidateRotation(i.descriptor)
    /\ i.tags = Tags(i.descriptor) /\ i.descriptorDigest = i.descriptor
    /\ i.witnessDigest = i.descriptor.witnessDigest
    /\ PositionDigest(i.previousIndex, i.descriptor.number)

DecodeHead(h) ==
    /\ h.indexCount <= MaxSegments /\ h.entryCount <= MaxEntries
    /\ (h.indexCount = 0) = (h.entryCount = 0) /\ h.indexCount <= h.entryCount
    /\ \A d \in {h.terminal, h.lastIndex, h.lastDescriptor} : PositionDigest(d, h.indexCount)

HeadForIndexes(s) ==
    IF s = <<>>
    THEN [indexCount |-> 0, entryCount |-> 0, terminal |-> None, lastIndex |-> None,
          lastDescriptor |-> None]
    ELSE LET last == s[Len(s)]
         IN  [indexCount |-> Len(s), entryCount |-> last.descriptor.last + 1,
              terminal |-> last.descriptor.terminal, lastIndex |-> last,
              lastDescriptor |-> last.descriptorDigest]

\* _require_extension: an index continues exactly the prefix before it.
RequireExtension(i, h) ==
    /\ i.descriptor.number = h.indexCount /\ i.descriptor.first = h.entryCount
    /\ i.descriptor.predecessor = h.terminal
    /\ i.descriptor.previousDescriptor = h.lastDescriptor
    /\ i.previousIndex = h.lastIndex

\* The chain of indexes, witnesses and head that a reader accepts.
PrefixHolds(s, w, h) ==
    /\ DecodeHead(h) /\ Len(s) = h.indexCount /\ Len(w) = Len(s)
    /\ \A n \in DOMAIN s :
         /\ DecodeIndex(s[n])
         /\ RequireExtension(s[n], HeadForIndexes(SubSeq(s, 1, n - 1)))
         /\ Expand(w[n]) # None
         /\ w[n] = s[n].descriptor.witnessDigest
         /\ VerifySegment(s[n].descriptor, Expand(w[n])[1])
    /\ HeadForIndexes(s) = h

---------------------------------------------------------------------------
(* The log, its rotation, and the calls of the service's threads. *)

\* What the log holds, archived entries first.
History ==
    LET from[n \in 0..Len(indexes)] ==
            IF n = 0 THEN <<>> ELSE from[n - 1] \o indexes[n].descriptor.sha256.entries
    IN  from[Len(indexes)] \o open

Init ==
    /\ open = <<>> /\ indexes = <<>> /\ witnesses = <<>> /\ head = HeadForIndexes(<<>>)
    /\ cache = <<>> /\ pending = [c \in Callers |-> None] /\ answered = None

Log(c, evidence) ==
    /\ Len(History) < MaxEntries
    /\ c \notin {History[n].correlation : n \in DOMAIN History}
    /\ open' = Append(open, [sequence |-> Len(History), correlation |-> c, evidence |-> evidence,
                             previous |-> IF History = <<>> THEN None ELSE History[Len(History)]])
    /\ SegmentBytes([entries |-> open', form |-> "canonical"]) <= MaxBytes
    /\ UNCHANGED <<indexes, witnesses, head, cache, pending, answered>>

Closing == [entries |-> open, form |-> "canonical"]

ClosingIndex ==
    LET d == Describe(Closing, Len(indexes), head.lastDescriptor)
    IN  [descriptor |-> d, tags |-> Tags(d), descriptorDigest |-> d,
         witnessDigest |-> d.witnessDigest, previousIndex |-> head.lastIndex]

Rotate ==
    /\ open # <<>> /\ Len(indexes) < MaxSegments
    /\ indexes' = Append(indexes, ClosingIndex)
    /\ witnesses' = Append(witnesses, ClosingIndex.witnessDigest)
    /\ head' = HeadForIndexes(indexes')
    /\ open' = <<>>
    /\ UNCHANGED <<cache, pending, answered>>

\* What callers may present: the archived segments and the open one, and
\* each of them with one entry changed, lost or spelled in another way.
Edited(s) ==
    {s} \cup {SubSeq(s, 1, n) : n \in 1..Len(s) - 1}
    \cup UNION {{[s EXCEPT ![n].correlation = c] : c \in Correlations} : n \in DOMAIN s}
    \cup {[s EXCEPT ![n].evidence = "null"] : n \in DOMAIN s}
    \cup {[s EXCEPT ![n].previous = None] : n \in DOMAIN s}

Known == {i.descriptor.sha256.entries : i \in {indexes[n] : n \in DOMAIN indexes}}
         \cup IF open = <<>> THEN {} ELSE {open}

Segments == [entries : UNION {Edited(s) : s \in Known}, form : Forms]

Witnesses == [rows : {Map(Row, s) : s \in UNION {Edited(t) : t \in Known}}, form : Forms]

Matches(pair, kind, value) == IF kind = "inspect" THEN pair[1] = value
                              ELSE pair[2].witness = value

\* Mutant of Matches: a witness is looked up by its boundaries.

Answer(pair, kind) == IF kind = "inspect" THEN pair[2] ELSE pair[1]

\* _cached_proof: a hit moves to the front and is the answer; a miss makes
\* the caller compute the proof, without the lock.
CachedProof(caller, kind, value) ==
    /\ pending[caller] = None
    /\ LET hits == {n \in DOMAIN cache : Matches(cache[n], kind, value)}
           hit == CHOOSE n \in hits : \A k \in hits : n <= k
       IN  IF hits = {}
           THEN /\ pending' = [pending EXCEPT ![caller] = [kind |-> kind, value |-> value]]
                /\ UNCHANGED <<cache, answered>>
           ELSE /\ cache' = <<cache[hit]>>
                            \o SelectSeq(cache, LAMBDA pair : pair # cache[hit])
                /\ answered' = [kind |-> kind, value |-> value, answer |-> Answer(cache[hit], kind)]
                /\ UNCHANGED pending
    /\ UNCHANGED <<open, indexes, witnesses, head>>

\* _remember_proof: the pair goes to the front, two are kept.
Remember(pair) ==
    LET others == SelectSeq(cache, LAMBDA other : other[1] # pair[1])
        longer == <<pair>> \o others
    IN  SubSeq(longer, 1, IF Len(longer) < CacheSize THEN Len(longer) ELSE CacheSize)

\* What a caller's computation ends with: a pair to remember, or nothing.
Proof(call) ==
    IF call.kind = "inspect"
    THEN IF Inspect(call.value) = None THEN None ELSE <<call.value, Inspect(call.value)>>
    ELSE Expand(call.value)

Prove(caller) ==
    /\ pending[caller] # None
    /\ LET call == pending[caller]
       IN  IF Proof(call) = None
           THEN /\ answered' = [kind |-> call.kind, value |-> call.value, answer |-> None]
                /\ UNCHANGED cache
           ELSE /\ cache' = Remember(Proof(call))
                /\ answered' = [kind |-> call.kind, value |-> call.value,
                                answer |-> Answer(Proof(call), call.kind)]
    /\ pending' = [pending EXCEPT ![caller] = None]
    /\ UNCHANGED <<open, indexes, witnesses, head>>

Next ==
    \/ \E c \in Correlations, e \in Evidences : Log(c, e)
    \/ Rotate
    \/ \E caller \in Callers :
         \/ \E raw \in Segments : CachedProof(caller, "inspect", raw)
         \/ \E w \in Witnesses : CachedProof(caller, "expand", w)
         \/ Prove(caller)

Spec == Init /\ [][Next]_vars

---------------------------------------------------------------------------
(* Properties. *)

\* Variables have their types.
TypeOK ==
    /\ Len(History) <= MaxEntries /\ Len(indexes) <= MaxSegments
    /\ Len(witnesses) = Len(indexes)
    /\ Len(cache) <= CacheSize
    /\ \A m, n \in DOMAIN cache : m # n => cache[m][1] # cache[n][1]
    /\ DOMAIN pending = Callers

\* Both directions are inverse on everything either of them accepts: no two
\* segments share a witness and no field of an entry is invented or dropped.
RoundTrip ==
    /\ \A raw \in Segments : Inspect(raw) # None =>
         Expand(Inspect(raw).witness) = <<raw, Inspect(raw)>>
    /\ \A w \in Witnesses : Expand(w) # None => Inspect(Expand(w)[1]).witness = w

\* Whatever threads asked before, and in whatever order they remembered it,
\* an answer is the one a fresh proof gives, refusals included.
AnswersAreFresh ==
    answered # None =>
        LET fresh == Proof(answered)
        IN  answered.answer = IF fresh = None THEN None ELSE Answer(fresh, answered.kind)

\* Every pair in the cache is the proof of its segment.
CacheIsSound == \A n \in DOMAIN cache : cache[n][2] = Inspect(cache[n][1])

\* Rotation never meets a segment it cannot describe: what the log produces
\* within its bounds passes the validation of descriptor, index and head.
NeverUndescribed ==
    open # <<>> /\ Len(indexes) < MaxSegments =>
        /\ VerifySegment(ClosingIndex.descriptor, Closing)
        /\ DecodeIndex(ClosingIndex) /\ RequireExtension(ClosingIndex, head)
        /\ DecodeHead(HeadForIndexes(Append(indexes, ClosingIndex)))

\* No other segment passes for an archived one.
VerifiedIsExact ==
    \A n \in DOMAIN indexes : \A raw \in Segments :
        VerifySegment(indexes[n].descriptor, raw) => raw = indexes[n].descriptor.sha256

\* An archive is read as the history it was written from, and not at all
\* once an index, a witness or the head is another one that is well formed
\* by itself: an index rebuilt over changed entries, a witness of another
\* segment, an earlier head.
ReadIsHistory ==
    /\ PrefixHolds(indexes, witnesses, head)
    /\ \A n \in DOMAIN indexes :
         /\ \A w \in Witnesses : w # witnesses[n] =>
              ~PrefixHolds(indexes, [witnesses EXCEPT ![n] = w], head)
         /\ ~PrefixHolds(indexes, witnesses, HeadForIndexes(SubSeq(indexes, 1, n - 1)))
         /\ \A s \in Known :
              LET raw == [entries |-> s, form |-> "canonical"]
                  d == Describe(raw, n - 1, indexes[n].descriptor.previousDescriptor)
                  forged == [indexes[n] EXCEPT !.descriptor = d, !.tags = Tags(d),
                                !.descriptorDigest = d, !.witnessDigest = d.witnessDigest]
              IN  d # indexes[n].descriptor =>
                    ~PrefixHolds([indexes EXCEPT ![n] = forged],
                                 [witnesses EXCEPT ![n] = d.witnessDigest],
                                 HeadForIndexes([indexes EXCEPT ![n] = forged]))
============================================================================
