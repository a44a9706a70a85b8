------------------------------- MODULE Chunker -------------------------------
(***************************************************************************)
(* The chunks of a file and the instructions that turn one content into    *)
(* another, byte by byte: chunker::chunk, the update of snapshot::diff and *)
(* the loop over the instructions in SnapshotEntry::apply.  SnapshotDiff   *)
(* has the same with whole chunks for bytes; here offsets and lengths are  *)
(* those of the code.  A hash is the bytes it is of (blake3 is taken to be *)
(* injective).                                                             *)
(***************************************************************************)
EXTENDS Naturals, SequencesExt

CONSTANTS
    Boundary,   \* the bytes FastCDC cuts after
    MinSize,    \* the shortest chunk but the last one
    MaxSize     \* the longest chunk

ASSUME ChunkAssumption == MinSize \in Nat \ {0} /\ MaxSize \in Nat /\ MinSize <= MaxSize

\* FastCDC, external: where the content decides, within the two sizes.
IsCut(bytes, from, to) ==
    \/ to = Len(bytes)
    \/ to - from = MaxSize
    \/ to - from >= MinSize /\ bytes[to] \in Boundary

CutAfter(bytes, from) ==
    CHOOSE to \in from + 1 .. Len(bytes) :
        /\ IsCut(bytes, from, to)
        /\ \A t \in from + 1 .. to - 1 : ~IsCut(bytes, from, t)

FileChunk(bytes, from, to) ==
    [hash |-> SubSeq(bytes, from + 1, to), offset |-> from, length |-> to - from]

chunk(bytes) ==
    LET next[from \in 0 .. Len(bytes)] ==
            IF from = Len(bytes)
            THEN <<>>
            ELSE <<FileChunk(bytes, from, CutAfter(bytes, from))>>
                     \o next[CutAfter(bytes, from)]
    IN  next[0]

-----------------------------------------------------------------------------
(* The instructions of an update.                                          *)

CopyBytes(c)   == [kind |-> "copy", offset |-> c.offset, length |-> c.length, data |-> <<>>]
LiteralData(d) == [kind |-> "literal", offset |-> 0, length |-> 0, data |-> d]
Panic          == [kind |-> "panic", offset |-> 0, length |-> 0, data |-> <<>>]

\* The map from hash to chunk keeps the last of two equal chunks.
Matching(chunks, hash) ==
    LET same == {i \in DOMAIN chunks : chunks[i].hash = hash}
    IN  CHOOSE i \in same : \A j \in same : j <= i

\* Taking a range that is not one, or not in the bytes, is a panic.
Slice(bytes, start, end) ==
    IF start <= end /\ end <= Len(bytes) THEN LiteralData(SubSeq(bytes, start + 1, end)) ELSE Panic

Within(bytes, offset) == IF offset <= Len(bytes) THEN offset ELSE Len(bytes)

\* As AtPlace, with the end alone kept within the file.
AtPlace_end_only(bytes, c) == Slice(bytes, c.offset, Within(bytes, c.offset + c.length))

\* What is at the place of chunk c in the file as it is read.
AtPlace(bytes, c) ==
    Slice(bytes, Within(bytes, c.offset), Within(bytes, c.offset + c.length))

\* Chunk by chunk of the new file: a copy of what the old file has, or the
\* bytes that are at its place in the file as it is read now.
Update(oldChunks, newChunks, bytes) ==
    [i \in DOMAIN newChunks |->
        LET c == newChunks[i]
        IN  IF \E j \in DOMAIN oldChunks : oldChunks[j].hash = c.hash
            THEN CopyBytes(oldChunks[Matching(oldChunks, c.hash)])
            ELSE AtPlace(bytes, c)]

OutOfFile(instructs, base) ==
    \E i \in DOMAIN instructs :
        instructs[i].kind = "copy" /\ instructs[i].offset + instructs[i].length > Len(base)

Rebuilt(instructs, base) ==
    FlattenSeq([i \in DOMAIN instructs |->
        LET e == instructs[i]
        IN  IF e.kind = "copy" THEN SubSeq(base, e.offset + 1, e.offset + e.length) ELSE e.data])
=============================================================================
