---------------------------- MODULE SnapshotDiff ----------------------------
(***************************************************************************)
(* snapshot::diff and SnapshotEntry::apply of src/snapshot.rs: the patch   *)
(* that turns the receiver's snapshot into the sender's, and what applying *)
(* one of its entries does.                                                *)
(*                                                                         *)
(* A snapshot is what a walk collects, so it has the shape of a tree: a    *)
(* directory entry, or a file entry with the chunk list of the file.       *)
(***************************************************************************)
EXTENDS FileTree, SequencesExt

Copy(i)    == [kind |-> "copy", at |-> i, data |-> <<>>]
Literal(d) == [kind |-> "literal", at |-> 0, data |-> d]

CreateEntry(p, d)   == [op |-> "create", path |-> p, bytes |-> d, instructs |-> <<>>]
DeleteEntry(p)      == [op |-> "delete", path |-> p, bytes |-> <<>>, instructs |-> <<>>]
UpdateEntry(p, ins) == [op |-> "update", path |-> p, bytes |-> <<>>, instructs |-> ins]

\* The old chunks are collected into a map from hash to chunk, so the last
\* of two equal chunks wins.
ChunkAt(oldChunks, c) ==
    CHOOSE i \in DOMAIN oldChunks :
        oldChunks[i] = c /\ \A j \in DOMAIN oldChunks : oldChunks[j] = c => j <= i

\* As Instructs, with the chunk's place in the new file copied, not in the old.
Instructs_new_offset(oldChunks, newChunks, bytes) ==
    [i \in DOMAIN newChunks |->
        IF newChunks[i] \in ToSet(oldChunks)
        THEN Copy(i)
        ELSE Literal(IF i <= Len(bytes) THEN <<bytes[i]>> ELSE <<>>)]

\* newChunks was computed by the walk; bytes is what the file holds when the
\* diff reads it, cut at the offsets of newChunks and at the end of the file.
Instructs(oldChunks, newChunks, bytes) ==
    [i \in DOMAIN newChunks |->
        IF newChunks[i] \in ToSet(oldChunks)
        THEN Copy(ChunkAt(oldChunks, newChunks[i]))
        ELSE Literal(IF i <= Len(bytes) THEN <<bytes[i]>> ELSE <<>>)]

\* As DiffKey, with a change of type left to the arm that does nothing.
DiffKey_type_ignored(oldE, newE, p, bytes) ==
    CASE oldE.kind = "absent" /\ newE.kind = "file" -> <<CreateEntry(p, bytes)>>
      [] oldE.kind = "file" /\ newE.kind = "file" /\ oldE.data # newE.data ->
            <<UpdateEntry(p, Instructs(oldE.data, newE.data, bytes))>>
      [] OTHER -> <<>>

\* As DiffKey, without the comparison of discriminants.
DiffKey_any_type(oldE, newE, p, bytes) ==
    CASE oldE.kind = "absent" /\ newE.kind = "file" -> <<CreateEntry(p, bytes)>>
      [] oldE.kind = "file" /\ newE.kind = "file" ->
            IF oldE.data = newE.data
            THEN <<>>
            ELSE <<UpdateEntry(p, Instructs(oldE.data, newE.data, bytes))>>
      [] oldE.kind = "dir" /\ newE.kind = "file" ->
            <<DeleteEntry(p), CreateEntry(p, bytes)>>
      [] oldE.kind # "absent" /\ newE.kind = "dir" -> <<DeleteEntry(p)>>
      [] OTHER -> <<>>

\* The body of diff's loop over the new entries, for one key; bytes is the
\* content read from the sender's file (unused when the new entry is a Dir).
DiffKey(oldE, newE, p, bytes) ==
    CASE oldE.kind = "absent" /\ newE.kind = "file" -> <<CreateEntry(p, bytes)>>
      [] oldE.kind = "file" /\ newE.kind = "file" ->
            IF oldE.data = newE.data
            THEN <<>>
            ELSE <<UpdateEntry(p, Instructs(oldE.data, newE.data, bytes))>>
      [] oldE.kind = "dir" /\ newE.kind = "file" ->
            <<DeleteEntry(p), CreateEntry(p, bytes)>>
      [] oldE.kind = "file" /\ newE.kind = "dir" -> <<DeleteEntry(p)>>
      [] OTHER -> <<>>

-----------------------------------------------------------------------------
(* Applying one entry to the receiver's tree.                              *)

\* A Copy beyond the end of the file as it is now is an error.
OutOfBounds(ins, base) ==
    \E i \in DOMAIN ins : ins[i].kind = "copy" /\ ins[i].at > Len(base)

Assemble(ins, base) ==
    FlattenSeq([i \in DOMAIN ins |->
        IF ins[i].kind = "copy" THEN <<base[ins[i].at]>> ELSE ins[i].data])

ApplyFails(t, e) ==
    \/ t[Root] = Absent
    \/ e.op = "create" /\ CreateFails(t, e.path)
    \/ e.op = "delete" /\ DeleteFails(t, e.path)
    \/ e.op = "update" /\ (UpdateFails(t, e.path) \/ OutOfBounds(e.instructs, t[e.path].data))

Applied(t, e) ==
    CASE e.op = "create" -> Created(t, e.path, e.bytes)
      [] e.op = "delete" -> Deleted(t, e.path)
      [] e.op = "update" -> Updated(t, e.path, Assemble(e.instructs, t[e.path].data))

\* As Interrupted, with an update that writes the file in place.
Interrupted_in_place(t, e) ==
    {t} \cup
    IF e.op = "update"
    THEN LET d == Assemble(e.instructs, t[e.path].data)
         IN  {Updated(t, e.path, SubSeq(d, 1, n)) : n \in 0 .. Len(d)}
    ELSE {Applied(t, e)}

\* t with these directories made.
DirsMade(t, dirs) == [q \in Path |-> IF q \in dirs THEN Dir ELSE t[q]]

\* The trees a receiver that dies inside apply can leave behind:
\* create_dir_all makes the missing parents from the top down, write truncates
\* and fills the file in place, remove_dir_all empties a directory bottom-up,
\* while an update only renames a complete temporary file.  The temporary file
\* itself, which a crash leaves beside the old one, has a random hidden name
\* that is no path of the model.
Interrupted(t, e) ==
    {t} \cup
    CASE e.op = "create" ->
            {DirsMade(t, dirs) :
                dirs \in {D \in SUBSET Above(e.path) : \A a \in D : Above(a) \subseteq D}} \cup
            {Created(t, e.path, SubSeq(e.bytes, 1, n)) : n \in 0 .. Len(e.bytes)}
      [] e.op = "delete" ->
            {[q \in Path |-> IF q \in gone THEN Absent ELSE t[q]] :
                gone \in {D \in SUBSET Under(e.path) :
                            e.path # Root /\ \A q \in D : Under(q) \subseteq D}}
      [] e.op = "update" -> {}
=============================================================================
