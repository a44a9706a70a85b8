------------------------------ MODULE FileTree ------------------------------
(***************************************************************************)
(* A directory tree and what the file-system calls of patchsync do to it.  *)
(*                                                                         *)
(* A tree maps every path to a node.  Paths are opaque; their nesting is   *)
(* the relation Below.  Root is the synced directory itself, whose key in  *)
(* a snapshot is the empty string.  The content of a file is the sequence  *)
(* of its chunks: a chunk stands for the bytes between two cut points of   *)
(* the chunker and is its own hash (blake3 is taken to be injective).      *)
(*                                                                         *)
(* The file-system calls (create_dir_all, write, rename, remove_dir_all,   *)
(* remove_file) are external: they are modelled for POSIX, from the way    *)
(* SnapshotEntry::apply in src/snapshot.rs uses them.                      *)
(***************************************************************************)
EXTENDS Naturals, Sequences

CONSTANTS
    Path,     \* the paths a run can meet, Root included
    Root,     \* the synced directory (or file) itself
    Below,    \* the pairs <<p, q>> such that q is strictly inside p
    Hidden,   \* the paths whose name makes the walker skip them
    Chunk     \* the chunks of file contents

ASSUME PathAssumption ==
    /\ Root \in Path
    /\ Below \subseteq Path \X Path
    /\ \A p \in Path : <<p, p>> \notin Below
    /\ \A p, q, r \in Path :
          <<p, q>> \in Below /\ <<q, r>> \in Below => <<p, r>> \in Below
    /\ \A p \in Path \ {Root} : <<Root, p>> \in Below
    /\ Hidden \subseteq Path \ {Root}

Under(p) == {q \in Path : <<p, q>> \in Below}
Above(p) == {q \in Path : <<q, p>> \in Below}

Data == Seq(Chunk)
Node == {n \in [kind : {"absent", "dir", "file"}, data : Data] : n.kind # "file" => n.data = <<>>}

Absent  == [kind |-> "absent", data |-> <<>>]
Dir     == [kind |-> "dir", data |-> <<>>]
File(d) == [kind |-> "file", data |-> d]

IsFile(n) == n.kind = "file"

Tree == [Path -> Node]
NoTree == [p \in Path |-> Absent]

\* Whatever exists lies in directories that exist.
WellFormed(t) ==
    \A p \in Path : t[p] # Absent => \A a \in Above(p) : t[a] = Dir

-----------------------------------------------------------------------------
(* Walking a tree: ignore::WalkBuilder as dirwalker::walkdir sets it up.   *)

\* The walker skips hidden names and does not descend into them; the root of
\* the walk is never skipped.
Visible(p) == ({p} \cup Above(p)) \cap Hidden = {}

\* As Walk, with the hidden filter off.
Walk_hidden_too(t, unread) ==
    [p \in Path |->
        IF Above(p) \cap unread = {} /\ ~(p \in unread /\ IsFile(t[p])) THEN t[p] ELSE Absent]

\* The entries one walk of t collects when the paths in unread cannot be
\* opened: such a file is logged and left out, such a directory is listed
\* and nothing inside it is.
Walk(t, unread) ==
    [p \in Path |->
        IF /\ Visible(p)
           /\ Above(p) \cap unread = {}
           /\ ~(p \in unread /\ IsFile(t[p]))
        THEN t[p]
        ELSE Absent]

-----------------------------------------------------------------------------
(* The calls that change the receiver's tree.                              *)

\* A call through a file used as a directory fails with ENOTDIR.
ThroughFile(t, p) == \E a \in Above(p) : IsFile(t[a])

\* As Created, without create_dir_all.
Created_no_parents(t, p, d) == [t EXCEPT ![p] = File(d)]

\* create_dir_all(parent), then write(p, d).  Root.join("") ends in a slash,
\* so a write or an open of the root itself never succeeds.
CreateFails(t, p)  == p = Root \/ ThroughFile(t, p) \/ t[p] = Dir
Created(t, p, d)   == [q \in Path |-> CASE q = p        -> File(d)
                                        [] q \in Above(p) -> Dir
                                        [] OTHER         -> t[q]]

\* remove_dir_all(p) of a directory, else remove_file(p), where NotFound is
\* not an error and ENOTDIR is.  Deleting the root is a no-op.
DeleteFails(t, p) == p # Root /\ ThroughFile(t, p)
Deleted(t, p) ==
    IF p = Root THEN t
    ELSE [q \in Path |-> IF q = p \/ q \in Under(p) THEN Absent ELSE t[q]]

\* open(p) and map it, then rename a temporary file over p.
UpdateFails(t, p)  == p = Root \/ ~IsFile(t[p])
Updated(t, p, d)   == [t EXCEPT ![p] = File(d)]
=============================================================================
