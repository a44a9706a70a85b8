----------------------------- MODULE MCTreeSync -----------------------------
(* Small instances of TreeSync for TLC.                                    *)
EXTENDS TreeSync

MCRoot == "/"
MCPath == {"/", "a", "a/x", "b", "a/.h", ".key"}
MCBelow == {<<"/", p>> : p \in MCPath \ {"/"}} \cup {<<"a", "a/x">>, <<"a", "a/.h">>}
MCHidden == {"a/.h", ".key"}
MCChunk == {1, 2}

\* Contents with a chunk in common, in another order and in another number,
\* and the empty file.
MCContents == {<<>>, <<1, 2>>, <<2, 2, 1>>}
FewContents == {<<1, 2>>, <<2>>}

\* Every well-formed tree whose files hold one of the given contents and
\* whose hidden files hold one chunk; b is there to be created or deleted.
Trees(contents, roots, hidden) ==
    {t \in [MCPath -> {Absent, Dir} \cup {File(d) : d \in contents \cup {<<1>>}}] :
        /\ WellFormed(t)
        /\ t["/"] \in roots
        /\ \A p \in MCHidden : t[p] \in {Absent, File(<<1>>)}
        /\ {p \in MCHidden : t[p] # Absent} \subseteq hidden
        /\ \A p \in MCPath \ MCHidden : IsFile(t[p]) => t[p].data \in contents
        /\ t["b"] \in {Absent, File(<<1, 2>>)}}

\* Any pair of trees, a missing root included; the receiver alone has hidden
\* files, its key file whenever it has a root to keep it in.
AllSenders == Trees(MCContents, {Dir, Absent}, {})
AllReceivers ==
    {t \in Trees(MCContents, {Dir, Absent}, MCHidden) : t["/"] = Dir => t[".key"] # Absent}

\* Fewer contents, for the runs about one outcome.
FewSenders == Trees(FewContents, {Dir}, {})

\* One side has a file at a, the other a directory with a file in it.
FileForDir == {t \in FewSenders : IsFile(t["a"])}
DirForFile == {t \in FewSenders : IsFile(t["a/x"])}

NoPath == {}
AX == {"a/x"}
AandX == {"a", "a/x"}
=============================================================================
