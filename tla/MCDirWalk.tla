------------------------------ MODULE MCDirWalk ------------------------------
(* Small instances of DirWalk for TLC.                                     *)
EXTENDS DirWalk

MCRoot == "/"
MCPath == {"/", "d", "d/e", "d/e/x", "d/.h", "g"}
MCBelow == {<<"/", p>> : p \in MCPath \ {"/"}}
               \cup {<<"d", "d/e">>, <<"d", "d/e/x">>, <<"d", "d/.h">>, <<"d/e", "d/e/x">>}
MCHidden == {"d/.h"}
MCUnreadable == {"g"}

\* Bytes; the chunker cuts after a 2.
MCChunk == {1, 2}
MCBoundary == {2}

\* Contents that share chunks at other places, repeat one, end inside one, and
\* the empty one.
MCContents == {<<>>, <<1, 1, 2, 1>>, <<1, 1, 2, 1, 1, 2, 1, 2>>, <<1, 2, 1, 1, 2, 1, 1, 1, 1>>}

TreeWith(e, x, g) ==
    [p \in MCPath |-> CASE p \in {"/", "d"} -> Dir [] p = "d/e" -> e [] p = "d/e/x" -> x
                        [] p = "d/.h" -> File(<<1>>) [] p = "g" -> g]

MCStartTrees == {TreeWith(Dir, File(<<1, 1, 2, 1>>), File(<<1>>)),
                 TreeWith(File(<<1, 2, 1, 1, 2, 1, 1, 1, 1>>), Absent, Dir), NoTree}

MCEditable == {"d", "d/e", "d/e/x"}

\* A walk that is over does not move.
Over == phase \in {"returned", "refused"} /\ UNCHANGED vars
MCFairSpec == Init /\ [][Next \/ Over]_vars /\ WF_vars(Walking)
=============================================================================
