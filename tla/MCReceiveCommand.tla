-------------------------- MODULE MCReceiveCommand ---------------------------
(* Small instances of ReceiveCommand for TLC.                              *)
EXTENDS ReceiveCommand

MCRoot == "/"
MCPath == {"/", "d", "d/g", "f"}
MCBelow == {<<"/", p>> : p \in MCPath \ {"/"}} \cup {<<"d", "d/g">>}
MCHidden == {}
MCChunk == {1, 2}

TreeOf(dir, g, f) ==
    [p \in MCPath |-> CASE p = "/" -> Dir [] p = "d" -> dir [] p = "d/g" -> g [] p = "f" -> f]

\* The senders agree on f; one has a directory d, the other a file d, and the
\* receiver has the one or the other, to update or in sync with the first.
MCSenderTrees == {TreeOf(Dir, File(<<1>>), File(<<2, 1, 2>>)),
                  TreeOf(File(<<2>>), Absent, File(<<2, 1, 2>>))}
MCReceiverTrees == {TreeOf(Dir, File(<<1, 2>>), File(<<1, 2>>)),
                    TreeOf(File(<<1, 2>>), Absent, File(<<2, 1, 2>>)),
                    TreeOf(Dir, File(<<1>>), File(<<2, 1, 2>>))}

\* One sender, for the run in which its second connection meets the first.
OneSender == {TreeOf(Absent, Absent, File(<<2, 1, 2>>))}
OneReceiver == {TreeOf(Absent, Absent, File(<<1, 2>>))}

\* A program that has ended for good, or refuses to start, does not move.
Stopped == program \in {"refused", "ended"} /\ UNCHANGED vars

MCSpec == Init /\ [][Next \/ Stopped]_vars
MCFairSpec == MCSpec /\ Fairness
=============================================================================
