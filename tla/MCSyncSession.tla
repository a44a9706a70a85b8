--------------------------- MODULE MCSyncSession ----------------------------
(* Small instances of SyncSession for TLC.                                 *)
EXTENDS SyncSession

\* A session that is over does not move; anything else that does not move is
\* a deadlock.
Over == spc \in SEnded /\ rpc \in REnded /\ ~open /\ UNCHANGED vars
MCSpec == Init /\ [][Next \/ Over]_vars
MCFairSpec == MCSpec /\ Fairness
=============================================================================
