---------------------------- MODULE MCSendRunner -----------------------------
(* Small instances of SendRunner for TLC.                                  *)
EXTENDS SendRunner

\* A program that is over and whose receiver has noticed does not move;
\* anything else that does not move is a deadlock.
Quiet == Over /\ closed /\ UNCHANGED vars
MCSpec == Init /\ [][Next \/ Quiet]_vars
MCFairSpec == MCSpec /\ Fairness
=============================================================================
