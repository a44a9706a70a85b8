------------------------- MODULE MCEventDispatcher --------------------------
(* A small instance of EventDispatcher for TLC.                            *)
EXTENDS EventDispatcher

CONSTANTS p1, p2

MCProducer == {p1, p2}
MCSize == {1, 2}

\* Once shutdown has returned nothing moves; anything else that does not move
\* is a deadlock.
Joined == closing = "joined" /\ UNCHANGED vars
MCSpec == Init /\ [][Next \/ Joined]_vars
MCFairSpec == MCSpec /\ Fairness
=============================================================================
