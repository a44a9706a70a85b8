----------------------------- MODULE MCFraming ------------------------------
(* A small instance of Framing: bytes of two values, headers of two bytes  *)
(* (lengths below 4), and messages on both sides of that limit.            *)
EXTENDS Framing

MCMessage == {<<0>>, <<1, 0, 1>>, <<1, 1, 0, 0>>, <<1, 1, 1, 0, 1>>}

\* A reader that has failed and a writer that has ended do not move.
Ended == reader \in Failed /\ writer # "open" /\ UNCHANGED vars
MCSpec == Init /\ [][Next \/ Ended]_vars
MCFairSpec == MCSpec /\ Fairness
=============================================================================
