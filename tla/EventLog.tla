------------------------------ MODULE EventLog ------------------------------
(***************************************************************************)
(* What an event handler may rely on: the events come one by one in the    *)
(* order they were emitted, the bytes reported before an event are told    *)
(* before that event, and when the dispatcher is shut down nothing is      *)
(* left.  EventDispatcher is shown to implement this.                      *)
(***************************************************************************)
EXTENDS Naturals, Sequences

VARIABLES
    emitted,    \* the events emitted, each with the bytes reported before it
    handled,    \* the events the handler was called with
    reported,   \* the bytes reported
    told,       \* the bytes the handler was told of
    closed      \* shutdown returned

vars == <<emitted, handled, reported, told, closed>>

Init ==
    /\ emitted = <<>> /\ handled = <<>>
    /\ reported = 0 /\ told = 0
    /\ closed = FALSE

Emit ==
    /\ ~closed
    /\ emitted' = Append(emitted, [id |-> Len(emitted) + 1, mark |-> reported])
    /\ UNCHANGED <<handled, reported, told, closed>>

Report ==
    /\ ~closed
    /\ reported' \in Nat /\ reported' > reported
    /\ UNCHANGED <<emitted, handled, told, closed>>

Handle ==
    /\ ~closed /\ Len(handled) < Len(emitted)
    /\ LET e == emitted[Len(handled) + 1]
       IN  told >= e.mark /\ handled' = Append(handled, e)
    /\ UNCHANGED <<emitted, reported, told, closed>>

Tell ==
    /\ ~closed
    /\ told' \in Nat /\ told < told' /\ told' <= reported
    /\ UNCHANGED <<emitted, handled, reported, closed>>

Close ==
    /\ handled = emitted /\ told = reported
    /\ closed' = TRUE
    /\ UNCHANGED <<emitted, handled, reported, told>>

Next == Emit \/ Report \/ Handle \/ Tell \/ Close

Spec == Init /\ [][Next]_vars
=============================================================================
