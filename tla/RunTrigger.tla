----------------------------- MODULE RunTrigger ------------------------------
(***************************************************************************)
(* What the send command promises about the changes it notices, without    *)
(* connections, retries or a queue: a run that is asked for at one version *)
(* of the directory begins at that version or a later one, and several     *)
(* requests may share a run.  SendRunner is shown to implement this.       *)
(***************************************************************************)
EXTENDS Integers

CONSTANT MaxEdits   \* bound on the versions of the directory

VARIABLES
    asked,   \* the version at the last request for a run
    begun,   \* the version at the start of the last run
    over     \* the program has ended

vars == <<asked, begun, over>>

None == -1

Init == asked = None /\ begun = None /\ over = FALSE

Ask ==
    /\ ~over
    /\ asked' \in {v \in 0 .. MaxEdits : v > asked}
    /\ UNCHANGED <<begun, over>>

\* A request that came while a run was about to begin may start one more.
Begin ==
    /\ ~over /\ asked # None
    /\ begun' \in {v \in asked .. MaxEdits : v >= begun}
    /\ UNCHANGED <<asked, over>>

Stop == ~over /\ over' = TRUE /\ UNCHANGED <<asked, begun>>

Next == Ask \/ Begin \/ Stop

Spec == Init /\ [][Next]_vars

\* What was asked for and has not begun begins, unless the program ends.
FairSpec == Spec /\ WF_vars(begun < asked /\ Begin)
=============================================================================
