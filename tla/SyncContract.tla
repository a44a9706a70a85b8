---------------------------- MODULE SyncContract ----------------------------
(***************************************************************************)
(* What a sync session promises to the two programs that run it, without   *)
(* messages, streams or connections: the sender plans a patch once, the    *)
(* receiver applies its entries one by one and ends with one verdict, and  *)
(* the sender reports success only when the whole patch is applied.        *)
(* SyncSession is shown to implement this.                                 *)
(***************************************************************************)
EXTENDS Integers

CONSTANT MaxItems   \* bound on the entries of a patch

VARIABLES
    sender,     \* what send_loop returned
    receiver,   \* the verdict event of accept
    total,      \* the entries of the patch
    done        \* the entries applied

vars == <<sender, receiver, total, done>>

NotPlanned == -1

Init ==
    /\ sender = "pending" /\ receiver = "pending"
    /\ total = NotPlanned /\ done = 0

Plan ==
    /\ sender = "pending" /\ total = NotPlanned
    /\ total' \in 0 .. MaxItems
    /\ UNCHANGED <<sender, receiver, done>>

Apply ==
    /\ receiver = "pending" /\ done < total
    /\ done' = done + 1
    /\ UNCHANGED <<sender, receiver, total>>

Finish ==
    /\ receiver = "pending" /\ done = total
    /\ receiver' = "finished"
    /\ UNCHANGED <<sender, total, done>>

GiveUp ==
    /\ receiver = "pending"
    /\ receiver' = "error"
    /\ UNCHANGED <<sender, total, done>>

Ok ==
    /\ sender = "pending" /\ done = total
    /\ sender' = "ok"
    /\ UNCHANGED <<receiver, total, done>>

Err ==
    /\ sender = "pending"
    /\ sender' = "err"
    /\ UNCHANGED <<receiver, total, done>>

Next == Plan \/ Apply \/ Finish \/ GiveUp \/ Ok \/ Err

Spec == Init /\ [][Next]_vars
=============================================================================
