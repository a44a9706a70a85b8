---------------------------- MODULE MessageStream ----------------------------
(***************************************************************************)
(* One direction of a stream as SyncSession uses it: messages that are     *)
(* sent are received whole, in order and once each, until receiving fails  *)
(* for good.  Framing is shown to implement this with bytes.               *)
(***************************************************************************)
EXTENDS Sequences, Naturals

CONSTANTS Message, MaxMessages

VARIABLES sent, got, failed

vars == <<sent, got, failed>>

Init == sent = <<>> /\ got = <<>> /\ failed = FALSE

Send ==
    /\ Len(sent) < MaxMessages
    /\ \E m \in Message : sent' = Append(sent, m)
    /\ UNCHANGED <<got, failed>>

Receive ==
    /\ ~failed /\ Len(got) < Len(sent)
    /\ got' = Append(got, sent[Len(got) + 1])
    /\ UNCHANGED <<sent, failed>>

Fail == failed' = TRUE /\ UNCHANGED <<sent, got>>

Spec == Init /\ [][Send \/ Receive \/ Fail]_vars
=============================================================================
