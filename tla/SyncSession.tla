---------------------------- MODULE SyncSession -----------------------------
(***************************************************************************)
(* One sync session over one bidirectional QUIC stream: the sender runs    *)
(* SendHandler::send_loop, the receiver RecvProtocol::accept (src/lib.rs). *)
(* What the messages carry is the subject of TreeSync; here a patch is its *)
(* number of entries.                                                      *)
(*                                                                         *)
(* The connection is external (iroh), modelled from its use: messages of a *)
(* direction arrive in order while it is open.  Once it is closed a read   *)
(* returns what was delivered before or fails, so a message still in a     *)
(* channel may be lost, and a write fails or vanishes.  Dropping a stream  *)
(* finishes it, and dropping the last handle closes the connection without *)
(* waiting for what is in flight.                                          *)
(***************************************************************************)
EXTENDS Integers, Sequences

CONSTANTS
    MaxItems,    \* bound on the entries of a patch
    Faults       \* the connection may be lost and the programs killed

ASSUME SessionAssumption ==
    /\ MaxItems \in Nat
    /\ Faults \in BOOLEAN

VARIABLES
    spc,       \* where send_loop is
    rpc,       \* where accept is
    toR, toS,  \* the messages under way to the receiver, to the sender
    finR,      \* the sender's half of the stream is finished
    finS,      \* the receiver's half of the stream is finished
    open,      \* the connection is open
    patch,     \* the entries of the patch, or NotPlanned
    left,      \* the entries the receiver has yet to apply
    applied,   \* the entries the receiver applied
    verdicts,  \* the Finished and Error events the receiver emitted
    keepOpen,  \* the programs that were started with --keep-open
    fault      \* something of the environment went wrong

sender   == <<spc, patch, finR>>
receiver == <<rpc, left, applied, verdicts, finS>>
network  == <<toR, toS, open>>
env      == <<keepOpen, fault>>
vars == <<sender, receiver, network, env>>

NotPlanned == -1

Request  == [type |-> "request", items |-> 0]
Snapshot == [type |-> "snapshot", items |-> 0]
Patch(n) == [type |-> "patch", items |-> n]
Ack      == [type |-> "ack", items |-> 0]
Error    == [type |-> "error", items |-> 0]

ToReceiver == {Request, Ack} \cup {Patch(n) : n \in 1 .. MaxItems}
ToSender   == {Snapshot, Ack, Error}

SEnded == {"ok", "err", "killed"}
REnded == {"returned", "cancelled"}

TypeOK ==
    /\ spc \in {"init", "wait", "diff", "ready"} \cup SEnded
    /\ rpc \in {"accept", "recv", "apply", "acked", "drain"} \cup REnded
    /\ toR \in Seq(ToReceiver) /\ toS \in Seq(ToSender)
    /\ finR \in BOOLEAN /\ finS \in BOOLEAN /\ open \in BOOLEAN
    /\ patch \in -1 .. MaxItems
    /\ left \in 0 .. MaxItems /\ applied \in 0 .. MaxItems
    /\ verdicts \in Seq({"finished", "error"})
    /\ keepOpen \subseteq {"sender", "receiver"} /\ fault \in BOOLEAN

Init ==
    /\ spc = "init" /\ rpc = "accept"
    /\ toR = <<>> /\ toS = <<>>
    /\ finR = FALSE /\ finS = FALSE
    /\ open = TRUE
    /\ patch = NotPlanned
    /\ left = 0 /\ applied = 0
    /\ verdicts = <<>>
    /\ keepOpen \in SUBSET {"sender", "receiver"} /\ fault = FALSE

\* A write to a connection that is gone may succeed all the same.
Sent(channel, m) == IF open THEN Append(channel, m) ELSE channel

-----------------------------------------------------------------------------
(* The sender.  send_loop drops its streams when it returns.               *)

\* As SReturn, with the streams kept.
SReturn_keeps_stream(outcome) == spc' = outcome /\ UNCHANGED finR

SReturn(outcome) == spc' = outcome /\ finR' = TRUE

\* finish()?, then Ok: over a connection that is gone the finish may fail, and
\* success becomes an error.
SFinishes == \E outcome \in IF open THEN {"ok"} ELSE {"ok", "err"} : SReturn(outcome)

SSendRequest ==
    /\ spc = "init"
    /\ spc' = "wait"
    /\ toR' = Sent(toR, Request)
    /\ UNCHANGED <<patch, finR, receiver, toS, open, env>>

\* A send of the sender fails: the ? returns the error.
SSendFails ==
    /\ spc \in {"init", "ready"} /\ ~open
    /\ SReturn("err")
    /\ UNCHANGED <<patch, receiver, network, env>>

SReceives(m) ==
    /\ spc = "wait" /\ toS # <<>>
    /\ Head(toS) = m
    /\ toS' = Tail(toS)
    /\ UNCHANGED <<patch, receiver, toR, open, env>>

SRecvSnapshot == SReceives(Snapshot) /\ spc' = "diff" /\ UNCHANGED finR
SRecvAck      == SReceives(Ack) /\ SFinishes

\* As SRecvError, with the error logged and the run reported as successful.
SRecvError_ok == SReceives(Error) /\ SReturn("ok")

SRecvError    == SReceives(Error) /\ SReturn("err")

\* The stream ends or the connection is closed under the read.
SRecvFails ==
    /\ spc = "wait"
    /\ ~open \/ (toS = <<>> /\ finS)
    /\ SReturn("err")
    /\ UNCHANGED <<patch, receiver, network, env>>

\* walkdir, then diff.
SDiff ==
    /\ spc = "diff"
    /\ spc' = "ready"
    /\ patch' \in 0 .. MaxItems
    /\ UNCHANGED <<finR, receiver, network, env>>

SDiffFails ==
    /\ spc = "diff"
    /\ SReturn("err")
    /\ UNCHANGED <<patch, receiver, network, env>>

\* Nothing to do: the receiver is told so and is not waited for.
SSendAck ==
    /\ spc = "ready" /\ patch = 0
    /\ toR' = Sent(toR, Ack)
    /\ SFinishes
    /\ UNCHANGED <<patch, receiver, toS, open, env>>

SSendPatch ==
    /\ spc = "ready" /\ patch > 0
    /\ spc' = "wait"
    /\ toR' = Sent(toR, Patch(patch))
    /\ UNCHANGED <<patch, finR, receiver, toS, open, env>>

Sender ==
    \/ SSendRequest \/ SSendFails
    \/ SRecvSnapshot \/ SRecvAck \/ SRecvError \/ SRecvFails
    \/ SDiff \/ SDiffFails \/ SSendAck \/ SSendPatch

-----------------------------------------------------------------------------
(* The receiver.  accept drops its streams when its loop ends, and the     *)
(* connection when it returns.                                             *)

Emit(verdict) == verdicts' = Append(verdicts, verdict)
RReturn(verdict) == rpc' = "returned" /\ finS' = TRUE /\ Emit(verdict)

\* accept_bi: the stream shows up with the first byte on it, or its end.
RAccept ==
    /\ rpc = "accept" /\ (toR # <<>> \/ finR)
    /\ rpc' = "recv"
    /\ UNCHANGED <<left, applied, verdicts, finS, sender, network, env>>

RAcceptFails ==
    /\ rpc = "accept" /\ ~open
    /\ RReturn("error")
    /\ UNCHANGED <<left, applied, sender, network, env>>

RReceives(m) ==
    /\ rpc = "recv" /\ toR # <<>>
    /\ Head(toR) = m
    /\ toR' = Tail(toR)
    /\ UNCHANGED <<applied, sender, open, env>>

RRecvFails ==
    /\ rpc = "recv"
    /\ ~open \/ (toR = <<>> /\ finR)
    /\ RReturn("error")
    /\ UNCHANGED <<left, applied, sender, network, env>>

RSnapshot ==
    /\ RReceives(Request)
    /\ toS' = Sent(toS, Snapshot)
    /\ UNCHANGED <<rpc, left, verdicts, finS>>

\* The walk fails, and the sender is told.
RWalkFails ==
    /\ RReceives(Request)
    /\ toS' = Sent(toS, Error)
    /\ RReturn("error")
    /\ UNCHANGED left

\* The snapshot cannot be sent: the connection is gone, or a path in it is
\* not UTF-8 and does not serialize.  Nothing is sent instead.
RSnapshotFails ==
    /\ RReceives(Request)
    /\ RReturn("error")
    /\ UNCHANGED <<left, toS>>

\* As RRecvPatch, counting one entry too many.
RRecvPatch_one_more(n) ==
    /\ RReceives(Patch(n))
    /\ rpc' = "apply"
    /\ left' = n + 1
    /\ UNCHANGED <<toS, verdicts, finS>>

RRecvPatch(n) ==
    /\ RReceives(Patch(n))
    /\ rpc' = "apply"
    /\ left' = n
    /\ UNCHANGED <<toS, verdicts, finS>>

RApplyItem ==
    /\ rpc = "apply" /\ left > 0
    /\ left' = left - 1 /\ applied' = applied + 1
    /\ UNCHANGED <<rpc, verdicts, finS, sender, network, env>>

\* As RApplyFails, leaving the loop over the items only.
RApplyFails_no_break ==
    /\ rpc = "apply" /\ left > 0
    /\ toS' = Sent(toS, Error)
    /\ left' = 0
    /\ Emit("error")
    /\ UNCHANGED <<rpc, finS, applied, sender, toR, open, env>>

RApplyFails ==
    /\ rpc = "apply" /\ left > 0
    /\ toS' = Sent(toS, Error)
    /\ RReturn("error")
    /\ UNCHANGED <<left, applied, sender, toR, open, env>>

\* As RSendAck, sent before the last entry is applied.
RSendAck_early ==
    /\ rpc = "apply" /\ left <= 1
    /\ rpc' = "acked"
    /\ toS' = Sent(toS, Ack)
    /\ UNCHANGED <<left, applied, verdicts, finS, sender, toR, open, env>>

RSendAck ==
    /\ rpc = "apply" /\ left = 0
    /\ rpc' = "acked"
    /\ toS' = Sent(toS, Ack)
    /\ UNCHANGED <<left, applied, verdicts, finS, sender, toR, open, env>>

\* As RFinish, without the last read.
RFinish_no_drain ==
    /\ rpc = "acked"
    /\ RReturn("finished")
    /\ UNCHANGED <<left, applied, sender, network, env>>

\* finish, then Finished, before the sender is known to have the Ack.
RFinish ==
    /\ rpc = "acked"
    /\ rpc' = "drain" /\ finS' = TRUE /\ Emit("finished")
    /\ UNCHANGED <<left, applied, sender, network, env>>

\* The last read ends with the sender's stream, or any other way.
RDrain ==
    /\ rpc = "drain"
    /\ toR # <<>> \/ finR \/ ~open
    /\ rpc' = "returned"
    /\ UNCHANGED <<left, applied, verdicts, finS, sender, network, env>>

RRecvAck ==
    /\ RReceives(Ack)
    /\ RReturn("finished")
    /\ UNCHANGED <<left, toS>>

Receiver ==
    \/ RAccept \/ RAcceptFails \/ RRecvFails
    \/ RSnapshot \/ RWalkFails \/ RSnapshotFails
    \/ (\E n \in 1 .. MaxItems : RRecvPatch(n))
    \/ RApplyItem \/ RApplyFails \/ RSendAck \/ RFinish \/ RDrain \/ RRecvAck

-----------------------------------------------------------------------------
(* The programs around the session, and the environment.                   *)

\* accept owns the connection: it is dropped when accept returns.
RouterDropsConnection ==
    /\ rpc = "returned" /\ open
    /\ open' = FALSE
    /\ UNCHANGED <<sender, receiver, toR, toS, env>>

\* handle_recv leaves its loop at the first verdict and shuts the router
\* down, which cancels an accept that has not returned.
ReceiverExits ==
    /\ "receiver" \notin keepOpen /\ verdicts # <<>> /\ open
    /\ open' = FALSE
    /\ rpc' = IF rpc = "returned" THEN rpc ELSE "cancelled"
    /\ UNCHANGED <<left, applied, verdicts, finS, sender, toR, toS, env>>

\* handle_send closes its endpoint once its only run is over.
SenderExits ==
    /\ "sender" \notin keepOpen /\ spc \in {"ok", "err"} /\ open
    /\ open' = FALSE
    /\ UNCHANGED <<sender, receiver, toR, toS, env>>

ConnectionLost ==
    /\ Faults /\ open
    /\ open' = FALSE /\ fault' = TRUE
    /\ UNCHANGED <<sender, receiver, toR, toS, keepOpen>>

SenderKilled ==
    /\ Faults /\ spc \notin SEnded
    /\ spc' = "killed" /\ open' = FALSE /\ fault' = TRUE
    /\ UNCHANGED <<patch, finR, receiver, toR, toS, keepOpen>>

ReceiverKilled ==
    /\ Faults /\ rpc \notin REnded
    /\ rpc' = "cancelled" /\ open' = FALSE /\ fault' = TRUE
    /\ UNCHANGED <<left, applied, verdicts, finS, sender, toR, toS, keepOpen>>

Programs == RouterDropsConnection \/ ReceiverExits \/ SenderExits
Trouble  == ConnectionLost \/ SenderKilled \/ ReceiverKilled

Next == Sender \/ Receiver \/ Programs \/ Trouble

Spec == Init /\ [][Next]_vars

\* Both tasks are polled while they can go on.
Fairness == WF_vars(Sender) /\ WF_vars(Receiver)
FairSpec == Spec /\ Fairness

-----------------------------------------------------------------------------
(* What a session is for.                                                  *)

\* send_loop returns Ok only when the receiver applied every entry of the
\* patch, whatever is lost, killed or cancelled on the way.
SenderOk == spc = "ok" => patch # NotPlanned /\ applied = patch

\* The protocol is strictly alternating: neither side ever sends while a
\* message of either direction is under way, so no read of either loop can
\* meet a message it is not the turn of.
OneInFlight == Len(toR) + Len(toS) <= 1

\* accept ends with exactly one verdict, on which handle_recv relies to stop,
\* and the verdict is Finished only when the whole patch is applied.
OneVerdict ==
    /\ rpc = "returned" => Len(verdicts) = 1
    /\ Len(verdicts) <= 1
    /\ verdicts = <<"finished">> => patch # NotPlanned /\ applied = patch

\* Without a fault of the environment, and with programs that leave the
\* connection alone, the two sides tell their users the same: no "Sync failed"
\* on one side of a session that succeeded on the other.
Agreement ==
    ~fault /\ keepOpen = {"sender", "receiver"} =>
        /\ spc = "ok" => verdicts # <<"error">>
        /\ spc = "err" => verdicts # <<"finished">>

\* The receiver that finished waits for the sender to have the Ack: "Wait for
\* sender to read Ack and close stream" (src/lib.rs:158).
AckIsRead == ~fault /\ verdicts = <<"finished">> => spc # "err"

\* A session ends on both sides, whatever happens to it.
Terminates == <>(spc \in SEnded /\ rpc \in REnded)

-----------------------------------------------------------------------------
(* The session implements SyncContract.                                    *)

SenderStatus ==
    IF spc \in {"ok", "err"} THEN spc ELSE "pending"
ReceiverStatus ==
    IF verdicts = <<>> THEN "pending" ELSE verdicts[Len(verdicts)]

Contract == INSTANCE SyncContract WITH
    sender <- SenderStatus, receiver <- ReceiverStatus,
    total <- patch, done <- applied

\* The sender plans one patch, the receiver applies it entry by entry before
\* its one verdict, and success is reported on neither side before that.
ImplementsContract == Contract!Spec
=============================================================================
