------------------------- MODULE SyncSessionProofs --------------------------
(***************************************************************************)
(* Proofs about SyncSession for every number of entries and every          *)
(* combination of --keep-open and faults.  The invariant says what each    *)
(* message under way means for both sides.                                 *)
(***************************************************************************)
EXTENDS SyncSession, TLAPS

\* At most one message is under way, and never in both directions.
Channels ==
    /\ toR = <<>> \/ (toS = <<>> /\ \E m \in ToReceiver : toR = <<m>>)
    /\ toS = <<>> \/ (toR = <<>> /\ \E m \in ToSender : toS = <<m>>)

\* Nothing is applied or reported before the patch arrived.
Fresh == applied = 0 /\ left = 0 /\ verdicts = <<>>

Complete == patch # NotPlanned /\ applied = patch

\* What a message on its way to the receiver says of the two sides.
ToReceiverInv ==
    /\ toR = <<Request>> =>
          patch = NotPlanned /\ spc \in {"wait", "err", "killed"}
    /\ toR = <<Ack>> => patch = 0
    /\ \A n \in 1 .. MaxItems : toR = <<Patch(n)>> =>
          patch = n /\ spc \in {"wait", "err", "killed"}
    /\ toR # <<>> => applied = 0 /\ left = 0 /\ rpc \notin {"apply", "acked", "drain"}

\* What a message on its way to the sender says of the two sides.
ToSenderInv ==
    /\ toS = <<Snapshot>> => patch = NotPlanned /\ spc \in {"wait", "err", "killed"}
    /\ toS = <<Ack>> => Complete /\ spc \in {"wait", "err", "killed"}
    /\ toS # <<>> => rpc # "apply"

SenderInv ==
    /\ spc = "init" => patch = NotPlanned /\ toR = <<>> /\ toS = <<>>
    /\ spc = "diff" => patch = NotPlanned /\ toR = <<>> /\ toS = <<>>
    /\ spc = "ready" =>
          /\ patch \in 0 .. MaxItems /\ toR = <<>> /\ toS = <<>>
          /\ applied = 0 /\ left = 0
          /\ rpc \notin {"apply", "acked", "drain"}
    /\ spc = "ok" => Complete
    /\ patch = NotPlanned => applied = 0 /\ left = 0

ReceiverInv ==
    /\ rpc \in {"accept", "recv"} => Fresh
    /\ rpc = "apply" =>
          /\ patch > 0 /\ left + applied = patch /\ verdicts = <<>>
          /\ toR = <<>> /\ toS = <<>> /\ spc \in {"wait", "err", "killed"}
    /\ rpc = "acked" => Complete /\ patch > 0 /\ verdicts = <<>>
    /\ rpc = "drain" => Complete /\ patch > 0 /\ verdicts = <<"finished">>
    /\ rpc = "returned" => verdicts \in {<<"finished">>, <<"error">>}
    /\ verdicts \in {<<>>, <<"finished">>, <<"error">>}
    /\ verdicts = <<"finished">> => Complete

\* Inductive: what is under way, and what that says of the two sides.
Inv == TypeOK /\ Channels /\ ToReceiverInv /\ ToSenderInv /\ SenderInv /\ ReceiverInv

-----------------------------------------------------------------------------
(* Channels of at most one message.                                        *)

LEMMA SingletonFacts ==
    ASSUME NEW m, NEW n
    PROVE  /\ <<m>> # <<>> /\ Len(<<m>>) = 1
           /\ Head(<<m>>) = m /\ Tail(<<m>>) = <<>>
           /\ Append(<<>>, m) = <<m>>
           /\ (<<m>> = <<n>>) => m = n
OBVIOUS

LEMMA EmptyFacts ==
    ASSUME NEW S
    PROVE  <<>> \in Seq(S) /\ Len(<<>>) = 0
OBVIOUS

\* Messages of different types differ, and a patch is told by its length.
LEMMA MessageFacts ==
    /\ Request # Ack /\ Snapshot # Ack /\ Snapshot # Error /\ Ack # Error
    /\ \A n : Patch(n) # Request /\ Patch(n) # Ack
    /\ \A n, k : Patch(n) = Patch(k) => n = k
BY DEF Request, Ack, Snapshot, Error, Patch

\* A write into an empty channel leaves at most that message in it.
LEMMA SentFacts ==
    ASSUME NEW m
    PROVE  Sent(<<>>, m) = <<>> \/ Sent(<<>>, m) = <<m>>
BY SingletonFacts DEF Sent

\* Channels of no and of one message are sequences of messages.
LEMMA SeqFacts ==
    ASSUME NEW S, NEW m \in S
    PROVE  <<>> \in Seq(S) /\ <<m>> \in Seq(S)
OBVIOUS

\* The sender reads the only message there is.
LEMMA SReceivesFacts ==
    ASSUME Channels, NEW m, SReceives(m)
    PROVE  toS = <<m>> /\ toS' = <<>> /\ toR = <<>> /\ toR' = <<>> /\ m \in ToSender
BY SingletonFacts DEF Channels, SReceives

\* So does the receiver.
LEMMA RReceivesFacts ==
    ASSUME Channels, NEW m, RReceives(m)
    PROVE  toR = <<m>> /\ toR' = <<>> /\ toS = <<>> /\ m \in ToReceiver
BY SingletonFacts DEF Channels, RReceives

\* Success may become an error at the last call, over a connection that is gone.
LEMMA FinishFacts ==
    ASSUME SFinishes
    PROVE  (spc' = "ok" \/ (spc' = "err" /\ ~open)) /\ finR' = TRUE
BY DEF SFinishes, SReturn

-----------------------------------------------------------------------------
(* The invariant is inductive.                                             *)

LEMMA InitInv == Init => Inv
<1> SUFFICES ASSUME Init PROVE Inv
  OBVIOUS
<1> USE SessionAssumption
<1>1. TypeOK
  <2>1. toR \in Seq(ToReceiver) /\ toS \in Seq(ToSender) /\ verdicts \in Seq({"finished", "error"})
    BY EmptyFacts DEF Init
  <2>2. patch \in -1 .. MaxItems /\ left \in 0 .. MaxItems /\ applied \in 0 .. MaxItems
    BY DEF Init, NotPlanned
  <2> QED
    BY <2>1, <2>2 DEF Init, TypeOK
<1>2. Channels /\ ToReceiverInv /\ ToSenderInv
  BY SingletonFacts DEF Init, Channels, ToReceiverInv, ToSenderInv
<1>3. SenderInv /\ ReceiverInv
  BY DEF Init, SenderInv, ReceiverInv, Fresh
<1> QED
  BY <1>1, <1>2, <1>3 DEF Inv

\* Every step of the sender.
LEMMA SenderStep ==
    ASSUME Inv, Sender
    PROVE  Inv'
<1> USE SessionAssumption, SingletonFacts, MessageFacts DEF Inv, NotPlanned, SEnded, REnded
<1> USE DEF sender, receiver, network
<1>1. CASE SSendRequest
  <2>1. toR = <<>> /\ toS = <<>> /\ patch = NotPlanned /\ spc = "init"
    BY <1>1 DEF SSendRequest, SenderInv
  <2>2. toR' = <<>> \/ toR' = <<Request>>
    BY <1>1, <2>1, SentFacts DEF SSendRequest
  <2>3. Request \in ToReceiver
    BY DEF ToReceiver
  <2>5. toR' \in Seq(ToReceiver)
    BY <2>2, <2>3, SeqFacts
  <2>6. TypeOK' /\ Channels'
    BY <1>1, <2>1, <2>2, <2>3, <2>5 DEF SSendRequest, TypeOK, env, Channels
  <2>4. ToReceiverInv' /\ ToSenderInv' /\ SenderInv' /\ ReceiverInv'
    BY <1>1, <2>1, <2>2 DEF SSendRequest, TypeOK, ToReceiverInv, ToSenderInv, SenderInv,
       ReceiverInv, Fresh, Complete
  <2> QED
    BY <2>4, <2>6
<1>2. CASE SSendFails \/ SRecvFails \/ SDiffFails
  <2>1. TypeOK' /\ Channels'
    BY <1>2 DEF SSendFails, SRecvFails, SDiffFails, SReturn, TypeOK, env, Channels
  <2>2. ToReceiverInv' /\ ToSenderInv' /\ SenderInv' /\ ReceiverInv'
    BY <1>2 DEF SSendFails, SRecvFails, SDiffFails, SReturn, TypeOK, env, Channels,
       ToReceiverInv, ToSenderInv, SenderInv, ReceiverInv, Fresh, Complete
  <2> QED
    BY <2>1, <2>2
<1>3. CASE SRecvSnapshot
  <2>1. toS = <<Snapshot>> /\ toS' = <<>> /\ toR = <<>> /\ toR' = <<>>
    BY <1>3, SReceivesFacts DEF SRecvSnapshot
  <2>2. TypeOK' /\ Channels'
    BY <1>3, <2>1 DEF SRecvSnapshot, SReceives, TypeOK, env, Channels
  <2>3. ToReceiverInv' /\ ToSenderInv' /\ SenderInv' /\ ReceiverInv'
    BY <1>3, <2>1 DEF SRecvSnapshot, SReceives, TypeOK,
       ToReceiverInv, ToSenderInv, SenderInv, ReceiverInv, Fresh, Complete
  <2> QED
    BY <2>2, <2>3
<1>4. CASE SRecvAck
  <2>1. toS = <<Ack>> /\ toS' = <<>> /\ toR = <<>> /\ toR' = <<>>
    BY <1>4, SReceivesFacts DEF SRecvAck
  <2>2. TypeOK' /\ Channels'
    BY <1>4, <2>1, FinishFacts DEF SRecvAck, SReceives, TypeOK, env, Channels
  <2>3. ToReceiverInv' /\ ToSenderInv' /\ SenderInv' /\ ReceiverInv'
    BY <1>4, <2>1, FinishFacts DEF SRecvAck, SReceives, TypeOK,
       ToReceiverInv, ToSenderInv, SenderInv, ReceiverInv, Fresh, Complete
  <2> QED
    BY <2>2, <2>3
<1>5. CASE SRecvError
  <2>1. toS = <<Error>> /\ toS' = <<>> /\ toR = <<>> /\ toR' = <<>>
    BY <1>5, SReceivesFacts DEF SRecvError
  <2>2. TypeOK' /\ Channels'
    BY <1>5, <2>1 DEF SRecvError, SReceives, SReturn, TypeOK, env, Channels
  <2>3. ToReceiverInv' /\ ToSenderInv' /\ SenderInv' /\ ReceiverInv'
    BY <1>5, <2>1 DEF SRecvError, SReceives, SReturn, TypeOK,
       ToReceiverInv, ToSenderInv, SenderInv, ReceiverInv, Fresh, Complete
  <2> QED
    BY <2>2, <2>3
<1>6. CASE SDiff
  <2>1. patch' \in 0 .. MaxItems /\ applied = 0 /\ left = 0 /\ toR = <<>> /\ toS = <<>>
    BY <1>6 DEF SDiff, SenderInv
  <2>2. TypeOK' /\ Channels'
    BY <1>6, <2>1 DEF SDiff, TypeOK, env, Channels
  <2>3. ToReceiverInv' /\ ToSenderInv' /\ SenderInv' /\ ReceiverInv'
    BY <1>6, <2>1 DEF SDiff, TypeOK,
       ToReceiverInv, ToSenderInv, SenderInv, ReceiverInv, Fresh, Complete
  <2> QED
    BY <2>2, <2>3
<1>7. CASE SSendAck
  <2>1. toR = <<>> /\ toS = <<>> /\ applied = 0 /\ left = 0 /\ patch = 0
    BY <1>7 DEF SSendAck, SenderInv
  <2>2. toR' = <<>> \/ toR' = <<Ack>>
    BY <1>7, <2>1, SentFacts DEF SSendAck
  <2>3. Ack \in ToReceiver
    BY DEF ToReceiver
  <2>5. toR' \in Seq(ToReceiver)
    BY <2>2, <2>3, SeqFacts
  <2>6. TypeOK' /\ Channels'
    BY <1>7, <2>1, <2>2, <2>3, <2>5, FinishFacts DEF SSendAck, TypeOK, env, Channels
  <2>4. ToReceiverInv' /\ ToSenderInv'
    <3>1. toR' # <<Request>> /\ \A n \in 1 .. MaxItems : toR' # <<Patch(n)>>
      BY <2>2
    <3> QED
      BY <1>7, <2>1, <2>2, <3>1, FinishFacts DEF SSendAck, ToReceiverInv, ToSenderInv, SenderInv
  <2>7. SenderInv' /\ ReceiverInv'
    BY <1>7, <2>1, <2>2, FinishFacts DEF SSendAck, TypeOK, SenderInv, ReceiverInv, Fresh, Complete
  <2> QED
    BY <2>4, <2>6, <2>7
<1>8. CASE SSendPatch
  <2>1. toR = <<>> /\ toS = <<>> /\ applied = 0 /\ left = 0 /\ patch \in 1 .. MaxItems
    BY <1>8 DEF SSendPatch, SenderInv, TypeOK
  <2>2. toR' = <<>> \/ toR' = <<Patch(patch)>>
    BY <1>8, <2>1, SentFacts DEF SSendPatch
  <2>3. Patch(patch) \in ToReceiver
    BY <2>1 DEF ToReceiver
  <2>5. toR' \in Seq(ToReceiver)
    <3> HIDE DEF Patch
    <3>1. <<Patch(patch)>> \in Seq(ToReceiver) /\ <<>> \in Seq(ToReceiver)
      BY <2>3, SeqFacts
    <3> QED
      BY <2>2, <3>1
  <2>6. TypeOK' /\ Channels'
    BY <1>8, <2>1, <2>2, <2>3, <2>5 DEF SSendPatch, TypeOK, env, Channels
  <2>4. ToReceiverInv' /\ ToSenderInv' /\ SenderInv' /\ ReceiverInv'
    BY <1>8, <2>1, <2>2 DEF SSendPatch, TypeOK,
       ToReceiverInv, ToSenderInv, SenderInv, ReceiverInv, Fresh, Complete
  <2> QED
    BY <2>4, <2>6
<1> QED
  BY <1>1, <1>2, <1>3, <1>4, <1>5, <1>6, <1>7, <1>8 DEF Sender

-----------------------------------------------------------------------------
\* Every step of the receiver.
LEMMA ReceiverStep ==
    ASSUME Inv, Receiver
    PROVE  Inv'
<1> USE SessionAssumption, SingletonFacts, MessageFacts DEF Inv, NotPlanned, SEnded, REnded
<1> USE DEF sender, receiver, network
<1>0. <<"error">> \in Seq({"finished", "error"}) /\ <<"finished">> \in Seq({"finished", "error"})
  BY SeqFacts
<1>1. CASE RAccept
  <2>1. TypeOK' /\ Channels'
    BY <1>1 DEF RAccept, TypeOK, env, Channels
  <2>2. ToReceiverInv' /\ ToSenderInv' /\ SenderInv' /\ ReceiverInv'
    BY <1>1 DEF RAccept, ToReceiverInv, ToSenderInv, SenderInv, ReceiverInv, Fresh, Complete
  <2> QED
    BY <2>1, <2>2
<1>2. CASE RAcceptFails \/ RRecvFails
  <2>1. verdicts = <<>> /\ verdicts' = <<"error">> /\ rpc' = "returned"
    BY <1>2 DEF RAcceptFails, RRecvFails, RReturn, Emit, ReceiverInv, Fresh
  <2>2. TypeOK' /\ Channels'
    BY <1>0, <1>2, <2>1 DEF RAcceptFails, RRecvFails, RReturn, TypeOK, env, Channels
  <2>3. ToReceiverInv' /\ ToSenderInv' /\ SenderInv'
    BY <1>2, <2>1 DEF RAcceptFails, RRecvFails, RReturn, ToReceiverInv, ToSenderInv, SenderInv, Complete
  <2>4. ReceiverInv'
    BY <1>2, <2>1 DEF RAcceptFails, RRecvFails, RReturn, ReceiverInv, Complete
  <2> QED
    BY <2>2, <2>3, <2>4
<1>3. CASE RSnapshot \/ RWalkFails \/ RSnapshotFails
  <2>1. toR = <<Request>> /\ toR' = <<>> /\ toS = <<>>
    BY <1>3, RReceivesFacts DEF RSnapshot, RWalkFails, RSnapshotFails
  <2>2. /\ rpc = "recv" /\ verdicts = <<>> /\ applied = 0 /\ left = 0
        /\ patch = NotPlanned /\ spc \in {"wait", "err", "killed"}
    BY <1>3, <2>1 DEF RSnapshot, RWalkFails, RSnapshotFails, RReceives, ReceiverInv, Fresh,
       ToReceiverInv
  <2>3. UNCHANGED <<applied, left, sender, open, env>>
    BY <1>3 DEF RSnapshot, RWalkFails, RSnapshotFails, RReceives, RReturn
  <2>4. toS' \in {<<>>, <<Snapshot>>, <<Error>>}
    BY <1>3, <2>1, SentFacts DEF RSnapshot, RWalkFails, RSnapshotFails
  <2>5. \/ UNCHANGED <<rpc, verdicts, finS>>
        \/ rpc' = "returned" /\ verdicts' = <<"error">> /\ finS' = TRUE
    BY <1>3, <2>2 DEF RSnapshot, RWalkFails, RSnapshotFails, RReturn, Emit
  <2>6. Snapshot \in ToSender /\ Error \in ToSender
    BY DEF ToSender
  <2>7. toS' \in Seq(ToSender) /\ toR' \in Seq(ToReceiver)
    <3>1. <<Snapshot>> \in Seq(ToSender) /\ <<Error>> \in Seq(ToSender)
      BY <2>6, SeqFacts
    <3> QED
      BY <2>1, <2>4, <3>1, EmptyFacts
  <2>8. TypeOK' /\ Channels'
    BY <1>0, <2>1, <2>2, <2>3, <2>4, <2>5, <2>6, <2>7 DEF TypeOK, env, Channels
  <2>9. ToReceiverInv' /\ ToSenderInv' /\ SenderInv' /\ ReceiverInv'
    BY <2>1, <2>2, <2>3, <2>4, <2>5 DEF ToReceiverInv, ToSenderInv, SenderInv, ReceiverInv, Fresh, Complete
  <2> QED
    BY <2>8, <2>9
<1>4. ASSUME NEW n \in 1 .. MaxItems, RRecvPatch(n)
      PROVE  Inv'
  <2>1. toR = <<Patch(n)>> /\ toR' = <<>> /\ toS = <<>> /\ toS' = <<>>
    BY <1>4, RReceivesFacts DEF RRecvPatch
  <2>2. rpc = "recv" /\ verdicts = <<>> /\ applied = 0 /\ patch = n /\ spc \in {"wait", "err", "killed"}
    BY <1>4, <2>1 DEF RRecvPatch, RReceives, ReceiverInv, Fresh, ToReceiverInv
  <2>3. rpc' = "apply" /\ left' = n /\ UNCHANGED <<applied, verdicts, finS, sender, open, env>>
    BY <1>4 DEF RRecvPatch, RReceives
  <2>4. TypeOK' /\ Channels'
    BY <2>1, <2>2, <2>3, EmptyFacts DEF TypeOK, env, Channels
  <2>5. ToReceiverInv' /\ ToSenderInv' /\ SenderInv' /\ ReceiverInv'
    BY <2>1, <2>2, <2>3 DEF ToReceiverInv, ToSenderInv, SenderInv, ReceiverInv, Fresh, Complete
  <2> QED
    BY <2>4, <2>5
<1>5. CASE RApplyItem
  <2>1. TypeOK' /\ Channels'
    BY <1>5 DEF RApplyItem, TypeOK, env, Channels, ReceiverInv
  <2>2. ToReceiverInv' /\ ToSenderInv' /\ SenderInv' /\ ReceiverInv'
    BY <1>5 DEF RApplyItem, TypeOK, ToReceiverInv, ToSenderInv, SenderInv, ReceiverInv, Fresh, Complete
  <2> QED
    BY <2>1, <2>2
<1>6. CASE RApplyFails
  <2>1. toR = <<>> /\ toS = <<>> /\ verdicts = <<>> /\ left > 0
    BY <1>6 DEF RApplyFails, ReceiverInv
  <2>2. toS' = <<>> \/ toS' = <<Error>>
    BY <1>6, <2>1, SentFacts DEF RApplyFails
  <2>3. Error \in ToSender
    BY DEF ToSender
  <2>4. toS' \in Seq(ToSender)
    BY <2>2, <2>3, SeqFacts
  <2>5. rpc' = "returned" /\ verdicts' = <<"error">> /\ finS' = TRUE
        /\ UNCHANGED <<left, applied, sender, toR, open, env>>
    BY <1>6, <2>1 DEF RApplyFails, RReturn, Emit
  <2>6. TypeOK' /\ Channels'
    BY <1>0, <2>1, <2>2, <2>3, <2>4, <2>5 DEF TypeOK, env, Channels
  <2>7. ToReceiverInv' /\ ToSenderInv' /\ SenderInv' /\ ReceiverInv'
    BY <1>6, <2>1, <2>2, <2>5 DEF RApplyFails, ToReceiverInv, ToSenderInv, SenderInv, ReceiverInv, Fresh, Complete
  <2> QED
    BY <2>6, <2>7
<1>7. CASE RSendAck
  <2>1. /\ toR = <<>> /\ toS = <<>> /\ verdicts = <<>> /\ Complete /\ patch > 0
        /\ spc \in {"wait", "err", "killed"}
    BY <1>7 DEF RSendAck, ReceiverInv, TypeOK, Complete
  <2>2. toS' = <<>> \/ toS' = <<Ack>>
    BY <1>7, <2>1, SentFacts DEF RSendAck
  <2>3. Ack \in ToSender
    BY DEF ToSender
  <2>4. toS' \in Seq(ToSender)
    BY <2>2, <2>3, SeqFacts
  <2>5. rpc' = "acked" /\ UNCHANGED <<left, applied, verdicts, finS, sender, toR, open, env>>
    BY <1>7 DEF RSendAck
  <2>6. TypeOK' /\ Channels'
    BY <2>1, <2>2, <2>3, <2>4, <2>5 DEF TypeOK, env, Channels
  <2>7. ToReceiverInv' /\ ToSenderInv' /\ SenderInv' /\ ReceiverInv'
    BY <1>7, <2>1, <2>2, <2>5 DEF RSendAck, ToReceiverInv, ToSenderInv, SenderInv, ReceiverInv, Fresh, Complete
  <2> QED
    BY <2>6, <2>7
<1>8. CASE RFinish
  <2>1. verdicts = <<>> /\ verdicts' = <<"finished">> /\ Complete /\ patch > 0
    BY <1>8 DEF RFinish, Emit, ReceiverInv
  <2>2. TypeOK' /\ Channels'
    BY <1>0, <1>8, <2>1 DEF RFinish, TypeOK, env, Channels
  <2>3. ToReceiverInv' /\ ToSenderInv' /\ SenderInv' /\ ReceiverInv'
    BY <1>8, <2>1 DEF RFinish, ToReceiverInv, ToSenderInv, SenderInv, ReceiverInv, Fresh, Complete
  <2> QED
    BY <2>2, <2>3
<1>9. CASE RDrain
  <2>1. TypeOK' /\ Channels'
    BY <1>9 DEF RDrain, TypeOK, env, Channels
  <2>2. ToReceiverInv' /\ ToSenderInv' /\ SenderInv' /\ ReceiverInv'
    BY <1>9 DEF RDrain, ToReceiverInv, ToSenderInv, SenderInv, ReceiverInv, Fresh, Complete
  <2> QED
    BY <2>1, <2>2
<1>10. CASE RRecvAck
  <2>1. toR = <<Ack>> /\ toR' = <<>> /\ toS = <<>> /\ toS' = <<>>
    BY <1>10, RReceivesFacts DEF RRecvAck
  <2>2. rpc = "recv" /\ verdicts = <<>> /\ applied = 0 /\ patch = 0
    BY <1>10, <2>1 DEF RRecvAck, RReceives, ReceiverInv, Fresh, ToReceiverInv
  <2>3. /\ rpc' = "returned" /\ finS' = TRUE /\ verdicts' = <<"finished">>
        /\ UNCHANGED <<left, applied, sender, open, env>>
    BY <1>10, <2>2 DEF RRecvAck, RReceives, RReturn, Emit
  <2>4. TypeOK' /\ Channels'
    BY <1>0, <2>1, <2>3, EmptyFacts DEF TypeOK, env, Channels
  <2>5. ToReceiverInv' /\ ToSenderInv' /\ SenderInv' /\ ReceiverInv'
    BY <2>1, <2>2, <2>3 DEF ToReceiverInv, ToSenderInv, SenderInv, ReceiverInv, Fresh, Complete
  <2> QED
    BY <2>4, <2>5
<1> QED
  BY <1>1, <1>2, <1>3, <1>4, <1>5, <1>6, <1>7, <1>8, <1>9, <1>10 DEF Receiver

\* Every step of the programs and of the environment.
LEMMA OutsideStep ==
    ASSUME Inv, Programs \/ Trouble \/ UNCHANGED vars
    PROVE  Inv'
<1> USE DEF Inv, SEnded, REnded, sender, receiver, network
<1>1. /\ UNCHANGED <<patch, finR, left, applied, verdicts, finS, toR, toS>>
      /\ open' \in {open, FALSE} /\ fault' \in {fault, TRUE} /\ keepOpen' = keepOpen
      /\ spc' \in {spc, "killed"} /\ rpc' \in {rpc, "cancelled"}
  BY DEF Programs, Trouble, RouterDropsConnection, ReceiverExits, SenderExits,
     ConnectionLost, SenderKilled, ReceiverKilled, vars, env, TypeOK
<1>2. TypeOK'
  BY <1>1 DEF TypeOK
<1>3. Channels'
  BY <1>1 DEF Channels
<1>4. ToReceiverInv' /\ ToSenderInv' /\ SenderInv'
  BY <1>1 DEF ToReceiverInv, ToSenderInv, SenderInv, Complete
<1>5. ReceiverInv'
  BY <1>1 DEF ReceiverInv, Fresh, Complete
<1> QED
  BY <1>2, <1>3, <1>4, <1>5

\* Inv holds in every reachable state.
LEMMA Invariance == Spec => []Inv
<1>1. Inv /\ [Next]_vars => Inv'
  BY SenderStep, ReceiverStep, OutsideStep DEF Next
<1> QED
  BY InitInv, <1>1, PTL DEF Spec

-----------------------------------------------------------------------------
(* The theorems.                                                           *)

\* The variables of a session have their types: no count of entries leaves
\* the patch, no message of the wrong direction gets on a channel.
THEOREM TypeCorrect == Spec => []TypeOK
<1>1. Inv => TypeOK
  BY DEF Inv
<1> QED
  BY Invariance, <1>1, PTL

\* send_loop returns Ok only for a patch that is applied completely.
THEOREM SenderOkCorrect == Spec => []SenderOk
<1>1. Inv => SenderOk
  BY DEF Inv, SenderInv, SenderOk, Complete
<1> QED
  BY Invariance, <1>1, PTL

\* The two loops alternate strictly.
THEOREM OneInFlightCorrect == Spec => []OneInFlight
<1>1. Inv => OneInFlight
  <2> SUFFICES ASSUME Channels PROVE OneInFlight
    BY DEF Inv
  <2>1. CASE toR = <<>> /\ toS = <<>>
    BY <2>1, EmptyFacts DEF OneInFlight
  <2>2. ASSUME NEW m, toR = <<m>>, toS = <<>> PROVE OneInFlight
    BY <2>2, SingletonFacts, EmptyFacts DEF OneInFlight
  <2>3. ASSUME NEW m, toS = <<m>>, toR = <<>> PROVE OneInFlight
    BY <2>3, SingletonFacts, EmptyFacts DEF OneInFlight
  <2> QED
    BY <2>1, <2>2, <2>3 DEF Channels
<1> QED
  BY Invariance, <1>1, PTL

\* accept returns with one verdict, and Finished means a complete patch.
THEOREM OneVerdictCorrect == Spec => []OneVerdict
<1>1. Inv => OneVerdict
  <2>1. Len(<<>>) = 0 /\ Len(<<"finished">>) = 1 /\ Len(<<"error">>) = 1
    OBVIOUS
  <2> SUFFICES ASSUME ReceiverInv PROVE OneVerdict
    BY DEF Inv
  <2>2. rpc = "returned" => Len(verdicts) = 1
    BY <2>1 DEF ReceiverInv
  <2>3. Len(verdicts) \in {0, 1}
    BY <2>1 DEF ReceiverInv
  <2>4. verdicts = <<"finished">> => Complete
    BY DEF ReceiverInv
  <2>5. \A n \in {0, 1} : n <= 1
    OBVIOUS
  <2> QED
    BY <2>2, <2>3, <2>4, <2>5, Zenon DEF OneVerdict, Complete
<1> QED
  BY Invariance, <1>1, PTL

-----------------------------------------------------------------------------
(* A session nobody interferes with: the connection is lost or closed by   *)
(* no one but the router, once accept has returned.                        *)

Undisturbed == ~fault /\ keepOpen = {"sender", "receiver"}

\* What the places of the two loops say of each other then.
Together ==
    /\ ~open => rpc = "returned"
    /\ rpc # "cancelled" /\ spc # "killed"
    /\ finR => spc \in {"ok", "err"}
    /\ finS => rpc \in {"drain", "returned"}
    /\ spc \in {"diff", "ready"} => rpc = "recv"
    /\ rpc = "apply" => spc = "wait"
    /\ rpc = "acked" => spc = "ok" \/ toS = <<Ack>>
    /\ verdicts = <<"finished">> => spc = "ok" \/ (rpc = "drain" /\ toS = <<Ack>>)
    /\ spc = "ok" =>
          \/ rpc = "acked" \/ verdicts = <<"finished">>
          \/ rpc = "recv" /\ toR = <<Ack>>

\* What a message under way says of them.
Underway ==
    /\ toS = <<Snapshot>> => spc = "wait" /\ rpc = "recv"
    /\ toS = <<Ack>> => spc = "wait" /\ rpc \in {"acked", "drain"}
    /\ toR = <<Ack>> => spc = "ok"
    /\ toR = <<Request>> => spc = "wait" \/ rpc = "returned"
    /\ \A n \in 1 .. MaxItems : toR = <<Patch(n)>> => spc = "wait" \/ rpc = "returned"

AgreeInv == Undisturbed => Together /\ Underway

LEMMA InitAgrees == Init => AgreeInv
BY MessageFacts DEF Init, AgreeInv, Together, Underway

\* The sender alone neither opens, closes nor disturbs anything.
LEMMA SenderAgrees ==
    ASSUME Inv, AgreeInv, Sender
    PROVE  AgreeInv'
<1>1. UNCHANGED <<receiver, open, env>>
  BY DEF Sender, SSendRequest, SSendFails, SRecvSnapshot, SRecvAck, SRecvError, SRecvFails,
     SReceives, SDiff, SDiffFails, SSendAck, SSendPatch, network
<1> SUFFICES ASSUME Undisturbed PROVE Together' /\ Underway'
  BY <1>1 DEF AgreeInv, Undisturbed, env
<1>2. Together /\ Underway
  BY DEF AgreeInv
<1> USE SingletonFacts, MessageFacts DEF Inv, Channels, receiver, network
<1>3. CASE SSendRequest
  <2>1. toR = <<>> /\ toS = <<>> /\ (toR' = <<>> \/ toR' = <<Request>>)
    BY <1>3, SentFacts DEF SSendRequest, SenderInv
  <2> QED
    BY <1>1, <1>2, <1>3, <2>1 DEF SSendRequest, Together, Underway
<1>4. CASE SSendFails \/ SRecvFails \/ SDiffFails
  <2>1. UNCHANGED <<toR, toS>> /\ spc' = "err" /\ finR' = TRUE
    BY <1>4 DEF SSendFails, SRecvFails, SDiffFails, SReturn
  <2>2. verdicts # <<"finished">> /\ toR # <<Ack>> /\ toS # <<Ack>> /\ toS # <<Snapshot>>
    BY <1>2, <1>4 DEF SSendFails, SRecvFails, SDiffFails, Together, Underway, SenderInv,
       ReceiverInv, Fresh, Complete
  <2>3. rpc # "apply" /\ rpc # "acked" /\ (toR # <<>> => rpc = "returned")
    BY <1>2, <1>4 DEF SSendFails, SRecvFails, SDiffFails, Together, Underway, SenderInv,
       ToReceiverInv
  <2> QED
    BY <1>1, <1>2, <2>1, <2>2, <2>3 DEF Together, Underway
<1>5. CASE SRecvSnapshot
  <2>1. toS = <<Snapshot>> /\ toS' = <<>> /\ toR = <<>> /\ toR' = <<>>
    BY <1>5, SReceivesFacts DEF SRecvSnapshot
  <2>2. spc' = "diff" /\ finR' = finR
    BY <1>5 DEF SRecvSnapshot
  <2> QED
    BY <1>1, <1>2, <2>1, <2>2 DEF Together, Underway
<1>6. CASE SRecvAck
  <2>1. toS = <<Ack>> /\ toS' = <<>> /\ toR = <<>> /\ toR' = <<>>
    BY <1>6, SReceivesFacts DEF SRecvAck
  <2>2. open
    BY <1>2, <2>1 DEF Together, Underway
  <2>3. spc' = "ok" /\ finR' = TRUE
    BY <1>6, <2>2, FinishFacts DEF SRecvAck
  <2> QED
    BY <1>1, <1>2, <2>1, <2>2, <2>3 DEF Together, Underway, ReceiverInv
<1>7. CASE SRecvError
  <2>1. toS = <<Error>> /\ toS' = <<>> /\ toR = <<>> /\ toR' = <<>> /\ spc = "wait"
    BY <1>7, SReceivesFacts DEF SRecvError, SReceives
  <2>2. spc' = "err" /\ finR' = TRUE
    BY <1>7 DEF SRecvError, SReturn
  <2> QED
    BY <1>1, <1>2, <2>1, <2>2 DEF Together, Underway, ToSenderInv
<1>8. CASE SDiff
  <2>1. spc = "diff" /\ spc' = "ready" /\ toR = <<>> /\ toS = <<>>
        /\ UNCHANGED <<finR, toR, toS>>
    BY <1>8 DEF SDiff, SenderInv
  <2> QED
    BY <1>1, <1>2, <2>1 DEF Together, Underway
<1>9. CASE SSendAck
  <2>1. spc = "ready" /\ toR = <<>> /\ toS = <<>> /\ toS' = <<>>
    BY <1>9 DEF SSendAck, SenderInv
  <2>2. rpc = "recv" /\ open
    BY <1>2, <2>1 DEF Together
  <2>3. toR' = <<Ack>> /\ spc' = "ok" /\ finR' = TRUE
    BY <1>9, <2>1, <2>2, FinishFacts DEF SSendAck, Sent
  <2> QED
    BY <1>1, <1>2, <2>1, <2>2, <2>3 DEF Together, Underway
<1>10. CASE SSendPatch
  <2>1. spc = "ready" /\ toR = <<>> /\ toS = <<>> /\ toS' = <<>>
    BY <1>10 DEF SSendPatch, SenderInv
  <2>2. spc' = "wait" /\ finR' = finR /\ (toR' = <<>> \/ toR' = <<Patch(patch)>>)
    BY <1>10, <2>1, SentFacts DEF SSendPatch
  <2> QED
    BY <1>1, <1>2, <2>1, <2>2 DEF Together, Underway
<1> QED
  BY <1>3, <1>4, <1>5, <1>6, <1>7, <1>8, <1>9, <1>10 DEF Sender

\* The receiver never returns before the sender is done with it, except with
\* an error the sender has no success to set against.
LEMMA ReceiverAgrees ==
    ASSUME Inv, AgreeInv, Receiver
    PROVE  AgreeInv'
<1>1. UNCHANGED <<sender, open, env>>
  BY DEF Receiver, RAccept, RAcceptFails, RReceives, RRecvFails, RSnapshot, RWalkFails,
     RSnapshotFails, RRecvPatch, RApplyItem, RApplyFails, RSendAck, RFinish, RDrain, RRecvAck,
     network
<1> SUFFICES ASSUME Undisturbed PROVE Together' /\ Underway'
  BY <1>1 DEF AgreeInv, Undisturbed, env
<1>2. Together /\ Underway
  BY DEF AgreeInv
<1> USE SingletonFacts, MessageFacts DEF Inv, Channels, sender, network
<1>3. CASE RAccept
  <2>1. rpc = "accept" /\ rpc' = "recv" /\ UNCHANGED <<toR, toS, verdicts, finS>>
    BY <1>3 DEF RAccept
  <2> QED
    BY <1>1, <1>2, <2>1 DEF Together, Underway
<1>4. ~RAcceptFails
  BY <1>2 DEF RAcceptFails, Together
<1>5. CASE RRecvFails
  <2>1. rpc = "recv" /\ toR = <<>> /\ finR
    BY <1>2, <1>5 DEF RRecvFails, Together
  <2>2. spc = "err"
    BY <1>2, <2>1 DEF Together, ReceiverInv, Fresh
  <2>3. rpc' = "returned" /\ verdicts' = <<"error">> /\ finS' = TRUE /\ UNCHANGED <<toR, toS>>
    BY <1>5 DEF RRecvFails, RReturn, Emit, ReceiverInv, Fresh
  <2> QED
    BY <1>1, <1>2, <2>1, <2>2, <2>3 DEF Together, Underway
<1>6. CASE RSnapshot \/ RWalkFails \/ RSnapshotFails
  <2>1. toR = <<Request>> /\ toR' = <<>> /\ toS = <<>> /\ rpc = "recv"
    BY <1>6, RReceivesFacts DEF RSnapshot, RWalkFails, RSnapshotFails, RReceives
  <2>2. spc = "wait" /\ verdicts = <<>> /\ ~finR
    BY <1>2, <2>1 DEF Together, Underway, ReceiverInv, Fresh, TypeOK
  <2>3. \/ /\ toS' \in {<<>>, <<Snapshot>>}
           /\ UNCHANGED <<rpc, verdicts, finS>>
        \/ /\ toS' \in {<<>>, <<Error>>}
           /\ rpc' = "returned" /\ verdicts' = <<"error">> /\ finS' = TRUE
    BY <1>6, <2>1, <2>2, SentFacts DEF RSnapshot, RWalkFails, RSnapshotFails, RReturn, Emit
  <2> QED
    BY <1>1, <1>2, <2>1, <2>2, <2>3 DEF Together, Underway
<1>7. ASSUME NEW n \in 1 .. MaxItems, RRecvPatch(n)
      PROVE  Together' /\ Underway'
  <2>1. toR = <<Patch(n)>> /\ toR' = <<>> /\ toS = <<>> /\ toS' = <<>> /\ rpc = "recv"
    BY <1>7, RReceivesFacts DEF RRecvPatch, RReceives
  <2>2. spc = "wait" /\ verdicts = <<>>
    BY <1>2, <2>1 DEF Underway, ReceiverInv, Fresh
  <2>3. rpc' = "apply" /\ UNCHANGED <<verdicts, finS>>
    BY <1>7 DEF RRecvPatch
  <2> QED
    BY <1>1, <1>2, <2>1, <2>2, <2>3 DEF Together, Underway
<1>8. CASE RApplyItem
  <2>1. UNCHANGED <<rpc, verdicts, finS, toR, toS>>
    BY <1>8 DEF RApplyItem
  <2> QED
    BY <1>1, <1>2, <2>1 DEF Together, Underway
<1>9. CASE RApplyFails
  <2>1. rpc = "apply" /\ toR = <<>> /\ toR' = <<>> /\ toS = <<>> /\ verdicts = <<>>
    BY <1>9 DEF RApplyFails, ReceiverInv
  <2>2. spc = "wait"
    BY <1>2, <2>1 DEF Together
  <2>3. /\ rpc' = "returned" /\ verdicts' = <<"error">> /\ finS' = TRUE
        /\ toS' = <<>> \/ toS' = <<Error>>
    BY <1>9, <2>1, SentFacts DEF RApplyFails, RReturn, Emit
  <2> QED
    BY <1>1, <1>2, <2>1, <2>2, <2>3 DEF Together, Underway
<1>10. CASE RSendAck
  <2>1. rpc = "apply" /\ toR = <<>> /\ toR' = <<>> /\ toS = <<>> /\ verdicts = <<>>
    BY <1>10 DEF RSendAck, ReceiverInv
  <2>2. spc = "wait" /\ open
    BY <1>2, <2>1 DEF Together
  <2>3. rpc' = "acked" /\ toS' = <<Ack>> /\ UNCHANGED <<verdicts, finS>>
    BY <1>10, <2>1, <2>2 DEF RSendAck, Sent
  <2> QED
    BY <1>1, <1>2, <2>1, <2>2, <2>3 DEF Together, Underway
<1>11. CASE RFinish
  <2>1. rpc = "acked" /\ rpc' = "drain" /\ finS' = TRUE /\ verdicts' = <<"finished">>
        /\ UNCHANGED <<toR, toS>>
    BY <1>11 DEF RFinish, Emit, ReceiverInv
  <2> QED
    BY <1>1, <1>2, <2>1 DEF Together, Underway, ToReceiverInv
<1>12. CASE RDrain
  <2>1. /\ rpc = "drain" /\ verdicts = <<"finished">> /\ toR = <<>>
        /\ rpc' = "returned" /\ UNCHANGED <<toR, toS, verdicts, finS>>
    BY <1>12 DEF RDrain, ReceiverInv, ToReceiverInv
  <2>2. finR
    BY <1>2, <1>12, <2>1 DEF RDrain, Together
  <2>3. spc = "ok" /\ toS # <<Ack>>
    BY <1>2, <2>1, <2>2 DEF Together, Underway
  <2> QED
    BY <1>1, <1>2, <2>1, <2>2, <2>3 DEF Together, Underway
<1>13. CASE RRecvAck
  <2>1. toR = <<Ack>> /\ toR' = <<>> /\ toS = <<>> /\ toS' = <<>> /\ rpc = "recv"
    BY <1>13, RReceivesFacts DEF RRecvAck, RReceives
  <2>2. spc = "ok" /\ verdicts = <<>>
    BY <1>2, <2>1 DEF Underway, ReceiverInv, Fresh
  <2>3. rpc' = "returned" /\ finS' = TRUE /\ verdicts' = <<"finished">>
    BY <1>13, <2>2 DEF RRecvAck, RReturn, Emit
  <2> QED
    BY <1>1, <1>2, <2>1, <2>2, <2>3 DEF Together, Underway
<1> QED
  BY <1>3, <1>4, <1>5, <1>6, <1>7, <1>8, <1>9, <1>10, <1>11, <1>12, <1>13 DEF Receiver

\* Of the steps around a session only the router's leaves it undisturbed.
LEMMA OutsideAgrees ==
    ASSUME AgreeInv, Programs \/ Trouble \/ UNCHANGED vars
    PROVE  AgreeInv'
<1> USE DEF sender, receiver, network, env
<1> SUFFICES ASSUME Undisturbed' PROVE Together' /\ Underway'
  BY DEF AgreeInv
<1>1. ~Trouble /\ ~ReceiverExits /\ ~SenderExits
  BY DEF Undisturbed, Trouble, ConnectionLost, SenderKilled, ReceiverKilled, ReceiverExits,
     SenderExits
<1>2. Undisturbed
  BY <1>1 DEF Programs, RouterDropsConnection, Undisturbed, vars
<1>3. UNCHANGED <<sender, receiver, toR, toS>> /\ (open' = open \/ rpc = "returned")
  BY <1>1 DEF Programs, RouterDropsConnection, vars
<1> QED
  BY <1>2, <1>3 DEF AgreeInv, Together, Underway

\* Without a fault, and with programs that leave the connection alone, no
\* side reports success when the other reports failure.
THEOREM AgreementCorrect == Spec => []Agreement
<1>1. Inv /\ AgreeInv /\ [Next]_vars => AgreeInv'
  BY SenderAgrees, ReceiverAgrees, OutsideAgrees DEF Next
<1>2. Inv /\ AgreeInv => Agreement
  BY MessageFacts DEF Inv, AgreeInv, Undisturbed, Together, Underway, ReceiverInv, Fresh, Agreement
<1> QED
  BY InitAgrees, Invariance, <1>1, <1>2, PTL DEF Spec

-----------------------------------------------------------------------------
(* The session implements SyncContract.                                    *)

LEMMA StatusFacts ==
    ASSUME Inv
    PROVE  /\ verdicts = <<>> => ReceiverStatus = "pending"
           /\ verdicts = <<"finished">> => ReceiverStatus = "finished"
           /\ verdicts = <<"error">> => ReceiverStatus = "error"
BY SingletonFacts DEF ReceiverStatus

LEMMA StatusFactsNext ==
    ASSUME Inv'
    PROVE  /\ verdicts' = <<>> => ReceiverStatus' = "pending"
           /\ verdicts' = <<"finished">> => ReceiverStatus' = "finished"
           /\ verdicts' = <<"error">> => ReceiverStatus' = "error"
BY SingletonFacts DEF ReceiverStatus

\* Every step of the sender is a step of the contract or changes nothing
\* in it.
LEMMA SenderRefines ==
    ASSUME Inv, Sender
    PROVE  [Contract!Next]_(Contract!vars)
<1> USE DEF Inv, sender, receiver, network
<1> USE DEF Contract!Next, Contract!vars
<1>1. UNCHANGED <<ReceiverStatus, applied>>
  BY DEF Sender, SSendRequest, SSendFails, SRecvSnapshot, SRecvAck, SRecvError, SRecvFails,
     SReceives, SDiff, SDiffFails, SSendAck, SSendPatch, ReceiverStatus
<1>2. CASE SSendRequest \/ SRecvSnapshot \/ SSendPatch
  <2>1. UNCHANGED <<SenderStatus, patch>>
    BY <1>2 DEF SSendRequest, SRecvSnapshot, SReceives, SSendPatch, SenderStatus
  <2> QED
    BY <1>1, <2>1
<1>3. CASE SSendFails \/ SRecvError \/ SRecvFails \/ SDiffFails
  <2>1. SenderStatus = "pending" /\ SenderStatus' = "err" /\ patch' = patch
    BY <1>3 DEF SSendFails, SRecvError, SRecvFails, SDiffFails, SReceives, SReturn, SenderStatus
  <2> QED
    BY <1>1, <2>1 DEF Contract!Err
<1>4. CASE SRecvAck \/ SSendAck
  <2>1. SenderStatus = "pending" /\ SenderStatus' \in {"ok", "err"} /\ patch' = patch
    BY <1>4, FinishFacts DEF SRecvAck, SSendAck, SReceives, SenderStatus
  <2>2. applied = patch
    <3>1. CASE SRecvAck
      BY <3>1, SReceivesFacts DEF SRecvAck, ToSenderInv, Complete
    <3>2. CASE SSendAck
      BY <3>2 DEF SSendAck, SenderInv
    <3> QED
      BY <1>4, <3>1, <3>2
  <2> QED
    BY <1>1, <2>1, <2>2 DEF Contract!Ok, Contract!Err
<1>5. CASE SDiff
  <2>1. SenderStatus = "pending" /\ SenderStatus' = "pending" /\ patch = NotPlanned
        /\ patch' \in 0 .. MaxItems
    BY <1>5 DEF SDiff, SenderStatus, SenderInv
  <2> QED
    BY <1>1, <2>1 DEF Contract!Plan, Contract!NotPlanned, NotPlanned
<1> QED
  BY <1>2, <1>3, <1>4, <1>5 DEF Sender

\* So is every step of the receiver.
LEMMA ReceiverRefines ==
    ASSUME Inv, Receiver, Inv'
    PROVE  [Contract!Next]_(Contract!vars)
<1> USE DEF Inv, sender, receiver, network
<1> USE DEF Contract!Next, Contract!vars
<1>1. UNCHANGED <<SenderStatus, patch>>
  BY DEF Receiver, RAccept, RAcceptFails, RReceives, RRecvFails, RSnapshot, RWalkFails,
     RSnapshotFails, RRecvPatch, RApplyItem, RApplyFails, RSendAck, RFinish, RDrain, RRecvAck,
     SenderStatus
<1>2. CASE RAccept \/ RSnapshot \/ RSendAck \/ RDrain \/ \E n \in 1 .. MaxItems : RRecvPatch(n)
  <2>1. UNCHANGED <<verdicts, applied>>
    BY <1>2 DEF RAccept, RSnapshot, RReceives, RSendAck, RDrain, RRecvPatch
  <2>2. ReceiverStatus' = ReceiverStatus
    BY <2>1 DEF ReceiverStatus
  <2> QED
    BY <1>1, <2>1, <2>2
<1>3. CASE RAcceptFails \/ RRecvFails \/ RWalkFails \/ RSnapshotFails \/ RApplyFails
  <2>1. verdicts = <<>>
    BY <1>3 DEF RAcceptFails, RRecvFails, RWalkFails, RSnapshotFails, RReceives, RApplyFails,
       ReceiverInv, Fresh
  <2>2. verdicts' = <<"error">> /\ applied' = applied
    BY <1>3, <2>1, SingletonFacts DEF RAcceptFails, RRecvFails, RWalkFails, RSnapshotFails,
       RReceives, RApplyFails, RReturn, Emit
  <2>3. ReceiverStatus = "pending" /\ ReceiverStatus' = "error"
    BY <2>1, <2>2, StatusFacts, StatusFactsNext
  <2> QED
    BY <1>1, <2>2, <2>3 DEF Contract!GiveUp
<1>4. CASE RApplyItem
  <2>1. verdicts = <<>> /\ applied < patch /\ applied' = applied + 1 /\ verdicts' = verdicts
    BY <1>4 DEF RApplyItem, ReceiverInv, TypeOK
  <2>2. ReceiverStatus = "pending" /\ ReceiverStatus' = ReceiverStatus
    BY <2>1, StatusFacts DEF ReceiverStatus
  <2> QED
    BY <1>1, <2>1, <2>2 DEF Contract!Apply
<1>5. CASE RFinish \/ RRecvAck
  <2>1. verdicts = <<>> /\ applied = patch
    <3>1. CASE RFinish
      BY <3>1 DEF RFinish, ReceiverInv, Complete
    <3>2. CASE RRecvAck
      <4>1. toR = <<Ack>> /\ toR # <<>>
        BY <3>2, RReceivesFacts, SingletonFacts DEF RRecvAck
      <4> QED
        BY <3>2, <4>1 DEF RRecvAck, RReceives, ReceiverInv, Fresh, ToReceiverInv
    <3> QED
      BY <1>5, <3>1, <3>2
  <2>2. verdicts' = <<"finished">> /\ applied' = applied
    BY <1>5, <2>1, SingletonFacts DEF RFinish, RRecvAck, RReceives, RReturn, Emit
  <2>3. ReceiverStatus = "pending" /\ ReceiverStatus' = "finished"
    BY <2>1, <2>2, StatusFacts, StatusFactsNext
  <2> QED
    BY <1>1, <2>1, <2>2, <2>3 DEF Contract!Finish
<1> QED
  BY <1>2, <1>3, <1>4, <1>5 DEF Receiver

\* A session behaves as its contract says: one plan, its entries in order,
\* one verdict, and success only for a complete patch.
THEOREM Refinement == Spec => ImplementsContract
<1>1. Init => Contract!Init
  BY DEF Init, Contract!Init, SenderStatus, ReceiverStatus, NotPlanned, Contract!NotPlanned
<1>2. ASSUME Inv, Programs \/ Trouble \/ UNCHANGED vars
      PROVE  UNCHANGED Contract!vars
  BY <1>2 DEF Programs, Trouble, RouterDropsConnection, ReceiverExits, SenderExits,
     ConnectionLost, SenderKilled, ReceiverKilled, vars, sender, receiver, network,
     Contract!vars, SenderStatus, ReceiverStatus, SEnded, REnded
<1>3. Inv /\ Inv' /\ [Next]_vars => [Contract!Next]_(Contract!vars)
  BY <1>2, SenderRefines, ReceiverRefines DEF Next
<1> QED
  BY <1>1, <1>3, Invariance, PTL DEF Spec, ImplementsContract, Contract!Spec

=============================================================================
