------------------------------ MODULE Framing -------------------------------
(***************************************************************************)
(* One direction of a stream, byte by byte: send_msg and recv_msg of       *)
(* src/sync.rs over write_all and read_exact_tracked.  A message is its    *)
(* postcard encoding; postcard is external and taken to be prefix-free, as *)
(* its decoder finds the end of a value by itself.  The stream is external *)
(* too: it takes and gives any number of bytes at a time, ends when it is  *)
(* dropped, also in the middle of a message, and may be lost.              *)
(***************************************************************************)
EXTENDS Integers, SequencesExt

CONSTANTS
    Base,         \* the values of a byte
    HeaderSize,   \* the bytes of a header
    Message,      \* the encodings of the messages that may be sent
    MaxMessages,  \* bound on the messages sent
    Capacity      \* the bytes the stream buffers

Byte == 0 .. Base - 1

ASSUME FramingAssumption ==
    /\ Base \in Nat \ {0, 1} /\ HeaderSize \in Nat \ {0}
    /\ Message \subseteq Seq(Byte)
    /\ \A m, n \in Message : IsPrefix(m, n) => m = n
    /\ MaxMessages \in Nat /\ Capacity \in Nat \ {0}

VARIABLES
    writer,    \* "open", or how it ended
    header,    \* the bytes of the header yet to be written
    payload,   \* the bytes of the payload yet to be written
    pipe,      \* the bytes in the stream
    reader,    \* what recv_msg reads, "header" or "payload", or how it failed
    need,      \* the bytes its buffer still misses
    buf,       \* the bytes it holds
    sent,      \* the messages send_msg was called with
    got        \* the messages recv_msg returned

sending   == <<writer, header, payload, sent>>
receiving == <<reader, need, buf, got>>
vars == <<sending, pipe, receiving>>

\* The stream ended, the payload did not decode, the connection was lost.
Failed == {"ended", "garbled", "lost"}

TypeOK ==
    /\ writer \in {"open", "dropped", "failed"}
    /\ header \in Seq(Byte) /\ payload \in Seq(Byte) /\ pipe \in Seq(Byte)
    /\ reader \in {"header", "payload"} \cup Failed
    /\ need \in Nat /\ buf \in Seq(Byte)
    /\ sent \in Seq(Message) /\ got \in Seq(Message)

-----------------------------------------------------------------------------
(* Lengths.                                                                *)

\* What a digit of a header stands for, and at the end what a length becomes
\* on its way through one.
Weight[i \in 0 .. HeaderSize] == IF i = 0 THEN 1 ELSE Base * Weight[i - 1]
Limit == Weight[HeaderSize]

\* As ToBytes, with room for one digit less.
ToBytes_narrow(n) ==
    [i \in 1 .. HeaderSize |-> IF i = HeaderSize THEN 0 ELSE (n \div Weight[i - 1]) % Base]

\* as u32, to_le_bytes: what does not fit is cut off.
ToBytes(n) == [i \in 1 .. HeaderSize |-> (n \div Weight[i - 1]) % Base]

\* u32::from_le_bytes.
FromBytes(b) ==
    LET value[i \in 0 .. Len(b)] == IF i = 0 THEN 0 ELSE value[i - 1] + b[i] * Weight[i - 1]
    IN  value[Len(b)]

Init ==
    /\ writer = "open" /\ header = <<>> /\ payload = <<>> /\ pipe = <<>>
    /\ reader = "header" /\ need = HeaderSize /\ buf = <<>>
    /\ sent = <<>> /\ got = <<>>

-----------------------------------------------------------------------------
(* The sending end.                                                        *)

Between == header = <<>> /\ payload = <<>>

SendMsg(m) ==
    /\ writer = "open" /\ Between /\ Len(sent) < MaxMessages
    /\ header' = ToBytes(Len(m)) /\ payload' = m
    /\ sent' = Append(sent, m)
    /\ UNCHANGED <<writer, pipe, receiving>>

\* As Write, with one call of write for the whole.
Write_once(n) ==
    LET data == IF header # <<>> THEN header ELSE payload
    IN  /\ writer = "open" /\ n \in 1 .. Len(data) /\ Len(pipe) + n <= Capacity
        /\ pipe' = pipe \o SubSeq(data, 1, n)
        /\ IF header # <<>>
           THEN header' = <<>> /\ UNCHANGED payload
           ELSE payload' = <<>> /\ UNCHANGED header
        /\ UNCHANGED <<writer, sent, receiving>>

\* One turn of write_all, for the header and then for the payload: the
\* stream takes n bytes of what is left.
Write(n) ==
    LET data == IF header # <<>> THEN header ELSE payload
    IN  /\ writer = "open" /\ n \in 1 .. Len(data) /\ Len(pipe) + n <= Capacity
        /\ pipe' = pipe \o SubSeq(data, 1, n)
        /\ IF header # <<>>
           THEN header' = SubSeq(data, n + 1, Len(data)) /\ UNCHANGED payload
           ELSE payload' = SubSeq(data, n + 1, Len(data)) /\ UNCHANGED header
        /\ UNCHANGED <<writer, sent, receiving>>

\* The stream takes nothing more: StreamClosedWrite, or the error of write.
WriteFails ==
    /\ writer = "open" /\ ~Between /\ reader \in Failed
    /\ writer' = "failed"
    /\ UNCHANGED <<header, payload, sent, pipe, receiving>>

\* finish, or the stream is dropped, wherever its task was.
DropWriter ==
    /\ writer = "open"
    /\ writer' = "dropped"
    /\ UNCHANGED <<header, payload, sent, pipe, receiving>>

-----------------------------------------------------------------------------
(* The receiving end.                                                      *)

\* As Read, not held to the rest of the buffer.
Read_past_need(n) ==
    /\ reader \notin Failed /\ need > 0 /\ n <= Len(pipe)
    /\ buf' = buf \o SubSeq(pipe, 1, n)
    /\ pipe' = SubSeq(pipe, n + 1, Len(pipe))
    /\ need' = need - n
    /\ UNCHANGED <<reader, got, sending>>

\* One turn of read_exact_tracked: the stream gives n bytes.
Read(n) ==
    /\ reader \notin Failed /\ n \in 1 .. need /\ n <= Len(pipe)
    /\ buf' = buf \o SubSeq(pipe, 1, n)
    /\ pipe' = SubSeq(pipe, n + 1, Len(pipe))
    /\ need' = need - n
    /\ UNCHANGED <<reader, got, sending>>

\* The header is complete: a buffer of its length is next.
ReadHeader ==
    /\ reader = "header" /\ need = 0
    /\ reader' = "payload"
    /\ need' = FromBytes(buf) /\ buf' = <<>>
    /\ UNCHANGED <<got, sending, pipe>>

\* As Decode, without the decoder's complaint about a value cut short.
Decode_lenient(bytes) == {m \in Message : IsPrefix(m, bytes) \/ IsPrefix(bytes, m)}

\* postcard::from_bytes: the message the buffer begins with, if there is one;
\* bytes after it are ignored.
Decode(bytes) == {m \in Message : IsPrefix(m, bytes)}

\* The payload is complete, and recv_msg returns.
RecvMsg ==
    /\ reader = "payload" /\ need = 0
    /\ \E m \in Decode(buf) : got' = Append(got, m)
    /\ reader' = "header" /\ need' = HeaderSize /\ buf' = <<>>
    /\ UNCHANGED <<sending, pipe>>

\* It decodes to nothing.  Both loops end on an error.
DecodeFails ==
    /\ reader = "payload" /\ need = 0 /\ Decode(buf) = {}
    /\ reader' = "garbled"
    /\ UNCHANGED <<need, buf, got, sending, pipe>>

\* read gives 0 bytes at the end of the stream: StreamClosedRead, whether or
\* not a message had begun.
ReadFails ==
    /\ reader \notin Failed /\ need > 0
    /\ pipe = <<>> /\ writer # "open"
    /\ reader' = "ended"
    /\ UNCHANGED <<need, buf, got, sending, pipe>>

\* The connection is lost with what is in it.
Lose ==
    /\ reader \notin Failed
    /\ reader' = "lost" /\ pipe' = <<>>
    /\ UNCHANGED <<need, buf, got, sending>>

-----------------------------------------------------------------------------
Writer == (\E m \in Message : SendMsg(m)) \/ (\E n \in 1 .. Capacity : Write(n)) \/ WriteFails
Reader ==
    (\E n \in 1 .. Capacity : Read(n)) \/ ReadHeader \/ RecvMsg \/ DecodeFails \/ ReadFails

Next == Writer \/ DropWriter \/ Reader \/ Lose

Spec == Init /\ [][Next]_vars

\* A task whose stream can go on is polled; nobody has to send or to drop.
Fairness == WF_vars(Reader) /\ \A n \in 1 .. Capacity : WF_vars(Write(n))
FairSpec == Spec /\ Fairness

-----------------------------------------------------------------------------
(* What the framing is for.                                                *)

Stream == INSTANCE MessageStream WITH failed <- reader \in Failed

\* However the bytes are cut up, and wherever the stream ends, recv_msg only
\* returns messages that were sent, whole, in order and once each, and nothing
\* once it has failed.  That includes messages whose length does not fit the
\* header: they are never taken for another one.
ImplementsStream == Stream!Spec

\* A message that was written whole arrives, unless the connection is lost or
\* a message before it was too long for its header.
Arrives ==
    \A k \in 1 .. MaxMessages :
        Len(sent) >= k /\ (Between \/ Len(sent) > k) ~>
            \/ Len(got) >= k
            \/ reader \in {"garbled", "lost"}

\* A payload fails to decode only after a message of 2^32 bytes or more, whose
\* length the cast to u32 cut off (sync.rs:125).
GarbledOnlyByLength ==
    reader = "garbled" => \E k \in DOMAIN sent : Len(sent[k]) >= Limit

=============================================================================
