----------------------- MODULE EventDispatcherProofs ------------------------
(***************************************************************************)
(* Proofs about EventDispatcher for any set of sinks, any sizes and any    *)
(* number of calls: its invariants, and that it implements EventLog.       *)
(***************************************************************************)
EXTENDS EventDispatcher, TLAPS

\* A message is taken off the queue unchanged, so what holds of the messages
\* in the queue holds of the thread's.
MarksInv ==
    /\ \A i \in 1 .. Len(queue) : queue[i].event.mark <= reported
    /\ msg.event.mark <= reported
    /\ dpc = "tell" => msg.event.mark <= told + batch
    /\ dpc = "handle" => msg.event.mark <= told

\* The shutdown message means that the sinks are gone, so what its flush
\* empties stays empty.
ShutdownInv ==
    /\ closing # "open" => \A p \in Producer : ppc[p] = "dropped"
    /\ \A i \in 1 .. Len(queue) : queue[i].kind = "shutdown" => closing # "open"
    /\ msg.kind = "shutdown" => closing # "open"
    /\ dpc = "tell" /\ msg.kind = "shutdown" => pending = 0
    /\ dpc = "exited" => pending = 0 /\ closing # "open"
    /\ dpc # "tell" => batch = 0
    /\ closing = "joined" => dpc = "exited"

Inv == TypeOK /\ Conservation /\ NoLostWakeup /\ MarksInv /\ ShutdownInv

-----------------------------------------------------------------------------
(* The queue.                                                              *)

\* A send adds one message at the end.
LEMMA AppendFacts ==
    ASSUME NEW m \in Msg, queue \in Seq(Msg), queue' = Append(queue, m)
    PROVE  /\ queue' \in Seq(Msg) /\ queue' # <<>>
           /\ \A i \in 1 .. Len(queue') :
                 (i \in 1 .. Len(queue) /\ queue'[i] = queue[i]) \/ queue'[i] = m
OBVIOUS

\* A receive takes the first message off.
LEMMA TakeFacts ==
    ASSUME queue \in Seq(Msg), queue # <<>>, queue' = Tail(queue)
    PROVE  /\ queue' \in Seq(Msg) /\ Head(queue) \in Msg
           /\ Head(queue) = queue[1] /\ 1 \in 1 .. Len(queue)
           /\ \A i \in 1 .. Len(queue') :
                 i + 1 \in 1 .. Len(queue) /\ queue'[i] = queue[i + 1]
OBVIOUS

LEMMA MsgFacts ==
    /\ Wake \in Msg /\ Wake.kind = "wake" /\ Wake.event.mark = 0
    /\ Shutdown \in Msg /\ Shutdown.kind = "shutdown" /\ Shutdown.event.mark = 0
    /\ \A e \in EventRecord :
          Event(e) \in Msg /\ Event(e).kind = "event" /\ Event(e).event = e
BY DEF Wake, Shutdown, Event, NoEvent, Msg, EventRecord

LEMMA InitInv == Init => Inv
<1> SUFFICES ASSUME Init PROVE Inv
  OBVIOUS
<1>1. Wake \in Msg /\ Wake.kind = "wake" /\ Wake.event.mark = 0
  BY MsgFacts
<1>2. queue \in Seq(Msg) /\ Len(queue) = 0 /\ emitted \in Seq(EventRecord) /\ handled \in Seq(EventRecord)
  BY DEF Init
<1>3. TypeOK
  BY <1>1, <1>2 DEF Init, TypeOK
<1>4. Conservation /\ NoLostWakeup
  BY DEF Init, Conservation, NoLostWakeup
<1>5. MarksInv /\ ShutdownInv
  BY <1>1, <1>2 DEF Init, MarksInv, ShutdownInv
<1> QED
  BY <1>3, <1>4, <1>5 DEF Inv

\* The steps of the sinks.
LEMMA SinkStep ==
    ASSUME Inv, NEW p \in Producer, Sink(p)
    PROVE  Inv'
<1> USE DispatcherAssumption DEF Inv, producers, dispatcher
<1>0. closing = "open"
  BY DEF Sink, Emit, Progress, SendWake, DropSink, Calls, ShutdownInv
<1>1. CASE Emit(p)
  <2> DEFINE e == [id |-> Len(emitted) + 1, mark |-> reported]
  <2>1. e \in EventRecord /\ e.mark = reported
    BY DEF TypeOK, EventRecord
  <2>2. queue' = Append(queue, Event(e)) /\ emitted' = Append(emitted, e)
    BY <1>1 DEF Emit
  <2>3. Event(e) \in Msg /\ Event(e).kind = "event" /\ Event(e).event = e
    BY <2>1, MsgFacts
  <2> HIDE DEF e
  <2>4. emitted' \in Seq(EventRecord)
    BY <2>1, <2>2 DEF TypeOK
  <2>5. UNCHANGED <<pending, ppc, reported, dispatcher, closing>> /\ calls' \in [Producer -> Nat]
    BY <1>1 DEF Emit, Calls, TypeOK
  <2>6. /\ queue' \in Seq(Msg) /\ queue' # <<>>
        /\ \A i \in 1 .. Len(queue') :
              (i \in 1 .. Len(queue) /\ queue'[i] = queue[i]) \/ queue'[i] = Event(e)
    BY <2>2, <2>3, AppendFacts DEF TypeOK
  <2>7. TypeOK'
    BY <2>4, <2>5, <2>6 DEF TypeOK
  <2>8. Conservation' /\ NoLostWakeup'
    BY <2>5, <2>6 DEF Conservation, NoLostWakeup
  <2>9. MarksInv'
    <3>1. Event(e).event.mark <= reported
      BY <2>1, <2>3 DEF TypeOK
    <3>2. \A i \in 1 .. Len(queue') : queue'[i].event.mark <= reported
      BY <2>6, <3>1 DEF MarksInv
    <3> QED
      BY <2>5, <3>2 DEF MarksInv
  <2>10. ShutdownInv'
    BY <2>3, <2>5, <2>6 DEF ShutdownInv
  <2> QED
    BY <2>7, <2>8, <2>9, <2>10
<1>2. CASE Progress(p)
  <2>1. PICK n \in Size : pending' = pending + n /\ reported' = reported + n
    BY <1>2 DEF Progress
  <2>2. n \in Nat /\ n > 0
    OBVIOUS
  <2>3. UNCHANGED <<queue, emitted, dispatcher, closing>> /\ calls' \in [Producer -> Nat]
    BY <1>2 DEF Progress, Calls, TypeOK
  <2>4. ppc' = [ppc EXCEPT ![p] = IF pending = 0 THEN "wake" ELSE "run"] /\ ppc[p] = "run"
    BY <1>2 DEF Progress, Calls
  <2>5. TypeOK'
    BY <2>1, <2>2, <2>3, <2>4 DEF TypeOK
  <2>6. Conservation'
    BY <2>1, <2>2, <2>3 DEF Conservation, TypeOK
  <2>7. NoLostWakeup'
    <3>1. CASE pending = 0
      BY <2>4, <3>1 DEF NoLostWakeup, TypeOK
    <3>2. CASE pending > 0
      BY <2>3, <2>4, <3>2 DEF NoLostWakeup, TypeOK
    <3> QED
      BY <3>1, <3>2 DEF TypeOK
  <2>8. MarksInv'
    <3>1. \A q \in Msg : q.event.mark \in Nat
      BY DEF Msg, EventRecord
    <3>2. \A q \in Msg : q.event.mark <= reported => q.event.mark <= reported'
      BY <2>1, <2>2, <3>1 DEF TypeOK
    <3>3. \A i \in 1 .. Len(queue) : queue[i] \in Msg
      BY DEF TypeOK
    <3> QED
      BY <2>3, <3>2, <3>3 DEF MarksInv, TypeOK
  <2>9. ShutdownInv'
    BY <1>0, <2>3 DEF ShutdownInv
  <2> QED
    BY <2>5, <2>6, <2>7, <2>8, <2>9
<1>3. CASE SendWake(p)
  <2>1. /\ queue' = Append(queue, Wake) /\ ppc' = [ppc EXCEPT ![p] = "run"]
        /\ UNCHANGED <<pending, calls, emitted, reported, dispatcher, closing>>
    BY <1>3 DEF SendWake
  <2>2. Wake \in Msg /\ Wake.kind = "wake" /\ Wake.event.mark = 0
    BY MsgFacts
  <2>3. /\ queue' \in Seq(Msg) /\ queue' # <<>>
        /\ \A i \in 1 .. Len(queue') :
              (i \in 1 .. Len(queue) /\ queue'[i] = queue[i]) \/ queue'[i] = Wake
    BY <2>1, <2>2, AppendFacts DEF TypeOK
  <2>4. TypeOK' /\ Conservation' /\ NoLostWakeup'
    BY <2>1, <2>3 DEF TypeOK, Conservation, NoLostWakeup
  <2>5. MarksInv'
    BY <2>1, <2>2, <2>3 DEF MarksInv, TypeOK
  <2>6. ShutdownInv'
    BY <1>0, <2>1, <2>2, <2>3 DEF ShutdownInv
  <2> QED
    BY <2>4, <2>5, <2>6
<1>4. CASE DropSink(p)
  <2>1. /\ ppc' = [ppc EXCEPT ![p] = "dropped"] /\ ppc[p] = "run"
        /\ UNCHANGED <<queue, pending, calls, emitted, reported, dispatcher, closing>>
    BY <1>4 DEF DropSink
  <2>2. TypeOK' /\ Conservation' /\ MarksInv'
    BY <2>1 DEF TypeOK, Conservation, MarksInv
  <2>3. NoLostWakeup'
    BY <2>1 DEF NoLostWakeup, TypeOK
  <2>4. ShutdownInv'
    BY <1>0, <2>1 DEF ShutdownInv
  <2> QED
    BY <2>2, <2>3, <2>4
<1> QED
  BY <1>1, <1>2, <1>3, <1>4 DEF Sink

\* The steps of the thread.
LEMMA ThreadStep ==
    ASSUME Inv, Thread
    PROVE  Inv'
<1> USE DEF Inv, producers, dispatcher
<1>0. msg.event \in EventRecord /\ msg.event.mark \in Nat /\ msg.kind \in {"event", "wake", "shutdown"}
  BY DEF TypeOK, Msg, EventRecord
<1>1. CASE Recv
  <2>1. /\ dpc = "recv" /\ queue # <<>> /\ msg' = Head(queue) /\ queue' = Tail(queue)
        /\ dpc' = "flush"
        /\ UNCHANGED <<pending, producers, batch, handled, told, closing>>
    BY <1>1 DEF Recv
  <2>2. /\ queue' \in Seq(Msg) /\ msg' \in Msg
        /\ msg' = queue[1] /\ 1 \in 1 .. Len(queue)
        /\ \A i \in 1 .. Len(queue') :
              i + 1 \in 1 .. Len(queue) /\ queue'[i] = queue[i + 1]
    BY <2>1, TakeFacts DEF TypeOK
  <2>3. TypeOK' /\ Conservation' /\ NoLostWakeup'
    BY <2>1, <2>2 DEF TypeOK, Conservation, NoLostWakeup
  <2>4. MarksInv'
    BY <2>1, <2>2 DEF MarksInv
  <2>5. ShutdownInv'
    BY <2>1, <2>2 DEF ShutdownInv
  <2> QED
    BY <2>3, <2>4, <2>5
<1>2. CASE Swap
  <2>1. /\ dpc = "flush" /\ batch' = pending /\ pending' = 0 /\ dpc' = "tell"
        /\ UNCHANGED <<queue, producers, msg, handled, told, closing>>
    BY <1>2 DEF Swap
  <2>2. TypeOK' /\ Conservation' /\ NoLostWakeup'
    BY <2>1 DEF TypeOK, Conservation, NoLostWakeup, ShutdownInv
  <2>3. reported = told + pending
    BY <2>1 DEF Conservation, ShutdownInv, TypeOK
  <2>4. MarksInv'
    BY <1>0, <2>1, <2>3 DEF MarksInv, TypeOK
  <2>5. ShutdownInv'
    BY <2>1 DEF ShutdownInv
  <2> QED
    BY <2>2, <2>4, <2>5
<1>3. CASE Tell
  <2>1. /\ dpc = "tell" /\ told' = told + batch /\ batch' = 0
        /\ UNCHANGED <<queue, pending, producers, msg, handled, closing>>
    BY <1>3 DEF Tell
  <2>2. /\ dpc' \in {"handle", "recv", "exited"}
        /\ dpc' = "exited" => msg.kind = "shutdown"
    BY <1>0, <1>3 DEF Tell, AfterFlush
  <2>3. TypeOK' /\ Conservation' /\ NoLostWakeup'
    BY <2>1, <2>2 DEF TypeOK, Conservation, NoLostWakeup
  <2>4. MarksInv'
    BY <2>1, <2>2 DEF MarksInv
  <2>5. ShutdownInv'
    BY <2>1, <2>2 DEF ShutdownInv
  <2> QED
    BY <2>3, <2>4, <2>5
<1>4. CASE HandleEvent
  <2>1. /\ dpc = "handle" /\ handled' = Append(handled, msg.event) /\ dpc' = "recv"
        /\ UNCHANGED <<queue, pending, producers, msg, batch, told, closing>>
    BY <1>4 DEF HandleEvent
  <2>2. handled' \in Seq(EventRecord)
    BY <1>0, <2>1 DEF TypeOK
  <2>3. TypeOK' /\ Conservation' /\ NoLostWakeup'
    BY <2>1, <2>2 DEF TypeOK, Conservation, NoLostWakeup
  <2>4. MarksInv' /\ ShutdownInv'
    BY <2>1 DEF MarksInv, ShutdownInv
  <2> QED
    BY <2>3, <2>4
<1> QED
  BY <1>1, <1>2, <1>3, <1>4 DEF Thread

\* The steps of the owner.
LEMMA OwnerStep ==
    ASSUME Inv, Owner
    PROVE  Inv'
<1> USE DEF Inv, producers, dispatcher
<1>1. CASE PostShutdown
  <2>1. /\ queue' = Append(queue, Shutdown) /\ closing = "open" /\ closing' = "joining"
        /\ \A p \in Producer : ppc[p] = "dropped"
        /\ UNCHANGED <<pending, producers, dispatcher>>
    BY <1>1 DEF PostShutdown
  <2>2. Shutdown \in Msg /\ Shutdown.event.mark = 0
    BY MsgFacts
  <2>3. /\ queue' \in Seq(Msg) /\ queue' # <<>>
        /\ \A i \in 1 .. Len(queue') :
              (i \in 1 .. Len(queue) /\ queue'[i] = queue[i]) \/ queue'[i] = Shutdown
    BY <2>1, <2>2, AppendFacts DEF TypeOK
  <2>4. TypeOK' /\ Conservation' /\ NoLostWakeup'
    BY <2>1, <2>3 DEF TypeOK, Conservation, NoLostWakeup
  <2>5. MarksInv'
    BY <2>1, <2>2, <2>3 DEF MarksInv, TypeOK
  <2>6. ShutdownInv'
    BY <2>1, <2>3 DEF ShutdownInv
  <2> QED
    BY <2>4, <2>5, <2>6
<1>2. CASE Join
  BY <1>2 DEF Join, TypeOK, Conservation, NoLostWakeup, MarksInv, ShutdownInv
<1> QED
  BY <1>1, <1>2 DEF Owner

LEMMA Invariance == Spec => []Inv
<1>1. Inv /\ UNCHANGED vars => Inv'
  BY DEF Inv, vars, producers, dispatcher, TypeOK, Conservation, NoLostWakeup, MarksInv, ShutdownInv
<1>2. Inv /\ [Next]_vars => Inv'
  BY <1>1, SinkStep, ThreadStep, OwnerStep DEF Next
<1> QED
  BY InitInv, <1>2, PTL DEF Spec

-----------------------------------------------------------------------------
(* The theorems.                                                           *)

\* The counters stay natural numbers and the queue holds messages.
THEOREM TypeCorrect == Spec => []TypeOK
<1>1. Inv => TypeOK
  BY DEF Inv
<1> QED
  BY Invariance, <1>1, PTL

\* No byte is counted twice or lost between the sinks and the handler.
THEOREM ConservationCorrect == Spec => []Conservation
<1>1. Inv => Conservation
  BY DEF Inv
<1> QED
  BY Invariance, <1>1, PTL

\* The single wake-up per batch is enough, for any number of sinks.
THEOREM NoLostWakeupCorrect == Spec => []NoLostWakeup
<1>1. Inv => NoLostWakeup
  BY DEF Inv
<1> QED
  BY Invariance, <1>1, PTL

\* No event overtakes the bytes reported before it.
THEOREM ProgressFirstCorrect == Spec => []ProgressFirst
<1>1. Inv => ProgressFirst
  BY DEF Inv, MarksInv, ProgressFirst
<1> QED
  BY Invariance, <1>1, PTL

\* When shutdown returns the handler was told of every byte.
THEOREM AllTold == Spec => [](closing = "joined" => told = reported)
<1>1. Inv => (closing = "joined" => told = reported)
  BY DEF Inv, ShutdownInv, Conservation, TypeOK
<1> QED
  BY Invariance, <1>1, PTL

-----------------------------------------------------------------------------
(* The event log.                                                          *)

\* The thread has an event in hand.
Carries == dpc \in {"flush", "tell", "handle"} /\ msg.kind = "event"

\* The number of the event to be taken from the queue next.
NextId == Len(handled) + (IF Carries THEN 2 ELSE 1)

\* m is the event that was emitted as number k.
IsEvent(m, k) == m.kind = "event" /\ k \in 1 .. Len(emitted) /\ m.event = emitted[k]

\* What was handled comes first, then the thread's event, then those of the
\* queue, each once and in the order they were emitted; a shutdown is last.
OrderInv ==
    /\ Len(handled) <= Len(emitted)
    /\ \A i \in 1 .. Len(handled) : handled[i] = emitted[i]
    /\ \A i \in 1 .. Len(emitted) : emitted[i].id = i
    /\ Carries => IsEvent(msg, Len(handled) + 1)
    /\ \A i \in 1 .. Len(queue) :
          queue[i].kind = "event" => IsEvent(queue[i], queue[i].event.id) /\ queue[i].event.id >= NextId
    /\ \A i, j \in 1 .. Len(queue) :
          /\ queue[i].kind = "event" /\ queue[j].kind = "event" /\ i < j
          => queue[i].event.id < queue[j].event.id
    /\ \A k \in NextId .. Len(emitted) : \E i \in 1 .. Len(queue) : IsEvent(queue[i], k)

LastInv ==
    /\ \A i \in 1 .. Len(queue) : queue[i].kind = "shutdown" => i = Len(queue)
    /\ msg.kind = "shutdown" => queue = <<>>
    /\ dpc = "exited" => msg.kind = "shutdown"
    /\ dpc = "handle" => msg.kind = "event"

LogInv == Inv /\ OrderInv /\ LastInv

LEMMA InitLogInv == Init => LogInv
<1> SUFFICES ASSUME Init PROVE LogInv
  OBVIOUS
<1>1. Inv
  BY InitInv
<1>2. Len(queue) = 0 /\ Len(handled) = 0 /\ Len(emitted) = 0 /\ dpc = "recv" /\ queue = <<>>
  BY DEF Init
<1>3. OrderInv
  BY <1>2 DEF OrderInv, Carries, NextId
<1>4. LastInv
  BY <1>2 DEF LastInv
<1> QED
  BY <1>1, <1>3, <1>4 DEF LogInv

\* A message that is no event goes in at the end.
LEMMA PlainSend ==
    ASSUME Inv, OrderInv, NEW m \in Msg, m.kind # "event", queue' = Append(queue, m),
           UNCHANGED <<emitted, handled, dpc, msg>>
    PROVE  OrderInv'
<1>0. queue \in Seq(Msg)
  BY DEF Inv, TypeOK
<1>1. /\ Len(queue') = Len(queue) + 1 /\ Len(queue) \in Nat
      /\ \A i \in 1 .. Len(queue) : i \in 1 .. Len(queue') /\ queue'[i] = queue[i]
      /\ \A i \in 1 .. Len(queue') : i \notin 1 .. Len(queue) => queue'[i] = m
  BY <1>0
<1>2. Carries' = Carries /\ NextId' = NextId
  BY DEF Carries, NextId
<1>3. \A k : IsEvent(msg, k)' = IsEvent(msg, k)
  BY DEF IsEvent
<1>4. \A i \in 1 .. Len(queue') : queue'[i].kind = "event" => i \in 1 .. Len(queue)
  BY <1>1
<1>5. /\ Len(handled') <= Len(emitted')
      /\ \A i \in 1 .. Len(handled') : handled'[i] = emitted'[i]
      /\ \A i \in 1 .. Len(emitted') : emitted'[i].id = i
      /\ Carries' => IsEvent(msg, Len(handled) + 1)'
  BY <1>2 DEF OrderInv, IsEvent
<1>6. \A i \in 1 .. Len(queue') :
          queue'[i].kind = "event" =>
              IsEvent(queue[i], queue[i].event.id)' /\ queue'[i].event.id >= NextId'
  BY <1>1, <1>2, <1>4 DEF OrderInv, IsEvent
<1>7. \A i, j \in 1 .. Len(queue') :
          queue'[i].kind = "event" /\ queue'[j].kind = "event" /\ i < j
          => queue'[i].event.id < queue'[j].event.id
  <2> SUFFICES ASSUME NEW i \in 1 .. Len(queue'), NEW j \in 1 .. Len(queue'), i < j,
                      queue'[i].kind = "event", queue'[j].kind = "event"
               PROVE  queue'[i].event.id < queue'[j].event.id
    OBVIOUS
  <2>1. /\ i \in 1 .. Len(queue) /\ queue'[i] = queue[i]
        /\ j \in 1 .. Len(queue) /\ queue'[j] = queue[j]
    BY <1>1, <1>4
  <2>2. queue[i].event.id < queue[j].event.id
    BY <2>1 DEF OrderInv
  <2> QED
    BY <2>1, <2>2
<1>8. ASSUME NEW k \in NextId' .. Len(emitted') PROVE \E i \in 1 .. Len(queue') : IsEvent(queue[i], k)'
  <2>1. PICK i \in 1 .. Len(queue) : IsEvent(queue[i], k)
    BY <1>2 DEF OrderInv
  <2>2. i \in 1 .. Len(queue') /\ IsEvent(queue'[i], k)
    BY <1>1, <2>1
  <2> QED
    BY <2>2 DEF IsEvent
<1> QED
  BY <1>5, <1>6, <1>7, <1>8 DEF OrderInv

\* A step that changes neither the queue nor what is in hand.
LEMMA QuietStep ==
    ASSUME Inv, OrderInv, UNCHANGED <<queue, emitted, handled, msg>>, Carries' = Carries
    PROVE  OrderInv'
<1>1. NextId' = NextId
  BY DEF NextId
<1> QED
  BY <1>1 DEF OrderInv, IsEvent

LEMMA EmitOrder ==
    ASSUME Inv, OrderInv, NEW p \in Producer, Emit(p)
    PROVE  OrderInv'
<1> DEFINE e == [id |-> Len(emitted) + 1, mark |-> reported]
           N == Len(emitted) + 1
<1>0. queue \in Seq(Msg) /\ emitted \in Seq(EventRecord) /\ handled \in Seq(EventRecord) /\ reported \in Nat
  BY DEF Inv, TypeOK
<1>1. e \in EventRecord /\ e.id = N /\ N \in Nat
  BY <1>0 DEF EventRecord
<1>2. Event(e) \in Msg /\ Event(e).kind = "event" /\ Event(e).event = e
  BY <1>1, MsgFacts
<1>3. queue' = Append(queue, Event(e)) /\ emitted' = Append(emitted, e)
      /\ UNCHANGED <<handled, dpc, msg>>
  BY DEF Emit, dispatcher
<1> HIDE DEF e
<1>4. /\ Len(queue') = Len(queue) + 1 /\ Len(queue) \in Nat
      /\ \A i \in 1 .. Len(queue) : i \in 1 .. Len(queue') /\ queue'[i] = queue[i]
      /\ queue'[Len(queue) + 1] = Event(e)
  BY <1>0, <1>2, <1>3
<1>5. /\ Len(emitted') = N /\ emitted'[N] = e /\ Len(handled) \in Nat
      /\ \A i \in 1 .. Len(emitted) : i \in 1 .. N /\ emitted'[i] = emitted[i]
  BY <1>0, <1>1, <1>3
<1>6. Carries' = Carries /\ NextId' = NextId /\ NextId \in Nat
  BY <1>3, <1>5 DEF Carries, NextId
<1>7. \A m, k : IsEvent(m, k) => m.kind = "event" /\ k \in 1 .. Len(emitted') /\ m.event = emitted'[k]
  BY <1>5 DEF IsEvent
<1>8. /\ Len(handled') <= Len(emitted')
      /\ \A i \in 1 .. Len(handled') : handled'[i] = emitted'[i]
      /\ \A i \in 1 .. Len(emitted') : emitted'[i].id = i
  <2>1. Len(handled) <= Len(emitted) /\ \A i \in 1 .. Len(handled) : i \in 1 .. Len(emitted)
    BY <1>0 DEF OrderInv
  <2>2. \A i \in 1 .. N : i \in 1 .. Len(emitted) \/ i = N
    BY <1>0
  <2> QED
    BY <1>0, <1>1, <1>3, <1>5, <2>1, <2>2 DEF OrderInv
<1>9. Carries' => IsEvent(msg, Len(handled) + 1)'
  BY <1>3, <1>6, <1>7 DEF OrderInv, IsEvent
<1>10. NextId <= N
  <2>1. Carries => Len(handled) + 1 <= Len(emitted)
    BY <1>0 DEF OrderInv, IsEvent
  <2> QED
    BY <1>0, <2>1 DEF NextId, OrderInv
<1>11. \A i \in 1 .. Len(queue') :
          \/ i \in 1 .. Len(queue) /\ queue'[i] = queue[i]
          \/ i = Len(queue) + 1 /\ queue'[i] = Event(e) /\ queue'[i].event.id = N
  BY <1>1, <1>2, <1>4
<1>12. \A i \in 1 .. Len(queue) :
          queue[i].kind = "event" =>
             IsEvent(queue[i], queue[i].event.id) /\ queue[i].event.id >= NextId
             /\ queue[i].event.id \in 1 .. Len(emitted)
  BY DEF OrderInv, IsEvent
<1>13. \A i \in 1 .. Len(queue') :
          queue'[i].kind = "event" =>
              IsEvent(queue[i], queue[i].event.id)' /\ queue'[i].event.id >= NextId'
  <2> SUFFICES ASSUME NEW i \in 1 .. Len(queue'), queue'[i].kind = "event"
               PROVE  IsEvent(queue[i], queue[i].event.id)' /\ queue'[i].event.id >= NextId'
    OBVIOUS
  <2>1. CASE i \in 1 .. Len(queue) /\ queue'[i] = queue[i]
    BY <1>6, <1>7, <1>12, <2>1 DEF IsEvent
  <2>2. CASE i = Len(queue) + 1 /\ queue'[i] = Event(e) /\ queue'[i].event.id = N
    BY <1>1, <1>2, <1>5, <1>6, <1>10, <2>2 DEF IsEvent
  <2> QED
    BY <1>11, <2>1, <2>2
<1>14. \A i, j \in 1 .. Len(queue') :
          queue'[i].kind = "event" /\ queue'[j].kind = "event" /\ i < j
          => queue'[i].event.id < queue'[j].event.id
  <2> SUFFICES ASSUME NEW i \in 1 .. Len(queue'), NEW j \in 1 .. Len(queue'), i < j,
                      queue'[i].kind = "event", queue'[j].kind = "event"
               PROVE  queue'[i].event.id < queue'[j].event.id
    OBVIOUS
  <2>1. i \in 1 .. Len(queue) /\ queue'[i] = queue[i]
    BY <1>4, <1>11
  <2>2. queue[i].event.id \in 1 .. Len(emitted)
    BY <1>12, <2>1
  <2>3. CASE j \in 1 .. Len(queue) /\ queue'[j] = queue[j]
    BY <2>1, <2>3 DEF OrderInv
  <2>4. CASE queue'[j].event.id = N
    BY <1>0, <2>1, <2>2, <2>4
  <2> QED
    BY <1>11, <2>3, <2>4
<1>15. ASSUME NEW k \in NextId' .. Len(emitted') PROVE \E i \in 1 .. Len(queue') : IsEvent(queue[i], k)'
  <2>1. CASE k = N
    <3>1. PICK j \in 1 .. Len(queue') : j = Len(queue) + 1
      BY <1>4
    <3>2. IsEvent(queue[j], k)'
      BY <1>1, <1>2, <1>3, <1>4, <1>5, <2>1, <3>1 DEF IsEvent
    <3> QED
      BY <3>1, <3>2
  <2>2. CASE k # N
    <3>1. k \in NextId .. Len(emitted)
      BY <1>0, <1>5, <1>6, <2>2
    <3>2. PICK i \in 1 .. Len(queue) : IsEvent(queue[i], k)
      BY <3>1 DEF OrderInv
    <3>3. i \in 1 .. Len(queue') /\ queue'[i] = queue[i]
      BY <1>4
    <3>4. IsEvent(queue[i], k)'
      BY <1>7, <3>2, <3>3 DEF IsEvent
    <3> QED
      BY <3>3, <3>4
  <2> QED
    BY <2>1, <2>2
<1> QED
  BY <1>8, <1>9, <1>13, <1>14, <1>15 DEF OrderInv

\* The first event of the queue is the next one.
LEMMA RecvOrder ==
    ASSUME Inv, OrderInv, Recv
    PROVE  OrderInv'
<1>0. queue \in Seq(Msg) /\ emitted \in Seq(EventRecord) /\ handled \in Seq(EventRecord)
  BY DEF Inv, TypeOK
<1>1. /\ dpc = "recv" /\ queue # <<>> /\ msg' = Head(queue) /\ queue' = Tail(queue)
      /\ dpc' = "flush" /\ UNCHANGED <<emitted, handled>>
  BY DEF Recv, producers
<1>2. /\ msg' = queue[1] /\ 1 \in 1 .. Len(queue) /\ Len(queue) \in Nat
      /\ Len(queue') = Len(queue) - 1
      /\ \A i \in 1 .. Len(queue') : i + 1 \in 1 .. Len(queue) /\ queue'[i] = queue[i + 1]
      /\ \A i \in 1 .. Len(queue) : i = 1 \/ (i - 1 \in 1 .. Len(queue') /\ queue'[i - 1] = queue[i])
  BY <1>0, <1>1
<1>3. ~Carries /\ NextId = Len(handled) + 1 /\ Len(handled) \in Nat
  BY <1>0, <1>1 DEF Carries, NextId
<1>4. Carries' = (queue[1].kind = "event")
      /\ NextId' = (IF queue[1].kind = "event" THEN Len(handled) + 2 ELSE Len(handled) + 1)
  BY <1>1, <1>2 DEF Carries, NextId
<1>5. queue[1].kind = "event" => IsEvent(queue[1], Len(handled) + 1)
  <2> SUFFICES ASSUME queue[1].kind = "event" PROVE IsEvent(queue[1], Len(handled) + 1)
    OBVIOUS
  <2>1. IsEvent(queue[1], queue[1].event.id) /\ queue[1].event.id >= NextId
    BY <1>2 DEF OrderInv
  <2>2. NextId \in NextId .. Len(emitted) /\ queue[1].event.id \in Nat
    BY <1>0, <1>3, <2>1 DEF IsEvent
  <2>3. PICK i \in 1 .. Len(queue) : IsEvent(queue[i], NextId)
    BY <2>2 DEF OrderInv
  <2>4. queue[i].kind = "event" /\ queue[i].event.id = NextId
    BY <2>3 DEF OrderInv, IsEvent
  <2>5. i = 1
    BY <1>2, <1>3, <2>1, <2>2, <2>4 DEF OrderInv
  <2> QED
    BY <1>3, <2>3, <2>5
<1>6. \A m, k : IsEvent(m, k) <=> m.kind = "event" /\ k \in 1 .. Len(emitted') /\ m.event = emitted'[k]
  BY <1>1 DEF IsEvent
<1>7. /\ Len(handled') <= Len(emitted')
      /\ \A i \in 1 .. Len(handled') : handled'[i] = emitted'[i]
      /\ \A i \in 1 .. Len(emitted') : emitted'[i].id = i
  BY <1>1 DEF OrderInv
<1>8. Carries' => IsEvent(msg, Len(handled) + 1)'
  BY <1>1, <1>2, <1>4, <1>5, <1>6 DEF IsEvent
<1>9. ASSUME NEW i \in 1 .. Len(queue'), queue'[i].kind = "event"
      PROVE  IsEvent(queue[i], queue[i].event.id)' /\ queue'[i].event.id >= NextId'
  <2>1. i + 1 \in 1 .. Len(queue) /\ queue'[i] = queue[i + 1] /\ 1 < i + 1
    BY <1>2
  <2>2. IsEvent(queue[i + 1], queue[i + 1].event.id) /\ queue[i + 1].event.id >= NextId
    BY <1>9, <2>1 DEF OrderInv
  <2>3. queue[i + 1].event.id \in Nat
    BY <1>0, <2>2 DEF IsEvent
  <2>4. queue[1].kind = "event" => queue[1].event.id < queue[i + 1].event.id
    BY <1>2, <1>9, <2>1 DEF OrderInv
  <2>5. queue[1].kind = "event" => queue[1].event.id = Len(handled) + 1
    BY <1>5 DEF OrderInv, IsEvent
  <2>6. queue'[i].event.id >= NextId'
    BY <1>3, <1>4, <2>1, <2>2, <2>3, <2>4, <2>5
  <2> QED
    BY <1>6, <2>1, <2>2, <2>6 DEF IsEvent
<1>10. \A i, j \in 1 .. Len(queue') :
          queue'[i].kind = "event" /\ queue'[j].kind = "event" /\ i < j
          => queue'[i].event.id < queue'[j].event.id
  BY <1>2 DEF OrderInv
<1>11. ASSUME NEW k \in NextId' .. Len(emitted') PROVE \E i \in 1 .. Len(queue') : IsEvent(queue[i], k)'
  <2>1. k \in NextId .. Len(emitted) /\ (queue[1].kind = "event" => k > Len(handled) + 1)
    BY <1>0, <1>1, <1>3, <1>4
  <2>2. PICK i \in 1 .. Len(queue) : IsEvent(queue[i], k)
    BY <2>1 DEF OrderInv
  <2>3. i # 1
    <3> SUFFICES ASSUME i = 1 PROVE FALSE
      OBVIOUS
    <3>1. queue[1].kind = "event" /\ queue[1].event.id = k /\ queue[1].event.id = Len(handled) + 1
      BY <1>5, <2>2 DEF IsEvent, OrderInv
    <3> QED
      BY <1>3, <2>1, <3>1
  <2>4. i - 1 \in 1 .. Len(queue') /\ queue'[i - 1] = queue[i]
    BY <1>2, <2>3
  <2>5. IsEvent(queue[i - 1], k)'
    BY <1>6, <2>2, <2>4 DEF IsEvent
  <2> QED
    BY <2>4, <2>5
<1> QED
  BY <1>7, <1>8, <1>9, <1>10, <1>11 DEF OrderInv

LEMMA HandleOrder ==
    ASSUME Inv, OrderInv, LastInv, HandleEvent
    PROVE  /\ OrderInv'
           /\ Len(handled) < Len(emitted) /\ msg.event = emitted[Len(handled) + 1]
<1>0. queue \in Seq(Msg) /\ emitted \in Seq(EventRecord) /\ handled \in Seq(EventRecord)
  BY DEF Inv, TypeOK
<1>1. /\ dpc = "handle" /\ dpc' = "recv" /\ handled' = Append(handled, msg.event)
      /\ UNCHANGED <<queue, emitted, msg>>
  BY DEF HandleEvent, producers
<1>2. Carries /\ ~Carries' /\ IsEvent(msg, Len(handled) + 1)
  BY <1>1 DEF Carries, LastInv, OrderInv
<1>3. msg.event = emitted[Len(handled) + 1] /\ Len(handled) < Len(emitted) /\ Len(handled) \in Nat
  BY <1>0, <1>2 DEF IsEvent
<1>4. /\ Len(handled') = Len(handled) + 1 /\ handled'[Len(handled) + 1] = msg.event
      /\ \A i \in 1 .. Len(handled) : handled'[i] = handled[i]
  BY <1>0, <1>1, <1>2 DEF IsEvent
<1>5. NextId' = NextId
  BY <1>2, <1>3, <1>4 DEF NextId
<1>6. \A i \in 1 .. Len(handled') : handled'[i] = emitted'[i]
  BY <1>1, <1>3, <1>4 DEF OrderInv
<1>7. Len(handled') <= Len(emitted')
  BY <1>0, <1>1, <1>3, <1>4
<1> QED
  BY <1>1, <1>2, <1>3, <1>5, <1>6, <1>7 DEF OrderInv, IsEvent

\* The shutdown message is the last one.
LEMMA LastStep ==
    ASSUME Inv, LastInv, Next
    PROVE  LastInv'
<1>0. queue \in Seq(Msg) /\ msg.kind \in {"event", "wake", "shutdown"}
  BY DEF Inv, TypeOK, Msg
<1>1. ASSUME NEW m \in Msg, queue' = Append(queue, m), closing = "open",
             UNCHANGED <<dpc, msg>>
      PROVE  LastInv'
  <2>1. /\ Len(queue') = Len(queue) + 1
        /\ \A i \in 1 .. Len(queue') :
              (i \in 1 .. Len(queue) /\ queue'[i] = queue[i]) \/ i = Len(queue')
    BY <1>0, <1>1
  <2>2. msg.kind # "shutdown" /\ \A i \in 1 .. Len(queue) : queue[i].kind # "shutdown"
    BY <1>1 DEF Inv, ShutdownInv
  <2> QED
    BY <1>1, <2>1, <2>2 DEF LastInv
<1>2. ASSUME NEW p \in Producer, Sink(p) PROVE LastInv'
  <2>1. closing = "open"
    BY <1>2 DEF Sink, Emit, Progress, SendWake, DropSink, Calls, Inv, ShutdownInv
  <2>2. CASE Emit(p)
    <3>1. [id |-> Len(emitted) + 1, mark |-> reported] \in EventRecord
      BY DEF Inv, TypeOK, EventRecord
    <3>2. \E m \in Msg : queue' = Append(queue, m)
      BY <2>2, <3>1, MsgFacts DEF Emit
    <3>3. UNCHANGED <<dpc, msg>>
      BY <2>2 DEF Emit, dispatcher
    <3> QED
      BY <1>1, <2>1, <3>2, <3>3
  <2>3. CASE SendWake(p)
    BY <1>1, <2>1, <2>3, MsgFacts DEF SendWake, dispatcher
  <2>4. CASE Progress(p) \/ DropSink(p)
    BY <2>4 DEF Progress, DropSink, dispatcher, LastInv
  <2> QED
    BY <1>2, <2>2, <2>3, <2>4 DEF Sink
<1>3. CASE Recv
  <2>1. /\ queue # <<>> /\ msg' = Head(queue) /\ queue' = Tail(queue) /\ dpc' = "flush"
    BY <1>3 DEF Recv
  <2>2. /\ queue' \in Seq(Msg) /\ Len(queue') = Len(queue) - 1
        /\ msg' = queue[1] /\ 1 \in 1 .. Len(queue)
        /\ \A i \in 1 .. Len(queue') : i + 1 \in 1 .. Len(queue) /\ queue'[i] = queue[i + 1]
    BY <1>0, <2>1
  <2>3. msg'.kind = "shutdown" => queue' = <<>>
    BY <2>2 DEF LastInv
  <2>4. ASSUME NEW i \in 1 .. Len(queue'), queue'[i].kind = "shutdown" PROVE i = Len(queue')
    <3>1. i + 1 = Len(queue)
      BY <2>2, <2>4 DEF LastInv
    <3> QED
      BY <2>2, <3>1
  <2> QED
    BY <2>1, <2>3, <2>4 DEF LastInv
<1>4. CASE Swap \/ Tell \/ HandleEvent
  <2>1. UNCHANGED <<queue, msg>>
    BY <1>4 DEF Swap, Tell, HandleEvent
  <2>2. /\ dpc' = "exited" => msg.kind = "shutdown"
        /\ dpc' = "handle" => msg.kind = "event"
    BY <1>0, <1>4 DEF Swap, Tell, HandleEvent, AfterFlush
  <2> QED
    BY <2>1, <2>2 DEF LastInv
<1>5. CASE PostShutdown
  BY <1>1, <1>5, MsgFacts DEF PostShutdown, dispatcher
<1>6. CASE Join
  BY <1>6 DEF Join, dispatcher, LastInv
<1> QED
  BY <1>2, <1>3, <1>4, <1>5, <1>6 DEF Next, Thread, Owner

LEMMA NextLogInv ==
    ASSUME LogInv, [Next]_vars
    PROVE  LogInv'
<1> USE DEF LogInv
<1>1. Inv'
  <2>1. UNCHANGED vars => Inv'
    BY DEF Inv, vars, producers, dispatcher, TypeOK, Conservation, NoLostWakeup, MarksInv, ShutdownInv
  <2> QED
    BY <2>1, SinkStep, ThreadStep, OwnerStep DEF Next
<1>2. LastInv'
  <2>1. UNCHANGED vars => LastInv'
    BY DEF vars, dispatcher, LastInv
  <2> QED
    BY <2>1, LastStep
<1> SUFFICES OrderInv'
  BY <1>1, <1>2
<1>3. ASSUME NEW p \in Producer, Sink(p) PROVE OrderInv'
  <2>1. CASE Emit(p)
    BY <2>1, EmitOrder
  <2>2. CASE SendWake(p)
    BY <2>2, PlainSend, MsgFacts DEF SendWake, dispatcher
  <2>3. CASE Progress(p) \/ DropSink(p)
    BY <2>3, QuietStep DEF Progress, DropSink, dispatcher, Carries
  <2> QED
    BY <1>3, <2>1, <2>2, <2>3 DEF Sink
<1>4. CASE Recv
  BY <1>4, RecvOrder
<1>5. CASE Swap \/ Tell
  <2>1. UNCHANGED <<queue, emitted, handled, msg>>
    BY <1>5 DEF Swap, Tell, producers
  <2>2. Carries' = Carries
    BY <1>5 DEF Swap, Tell, Carries, AfterFlush, Inv, TypeOK, Msg
  <2> QED
    BY <2>1, <2>2, QuietStep
<1>6. CASE HandleEvent
  BY <1>6, HandleOrder
<1>7. CASE PostShutdown
  BY <1>7, PlainSend, MsgFacts DEF PostShutdown, producers, dispatcher
<1>8. CASE Join \/ UNCHANGED vars
  BY <1>8, QuietStep DEF Join, vars, producers, dispatcher, Carries
<1> QED
  BY <1>3, <1>4, <1>5, <1>6, <1>7, <1>8 DEF Next, Thread, Owner

\* Every step is a step of the log or leaves it alone.
LEMMA LogStep ==
    ASSUME LogInv, [Next]_vars
    PROVE  [Log!Next]_Log!vars
<1> USE DEF LogInv, Inv
<1>0. /\ emitted \in Seq(EventRecord) /\ handled \in Seq(EventRecord)
      /\ reported \in Nat /\ told \in Nat /\ pending \in Nat /\ batch \in Nat
  BY DEF TypeOK
<1>1. ASSUME NEW p \in Producer, Sink(p) PROVE Log!Next \/ UNCHANGED Log!vars
  <2>1. closing # "joined" /\ closing' = closing
    BY <1>1 DEF Sink, Emit, Progress, SendWake, DropSink, Calls, ShutdownInv
  <2>2. CASE Emit(p)
    <3>1. Log!Emit
      BY <2>1, <2>2 DEF Emit, dispatcher, Log!Emit
    <3> QED
      BY <3>1 DEF Log!Next
  <2>3. CASE Progress(p)
    <3>1. PICK n \in Size : reported' = reported + n
      BY <2>3 DEF Progress
    <3>2. n \in Nat /\ n > 0
      BY DispatcherAssumption
    <3>3. Log!Report
      BY <1>0, <2>1, <2>3, <3>1, <3>2 DEF Progress, dispatcher, Log!Report
    <3> QED
      BY <3>3 DEF Log!Next
  <2>4. CASE SendWake(p) \/ DropSink(p)
    BY <2>4 DEF SendWake, DropSink, dispatcher, Log!vars
  <2> QED
    BY <1>1, <2>2, <2>3, <2>4 DEF Sink
<1>2. CASE Recv \/ Swap
  BY <1>2 DEF Recv, Swap, producers, Log!vars
<1>3. CASE Tell
  <2>1. /\ told' = told + batch /\ closing # "joined"
        /\ UNCHANGED <<emitted, handled, reported, closing>>
    BY <1>3 DEF Tell, producers, ShutdownInv
  <2>2. CASE batch = 0
    BY <1>0, <2>1, <2>2 DEF Log!vars
  <2>3. CASE batch # 0
    <3>1. told' \in Nat /\ told < told' /\ told' <= reported
      BY <1>0, <2>1, <2>3 DEF Conservation
    <3>2. Log!Tell
      BY <2>1, <3>1 DEF Log!Tell
    <3> QED
      BY <3>2 DEF Log!Next
  <2> QED
    BY <2>2, <2>3
<1>4. CASE HandleEvent
  <2>1. Len(handled) < Len(emitted) /\ msg.event = emitted[Len(handled) + 1]
    BY <1>4, HandleOrder
  <2>2. /\ dpc = "handle" /\ closing # "joined" /\ handled' = Append(handled, msg.event)
        /\ UNCHANGED <<emitted, reported, told, closing>>
    BY <1>4 DEF HandleEvent, producers, ShutdownInv
  <2>3. msg.event.mark \in Nat /\ told >= msg.event.mark
    BY <1>0, <2>2 DEF MarksInv, TypeOK, Msg, EventRecord
  <2>4. Log!Handle
    BY <2>1, <2>2, <2>3 DEF Log!Handle
  <2> QED
    BY <2>4 DEF Log!Next
<1>5. CASE PostShutdown
  BY <1>5 DEF PostShutdown, producers, dispatcher, Log!vars
<1>6. CASE Join
  <2>1. /\ dpc = "exited" /\ closing' = "joined"
        /\ UNCHANGED <<emitted, handled, reported, told, queue>>
    BY <1>6 DEF Join, producers, dispatcher
  <2>2. pending = 0 /\ batch = 0 /\ queue = <<>>
    BY <2>1 DEF ShutdownInv, LastInv
  <2>3. told = reported
    BY <1>0, <2>2 DEF Conservation
  <2>4. Len(handled) = Len(emitted)
    <3>1. NextId = Len(handled) + 1 /\ Len(queue) = 0
      BY <2>1, <2>2 DEF NextId, Carries
    <3>2. \A k \in Len(handled) + 1 .. Len(emitted) : FALSE
      BY <3>1 DEF OrderInv
    <3> QED
      BY <1>0, <3>2 DEF OrderInv
  <2>5. handled = emitted
    BY <1>0, <2>4 DEF OrderInv
  <2>6. Log!Close
    BY <2>1, <2>3, <2>5 DEF Log!Close
  <2> QED
    BY <2>6 DEF Log!Next
<1>7. CASE UNCHANGED vars
  BY <1>7 DEF vars, producers, dispatcher, Log!vars
<1> QED
  BY <1>1, <1>2, <1>3, <1>4, <1>5, <1>6, <1>7 DEF Next, Thread, Owner

\* The dispatcher keeps what the log promises: events once each and in order,
\* no event before its bytes, nothing left when shutdown returns.
THEOREM ImplementsLogCorrect == Spec => ImplementsLog
<1>1. Init => Log!Init
  BY DEF Init, Log!Init
<1>2. LogInv /\ [Next]_vars => LogInv'
  BY NextLogInv
<1>3. LogInv /\ [Next]_vars => [Log!Next]_Log!vars
  BY LogStep
<1> QED
  BY InitLogInv, <1>1, <1>2, <1>3, PTL DEF Spec, ImplementsLog, Log!Spec
=============================================================================
