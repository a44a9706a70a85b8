-------------------------- MODULE EventDispatcher ---------------------------
(***************************************************************************)
(* The event dispatcher of src/event.rs: sinks put events into a queue and *)
(* add bytes to a shared counter, waking the dispatcher thread only when   *)
(* the counter was zero; the thread empties the counter before every event *)
(* and calls the handler; shutdown posts a last message and joins.         *)
(*                                                                         *)
(* The queue (flume) is external: unbounded, first in first out, a send    *)
(* never fails while the thread lives.  Both operations on the counter are *)
(* atomic read-modify-writes of one location, so their Relaxed ordering    *)
(* leaves them in one order.                                               *)
(***************************************************************************)
EXTENDS Integers, Sequences

CONSTANTS
    Producer,     \* the clones of the sink that are in use
    Size,         \* how many bytes one call of progress reports
    MaxCalls      \* bound on the calls of a producer

ASSUME DispatcherAssumption ==
    /\ Size \subseteq Nat \ {0}
    /\ MaxCalls \in Nat

VARIABLES
    queue,      \* the messages in the channel
    pending,    \* pending_bytes
    ppc,        \* where each producer is
    calls,      \* how many calls each producer has made
    dpc,        \* where the dispatcher thread is
    msg,        \* the message the thread is at
    batch,      \* the bytes its last swap took
    closing,    \* where the owner of the dispatcher is
    emitted,    \* history: every event emitted, with the bytes reported before
    handled,    \* history: every event the handler was called with
    reported,   \* history: the bytes reported
    told        \* history: the bytes the handler was told of

producers  == <<ppc, calls, emitted, reported>>
dispatcher == <<dpc, msg, batch, handled, told>>
vars == <<queue, pending, producers, dispatcher, closing>>

NoEvent == [id |-> 0, mark |-> 0]
Event(e) == [kind |-> "event", event |-> e]
Wake     == [kind |-> "wake", event |-> NoEvent]
Shutdown == [kind |-> "shutdown", event |-> NoEvent]

EventRecord == [id : Nat, mark : Nat]
Msg == [kind : {"event", "wake", "shutdown"}, event : EventRecord]

TypeOK ==
    /\ queue \in Seq(Msg)
    /\ pending \in Nat /\ batch \in Nat /\ reported \in Nat /\ told \in Nat
    /\ ppc \in [Producer -> {"run", "wake", "dropped"}]
    /\ calls \in [Producer -> Nat]
    /\ dpc \in {"recv", "flush", "tell", "handle", "exited"}
    /\ msg \in Msg
    /\ closing \in {"open", "joining", "joined"}
    /\ emitted \in Seq(EventRecord) /\ handled \in Seq(EventRecord)

Init ==
    /\ queue = <<>> /\ pending = 0
    /\ ppc = [p \in Producer |-> "run"]
    /\ calls = [p \in Producer |-> 0]
    /\ dpc = "recv" /\ msg = Wake /\ batch = 0
    /\ closing = "open"
    /\ emitted = <<>> /\ handled = <<>> /\ reported = 0 /\ told = 0

-----------------------------------------------------------------------------
(* The sinks.                                                              *)

Calls(p) ==
    /\ ppc[p] = "run" /\ calls[p] < MaxCalls
    /\ calls' = [calls EXCEPT ![p] = @ + 1]

Emit(p) ==
    /\ Calls(p)
    /\ LET e == [id |-> Len(emitted) + 1, mark |-> reported]
       IN  /\ queue' = Append(queue, Event(e))
           /\ emitted' = Append(emitted, e)
    /\ UNCHANGED <<pending, ppc, reported, dispatcher, closing>>

\* As Progress, waking when the counter was not zero.
Progress_wake_inverted(p) ==
    /\ Calls(p)
    /\ \E n \in Size :
          /\ pending' = pending + n
          /\ reported' = reported + n
    /\ ppc' = [ppc EXCEPT ![p] = IF pending # 0 THEN "wake" ELSE "run"]
    /\ UNCHANGED <<queue, emitted, dispatcher, closing>>

\* As Progress, storing the bytes instead of adding them.
Progress_store(p) ==
    /\ Calls(p)
    /\ \E n \in Size :
          /\ pending' = n
          /\ reported' = reported + n
    /\ ppc' = [ppc EXCEPT ![p] = IF pending = 0 THEN "wake" ELSE "run"]
    /\ UNCHANGED <<queue, emitted, dispatcher, closing>>

\* progress: the counter first, then a wake-up if it was zero.
Progress(p) ==
    /\ Calls(p)
    /\ \E n \in Size :
          /\ pending' = pending + n
          /\ reported' = reported + n
    /\ ppc' = [ppc EXCEPT ![p] = IF pending = 0 THEN "wake" ELSE "run"]
    /\ UNCHANGED <<queue, emitted, dispatcher, closing>>

\* As SendWake, with the message lost.
SendWake_lost(p) ==
    /\ ppc[p] = "wake"
    /\ ppc' = [ppc EXCEPT ![p] = "run"]
    /\ UNCHANGED <<queue, pending, calls, emitted, reported, dispatcher, closing>>

SendWake(p) ==
    /\ ppc[p] = "wake"
    /\ ppc' = [ppc EXCEPT ![p] = "run"]
    /\ queue' = Append(queue, Wake)
    /\ UNCHANGED <<pending, calls, emitted, reported, dispatcher, closing>>

\* The task is over, or cancelled: its sinks are dropped.
DropSink(p) ==
    /\ ppc[p] = "run"
    /\ ppc' = [ppc EXCEPT ![p] = "dropped"]
    /\ UNCHANGED <<queue, pending, calls, emitted, reported, dispatcher, closing>>

-----------------------------------------------------------------------------
(* The dispatcher thread.                                                  *)

Recv ==
    /\ dpc = "recv" /\ queue # <<>>
    /\ msg' = Head(queue) /\ queue' = Tail(queue)
    /\ dpc' = "flush"
    /\ UNCHANGED <<pending, producers, batch, handled, told, closing>>

\* As Swap, taking a unit off the counter without looking at it.
Swap_subtract ==
    /\ dpc = "flush"
    /\ batch' = 1 /\ pending' = pending - 1
    /\ dpc' = "tell"
    /\ UNCHANGED <<queue, producers, msg, handled, told, closing>>

\* flush: swap the counter ...
Swap ==
    /\ dpc = "flush"
    /\ batch' = pending /\ pending' = 0
    /\ dpc' = "tell"
    /\ UNCHANGED <<queue, producers, msg, handled, told, closing>>

\* As AfterFlush, without the break.
AfterFlush_no_break == IF msg.kind = "event" THEN "handle" ELSE "recv"

AfterFlush == CASE msg.kind = "event"    -> "handle"
                [] msg.kind = "wake"     -> "recv"
                [] msg.kind = "shutdown" -> "exited"

\* ... and tell the handler.  A handler that panics is caught, here and in
\* HandleEvent: the thread goes on as if it had returned.
Tell ==
    /\ dpc = "tell"
    /\ told' = told + batch
    /\ batch' = 0
    /\ dpc' = AfterFlush
    /\ UNCHANGED <<queue, pending, producers, msg, handled, closing>>

\* As HandleEvent, with a panic of the handler that ends the thread.
HandleEvent_uncaught ==
    /\ dpc = "handle"
    /\ handled' = Append(handled, msg.event)
    /\ dpc' \in {"recv", "exited"}
    /\ UNCHANGED <<queue, pending, producers, msg, batch, told, closing>>

HandleEvent ==
    /\ dpc = "handle"
    /\ handled' = Append(handled, msg.event)
    /\ dpc' = "recv"
    /\ UNCHANGED <<queue, pending, producers, msg, batch, told, closing>>

-----------------------------------------------------------------------------
(* The owner: accept and send_loop drop their sinks, then shut down; Drop  *)
(* does the same when the task is cancelled.                               *)

PostShutdown ==
    /\ closing = "open"
    /\ \A p \in Producer : ppc[p] = "dropped"
    /\ closing' = "joining"
    /\ queue' = Append(queue, Shutdown)
    /\ UNCHANGED <<pending, producers, dispatcher>>

Join ==
    /\ closing = "joining" /\ dpc = "exited"
    /\ closing' = "joined"
    /\ UNCHANGED <<queue, pending, producers, dispatcher>>

Sink(p) == Emit(p) \/ Progress(p) \/ SendWake(p) \/ DropSink(p)
Thread == Recv \/ Swap \/ Tell \/ HandleEvent
Owner == PostShutdown \/ Join

Next == (\E p \in Producer : Sink(p)) \/ Thread \/ Owner

Spec == Init /\ [][Next]_vars

\* The thread runs, a sink between its two steps does, and so does the owner.
\* A sink may be idle for ever.
Fairness ==
    /\ WF_vars(Thread) /\ WF_vars(Owner)
    /\ \A p \in Producer : WF_vars(SendWake(p))
FairSpec == Spec /\ Fairness

-----------------------------------------------------------------------------
(* What the dispatcher is for.                                             *)

\* Bytes are counted once: whatever was reported is in the counter, in the
\* hands of the thread, or told to the handler: the total of
\* test_progress_sum_with_slow_handler, at every moment.
Conservation == reported = pending + batch + told

\* Bytes are never left in the counter without someone to come for them,
\* though only the call that finds it at zero wakes the thread: there is a
\* message in the queue, the thread is about to swap, or the waking sink has
\* still to send.
NoLostWakeup ==
    pending > 0 =>
        \/ queue # <<>>
        \/ dpc = "flush"
        \/ \E p \in Producer : ppc[p] = "wake"

\* The bytes reported before an event are told before it: "progress never
\* after later lifecycle" (event.rs:219), under every interleaving.
ProgressFirst == dpc = "handle" => msg.event.mark <= told

\* Reported bytes are told without waiting for a further event or for the
\* shutdown.
ProgressArrives == pending > 0 ~> pending = 0

\* Once the sinks are gone shutdown returns.
ShutdownReturns == (\A p \in Producer : ppc[p] = "dropped") ~> closing = "joined"

Log == INSTANCE EventLog WITH closed <- closing = "joined"

\* The handler sees the events in order, no bytes later than an event that
\* was emitted after them, and everything before shutdown returns.
ImplementsLog == Log!Spec
=============================================================================
