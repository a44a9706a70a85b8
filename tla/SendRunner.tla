----------------------------- MODULE SendRunner ------------------------------
(***************************************************************************)
(* The send command, handle_send of src/cli/src/main.rs: a debouncer turns *)
(* changes of the directory into signals, a runner turns signals into sync *)
(* runs over one connection, reconnecting and retrying as it goes.  The    *)
(* receiving program is here as far as the runner can tell: it serves one  *)
(* stream of each connection and then drops the connection.                *)
(*                                                                         *)
(* The directory is its version, the number of changes made to it.  What a *)
(* run sends is the version it walked; the messages of a run are the       *)
(* subject of SyncSession, the files of TreeSync.  Connections and the     *)
(* watcher are external, modelled from their use.                          *)
(***************************************************************************)
EXTENDS Integers

CONSTANTS
    MaxAttempts,   \* the attempts to connect of a one-shot sender
    MaxEdits,      \* bound on the changes of the directory
    MaxTroubles    \* bound on the losses and failures of the environment

ASSUME RunnerAssumption ==
    MaxAttempts \in Nat \ {0} /\ MaxEdits \in Nat /\ MaxTroubles \in Nat

VARIABLES
    watch,      \* the sender was started with --keep-open
    serve,      \* the receiver was started with --keep-open
    pc,         \* where the program, then its runner, is
    attempt,    \* the failed attempts of connect_with_retry
    signals,    \* the signals in the run channel
    retried,    \* the run was retried
    watching,   \* the debouncer watches the directory
    pending,    \* it has changes it has not reported
    version,    \* the version of the directory
    told,       \* the version at the last signal
    started,    \* the version when the last run began
    walked,     \* the version the last run walked
    lastRun,    \* how the last run ended
    up,         \* the receiver runs and can be reached
    peer,       \* the receiver's accept for this connection
    lost,       \* the accepts of lost connections that have not returned, by
                \* the version they still apply a patch for, or None
    base,       \* the version in the snapshot of this connection's session
    alone,      \* no lost session was applying when it was taken
    closed,     \* this connection is closed
    seen,       \* close_reason() tells the sender so
    received,   \* the version the receiver's directory holds
    troubles    \* number of losses and failures so far

args     == <<watch, serve>>
runner   == <<pc, attempt, retried, started, walked, lastRun>>
watcher  == <<watching, pending, told>>
link     == <<closed, seen>>
session  == <<base, alone>>
receiver == <<up, peer, lost, session, received>>
history  == <<started, walked, lastRun>>
others   == <<args, watcher, version, link, receiver, troubles>>
vars == <<args, runner, signals, watcher, version, link, receiver, troubles>>

None == -1     \* no version yet
Mixed == -2    \* the outcome of a patch that was applied in part, or beside another
Version == 0 .. MaxEdits

Over == pc \in {"ok", "err", "stopped"}

TypeOK ==
    /\ watch \in BOOLEAN /\ serve \in BOOLEAN
    /\ pc \in {"connect", "setup", "idle", "check", "reconnect", "open",
               "asked", "walked", "failed", "ok", "err", "stopped"}
    /\ attempt \in 0 .. MaxAttempts - 1
    /\ signals \in Nat
    /\ retried \in BOOLEAN
    /\ watching \in BOOLEAN /\ pending \in BOOLEAN
    /\ version \in 0 .. MaxEdits
    /\ told \in -1 .. version /\ started \in -1 .. version /\ walked \in -1 .. version
    /\ lastRun \in {"none", "ok", "err"}
    /\ up \in BOOLEAN /\ base \in -2 .. MaxEdits /\ alone \in BOOLEAN
    /\ lost \in [-1 .. MaxEdits -> Nat]
    /\ peer \in {"none", "accept", "serving", "applying", "applied", "failed", "closing"}
    /\ closed \in BOOLEAN /\ seen \in BOOLEAN
    /\ received \in -2 .. MaxEdits
    /\ troubles \in 0 .. MaxTroubles

Init ==
    /\ watch \in BOOLEAN /\ serve \in BOOLEAN
    /\ pc = "connect" /\ attempt = 0
    /\ signals = 0 /\ retried = FALSE
    /\ watching = FALSE /\ pending = FALSE
    /\ version = 0
    /\ told = None /\ started = None /\ walked = None
    /\ lastRun = "none"
    /\ up = TRUE /\ peer = "none" /\ base = None /\ alone = FALSE
    /\ lost = [v \in -1 .. MaxEdits |-> 0]
    /\ closed = TRUE /\ seen = FALSE
    /\ received = None
    /\ troubles = 0

Trouble == troubles < MaxTroubles /\ troubles' = troubles + 1

-----------------------------------------------------------------------------
(* connect_with_retry: before the runner exists, and in it.                *)

\* The accept of the connection that is replaced may have yet to return.
Connects ==
    /\ pc \in {"connect", "reconnect"} /\ up
    /\ pc' = IF pc = "connect" THEN "setup" ELSE "open"
    /\ attempt' = 0
    /\ closed' = FALSE /\ seen' = FALSE
    /\ peer' = "accept" /\ base' = None /\ alone' = FALSE
    /\ lost' = CASE peer = "none"     -> lost
                 [] peer = "applying" -> [lost EXCEPT ![walked] = @ + 1]
                 [] OTHER             -> [lost EXCEPT ![None] = @ + 1]
    /\ UNCHANGED <<retried, signals, version, up, received, troubles, args,
                   history, watcher>>

\* As ConnectFails, with no bound on the attempts.
ConnectFails_unbounded ==
    /\ pc \in {"connect", "reconnect"} /\ ~up
    /\ UNCHANGED vars

\* As ConnectFails, giving up one attempt late.
ConnectFails_one_more ==
    /\ pc \in {"connect", "reconnect"} /\ ~up
    /\ IF watch
       THEN UNCHANGED <<pc, attempt>>
       ELSE IF attempt + 1 > MaxAttempts
            THEN pc' = "err" /\ UNCHANGED attempt
            ELSE attempt' = attempt + 1 /\ UNCHANGED pc
    /\ UNCHANGED <<retried, signals, history, others>>

\* max_attempts is None for a watching sender, whose attempts are not counted
\* here; the delay between attempts is not in the model.
ConnectFails ==
    /\ pc \in {"connect", "reconnect"} /\ ~up
    /\ IF watch
       THEN UNCHANGED <<pc, attempt>>
       ELSE IF attempt + 1 >= MaxAttempts
            THEN pc' = "err" /\ UNCHANGED attempt
            ELSE attempt' = attempt + 1 /\ UNCHANGED pc
    /\ UNCHANGED <<retried, signals, history, others>>

-----------------------------------------------------------------------------
(* The signals.                                                            *)

\* Without --keep-open one signal is sent and the channel closed.
SignalOnce ==
    /\ pc = "setup" /\ ~watch
    /\ pc' = "idle" /\ signals' = 1 /\ told' = version
    /\ UNCHANGED <<attempt, retried, watching, pending, version, troubles,
                   args, history, link, receiver>>

\* The debouncer cannot be made, or cannot watch the directory.
CannotWatch ==
    /\ pc = "setup" /\ watch /\ Trouble
    /\ pc' = "err"
    /\ UNCHANGED <<attempt, retried, signals, version, args, history, watcher,
                   link, receiver>>

StartWatching ==
    /\ pc = "setup" /\ watch
    /\ pc' = "idle" /\ watching' = TRUE
    /\ UNCHANGED <<attempt, retried, signals, pending, told, version, troubles,
                   args, history, link, receiver>>

\* As Debounced, with no signal while a run is under way.
Debounced_not_busy ==
    /\ watching /\ pending /\ ~Over
    /\ pending' = FALSE
    /\ signals' = (IF pc = "idle" THEN 1 ELSE signals) /\ told' = version
    /\ UNCHANGED <<watching, version, troubles, args, runner, link, receiver>>

\* The debouncer reports what changed since it last did.
Debounced ==
    /\ watching /\ pending /\ ~Over
    /\ pending' = FALSE
    /\ signals' = signals + 1 /\ told' = version
    /\ UNCHANGED <<watching, version, troubles, args, runner, link, receiver>>

\* It reports errors instead, which are logged.
WatchFails ==
    /\ watching /\ pending /\ ~Over /\ Trouble
    /\ pending' = FALSE
    /\ UNCHANGED <<signals, watching, told, version, args, runner, link, receiver>>

-----------------------------------------------------------------------------
(* The runner.                                                             *)

\* As TakeSignals, with retried declared outside the loop.
TakeSignals_keeps_retried ==
    /\ pc = "idle" /\ signals > 0
    /\ pc' = "check" /\ signals' = 0 /\ started' = version
    /\ UNCHANGED <<attempt, retried, walked, lastRun, others>>

\* recv_async, then try_recv until the channel is empty.
TakeSignals ==
    /\ pc = "idle" /\ signals > 0
    /\ pc' = "check" /\ signals' = 0 /\ retried' = FALSE /\ started' = version
    /\ UNCHANGED <<attempt, walked, lastRun, others>>

\* The closed channel of a one-shot sender is empty.
ChannelEnds ==
    /\ pc = "idle" /\ signals = 0 /\ ~watch
    /\ pc' = "ok"
    /\ UNCHANGED <<attempt, retried, signals, history, others>>

CheckClose ==
    /\ pc = "check"
    /\ pc' = IF seen THEN "reconnect" ELSE "open"
    /\ UNCHANGED <<attempt, retried, signals, history, others>>

\* open_bi asks nothing of the receiver; it fails once the close is seen.
OpenStream ==
    /\ pc = "open"
    /\ pc' = IF seen THEN "failed" ELSE "asked"
    /\ UNCHANGED <<attempt, retried, signals, history, others>>

\* The receiver's snapshot has arrived; the sender walks its directory.
Walks ==
    /\ pc = "asked" /\ peer = "serving" /\ base # version
    /\ pc' = "walked" /\ walked' = version
    /\ UNCHANGED <<attempt, retried, started, lastRun, signals, others>>

\* The walk or the diff fails, and the streams are dropped.
WalkFails ==
    /\ pc = "asked" /\ peer = "serving"
    /\ Trouble /\ pc' = "failed" /\ peer' = "closing"
    /\ UNCHANGED <<attempt, retried, signals, version, up, lost, session,
                   received, args, history, watcher, link>>

\* As RunEnds, with the queued signals collapsed into the run that just was.
RunEnds_drains ==
    /\ pc' = "idle" /\ lastRun' = "ok" /\ peer' = "closing"
    /\ signals' = 0
    /\ UNCHANGED <<attempt, retried, started, version, up, lost, session,
                   received, troubles, args, watcher, link>>

\* run_once returns Ok, and the receiver's last read ends.
RunEnds ==
    /\ pc' = "idle" /\ lastRun' = "ok" /\ peer' = "closing"
    /\ UNCHANGED <<attempt, retried, started, signals, version, up, lost,
                   session, received, troubles, args, watcher, link>>

NothingToSend ==
    /\ pc = "asked" /\ peer = "serving" /\ base = version
    /\ walked' = version
    /\ RunEnds

ReadAck ==
    /\ pc = "walked" /\ peer = "applied"
    /\ RunEnds
    /\ UNCHANGED walked

\* The receiver answers with an Error, or drops its streams.
ReadError ==
    /\ pc \in {"asked", "walked"} /\ peer = "failed"
    /\ pc' = "failed" /\ peer' = "closing"
    /\ UNCHANGED <<attempt, retried, signals, version, up, lost, session,
                   received, troubles, args, history, watcher, link>>

\* The sender turns away from its session: a patch it has sent may be at the
\* receiver, to be applied all the same, or never arrives.
Leaves ==
    peer' \in IF pc = "walked" /\ peer = "serving" THEN {"serving", "applying"} ELSE {peer}

\* The connection is gone under the read, which is how a run over a
\* connection whose one stream was served before ends.
ReadFails ==
    /\ pc \in {"asked", "walked"} /\ closed
    /\ pc' = "failed" /\ seen' = TRUE
    /\ Leaves
    /\ UNCHANGED <<attempt, retried, signals, version, closed, up, lost, session,
                   received, troubles, args, history, watcher>>

\* The error is looked at: the run is retried once, if the close is seen.
Retry ==
    /\ pc = "failed" /\ seen /\ ~retried
    /\ pc' = "check" /\ retried' = TRUE
    /\ UNCHANGED <<attempt, signals, history, others>>

\* As GiveUp, with the errors of a one-shot sender logged as well.
GiveUp_logs ==
    /\ pc = "failed" /\ (~seen \/ retried)
    /\ pc' = "idle"
    /\ lastRun' = "err"
    /\ UNCHANGED <<attempt, retried, started, walked, signals, others>>

\* A watching sender logs the error and waits for the next signal.
GiveUp ==
    /\ pc = "failed" /\ (~seen \/ retried)
    /\ pc' = IF watch THEN "idle" ELSE "err"
    /\ lastRun' = "err"
    /\ UNCHANGED <<attempt, retried, started, walked, signals, others>>

\* Once the program is over its connections are closed.
Leave ==
    /\ Over /\ ~closed
    /\ closed' = TRUE
    /\ UNCHANGED <<signals, version, seen, troubles, args, runner, watcher,
                   receiver>>

\* The close reaches the sender's endpoint.
SeeClose ==
    /\ closed /\ ~seen /\ pc # "connect"
    /\ seen' = TRUE
    /\ UNCHANGED <<signals, version, closed, troubles, args, runner, watcher,
                   receiver>>

-----------------------------------------------------------------------------
(* The receiving program.                                                  *)

\* The patches of lost connections that are being applied.
LostApplying == {v \in Version : lost[v] > 0}
Applying     == peer = "applying" \/ LostApplying # {}

\* A session begins with the receiver's snapshot.
Accepts ==
    /\ peer = "accept" /\ pc = "asked" /\ ~closed
    /\ peer' = "serving" /\ base' = received /\ alone' = (LostApplying = {})
    /\ UNCHANGED <<signals, version, up, lost, received, troubles, args,
                   runner, watcher, link>>

TakesPatch ==
    /\ peer = "serving" /\ pc = "walked"
    /\ peer' = "applying"
    /\ UNCHANGED <<signals, version, up, lost, session, received, troubles, args,
                   runner, watcher, link>>

\* The loop over the entries has no await: nothing but a crash stops it, the
\* loss of its connection or the end of the program's own loop least of all.
AppliesPatch ==
    /\ peer = "applying"
    /\ \/ peer' = "applied" /\ received' = walked
       \/ ~alone /\ peer' \in {"applied", "failed"} /\ received' \in {received, Mixed}
    /\ UNCHANGED <<signals, version, up, lost, session, troubles, args, runner,
                   watcher, link>>

\* Its walk fails, or an entry of the patch does.
ReceiverFails ==
    /\ peer \in {"serving", "applying"}
    /\ Trouble
    /\ peer' = "failed"
    /\ received' \in IF peer = "applying" THEN {received, Mixed} ELSE {received}
    /\ UNCHANGED <<signals, version, up, lost, session, args, runner, watcher, link>>

\* The verdict of one accept ends a program that was not told to stay, which
\* cancels those that wait for a message.
Remaining == IF serve THEN lost ELSE [lost EXCEPT ![None] = 0]

\* accept returns and drops its connection; it waits for the sender only
\* with --keep-open.
AcceptReturns ==
    /\ \/ peer \in {"closing", "failed"}
       \/ peer = "applied" /\ ~serve
       \/ peer \notin {"none", "applying"} /\ closed
    /\ peer' = "none"
    /\ closed' = TRUE
    /\ up' = (up /\ serve) /\ lost' = Remaining
    /\ UNCHANGED <<signals, version, seen, session, received, troubles, args,
                   runner, watcher>>

\* Some of the entries of a lost connection's patch, beside those of another.
LostApplies ==
    /\ LostApplying # {}
    /\ received # Mixed /\ received' = Mixed
    /\ UNCHANGED <<signals, version, up, peer, lost, session, troubles, args,
                   runner, watcher, link>>

\* The accept of a lost connection returns later than its sender noticed,
\* after the last entry of its patch or one that fails, and ends the program
\* under the connection that replaced it.
LostReturns(v) ==
    /\ lost[v] > 0
    /\ lost' = [Remaining EXCEPT ![v] = IF @ > 0 THEN @ - 1 ELSE 0]
    /\ received' \in IF v = None THEN {received} ELSE {received, v, Mixed}
    /\ up' = (up /\ serve)
    /\ peer' = IF serve \/ peer = "applying" THEN peer ELSE "none"
    /\ closed' = (closed \/ ~serve)
    /\ UNCHANGED <<signals, version, seen, session, troubles, args, runner, watcher>>

-----------------------------------------------------------------------------
(* The environment.                                                        *)

Edit ==
    /\ version < MaxEdits /\ ~Over
    /\ version' = version + 1
    /\ pending' = watching
    /\ UNCHANGED <<signals, watching, told, troubles, args, runner, link, receiver>>

LoseConnection ==
    /\ ~closed /\ Trouble
    /\ closed' = TRUE
    /\ UNCHANGED <<signals, version, seen, args, runner, watcher, receiver>>

KillReceiver ==
    /\ (up \/ Applying) /\ Trouble
    /\ up' = FALSE /\ peer' = "none" /\ closed' = TRUE
    /\ lost' = [v \in -1 .. MaxEdits |-> 0]
    /\ received' \in IF Applying THEN {received, Mixed} ELSE {received}
    /\ UNCHANGED <<signals, version, seen, session, args, runner, watcher>>

\* With its key file the receiver is found under the same ticket again.
RestartReceiver ==
    /\ ~up /\ ~Over /\ ~Applying
    /\ up' = TRUE
    /\ UNCHANGED <<signals, version, peer, lost, session, received, troubles,
                   args, runner, watcher, link>>

\* Ctrl-C aborts the runner wherever it is.
Interrupt ==
    /\ ~Over
    /\ pc' = "stopped"
    /\ Leaves
    /\ UNCHANGED <<attempt, retried, signals, version, up, lost, session,
                   received, troubles, args, history, watcher, link>>

-----------------------------------------------------------------------------
Sender ==
    \/ Connects \/ ConnectFails \/ SignalOnce \/ StartWatching
    \/ TakeSignals \/ ChannelEnds \/ CheckClose \/ OpenStream
    \/ Walks \/ NothingToSend \/ ReadAck \/ ReadError \/ ReadFails
    \/ Retry \/ GiveUp \/ Leave

Receiver ==
    \/ Accepts \/ TakesPatch \/ AppliesPatch \/ AcceptReturns
    \/ LostApplies \/ (\E v \in -1 .. MaxEdits : LostReturns(v))

Environment ==
    \/ CannotWatch \/ WatchFails \/ WalkFails \/ ReceiverFails
    \/ Edit \/ LoseConnection \/ KillReceiver \/ RestartReceiver \/ Interrupt

Next == Sender \/ Receiver \/ Debounced \/ SeeClose \/ Environment

Spec == Init /\ [][Next]_vars

\* The tasks of both programs go on, the debouncer reports, a close is
\* noticed; a watching sender's receiver is started again.
Fairness ==
    /\ WF_vars(Sender) /\ WF_vars(Receiver)
    /\ WF_vars(Debounced) /\ WF_vars(SeeClose)
    /\ WF_vars(watch /\ RestartReceiver)
FairSpec == Spec /\ Fairness

-----------------------------------------------------------------------------
(* What the command is for.                                                *)

\* When the runner waits and nothing is queued, every change the debouncer
\* told of came before the last run began, and is at the receiver if that run
\* succeeded and no lost session was applying beside it: collapsing the
\* signals loses none (main.rs:143-144).
NothingForgotten ==
    pc = "idle" /\ signals = 0 =>
        /\ told <= started
        /\ lastRun = "ok" /\ alone => told <= received

\* A one-shot sender that exits without an error has the directory it walked
\* at the receiver, whatever was lost and retried on the way, unless the patch
\* of a lost session was still being applied when the last one began: from
\* then on no other one writes there, and none comes back later.
OkMeansReceived ==
    pc = "ok" /\ alone => received = walked /\ walked >= started /\ LostApplying = {}

\* A one-shot sender ends, even if no receiver is ever there again.
OneShotEnds == <>(watch \/ Over)

\* A change that was told of reaches the receiver although the connection of
\* each run is closed under the next one: one retry is enough for that, as
\* long as nothing else goes wrong.
ChangesArrive ==
    \A v \in 0 .. MaxEdits :
        told >= v ~> received >= v \/ troubles > 0 \/ pc = "stopped"

\* "Keep open after transferring. ... On send, this will watch the directory
\* for new files to send." (init.rs:11-13): there is a transfer to begin with.
TransfersFirst == <>(received # None \/ troubles > 0 \/ Over)

Trigger == INSTANCE RunTrigger WITH asked <- told, begun <- started, over <- Over

\* Every change the debouncer tells of is followed by the start of a run that
\* comes after it, and runs start for nothing else.
ImplementsTrigger == Trigger!FairSpec
=============================================================================
