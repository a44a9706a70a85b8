-------------------------- MODULE SendRunnerProofs ---------------------------
(***************************************************************************)
(* Proofs about SendRunner for any bounds on attempts, changes and         *)
(* troubles, and for senders and receivers with and without --keep-open.   *)
(***************************************************************************)
EXTENDS SendRunner, TLAPS

\* What was signalled after the last run began is still in the channel, and
\* what the debouncer holds is newer than any signal.
SignalInv ==
    /\ told > started => signals > 0
    /\ pending => watching /\ told < version
    /\ pc \in {"connect", "setup"} => told = None /\ ~watching
    /\ signals > 0 => told # None

\* No session of a lost connection applies a patch beside one that is alone,
\* then or later.
LostInv ==
    /\ lost \in [-1 .. MaxEdits -> Nat]
    /\ alone => LostApplying = {}

\* What the run under way walked is no older than its start.  A session that
\* is alone meets what its snapshot shows and leaves what it was sent.
RunInv ==
    /\ pc = "walked" => walked \in Version /\ started <= walked
    /\ peer = "applying" =>
          walked \in Version /\ ~(pc \in {"idle", "ok"} /\ lastRun = "ok")
    /\ peer = "serving" => pc \in {"asked", "walked", "stopped"} \/ seen
    /\ pc = "asked" /\ peer = "serving" /\ alone => base = received
    /\ pc = "walked" /\ peer = "applied" /\ alone => received = walked
    /\ pc \in {"idle", "ok"} /\ lastRun = "ok" =>
          started <= walked /\ (alone => received = walked)
    /\ pc \in {"connect", "setup"} => lastRun = "none"

\* How the program ends: a one-shot sender is back at its channel only after a
\* run that succeeded, and a watching one does not end without an error.
EndInv ==
    /\ watch => pc # "ok"
    /\ ~watch /\ pc = "idle" /\ signals = 0 => lastRun = "ok"
    /\ pc = "ok" => lastRun = "ok"

\* Inductive: the conjuncts that the runner's promises rest on.
Inv == TypeOK /\ LostInv /\ SignalInv /\ RunInv /\ EndInv

\* The type invariant in two: what is Boolean, and the rest.
Flags ==
    /\ watch \in BOOLEAN /\ serve \in BOOLEAN /\ retried \in BOOLEAN
    /\ watching \in BOOLEAN /\ pending \in BOOLEAN
    /\ up \in BOOLEAN /\ alone \in BOOLEAN
    /\ closed \in BOOLEAN /\ seen \in BOOLEAN

Counters ==
    /\ pc \in {"connect", "setup", "idle", "check", "reconnect", "open",
               "asked", "walked", "failed", "ok", "err", "stopped"}
    /\ attempt \in 0 .. MaxAttempts - 1
    /\ signals \in Nat
    /\ version \in 0 .. MaxEdits
    /\ told \in -1 .. version /\ started \in -1 .. version /\ walked \in -1 .. version
    /\ lastRun \in {"none", "ok", "err"}
    /\ base \in -2 .. MaxEdits
    /\ peer \in {"none", "accept", "serving", "applying", "applied", "failed", "closing"}
    /\ received \in -2 .. MaxEdits
    /\ troubles \in 0 .. MaxTroubles

LEMMA TypeParts == TypeOK <=> Flags /\ Counters /\ lost \in [-1 .. MaxEdits -> Nat]
BY DEF TypeOK, Flags, Counters

LEMMA InitInv == Init => Inv
<1> SUFFICES ASSUME Init PROVE Inv
  OBVIOUS
<1>1. Flags
  BY DEF Init, Flags
<1>2. Counters
  BY RunnerAssumption DEF Init, Counters, None
<1>3. SignalInv
  BY DEF Init, SignalInv, None
<1>4. RunInv /\ EndInv
  BY DEF Init, RunInv, EndInv
<1>5. LostInv
  BY DEF Init, LostInv
<1> QED
  BY <1>1, <1>2, <1>3, <1>4, <1>5, TypeParts DEF Inv, LostInv

\* A step of Next is a step of one action.
LEMMA NextCases ==
    ASSUME Next
    PROVE  \/ Connects
           \/ ConnectFails
           \/ SignalOnce
           \/ StartWatching
           \/ TakeSignals
           \/ ChannelEnds
           \/ CheckClose
           \/ OpenStream
           \/ Walks
           \/ NothingToSend
           \/ ReadAck
           \/ ReadError
           \/ ReadFails
           \/ Retry
           \/ GiveUp
           \/ Leave
           \/ Accepts
           \/ AppliesPatch
           \/ AcceptReturns
           \/ \E v \in -1 .. MaxEdits : LostReturns(v)
           \/ Debounced
           \/ SeeClose
           \/ WatchFails
           \/ WalkFails
           \/ ReceiverFails
           \/ Edit
           \/ LoseConnection
           \/ KillReceiver
           \/ RestartReceiver
           \/ Interrupt
           \/ CannotWatch
           \/ TakesPatch
           \/ LostApplies
BY DEF Next, Sender, Receiver, Environment

LEMMA StepFlags ==
    ASSUME Inv, [Next]_vars
    PROVE  Flags'
<1> USE TypeParts DEF Inv, Flags,
      args, runner, history, others, watcher, link, receiver, session
<1> SUFFICES ASSUME Next PROVE Flags'
  BY DEF vars
<1>1. CASE Connects
  BY <1>1 DEF Connects
<1>2. CASE ConnectFails
  BY <1>2 DEF ConnectFails
<1>3. CASE SignalOnce
  BY <1>3 DEF SignalOnce
<1>4. CASE StartWatching
  BY <1>4 DEF StartWatching
<1>5. CASE TakeSignals
  BY <1>5 DEF TakeSignals
<1>6. CASE ChannelEnds
  BY <1>6 DEF ChannelEnds
<1>7. CASE CheckClose
  BY <1>7 DEF CheckClose
<1>8. CASE OpenStream
  BY <1>8 DEF OpenStream
<1>9. CASE Walks
  BY <1>9 DEF Walks
<1>10. CASE NothingToSend
  BY <1>10 DEF NothingToSend, RunEnds
<1>11. CASE ReadAck
  BY <1>11 DEF ReadAck, RunEnds
<1>12. CASE ReadError
  BY <1>12 DEF ReadError
<1>13. CASE ReadFails
  BY <1>13 DEF ReadFails, Leaves
<1>14. CASE Retry
  BY <1>14 DEF Retry
<1>15. CASE GiveUp
  BY <1>15 DEF GiveUp
<1>16. CASE Leave
  BY <1>16 DEF Leave
<1>17. CASE Accepts
  BY <1>17 DEF Accepts
<1>18. CASE AppliesPatch
  BY <1>18 DEF AppliesPatch
<1>19. CASE AcceptReturns
  BY <1>19 DEF AcceptReturns, Remaining
<1>20. CASE \E v \in -1 .. MaxEdits : LostReturns(v)
  BY <1>20 DEF LostReturns, Remaining
<1>21. CASE Debounced
  BY <1>21 DEF Debounced
<1>22. CASE SeeClose
  BY <1>22 DEF SeeClose
<1>23. CASE WatchFails
  BY <1>23 DEF WatchFails, Trouble
<1>24. CASE WalkFails
  BY <1>24 DEF WalkFails, Trouble
<1>25. CASE ReceiverFails
  BY <1>25 DEF ReceiverFails, Trouble
<1>26. CASE Edit
  BY <1>26 DEF Edit
<1>27. CASE LoseConnection
  BY <1>27 DEF LoseConnection, Trouble
<1>28. CASE KillReceiver
  BY <1>28 DEF KillReceiver, Trouble
<1>29. CASE RestartReceiver
  BY <1>29 DEF RestartReceiver
<1>30. CASE Interrupt
  BY <1>30 DEF Interrupt, Leaves
<1>31. CASE CannotWatch
  BY <1>31 DEF CannotWatch, Trouble
<1>32. CASE TakesPatch
  BY <1>32 DEF TakesPatch
<1>33. CASE LostApplies
  BY <1>33 DEF LostApplies
<1> QED
  BY NextCases,
     <1>1, <1>2, <1>3, <1>4, <1>5, <1>6, <1>7, <1>8, <1>9, <1>10,
     <1>11, <1>12, <1>13, <1>14, <1>15, <1>16, <1>17, <1>18, <1>19, <1>20,
     <1>21, <1>22, <1>23, <1>24, <1>25, <1>26, <1>27, <1>28, <1>29, <1>30,
     <1>31, <1>32, <1>33

LEMMA StepCounters ==
    ASSUME Inv, [Next]_vars
    PROVE  Counters'
<1> USE RunnerAssumption, TypeParts DEF Inv, Counters, SignalInv, None, Mixed,
      args, runner, history, others, watcher, link, receiver, session
<1> SUFFICES ASSUME Next PROVE Counters'
  BY DEF vars
<1>1. CASE Connects
  BY <1>1 DEF Connects
<1>2. CASE ConnectFails
  BY <1>2 DEF ConnectFails
<1>3. CASE SignalOnce
  BY <1>3 DEF SignalOnce
<1>4. CASE StartWatching
  BY <1>4 DEF StartWatching
<1>5. CASE TakeSignals
  BY <1>5 DEF TakeSignals
<1>6. CASE ChannelEnds
  BY <1>6 DEF ChannelEnds
<1>7. CASE CheckClose
  BY <1>7 DEF CheckClose
<1>8. CASE OpenStream
  BY <1>8 DEF OpenStream
<1>9. CASE Walks
  BY <1>9 DEF Walks
<1>10. CASE NothingToSend
  BY <1>10 DEF NothingToSend, RunEnds
<1>11. CASE ReadAck
  BY <1>11 DEF ReadAck, RunEnds
<1>12. CASE ReadError
  BY <1>12 DEF ReadError
<1>13. CASE ReadFails
  BY <1>13 DEF ReadFails, Leaves
<1>14. CASE Retry
  BY <1>14 DEF Retry
<1>15. CASE GiveUp
  BY <1>15 DEF GiveUp
<1>16. CASE Leave
  BY <1>16 DEF Leave
<1>17. CASE Accepts
  BY <1>17 DEF Accepts
<1>18. CASE AppliesPatch
  BY <1>18 DEF AppliesPatch
<1>19. CASE AcceptReturns
  BY <1>19 DEF AcceptReturns, Remaining
<1>20. CASE \E v \in -1 .. MaxEdits : LostReturns(v)
  BY SMTT(40), <1>20 DEF LostReturns, Remaining
<1>21. CASE Debounced
  BY <1>21 DEF Debounced
<1>22. CASE SeeClose
  BY <1>22 DEF SeeClose
<1>23. CASE WatchFails
  BY <1>23 DEF WatchFails, Trouble
<1>24. CASE WalkFails
  BY <1>24 DEF WalkFails, Trouble
<1>25. CASE ReceiverFails
  BY SMTT(40), <1>25 DEF ReceiverFails, Trouble
<1>26. CASE Edit
  BY SMTT(40), <1>26 DEF Edit
<1>27. CASE LoseConnection
  BY <1>27 DEF LoseConnection, Trouble
<1>28. CASE KillReceiver
  BY SMTT(40), <1>28 DEF KillReceiver, Trouble
<1>29. CASE RestartReceiver
  BY <1>29 DEF RestartReceiver
<1>30. CASE Interrupt
  BY <1>30 DEF Interrupt, Leaves
<1>31. CASE CannotWatch
  BY <1>31 DEF CannotWatch, Trouble
<1>32. CASE TakesPatch
  BY <1>32 DEF TakesPatch
<1>33. CASE LostApplies
  BY <1>33 DEF LostApplies
<1> QED
  BY NextCases,
     <1>1, <1>2, <1>3, <1>4, <1>5, <1>6, <1>7, <1>8, <1>9, <1>10,
     <1>11, <1>12, <1>13, <1>14, <1>15, <1>16, <1>17, <1>18, <1>19, <1>20,
     <1>21, <1>22, <1>23, <1>24, <1>25, <1>26, <1>27, <1>28, <1>29, <1>30,
     <1>31, <1>32, <1>33

\* The steps that change what is known of the lost sessions.
LEMMA LostSteps ==
    ASSUME Next
    PROVE  \/ UNCHANGED <<lost, alone>>
           \/ Connects \/ Accepts \/ AcceptReturns \/ KillReceiver
           \/ \E v \in -1 .. MaxEdits : LostReturns(v)
<1> USE DEF receiver, others, session
<1>1. CASE Sender
  BY <1>1 DEF Sender, ConnectFails, SignalOnce, StartWatching, TakeSignals,
     ChannelEnds, CheckClose, OpenStream, Walks, NothingToSend, RunEnds,
     ReadAck, ReadError, ReadFails, Retry, GiveUp, Leave
<1>2. CASE Receiver
  BY <1>2 DEF Receiver, TakesPatch, AppliesPatch, LostApplies
<1>3. CASE Environment
  BY <1>3 DEF Environment, CannotWatch, WatchFails, WalkFails, ReceiverFails,
     Edit, LoseConnection, RestartReceiver, Interrupt
<1> QED
  BY <1>1, <1>2, <1>3 DEF Next, Debounced, SeeClose

LEMMA StepLost ==
    ASSUME Inv, [Next]_vars
    PROVE  LostInv'
<1> USE DEF Inv, LostInv, LostApplying
<1>1. CASE UNCHANGED <<lost, alone>>
  BY <1>1
<1>2. CASE Connects
  <2>1. peer = "applying" => walked \in -1 .. MaxEdits
    BY RunnerAssumption DEF RunInv, Version
  <2>2. None \in -1 .. MaxEdits
    BY RunnerAssumption DEF None
  <2>3. lost' \in [-1 .. MaxEdits -> Nat]
    BY <1>2, <2>1, <2>2 DEF Connects
  <2> QED
    BY <1>2, <2>3 DEF Connects
<1>3. CASE Accepts
  BY <1>3 DEF Accepts
<1>4. Remaining \in [-1 .. MaxEdits -> Nat] /\ \A v \in Version : Remaining[v] = lost[v]
  BY RunnerAssumption DEF Remaining, None, Version
<1>5. CASE AcceptReturns
  BY <1>4, <1>5 DEF AcceptReturns, session
<1>6. CASE \E v \in -1 .. MaxEdits : LostReturns(v)
  BY <1>4, <1>6 DEF LostReturns, session, Version
<1>7. CASE KillReceiver
  BY <1>7 DEF KillReceiver, session, Version
<1> QED
  BY <1>1, <1>2, <1>3, <1>5, <1>6, <1>7, LostSteps
     DEF vars, receiver, session

LEMMA StepSignalInv ==
    ASSUME Inv, [Next]_vars
    PROVE  SignalInv'
<1> USE RunnerAssumption DEF Inv, TypeOK, SignalInv, None, Over,
      args, runner, history, others, watcher, link, receiver, session
<1> SUFFICES ASSUME Next PROVE SignalInv'
  BY DEF vars
<1>1. CASE Connects
  BY <1>1 DEF Connects
<1>2. CASE ConnectFails
  BY <1>2 DEF ConnectFails
<1>3. CASE SignalOnce
  BY <1>3 DEF SignalOnce
<1>4. CASE StartWatching
  BY <1>4 DEF StartWatching
<1>5. CASE TakeSignals
  BY <1>5 DEF TakeSignals
<1>6. CASE ChannelEnds
  BY <1>6 DEF ChannelEnds
<1>7. CASE CheckClose
  BY <1>7 DEF CheckClose
<1>8. CASE OpenStream
  BY <1>8 DEF OpenStream
<1>9. CASE Walks
  BY <1>9 DEF Walks
<1>10. CASE NothingToSend
  BY <1>10 DEF NothingToSend, RunEnds
<1>11. CASE ReadAck
  BY <1>11 DEF ReadAck, RunEnds
<1>12. CASE ReadError
  BY <1>12 DEF ReadError
<1>13. CASE ReadFails
  BY <1>13 DEF ReadFails, Leaves
<1>14. CASE Retry
  BY <1>14 DEF Retry
<1>15. CASE GiveUp
  BY <1>15 DEF GiveUp
<1>16. CASE Leave
  BY <1>16 DEF Leave
<1>17. CASE Accepts
  BY <1>17 DEF Accepts
<1>18. CASE AppliesPatch
  BY <1>18 DEF AppliesPatch
<1>19. CASE AcceptReturns
  BY <1>19 DEF AcceptReturns, Remaining
<1>20. CASE \E v \in -1 .. MaxEdits : LostReturns(v)
  BY <1>20 DEF LostReturns, Remaining
<1>21. CASE Debounced
  BY <1>21 DEF Debounced
<1>22. CASE SeeClose
  BY <1>22 DEF SeeClose
<1>23. CASE WatchFails
  BY <1>23 DEF WatchFails, Trouble
<1>24. CASE WalkFails
  BY <1>24 DEF WalkFails, Trouble
<1>25. CASE ReceiverFails
  BY <1>25 DEF ReceiverFails, Trouble
<1>26. CASE Edit
  BY <1>26 DEF Edit
<1>27. CASE LoseConnection
  BY <1>27 DEF LoseConnection, Trouble
<1>28. CASE KillReceiver
  BY <1>28 DEF KillReceiver, Trouble
<1>29. CASE RestartReceiver
  BY <1>29 DEF RestartReceiver
<1>30. CASE Interrupt
  BY <1>30 DEF Interrupt, Leaves
<1>31. CASE CannotWatch
  BY <1>31 DEF CannotWatch, Trouble
<1>32. CASE TakesPatch
  BY <1>32 DEF TakesPatch
<1>33. CASE LostApplies
  BY <1>33 DEF LostApplies
<1> QED
  BY NextCases,
     <1>1, <1>2, <1>3, <1>4, <1>5, <1>6, <1>7, <1>8, <1>9, <1>10,
     <1>11, <1>12, <1>13, <1>14, <1>15, <1>16, <1>17, <1>18, <1>19, <1>20,
     <1>21, <1>22, <1>23, <1>24, <1>25, <1>26, <1>27, <1>28, <1>29, <1>30,
     <1>31, <1>32, <1>33

LEMMA StepRunInv ==
    ASSUME Inv, [Next]_vars
    PROVE  RunInv'
<1> USE RunnerAssumption, TypeParts DEF Inv, Counters, RunInv, Version, Applying,
      args, runner, history, others, watcher, link, receiver, session
<1> SUFFICES ASSUME Next PROVE RunInv'
  BY DEF vars
<1>0. alone => LostApplying = {}
  BY DEF LostInv
<1>1. CASE Connects
  BY <1>1 DEF Connects
<1>2. CASE ConnectFails
  BY <1>2 DEF ConnectFails
<1>3. CASE SignalOnce
  BY <1>3 DEF SignalOnce
<1>4. CASE StartWatching
  BY <1>4 DEF StartWatching
<1>5. CASE TakeSignals
  BY <1>5 DEF TakeSignals
<1>6. CASE ChannelEnds
  BY <1>6 DEF ChannelEnds
<1>7. CASE CheckClose
  BY <1>7 DEF CheckClose
<1>8. CASE OpenStream
  BY <1>8 DEF OpenStream
<1>9. CASE Walks
  BY <1>9 DEF Walks
<1>10. CASE NothingToSend
  BY <1>10 DEF NothingToSend, RunEnds
<1>11. CASE ReadAck
  BY <1>11 DEF ReadAck, RunEnds
<1>12. CASE ReadError
  BY <1>12 DEF ReadError
<1>13. CASE ReadFails
  BY <1>13 DEF ReadFails, Leaves
<1>14. CASE Retry
  BY <1>14 DEF Retry
<1>15. CASE GiveUp
  BY <1>15 DEF GiveUp
<1>16. CASE Leave
  BY <1>16 DEF Leave
<1>17. CASE Accepts
  BY <1>17 DEF Accepts
<1>18. CASE AppliesPatch
  BY <1>18 DEF AppliesPatch
<1>19. CASE AcceptReturns
  BY <1>19 DEF AcceptReturns, Remaining
<1>20. CASE \E v \in -1 .. MaxEdits : LostReturns(v)
  <2>1. PICK v \in -1 .. MaxEdits : LostReturns(v)
    BY <1>20
  <2>2. v \in Version /\ lost[v] > 0 => v \in LostApplying
    BY DEF LostApplying
  <2>3. lost[v] > 0 /\ (v = None \/ v \in Version)
    BY <2>1 DEF LostReturns, None
  <2>4. alone => received' = received
    BY <1>0, <2>1, <2>2, <2>3 DEF LostReturns
  <2> QED
    BY <2>1, <2>4 DEF LostReturns
<1>21. CASE Debounced
  BY <1>21 DEF Debounced
<1>22. CASE SeeClose
  BY <1>22 DEF SeeClose
<1>23. CASE WatchFails
  BY <1>23 DEF WatchFails, Trouble
<1>24. CASE WalkFails
  BY <1>24 DEF WalkFails, Trouble
<1>25. CASE ReceiverFails
  BY <1>25 DEF ReceiverFails, Trouble
<1>26. CASE Edit
  BY <1>26 DEF Edit
<1>27. CASE LoseConnection
  BY <1>27 DEF LoseConnection, Trouble
<1>28. CASE KillReceiver
  BY <1>0, <1>28 DEF KillReceiver, Trouble
<1>29. CASE RestartReceiver
  BY <1>29 DEF RestartReceiver
<1>30. CASE Interrupt
  BY <1>30 DEF Interrupt, Leaves
<1>31. CASE CannotWatch
  BY <1>31 DEF CannotWatch, Trouble
<1>32. CASE TakesPatch
  BY <1>32 DEF TakesPatch
<1>33. CASE LostApplies
  BY <1>0, <1>33 DEF LostApplies
<1> QED
  BY NextCases,
     <1>1, <1>2, <1>3, <1>4, <1>5, <1>6, <1>7, <1>8, <1>9, <1>10,
     <1>11, <1>12, <1>13, <1>14, <1>15, <1>16, <1>17, <1>18, <1>19, <1>20,
     <1>21, <1>22, <1>23, <1>24, <1>25, <1>26, <1>27, <1>28, <1>29, <1>30,
     <1>31, <1>32, <1>33

LEMMA StepEndInv ==
    ASSUME Inv, [Next]_vars
    PROVE  EndInv'
<1> USE RunnerAssumption DEF Inv, TypeOK, SignalInv, EndInv, Over,
      args, runner, history, others, watcher, link, receiver, session
<1> SUFFICES ASSUME Next PROVE EndInv'
  BY DEF vars
<1>1. CASE Connects
  BY <1>1 DEF Connects
<1>2. CASE ConnectFails
  BY <1>2 DEF ConnectFails
<1>3. CASE SignalOnce
  BY <1>3 DEF SignalOnce
<1>4. CASE StartWatching
  BY <1>4 DEF StartWatching
<1>5. CASE TakeSignals
  BY <1>5 DEF TakeSignals
<1>6. CASE ChannelEnds
  BY <1>6 DEF ChannelEnds
<1>7. CASE CheckClose
  BY <1>7 DEF CheckClose
<1>8. CASE OpenStream
  BY <1>8 DEF OpenStream
<1>9. CASE Walks
  BY <1>9 DEF Walks
<1>10. CASE NothingToSend
  BY <1>10 DEF NothingToSend, RunEnds
<1>11. CASE ReadAck
  BY <1>11 DEF ReadAck, RunEnds
<1>12. CASE ReadError
  BY <1>12 DEF ReadError
<1>13. CASE ReadFails
  BY <1>13 DEF ReadFails, Leaves
<1>14. CASE Retry
  BY <1>14 DEF Retry
<1>15. CASE GiveUp
  BY <1>15 DEF GiveUp
<1>16. CASE Leave
  BY <1>16 DEF Leave
<1>17. CASE Accepts
  BY <1>17 DEF Accepts
<1>18. CASE AppliesPatch
  BY <1>18 DEF AppliesPatch
<1>19. CASE AcceptReturns
  BY <1>19 DEF AcceptReturns, Remaining
<1>20. CASE \E v \in -1 .. MaxEdits : LostReturns(v)
  BY <1>20 DEF LostReturns, Remaining
<1>21. CASE Debounced
  BY <1>21 DEF Debounced
<1>22. CASE SeeClose
  BY <1>22 DEF SeeClose
<1>23. CASE WatchFails
  BY <1>23 DEF WatchFails, Trouble
<1>24. CASE WalkFails
  BY <1>24 DEF WalkFails, Trouble
<1>25. CASE ReceiverFails
  BY <1>25 DEF ReceiverFails, Trouble
<1>26. CASE Edit
  BY <1>26 DEF Edit
<1>27. CASE LoseConnection
  BY <1>27 DEF LoseConnection, Trouble
<1>28. CASE KillReceiver
  BY <1>28 DEF KillReceiver, Trouble
<1>29. CASE RestartReceiver
  BY <1>29 DEF RestartReceiver
<1>30. CASE Interrupt
  BY <1>30 DEF Interrupt, Leaves
<1>31. CASE CannotWatch
  BY <1>31 DEF CannotWatch, Trouble
<1>32. CASE TakesPatch
  BY <1>32 DEF TakesPatch
<1>33. CASE LostApplies
  BY <1>33 DEF LostApplies
<1> QED
  BY NextCases,
     <1>1, <1>2, <1>3, <1>4, <1>5, <1>6, <1>7, <1>8, <1>9, <1>10,
     <1>11, <1>12, <1>13, <1>14, <1>15, <1>16, <1>17, <1>18, <1>19, <1>20,
     <1>21, <1>22, <1>23, <1>24, <1>25, <1>26, <1>27, <1>28, <1>29, <1>30,
     <1>31, <1>32, <1>33

LEMMA Inductive ==
    ASSUME Inv, [Next]_vars
    PROVE  Inv'
BY StepFlags, StepCounters, StepLost, StepSignalInv, StepRunInv, StepEndInv
   DEF Inv, TypeOK, Flags, Counters, LostInv

THEOREM Invariance == Spec => []Inv
BY InitInv, Inductive, PTL DEF Spec

\* The type invariant: no counter of the send command leaves its range.
THEOREM TypeCorrect == Spec => []TypeOK
<1>1. Inv => TypeOK
  BY DEF Inv
<1> QED
  BY Invariance, <1>1, PTL

\* Collapsing the signals in the run channel forgets no change.
THEOREM NothingForgottenCorrect == Spec => []NothingForgotten
<1>1. Inv => NothingForgotten
  BY DEF Inv, TypeOK, SignalInv, RunInv, NothingForgotten
<1> QED
  BY Invariance, <1>1, PTL

\* A one-shot sender that exits without an error was received, unless a lost
\* session of its own was still applying a patch when its last one began.
THEOREM OkMeansReceivedCorrect == Spec => []OkMeansReceived
<1>1. Inv => OkMeansReceived
  BY DEF Inv, TypeOK, LostInv, RunInv, EndInv, OkMeansReceived
<1> QED
  BY Invariance, <1>1, PTL

-----------------------------------------------------------------------------
(* The runner implements RunTrigger, its liveness aside.                   *)

LEMMA InitTrigger == Init => Trigger!Init
BY DEF Init, Trigger!Init, Over, None, Trigger!None

\* Only a signal asks for a run, only taking the signals begins one, and
\* the program does not come back once it is over.
LEMMA StepTrigger ==
    ASSUME Inv, [Next]_vars
    PROVE  [Trigger!Next]_(Trigger!vars)
<1> USE DEF Inv, TypeOK, SignalInv, None, Over, Trigger!vars,
      args, runner, history, others, watcher
<1> SUFFICES ASSUME Next PROVE [Trigger!Next]_(Trigger!vars)
  BY DEF vars, args, runner, watcher, Trigger!vars, Over
<1>1. CASE Connects
  BY <1>1 DEF Connects
<1>2. CASE ConnectFails
  <2>1. Trigger!Stop \/ UNCHANGED Trigger!vars
    BY <1>2 DEF ConnectFails, Trigger!Stop
  <2> QED
    BY <2>1 DEF Trigger!Next
<1>3. CASE SignalOnce
  <2>1. Trigger!Ask
    BY <1>3 DEF SignalOnce, Trigger!Ask
  <2> QED
    BY <2>1 DEF Trigger!Next
<1>4. CASE StartWatching
  BY <1>4 DEF StartWatching
<1>5. CASE TakeSignals
  <2>1. Trigger!Begin
    BY <1>5 DEF TakeSignals, Trigger!Begin, Trigger!None
  <2> QED
    BY <2>1 DEF Trigger!Next
<1>6. CASE ChannelEnds
  <2>1. Trigger!Stop
    BY <1>6 DEF ChannelEnds, Trigger!Stop
  <2> QED
    BY <2>1 DEF Trigger!Next
<1>7. CASE CheckClose
  BY <1>7 DEF CheckClose
<1>8. CASE OpenStream
  BY <1>8 DEF OpenStream
<1>9. CASE Walks
  BY <1>9 DEF Walks
<1>10. CASE NothingToSend
  BY <1>10 DEF NothingToSend, RunEnds
<1>11. CASE ReadAck
  BY <1>11 DEF ReadAck, RunEnds
<1>12. CASE ReadError
  BY <1>12 DEF ReadError
<1>13. CASE ReadFails
  BY <1>13 DEF ReadFails, Leaves
<1>14. CASE Retry
  BY <1>14 DEF Retry
<1>15. CASE GiveUp
  <2>1. Trigger!Stop \/ UNCHANGED Trigger!vars
    BY <1>15 DEF GiveUp, Trigger!Stop
  <2> QED
    BY <2>1 DEF Trigger!Next
<1>16. CASE Leave
  BY <1>16 DEF Leave
<1>17. CASE Accepts
  BY <1>17 DEF Accepts
<1>18. CASE AppliesPatch
  BY <1>18 DEF AppliesPatch
<1>19. CASE AcceptReturns
  BY <1>19 DEF AcceptReturns, Remaining
<1>20. CASE \E v \in -1 .. MaxEdits : LostReturns(v)
  BY <1>20 DEF LostReturns, Remaining
<1>21. CASE Debounced
  <2>1. Trigger!Ask
    BY <1>21 DEF Debounced, Trigger!Ask
  <2> QED
    BY <2>1 DEF Trigger!Next
<1>22. CASE SeeClose
  BY <1>22 DEF SeeClose
<1>23. CASE WatchFails
  BY <1>23 DEF WatchFails
<1>24. CASE WalkFails
  BY <1>24 DEF WalkFails
<1>25. CASE ReceiverFails
  BY <1>25 DEF ReceiverFails
<1>26. CASE Edit
  BY <1>26 DEF Edit
<1>27. CASE LoseConnection
  BY <1>27 DEF LoseConnection
<1>28. CASE KillReceiver
  BY <1>28 DEF KillReceiver
<1>29. CASE RestartReceiver
  BY <1>29 DEF RestartReceiver
<1>30. CASE Interrupt
  <2>1. Trigger!Stop
    BY <1>30 DEF Interrupt, Trigger!Stop
  <2> QED
    BY <2>1 DEF Trigger!Next
<1>31. CASE CannotWatch
  <2>1. Trigger!Stop
    BY <1>31 DEF CannotWatch, Trigger!Stop
  <2> QED
    BY <2>1 DEF Trigger!Next
<1>32. CASE TakesPatch
  BY <1>32 DEF TakesPatch
<1>33. CASE LostApplies
  BY <1>33 DEF LostApplies
<1> QED
  BY NextCases,
     <1>1, <1>2, <1>3, <1>4, <1>5, <1>6, <1>7, <1>8, <1>9, <1>10,
     <1>11, <1>12, <1>13, <1>14, <1>15, <1>16, <1>17, <1>18, <1>19, <1>20,
     <1>21, <1>22, <1>23, <1>24, <1>25, <1>26, <1>27, <1>28, <1>29, <1>30,
     <1>31, <1>32, <1>33

\* Every run of the send command follows a request and covers it.
THEOREM Refinement == Spec => Trigger!Spec
<1>1. Inv /\ [Next]_vars => [Trigger!Next]_(Trigger!vars)
  BY StepTrigger
<1> QED
  BY InitTrigger, Invariance, <1>1, PTL DEF Spec, Trigger!Spec
=============================================================================
