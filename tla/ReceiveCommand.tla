--------------------------- MODULE ReceiveCommand ----------------------------
(***************************************************************************)
(* The receive command, handle_recv of src/cli/src/main.rs: the key file,  *)
(* the router that serves every connection in a task of its own over one   *)
(* directory, and the loop that may end the program at the first verdict.  *)
(*                                                                         *)
(* Several sessions run at once, those of several senders or of one that   *)
(* has reconnected while the receiver had yet to notice.  Each walks the   *)
(* directory, is sent a patch against what it saw, and applies it to what  *)
(* is there by then.  Nothing orders their steps.  The messages are those  *)
(* of SyncSession; a sender's tree does not change here (see TreeSync).    *)
(***************************************************************************)
EXTENDS SnapshotDiff

CONSTANTS
    Session,        \* the connections that are made
    SenderTrees,    \* the trees their senders may have
    ReceiverTrees,  \* the trees the receiver may start with
    MaxStarts       \* bound on the starts of the program

ASSUME ReceiveAssumption ==
    /\ SenderTrees \subseteq Tree /\ ReceiverTrees \subseteq Tree
    /\ \A t \in SenderTrees \cup ReceiverTrees : WellFormed(t)
    /\ IsFiniteSet(Path)
    /\ MaxStarts \in Nat \ {0}

VARIABLES
    keepOpen,   \* the program was started with --keep-open
    program,    \* where handle_recv is
    keyFile,    \* what .patchsync_key holds: nothing, a key, or a part of one
    key,        \* the key of the endpoint, which the ticket names
    starts,     \* the starts of the program so far, which number the keys
    verdict,    \* the first verdict of this start
    rfs,        \* the receiver's file system
    sfs,        \* the tree of each session's sender
    at,         \* where each session is
    old,        \* the snapshot each session took
    patch,      \* the entries each session has yet to apply
    held,       \* the content each session is about to put in place
    alone       \* no other session was applying since the snapshot

cli      == <<keepOpen, program, keyFile, key, starts, verdict>>
sessions == <<sfs, at, old, patch, held, alone>>
vars == <<cli, rfs, sessions>>

NoKey == 0      \* also the content of an absent file
Torn == -1

\* The types, and that no interleaving of the sessions leaves a file outside
\* a directory.
TypeOK ==
    /\ keepOpen \in BOOLEAN
    /\ program \in {"start", "writing", "serving", "ended", "refused", "down"}
    /\ keyFile \in -1 .. MaxStarts /\ key \in 0 .. MaxStarts
    /\ starts \in 1 .. MaxStarts
    /\ verdict \in {"none", "finished", "error"}
    /\ rfs \in Tree /\ WellFormed(rfs)
    /\ at \in [Session -> {"free", "walked", "apply", "writing", "renaming",
                           "adrift", "finished", "failed"}]
    /\ sfs \in [Session -> Tree] /\ old \in [Session -> Tree]
    /\ held \in [Session -> Data]
    /\ alone \in [Session -> BOOLEAN]

Init ==
    /\ keepOpen \in BOOLEAN
    /\ program = "start" /\ starts = 1
    /\ keyFile = NoKey /\ key = NoKey
    /\ verdict = "none"
    /\ rfs \in ReceiverTrees
    /\ sfs \in [Session -> SenderTrees]
    /\ at = [s \in Session |-> "free"]
    /\ old = [s \in Session |-> NoTree]
    /\ patch = [s \in Session |-> <<>>]
    /\ held = [s \in Session |-> <<>>]
    /\ alone = [s \in Session |-> TRUE]

-----------------------------------------------------------------------------
(* The key file.                                                           *)

\* A file of another length than a key's ends the program.
ReadKey ==
    /\ program = "start" /\ keyFile # NoKey
    /\ IF keyFile = Torn
       THEN program' = "refused" /\ UNCHANGED key
       ELSE program' = "serving" /\ key' = keyFile
    /\ UNCHANGED <<keepOpen, keyFile, starts, verdict, rfs, sessions>>

\* As CreateKeyFile, without the look at the file that is there.
CreateKeyFile_always ==
    /\ program = "start"
    /\ program' = "writing" /\ keyFile' = Torn /\ key' = starts
    /\ UNCHANGED <<keepOpen, starts, verdict, rfs, sessions>>

\* The file is made and then filled.
CreateKeyFile ==
    /\ program = "start" /\ keyFile = NoKey
    /\ program' = "writing" /\ keyFile' = Torn /\ key' = starts
    /\ UNCHANGED <<keepOpen, starts, verdict, rfs, sessions>>

FillKeyFile ==
    /\ program = "writing"
    /\ program' = "serving" /\ keyFile' = key
    /\ UNCHANGED <<keepOpen, key, starts, verdict, rfs, sessions>>

\* The file cannot be made, or cannot be filled: a warning, and a key for
\* this start only.
KeyNotKept ==
    /\ \/ program = "start" /\ keyFile = NoKey /\ key' = starts
       \/ program = "writing" /\ UNCHANGED key
    /\ program' = "serving"
    /\ UNCHANGED <<keepOpen, keyFile, starts, verdict, rfs, sessions>>

-----------------------------------------------------------------------------
(* The sessions.                                                           *)

\* A connection that comes to nothing: its stream, its request or the walk
\* fails before there is a snapshot.  Its name stands for the next one.
FailsEarly ==
    /\ program = "serving" /\ verdict = "none"
    /\ verdict' = "error"
    /\ UNCHANGED <<keepOpen, program, keyFile, key, starts, rfs, sessions>>

Goes(s, place) == at' = [at EXCEPT ![s] = place]

\* The handler sends every verdict to the loop of handle_recv.
Ends(s, outcome) ==
    /\ Goes(s, IF outcome = "error" THEN "failed" ELSE "finished")
    /\ verdict' = IF verdict = "none" THEN outcome ELSE verdict

Over(s) == at[s] \in {"finished", "failed"}

\* Sessions that are applying a patch.
Busy == {s \in Session : at[s] \notin {"free", "walked"} /\ ~Over(s)}

\* s puts tree in place, after which it is at place.  A session in the middle
\* of a write or an update loses what it has open when it is in lost: its
\* file, or the directory of its temporary file, is no longer in the tree.
Changes(s, tree, place, lost) ==
    /\ rfs' = tree
    /\ at' = [r \in Session |->
                 CASE r = s -> place
                   [] r # s /\ r \in lost -> "adrift"
                   [] OTHER -> at[r]]

WritersOf(paths)  == {r \in Session : at[r] = "writing" /\ Head(patch[r]).path \in paths}
RenamersTo(paths) == {r \in Session : at[r] = "renaming" /\ Head(patch[r]).path \in paths}

\* RequestSnapshot, on a connection the router has just accepted.  A session
\* that finds another one applying is not alone: its walk, one step here, may
\* meet a tree that is half way.
Snapshots(s) ==
    /\ program = "serving" /\ at[s] = "free" /\ rfs[Root] # Absent
    /\ Goes(s, "walked")
    /\ old' = [old EXCEPT ![s] = Walk(rfs, {})]
    /\ alone' = [alone EXCEPT ![s] = Busy = {}]
    /\ UNCHANGED <<cli, rfs, sfs, patch, held>>

Listed(snapshot) == {p \in Path : snapshot[p] # Absent}

\* What diff makes of its two snapshots: the entries of its loop over the new
\* keys, then those of its loop over the old ones.
Changed(o, n) == UNION {ToSet(DiffKey(o[k], n[k], k, n[k].data)) : k \in Listed(n)}
Dropped(o, n) == {DeleteEntry(k) : k \in Listed(o) \ Listed(n)}

\* One turn of a loop pushes the two entries of a directory that became a file.
Paired(es) ==
    \A i, j \in DOMAIN es :
        es[i].path = es[j].path /\ es[i].op = "delete" /\ es[j].op = "create" => j = i + 1

\* Both loops go over hash maps, whose order is random.
Patches(o, n) ==
    {c \o d : c \in {es \in SetToSeqs(Changed(o, n)) : Paired(es)}, d \in SetToSeqs(Dropped(o, n))}

\* As ReceivesPatch, with the entries computed from the sender's tree alone.
ReceivesPatch_no_diff(s) ==
    /\ at[s] = "walked" /\ program = "serving" /\ sfs[s][Root] # Absent
    /\ \E es \in Patches(NoTree, Walk(sfs[s], {})) : patch' = [patch EXCEPT ![s] = es]
    /\ IF patch'[s] = <<>>
       THEN Ends(s, "finished") /\ UNCHANGED alone
       ELSE /\ Goes(s, "apply")
            /\ alone' = [r \in Session |-> alone[r] /\ (r # s => at[r] = "free" \/ Over(r))]
            /\ UNCHANGED verdict
    /\ UNCHANGED <<keepOpen, program, keyFile, key, starts, rfs, sfs, old, held>>

\* SendPatch arrives: from here on no other session under way is alone.  An
\* Ack arrives instead when there is nothing to do.
ReceivesPatch(s) ==
    /\ at[s] = "walked" /\ program = "serving" /\ sfs[s][Root] # Absent
    /\ \E es \in Patches(old[s], Walk(sfs[s], {})) : patch' = [patch EXCEPT ![s] = es]
    /\ IF patch'[s] = <<>>
       THEN Ends(s, "finished") /\ UNCHANGED alone
       ELSE /\ Goes(s, "apply")
            /\ alone' = [r \in Session |-> alone[r] /\ (r # s => at[r] = "free" \/ Over(r))]
            /\ UNCHANGED verdict
    /\ UNCHANGED <<keepOpen, program, keyFile, key, starts, rfs, sfs, old, held>>

\* The connection is lost before the patch has arrived, or the sender, whose
\* own walk finds no root, has none to send.
LosesPatch(s) ==
    /\ at[s] = "walked" /\ program = "serving"
    /\ Ends(s, "error")
    /\ UNCHANGED <<keepOpen, program, keyFile, key, starts, rfs, sfs, old, patch, held, alone>>

\* The loop over the items runs without an await: neither a lost connection
\* nor the end of the program's own loop stops it, only a crash does.
Applying(s) == at[s] = "apply" /\ program # "down" /\ patch[s] # <<>>

FailsApplying(s) ==
    /\ Ends(s, "error")
    /\ patch' = [patch EXCEPT ![s] = <<>>]
    /\ UNCHANGED <<keepOpen, program, keyFile, key, starts, rfs, sfs, old, held, alone>>

\* As ApplyItemFails, with the session going on to the next entry.
ApplyItemFails_goes_on(s) ==
    /\ Applying(s) /\ ApplyFails(rfs, Head(patch[s]))
    /\ patch' = [patch EXCEPT ![s] = Tail(@)]
    /\ UNCHANGED <<cli, rfs, sfs, at, old, held, alone>>

ApplyItemFails(s) == Applying(s) /\ ApplyFails(rfs, Head(patch[s])) /\ FailsApplying(s)

Deletes(s) ==
    LET e    == Head(patch[s])
        gone == IF e.path = Root THEN {} ELSE Under(e.path)
    IN  /\ Applying(s) /\ e.op = "delete" /\ ~ApplyFails(rfs, e)
        /\ Changes(s, Applied(rfs, e), "apply",
                   WritersOf(gone \cup ({e.path} \ {Root})) \cup RenamersTo(gone))
        /\ patch' = [patch EXCEPT ![s] = Tail(@)]
        /\ UNCHANGED <<cli, sfs, old, held, alone>>

\* As OpensNew, without create_dir_all.
OpensNew_no_parents(s) ==
    LET e == Head(patch[s])
    IN  /\ Applying(s) /\ e.op = "create" /\ ~ApplyFails(rfs, e)
        /\ Changes(s, Created_no_parents(rfs, e.path, <<>>), "writing", {})
        /\ held' = [held EXCEPT ![s] = e.bytes]
        /\ UNCHANGED <<cli, sfs, old, patch, alone>>

\* write, first half: the file is made or truncated.
OpensNew(s) ==
    LET e == Head(patch[s])
    IN  /\ Applying(s) /\ e.op = "create" /\ ~ApplyFails(rfs, e)
        /\ Changes(s, Created(rfs, e.path, <<>>), "writing", {})
        /\ held' = [held EXCEPT ![s] = e.bytes]
        /\ UNCHANGED <<cli, sfs, old, patch, alone>>

\* What remains of d when c is written over its beginning.
Overwritten(d, c) == c \o SubSeq(d, Len(c) + 1, Len(d))

\* write, second half, into the file that was opened.
FillsNew(s) ==
    LET p == Head(patch[s]).path
    IN  /\ at[s] = "writing" /\ program # "down"
        /\ Changes(s, Updated(rfs, p, Overwritten(rfs[p].data, held[s])), "apply", {})
        /\ patch' = [patch EXCEPT ![s] = Tail(@)]
        /\ UNCHANGED <<cli, sfs, old, held, alone>>

\* The same when the file is no longer in the tree: nobody sees what is written.
FillsLost(s) ==
    /\ at[s] = "adrift" /\ program # "down" /\ Head(patch[s]).op = "create"
    /\ Goes(s, "apply")
    /\ patch' = [patch EXCEPT ![s] = Tail(@)]
    /\ UNCHANGED <<cli, rfs, sfs, old, held, alone>>

\* An update is assembled from the file as it is now, in a temporary file.
Assembles(s) ==
    LET e == Head(patch[s])
    IN  /\ Applying(s) /\ e.op = "update" /\ ~ApplyFails(rfs, e)
        /\ Goes(s, "renaming")
        /\ held' = [held EXCEPT ![s] = Assemble(e.instructs, rfs[e.path].data)]
        /\ UNCHANGED <<cli, rfs, sfs, old, patch, alone>>

\* persist: the temporary file replaces whatever file is there.
Renames(s) ==
    LET p == Head(patch[s]).path
    IN  /\ at[s] = "renaming" /\ program # "down" /\ rfs[p] # Dir
        /\ Changes(s, Updated(rfs, p, held[s]), "apply", WritersOf({p}))
        /\ patch' = [patch EXCEPT ![s] = Tail(@)]
        /\ UNCHANGED <<cli, sfs, old, held, alone>>

\* A directory is there by now, or the temporary file is gone.
RenameFails(s) ==
    /\ \/ at[s] = "renaming" /\ rfs[Head(patch[s]).path] = Dir
       \/ at[s] = "adrift" /\ Head(patch[s]).op = "update"
    /\ program # "down"
    /\ FailsApplying(s)

\* The Ack, whose failure is only logged, then Finished.
Finishes(s) ==
    /\ at[s] = "apply" /\ patch[s] = <<>> /\ program # "down"
    /\ Ends(s, "finished")
    /\ UNCHANGED <<keepOpen, program, keyFile, key, starts, rfs, sfs, old, patch, held, alone>>

-----------------------------------------------------------------------------
(* The program and its environment.                                        *)

\* As Shutdown, with the sessions that apply a patch cut between two entries.
Shutdown_cuts ==
    /\ program = "serving"
    /\ program' = "ended"
    /\ at' = [s \in Session |-> IF at[s] \in {"walked", "apply"} THEN "failed" ELSE at[s]]
    /\ patch' = [s \in Session |-> IF at[s] = "apply" THEN <<>> ELSE patch[s]]
    /\ UNCHANGED <<keepOpen, keyFile, key, starts, verdict, rfs, sfs, old, held, alone>>

\* The router is shut down, which cancels the sessions that wait for a
\* message and waits for those that apply a patch.
Shutdown ==
    /\ program = "serving"
    /\ program' = "ended"
    /\ at' = [s \in Session |-> IF at[s] = "walked" THEN "failed" ELSE at[s]]
    /\ UNCHANGED <<keepOpen, keyFile, key, starts, verdict, rfs, sfs, old, patch, held, alone>>

\* The first verdict ends the program.
EndsProgram == verdict # "none" /\ ~keepOpen /\ Shutdown

\* Ctrl+C.
Interrupt == Shutdown

\* Also while the program that has ended waits for its sessions.
Crash ==
    /\ program \in {"writing", "serving", "ended"} /\ starts < MaxStarts
    /\ program = "ended" => Busy # {}
    /\ program' = "down"
    /\ at' = [s \in Session |-> IF at[s] \in {"free", "finished"} THEN at[s] ELSE "failed"]
    /\ patch' = [s \in Session |-> <<>>]
    /\ UNCHANGED <<keepOpen, keyFile, key, starts, verdict, rfs, sfs, old, held, alone>>

Restart ==
    /\ program \in {"down", "ended"} /\ starts < MaxStarts
    /\ Busy = {}
    /\ program' = "start" /\ starts' = starts + 1
    /\ key' = NoKey /\ verdict' = "none"
    /\ UNCHANGED <<keepOpen, keyFile, rfs, sessions>>

\* What changes neither the tree nor a session.
CliSteps == ReadKey \/ CreateKeyFile \/ FillKeyFile \/ KeyNotKept \/ FailsEarly

ApplySteps(s) ==
    \/ ApplyItemFails(s) \/ Deletes(s) \/ OpensNew(s) \/ FillsNew(s) \/ FillsLost(s)
    \/ Assembles(s) \/ Renames(s) \/ RenameFails(s) \/ Finishes(s)

Next ==
    \/ CliSteps
    \/ \E s \in Session : Snapshots(s) \/ ReceivesPatch(s) \/ LosesPatch(s) \/ ApplySteps(s)
    \/ EndsProgram \/ Interrupt \/ Crash \/ Restart

Spec == Init /\ [][Next]_vars

\* A task that applies a patch is never suspended.
Fairness == \A s \in Session : WF_vars(ApplySteps(s))
FairSpec == Spec /\ Fairness

-----------------------------------------------------------------------------
(* What the command promises.                                              *)

\* The visible files of the tree are those of the sender of s.
Mirrors(s) ==
    \A p \in Path : Visible(p) =>
        /\ IsFile(sfs[s][p]) \/ IsFile(rfs[p]) => rfs[p] = sfs[s][p]
        /\ rfs[p] = Dir => sfs[s][p] = Dir

\* A session that ends with success while no other one was applying since its
\* snapshot leaves the sender's tree, whatever sessions, ends of the program
\* and crashes half way through a patch came before it (RecvProtocol::accept).
MirrorAlone ==
    [][\A s \in Session :
          at[s] # "finished" /\ at'[s] = "finished" /\ alone[s] => Mirrors(s)']_vars

\* However the sessions overlap, none of them touches a path whose entry was,
\* for every session that has walked the tree, the same as its sender's: a
\* stale patch does harm only to paths some sender has something to say of.
SeenEqualKept ==
    [][\A p \in Path :
          /\ Visible(p)
          /\ \A s \in Session : at[s] = "free" \/ old[s][p] = sfs[s][p]
          => rfs'[p] = rfs[p]]_rfs

KeyIsKept == keyFile \notin {NoKey, Torn}

\* Once the key is in its file every later start serves under it, so a ticket
\* that was printed stays good; none refuses to start, and no crash can tear
\* the file any more (handle_recv's use of .patchsync_key).
TicketKept ==
    [][KeyIsKept =>
          /\ keyFile' = keyFile /\ key' \in {NoKey, keyFile}
          /\ program' \notin {"writing", "refused"}]_cli

\* The entry s has come to fails on the tree as it is now.
Blocked(s) ==
    /\ patch[s] # <<>>
    /\ \/ at[s] = "apply" /\ ApplyFails(rfs, Head(patch[s]))
       \/ at[s] = "renaming" /\ rfs[Head(patch[s]).path] = Dir
       \/ at[s] = "adrift" /\ Head(patch[s]).op = "update"

\* A session leaves its patch after the last entry, at an entry that fails or
\* in a crash; until then the patch loses its entries one at a time.
PatchNotCut ==
    [][\A s \in Busy :
          \/ s \in Busy' /\ patch'[s] = patch[s]
          \/ s \in Busy' /\ patch[s] # <<>> /\ patch'[s] = Tail(patch[s])
          \/ at'[s] = "finished" /\ patch[s] = <<>>
          \/ at'[s] = "failed" /\ (Blocked(s) \/ program' = "down")]_vars

\* A session that has its patch goes through it, even when another session's
\* verdict or Ctrl+C ends the program meanwhile: it is over only after its
\* last entry, an entry that fails or a crash, and it does get there
\* (router.shutdown waits for the tasks).
PatchedEnds == PatchNotCut /\ \A s \in Session : at[s] = "apply" ~> Over(s)

\* When every session there was has succeeded, and all of them for the same
\* tree, the receiver has that tree: "receiver files match sender state"
\* (src/lib.rs:381).
OkMeansMirror ==
    \A s \in Session :
        at[s] = "finished" /\ (\A r \in Session : at[r] = "finished" /\ sfs[r] = sfs[s])
            => Mirrors(s)
=============================================================================
