------------------------------ MODULE TreeSync ------------------------------
(***************************************************************************)
(* Sync runs over one sender tree and one receiver tree.  A run is the     *)
(* data path of one session: RecvProtocol::accept walks the receiver,      *)
(* SendHandler::send_loop walks the sender and computes the diff key by    *)
(* key in the order of its hash maps, and the receiver applies the entries *)
(* of the patch one by one.  The messages between the two sides are the    *)
(* subject of SyncSession; here a run is lost or goes on.                  *)
(*                                                                         *)
(* Meanwhile the user edits the sender's tree, files may refuse to open,   *)
(* and the receiver may die inside an entry.  Only patchsync writes to the *)
(* receiver's tree.                                                        *)
(***************************************************************************)
EXTENDS SnapshotDiff

CONSTANTS
    SenderTrees,    \* the trees the sender may start with
    ReceiverTrees,  \* the trees the receiver may start with
    Unreadable,     \* the paths that can fail to open during a walk or a read
    Editable,       \* the paths the user edits on the sender
    Contents,       \* what the user writes into a file
    MaxEdits,       \* bound on the edits of a behaviour
    MaxLosses       \* bound on lost runs and receiver crashes

ASSUME TreeAssumption ==
    /\ SenderTrees \subseteq Tree /\ ReceiverTrees \subseteq Tree
    /\ \A t \in SenderTrees \cup ReceiverTrees : WellFormed(t)
    /\ Unreadable \subseteq Path /\ Editable \subseteq Path
    /\ Contents \subseteq Data
    /\ MaxEdits \in Nat /\ MaxLosses \in Nat

VARIABLES
    sfs,      \* the sender's file system
    rfs,      \* the receiver's file system
    phase,    \* how far the current run is
    old,      \* the receiver's snapshot, as the sender received it
    new,      \* the sender's snapshot
    todo,     \* the keys the current loop of diff has not reached
    patch,    \* the entries computed so far, then those left to apply
    quiet,    \* no edit of the sender since it was walked
    edits,    \* number of edits so far
    losses    \* number of lost runs and crashes so far

vars == <<sfs, rfs, phase, old, new, todo, patch, quiet, edits, losses>>

Phases == {"idle", "requested", "diff", "deletes", "apply", "done", "failed"}

Entry == [op : {"create", "delete", "update"}, path : Path, bytes : Data,
          instructs : Seq([kind : {"copy", "literal"}, at : Nat, data : Data])]

\* The types, and that whatever exists on either side lies in directories:
\* no order of the entries of a patch makes the receiver's tree impossible.
TypeOK ==
    /\ sfs \in Tree /\ rfs \in Tree /\ old \in Tree /\ new \in Tree
    /\ WellFormed(sfs) /\ WellFormed(rfs)
    /\ phase \in Phases
    /\ todo \subseteq Path
    /\ patch \in Seq(Entry)
    /\ quiet \in BOOLEAN
    /\ edits \in 0 .. MaxEdits /\ losses \in 0 .. MaxLosses

Listed(snapshot) == {p \in Path : snapshot[p] # Absent}

Init ==
    /\ sfs \in SenderTrees /\ rfs \in ReceiverTrees
    /\ phase = "idle"
    /\ old = NoTree /\ new = NoTree
    /\ todo = {} /\ patch = <<>>
    /\ quiet = FALSE
    /\ edits = 0 /\ losses = 0

-----------------------------------------------------------------------------
(* The run.                                                                *)

\* RequestSnapshot: the receiver walks its root.
SnapshotReceiver ==
    /\ phase = "idle" /\ rfs[Root] # Absent
    /\ phase' = "requested"
    /\ \E unread \in SUBSET Unreadable : old' = Walk(rfs, unread)
    /\ UNCHANGED <<sfs, rfs, new, todo, patch, quiet, edits, losses>>

\* Snapshot: the sender walks its own root and starts the diff.
SnapshotSender ==
    /\ phase = "requested" /\ sfs[Root] # Absent
    /\ phase' = "diff"
    /\ \E unread \in SUBSET Unreadable : new' = Walk(sfs, unread)
    /\ todo' = Listed(new')
    /\ quiet' = TRUE
    /\ UNCHANGED <<sfs, rfs, old, patch, edits, losses>>

Fail ==
    /\ phase' = "failed"
    /\ patch' = <<>> /\ todo' = {}

\* walkdir refuses a root that does not exist.
WalkFails ==
    /\ \/ phase = "idle" /\ rfs[Root] = Absent
       \/ phase = "requested" /\ sfs[Root] = Absent
    /\ Fail
    /\ UNCHANGED <<sfs, rfs, old, new, quiet, edits, losses>>

\* One turn of diff's loop over the new entries.  Every file entry is read,
\* the unchanged ones too.
DiffNewKey(k) ==
    /\ phase = "diff" /\ k \in todo
    /\ IsFile(new[k]) => IsFile(sfs[k])
    /\ todo' = todo \ {k}
    /\ patch' = patch \o DiffKey(old[k], new[k], k, sfs[k].data)
    /\ UNCHANGED <<sfs, rfs, phase, old, new, quiet, edits, losses>>

\* The file is gone, is no file any more, or cannot be opened: no patch.
DiffReadFails(k) ==
    /\ phase = "diff" /\ k \in todo
    /\ IsFile(new[k]) /\ (~IsFile(sfs[k]) \/ k \in Unreadable)
    /\ Fail
    /\ UNCHANGED <<sfs, rfs, old, new, quiet, edits, losses>>

\* The first loop ends and the second one, over the old entries, starts.
Deletions == Listed(old) \ Listed(new)

StartDeletes ==
    /\ phase = "diff" /\ todo = {}
    /\ phase' = "deletes"
    /\ todo' = Deletions
    /\ UNCHANGED <<sfs, rfs, old, new, patch, quiet, edits, losses>>

DiffOldKey(k) ==
    /\ phase = "deletes" /\ k \in todo
    /\ todo' = todo \ {k}
    /\ patch' = Append(patch, DeleteEntry(k))
    /\ UNCHANGED <<sfs, rfs, phase, old, new, quiet, edits, losses>>

\* An empty patch ends the run, any other one goes to the receiver.
SendPatch ==
    /\ phase = "deletes" /\ todo = {}
    /\ phase' = IF patch = <<>> THEN "done" ELSE "apply"
    /\ UNCHANGED <<sfs, rfs, old, new, todo, patch, quiet, edits, losses>>

ApplyItem ==
    /\ phase = "apply"
    /\ ~ApplyFails(rfs, Head(patch))
    /\ rfs' = Applied(rfs, Head(patch))
    /\ patch' = Tail(patch)
    /\ phase' = IF Tail(patch) = <<>> THEN "done" ELSE "apply"
    /\ UNCHANGED <<sfs, old, new, todo, quiet, edits, losses>>

\* The first entry that fails ends the run; what was applied stays.
ApplyItemFails ==
    /\ phase = "apply"
    /\ ApplyFails(rfs, Head(patch))
    /\ Fail
    /\ UNCHANGED <<sfs, rfs, old, new, quiet, edits, losses>>

\* The sender starts another run (a new signal, or the program again).
NewRun ==
    /\ phase \in {"done", "failed"}
    /\ phase' = "idle"
    /\ old' = NoTree /\ new' = NoTree
    /\ quiet' = FALSE
    /\ UNCHANGED <<sfs, rfs, todo, patch, edits, losses>>

-----------------------------------------------------------------------------
(* The environment.                                                        *)

\* The connection or a peer is lost before the receiver has the patch.
RunLost ==
    /\ phase \in {"requested", "diff", "deletes"} /\ losses < MaxLosses
    /\ losses' = losses + 1
    /\ Fail
    /\ UNCHANGED <<sfs, rfs, old, new, quiet, edits>>

\* The receiver dies while it applies an entry, and is started again.
ReceiverCrash ==
    /\ phase = "apply" /\ losses < MaxLosses
    /\ losses' = losses + 1
    /\ ~ApplyFails(rfs, Head(patch))
    /\ rfs' \in Interrupted(rfs, Head(patch))
    /\ Fail
    /\ UNCHANGED <<sfs, old, new, quiet, edits>>

\* The user writes a file, makes a directory or removes a subtree.
SenderEdit ==
    /\ edits < MaxEdits
    /\ edits' = edits + 1
    /\ \E p \in Editable \ {Root} :
          \/ /\ \A a \in Above(p) : sfs[a] = Dir
             /\ \/ \E d \in Contents : sfs[p] # Dir /\ sfs' = [sfs EXCEPT ![p] = File(d)]
                \/ sfs[p] = Absent /\ sfs' = [sfs EXCEPT ![p] = Dir]
          \/ sfs' = Deleted(sfs, p)
    /\ sfs' # sfs
    /\ quiet' = FALSE
    /\ UNCHANGED <<rfs, phase, old, new, todo, patch, losses>>

-----------------------------------------------------------------------------
Run ==
    \/ SnapshotReceiver \/ SnapshotSender \/ WalkFails
    \/ \E k \in Path : DiffNewKey(k) \/ DiffReadFails(k) \/ DiffOldKey(k)
    \/ StartDeletes \/ SendPatch
    \/ ApplyItem \/ ApplyItemFails
    \/ NewRun

Next == Run \/ RunLost \/ ReceiverCrash \/ SenderEdit

\* A key that may come first in a loop over a hash map comes first in some
\* run: every map is seeded anew.
FirstKey(k) == DiffNewKey(k) /\ todo = Listed(new)

\* A run that started goes on, and there is always another run.
Fairness == WF_vars(Run) /\ \A k \in Path : SF_vars(FirstKey(k))

Spec == Init /\ [][Next]_vars
FairSpec == Spec /\ Fairness

-----------------------------------------------------------------------------
(* What the runs are for.                                                  *)

\* The receiver has the sender's visible files and no others.  Directories
\* are only made for files, so the sender may have some more of them.
InSync ==
    \A p \in Path : Visible(p) =>
        /\ IsFile(sfs[p]) \/ IsFile(rfs[p]) => rfs[p] = sfs[p]
        /\ rfs[p] = Dir => sfs[p] = Dir

\* A run that ends without an error has made the receiver's visible files
\* equal to the sender's, unless the sender was edited under it
\* (RecvProtocol::accept's Finished, SendHandler's Ack).
Mirror == phase = "done" /\ quiet => InSync

\* Whatever happens to a run, the receiver's copy of a path is at every
\* moment the one from before the run or the sender's; a file both sides have
\* is never absent or partial, and any other path may be absent or, after a
\* crash, hold a prefix of its new content (SnapshotEntry::apply).
OldOrNew(p) ==
    \/ rfs[p] \in {old[p], new[p]}
    \/ /\ ~(IsFile(old[p]) /\ IsFile(new[p]))
       /\ \/ rfs[p] = Absent
          \/ IsFile(new[p]) /\ IsFile(rfs[p]) /\ IsPrefix(rfs[p].data, new[p].data)

EachPathOldOrNew ==
    phase \in {"apply", "done", "failed"} /\ quiet =>
        \A p \in Path : Visible(p) => OldOrNew(p)

\* No step of the receiver touches a path whose entry is the same in both
\* snapshots, whatever the order of the entries, the edits on the sender, the
\* entries that fail and the crashes (diff's `unchanged`, remove_dir_all).
UnchangedUntouched ==
    [][\A p \in Path :
          old[p] # Absent /\ old[p] = new[p] => rfs'[p] = rfs[p]]_rfs

\* What the walk hides, the receiver's .patchsync_key for one, is never
\* written, and goes only with a directory around it that the sender does not
\* have (dirwalker::walkdir skips hidden names, remove_dir_all does not).
HiddenKept ==
    [][\A p \in Path :
          ~Visible(p) /\ rfs'[p] # rfs[p] =>
              rfs'[p] = Absent /\ \E a \in Above(p) : new[a] # Dir]_rfs

\* When both roots exist and once the user stops editing, the receiver becomes
\* and stays equal to the sender, in spite of failed, torn, lost and crashed
\* runs before.
Converges == (sfs[Root] # Absent /\ rfs[Root] # Absent) => <>[]InSync

\* A file the sender has at the end of a run that succeeded is there at the
\* receiver too: "receiver files match sender state" (src/lib.rs:381).
NoFileLost ==
    phase = "done" /\ quiet =>
        \A p \in Path : Visible(p) /\ IsFile(sfs[p]) => IsFile(rfs[p])

\* A run over trees nobody else touches and without a loss does not fail: a
\* path that changes its type is "treated as delete then create"
\* (src/snapshot.rs:285-286), and a root may be "a file" (README.md:3).
QuietRunSucceeds == phase = "failed" => ~quiet \/ losses > 0
=============================================================================
