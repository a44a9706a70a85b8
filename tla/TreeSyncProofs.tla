--------------------------- MODULE TreeSyncProofs ---------------------------
(***************************************************************************)
(* Proofs about TreeSync for any trees, any nesting of paths, any content  *)
(* and any number of edits, losses and crashes: the types, that the trees  *)
(* stay well-formed, that what both sides agree on and what is hidden is   *)
(* never touched, that each path is the old one or the new one at every    *)
(* moment, and that a run that succeeds leaves the sender's tree.          *)
(***************************************************************************)
EXTENDS TreeSync, TreeProofs

\* The two snapshots have the same entry for p.
Same(p) == old[p] # Absent /\ old[p] = new[p]

\* What both snapshots agree on is still there.
Untouched == \A p \in Path : Same(p) => rfs[p] = old[p]

PatchInv ==
    /\ \E S : patch \in Seq(S)
    /\ \A i \in 1 .. Len(patch) : Sound(old, new, patch[i])
    /\ phase \in {"idle", "requested", "done", "failed"} => patch = <<>>
    /\ phase = "apply" => patch # <<>>

TodoInv ==
    /\ todo \subseteq Path
    /\ phase = "deletes" => todo \subseteq Deletions

TreesInv ==
    /\ OnPaths(sfs) /\ OnPaths(rfs)
    /\ WellFormed(sfs) /\ WellFormed(rfs) /\ WellFormed(old) /\ WellFormed(new)

\* Until the sender is walked there is nothing to agree on, and until the patch
\* arrives what the receiver's walk found is still there.
PhaseInv ==
    /\ phase \in {"idle", "requested"} => new = NoTree
    /\ phase \in {"requested", "diff", "deletes"} =>
          \A p \in Path : old[p] # Absent => rfs[p] = old[p]

Inv == TreesInv /\ PatchInv /\ TodoInv /\ PhaseInv /\ Untouched

\* The walks list what they may list.
ListedVisible == \A p \in Path : old[p] # Absent \/ new[p] # Absent => Visible(p)

\* The keys the loops of diff have still to reach have no entry yet.
Fresh ==
    /\ phase \in {"diff", "deletes"} => \A p \in todo : ~About(patch, p)
    /\ phase = "diff" => \A p \in Path : p \in todo \/ About(patch, p) => new[p] # Absent

\* Those they have reached have one, unless there is nothing to do.
Covered ==
    \A p \in Path \ todo :
        phase = "deletes" \/ (phase = "diff" /\ new[p] # Absent) =>
            About(patch, p) \/ Agree(old[p], new[p])

ShapeInv ==
    /\ ListedVisible /\ Fresh /\ Covered
    /\ Ordered(new, patch)
    /\ phase = "apply" => Waits(new, patch, rfs)

\* When every walk can open everything: what is visible was seen, and as long
\* as nobody edits the sender the entries carry what it has.
Seen ==
    /\ phase \in {"requested", "diff", "deletes"} =>
          \A p \in Path : Visible(p) => old[p] = rfs[p]
    /\ quiet =>
          /\ phase \notin {"idle", "requested"}
          /\ \A p \in Path : Visible(p) => new[p] = sfs[p] /\ OldOrNew(p)
          /\ \A i \in 1 .. Len(patch) : Meant(old, new, patch[i])
          /\ phase = "apply" => Undone(old, new, patch, rfs)

\* When the receiver's root is no file either, every entry that is applied
\* leaves its path as it should be.
Brought ==
    /\ ~IsFile(rfs[Root]) /\ ~IsFile(old[Root])
    /\ quiet => new[Root] # Absent
    /\ quiet /\ phase \in {"apply", "done"} => Reached(new, patch, rfs)

-----------------------------------------------------------------------------
(* Entries.                                                                *)

\* Applying an entry, or dying inside it, keeps the receiver's tree
\* well-formed.
LEMMA EntryWellFormed ==
    ASSUME TreesInv, NEW e, Sound(old, new, e), ~ApplyFails(rfs, e)
    PROVE  /\ OnPaths(Applied(rfs, e)) /\ WellFormed(Applied(rfs, e))
           /\ \A t \in Interrupted(rfs, e) : OnPaths(t) /\ WellFormed(t)
<1> DEFINE p == e.path
<1>1. p \in Path /\ OnPaths(rfs) /\ WellFormed(rfs)
  BY DEF Sound, TreesInv
<1>2. CASE e.op = "create"
  <2>1. rfs[p] # Dir
    BY <1>2 DEF ApplyFails, CreateFails
  <2>2. \A d : OnPaths(Created(rfs, p, d)) /\ WellFormed(Created(rfs, p, d))
    BY <1>1, <2>1, CreatedWellFormed
  <2>3. ASSUME NEW dirs \in SUBSET Above(p), \A a \in dirs : Above(a) \subseteq dirs
        PROVE  OnPaths(DirsMade(rfs, dirs)) /\ WellFormed(DirsMade(rfs, dirs))
    <3>1. ASSUME NEW q \in Path, DirsMade(rfs, dirs)[q] # Absent, NEW a \in Above(q)
          PROVE  DirsMade(rfs, dirs)[a] = Dir
      <4>1. a \in Path
        BY DEF Above
      <4>2. CASE q \in dirs
        BY <2>3, <3>1, <4>1, <4>2 DEF DirsMade
      <4>3. CASE q \notin dirs
        BY <1>1, <3>1, <4>1, <4>3 DEF DirsMade, WellFormed
      <4> QED
        BY <4>2, <4>3
    <3> QED
      BY <3>1 DEF WellFormed, OnPaths, DirsMade
  <2>4. Applied(rfs, e) = Created(rfs, p, e.bytes)
    BY <1>2 DEF Applied
  <2>5. \A t \in Interrupted(rfs, e) :
            \/ t = rfs
            \/ \E dirs \in SUBSET Above(p) :
                  (\A a \in dirs : Above(a) \subseteq dirs) /\ t = DirsMade(rfs, dirs)
            \/ \E d : t = Created(rfs, p, d)
    BY <1>2 DEF Interrupted
  <2> QED
    BY <1>1, <2>2, <2>3, <2>4, <2>5
<1>3. CASE e.op = "delete"
  <2>1. OnPaths(Applied(rfs, e)) /\ WellFormed(Applied(rfs, e))
    BY <1>1, <1>3, DeletedWellFormed DEF Applied
  <2>2. ASSUME NEW gone \in SUBSET Under(p), \A q \in gone : Under(q) \subseteq gone
        PROVE  WellFormed([q \in Path |-> IF q \in gone THEN Absent ELSE rfs[q]])
    <3>1. gone \in SUBSET Path
      BY DEF Under
    <3> QED
      BY <1>1, <2>2, <3>1, RemovedWellFormed
  <2>3. ASSUME NEW t \in Interrupted(rfs, e) PROVE OnPaths(t) /\ WellFormed(t)
    <3>1. \/ t = rfs
          \/ \E gone \in SUBSET Under(p) :
                /\ \A q \in gone : Under(q) \subseteq gone
                /\ t = [q \in Path |-> IF q \in gone THEN Absent ELSE rfs[q]]
      BY <1>3, <2>3 DEF Interrupted
    <3> QED
      BY <1>1, <2>2, <3>1 DEF OnPaths
  <2> QED
    BY <2>1, <2>3
<1>4. CASE e.op = "update"
  <2>1. IsFile(rfs[p])
    BY <1>4 DEF ApplyFails, UpdateFails
  <2>2. rfs[p] # Dir /\ rfs[p] # Absent
    BY <2>1, KindFacts
  <2>3. \A a \in Above(p) : rfs[a] = Dir
    BY <1>1, <2>2 DEF WellFormed
  <2>4. \A n : OnPaths([rfs EXCEPT ![p] = n]) /\ WellFormed([rfs EXCEPT ![p] = n])
    BY <1>1, <2>2, <2>3, ReplacedWellFormed
  <2>5. Applied(rfs, e) = [rfs EXCEPT ![p] = File(Assemble(e.instructs, rfs[p].data))]
    BY <1>4 DEF Applied, Updated
  <2>6. Interrupted(rfs, e) = {rfs}
    BY <1>4 DEF Interrupted
  <2> QED
    BY <1>1, <2>4, <2>5, <2>6
<1> QED
  BY <1>2, <1>3, <1>4 DEF Sound

\* A path the snapshots agree on is neither the path of an entry nor inside
\* one that is removed, and is a directory already if one is made of it.
LEMMA EntryUntouched ==
    ASSUME TreesInv, Untouched, NEW e, Sound(old, new, e), NEW p \in Path, Same(p)
    PROVE  /\ Applied(rfs, e)[p] = rfs[p]
           /\ \A t \in Interrupted(rfs, e) : t[p] = rfs[p]
<1>1. e.path \in Path /\ p # e.path
  BY DEF Sound, Same
<1>2. rfs[p] = old[p]
  BY DEF Untouched
<1>3. p \notin Under(e.path)
  <2> SUFFICES ASSUME p \in Under(e.path) PROVE FALSE
    OBVIOUS
  <2>1. e.path \in Above(p)
    BY <1>1, UnderAbove
  <2>2. old[e.path] = Dir /\ new[e.path] = Dir
    BY <2>1 DEF Same, TreesInv, WellFormed
  <2> QED
    BY <2>2 DEF Sound
<1>4. CASE e.op = "create"
  <2>1. p \in Above(e.path) => rfs[p] = Dir
    <3>1. new[e.path] # Absent
      BY <1>4, KindFacts DEF Sound
    <3> QED
      BY <1>1, <1>2, <3>1 DEF Same, TreesInv, WellFormed
  <2>2. \A d : Created(rfs, e.path, d)[p] = rfs[p]
    BY <1>1, <2>1 DEF Created
  <2>3. \A dirs \in SUBSET Above(e.path) : DirsMade(rfs, dirs)[p] = rfs[p]
    BY <2>1 DEF DirsMade
  <2>4. Applied(rfs, e) = Created(rfs, e.path, e.bytes)
    BY <1>4 DEF Applied
  <2>5. \A t \in Interrupted(rfs, e) :
            \/ t = rfs
            \/ \E dirs \in SUBSET Above(e.path) : t = DirsMade(rfs, dirs)
            \/ \E d : t = Created(rfs, e.path, d)
    BY <1>4 DEF Interrupted
  <2> QED
    BY <2>2, <2>3, <2>4, <2>5
<1>5. CASE e.op = "delete"
  <2>1. Applied(rfs, e)[p] = rfs[p]
    BY <1>1, <1>3, <1>5 DEF Applied, Deleted
  <2>2. ASSUME NEW t \in Interrupted(rfs, e) PROVE t[p] = rfs[p]
    <3>1. \/ t = rfs
          \/ \E gone \in SUBSET Under(e.path) :
                t = [q \in Path |-> IF q \in gone THEN Absent ELSE rfs[q]]
      BY <1>5, <2>2 DEF Interrupted
    <3> QED
      BY <1>3, <3>1
  <2> QED
    BY <2>1, <2>2
<1>6. CASE e.op = "update"
  <2>1. Applied(rfs, e) = [rfs EXCEPT ![e.path] = File(Assemble(e.instructs, rfs[e.path].data))]
    BY <1>6 DEF Applied, Updated
  <2>2. Interrupted(rfs, e) = {rfs}
    BY <1>6 DEF Interrupted
  <2>3. OnPaths(rfs)
    BY DEF TreesInv
  <2> QED
    BY <1>1, <2>1, <2>2, <2>3 DEF OnPaths
<1> QED
  BY <1>4, <1>5, <1>6 DEF Sound

-----------------------------------------------------------------------------
(* The invariant.                                                          *)

LEMMA InitInv == Init => Inv
<1> SUFFICES ASSUME Init PROVE Inv
  OBVIOUS
<1>1. OnPaths(sfs) /\ OnPaths(rfs) /\ WellFormed(sfs) /\ WellFormed(rfs)
  BY TreeAssumption DEF Init, Tree, OnPaths
<1>2. TreesInv /\ PhaseInv /\ Untouched
  BY <1>1, NoTreeFacts DEF Init, TreesInv, PhaseInv, Untouched, Same
<1>3. PatchInv /\ TodoInv
  BY EmptyPatch DEF Init, PatchInv, TodoInv
<1> QED
  BY <1>2, <1>3 DEF Inv

\* A run that fails forgets its patch.
LEMMA FailStep ==
    ASSUME Inv, Fail, UNCHANGED <<sfs, rfs, old, new>>
    PROVE  Inv'
<1>1. TreesInv' /\ Untouched' /\ PhaseInv'
  BY DEF Inv, Fail, TreesInv, Untouched, Same, PhaseInv
<1>2. PatchInv' /\ TodoInv'
  BY EmptyPatch DEF Fail, PatchInv, TodoInv
<1> QED
  BY <1>1, <1>2 DEF Inv

\* The patch grows at its end by sound entries.
LEMMA GrowPatch ==
    ASSUME PatchInv, UNCHANGED <<old, new>>, NEW d, \E S : d \in Seq(S),
           \A i \in 1 .. Len(d) : Sound(old, new, d[i]),
           patch' = patch \o d
    PROVE  /\ \E S : patch' \in Seq(S)
           /\ \A i \in 1 .. Len(patch') : Sound(old', new', patch'[i])
<1>1. PICK S : patch \in Seq(S)
  BY DEF PatchInv
<1>2. PICK T : d \in Seq(T)
  OBVIOUS
<1>3. patch \in Seq(S \cup T) /\ d \in Seq(S \cup T)
  BY <1>1, <1>2
<1>4. patch' \in Seq(S \cup T)
  BY <1>3
<1>5. \A i \in 1 .. Len(patch') :
          \/ i \in 1 .. Len(patch) /\ patch'[i] = patch[i]
          \/ i - Len(patch) \in 1 .. Len(d) /\ patch'[i] = d[i - Len(patch)]
  BY <1>3
<1>6. \A i \in 1 .. Len(patch') : Sound(old, new, patch'[i])
  BY <1>5 DEF PatchInv
<1>7. ASSUME NEW i \in 1 .. Len(patch') PROVE Sound(old', new', patch'[i])
  BY <1>6, <1>7 DEF Sound
<1> QED
  BY <1>4, <1>7

\* The first entry is taken off the patch.
LEMMA TakeEntry ==
    ASSUME PatchInv, UNCHANGED <<old, new>>, patch # <<>>, patch' = Tail(patch)
    PROVE  /\ Sound(old, new, Head(patch))
           /\ \E S : patch' \in Seq(S)
           /\ \A i \in 1 .. Len(patch') : Sound(old', new', patch'[i])
<1>1. PICK S : patch \in Seq(S)
  BY DEF PatchInv
<1>2. /\ patch' \in Seq(S)
      /\ Head(patch) = patch[1] /\ 1 \in 1 .. Len(patch)
      /\ \A i \in 1 .. Len(patch') :
            i + 1 \in 1 .. Len(patch) /\ patch'[i] = patch[i + 1]
  BY <1>1
<1>3. \A i \in 1 .. Len(patch') : Sound(old, new, patch'[i])
  BY <1>2 DEF PatchInv
<1>4. ASSUME NEW i \in 1 .. Len(patch') PROVE Sound(old', new', patch'[i])
  BY <1>3, <1>4 DEF Sound
<1> QED
  BY <1>2, <1>4 DEF PatchInv

\* The walks.
LEMMA WalkStep ==
    ASSUME Inv, SnapshotReceiver \/ SnapshotSender
    PROVE  Inv'
<1> USE DEF Inv
<1>1. CASE SnapshotReceiver
  <2>1. PICK unread \in SUBSET Unreadable : old' = Walk(rfs, unread)
    BY <1>1 DEF SnapshotReceiver
  <2>2. /\ WellFormed(old)'
        /\ \A p \in Path : old'[p] # Absent => rfs[p] = old'[p]
    BY <2>1, WalkFacts DEF TreesInv
  <2>3. UNCHANGED <<sfs, rfs, new, patch, todo>> /\ phase' = "requested" /\ patch = <<>> /\ new = NoTree
    BY <1>1 DEF SnapshotReceiver, PatchInv, PhaseInv
  <2>4. TreesInv' /\ PhaseInv'
    BY <2>2, <2>3 DEF TreesInv, PhaseInv
  <2>5. Untouched'
    BY <2>2, <2>3 DEF Untouched, Same
  <2>6. PatchInv' /\ TodoInv'
    BY <2>3, EmptyPatch DEF PatchInv, TodoInv
  <2> QED
    BY <2>4, <2>5, <2>6
<1>2. CASE SnapshotSender
  <2>1. PICK unread \in SUBSET Unreadable : new' = Walk(sfs, unread)
    BY <1>2 DEF SnapshotSender
  <2>2. WellFormed(new)'
    BY <2>1, WalkFacts DEF TreesInv
  <2>3. /\ UNCHANGED <<sfs, rfs, old, patch>> /\ phase = "requested" /\ phase' = "diff"
        /\ patch = <<>> /\ todo' \subseteq Path
    BY <1>2 DEF SnapshotSender, PatchInv, Listed
  <2>4. TreesInv' /\ PhaseInv' /\ Untouched'
    BY <2>2, <2>3 DEF TreesInv, PhaseInv, Untouched, Same
  <2>5. PatchInv' /\ TodoInv'
    BY <2>3, EmptyPatch DEF PatchInv, TodoInv
  <2> QED
    BY <2>4, <2>5
<1> QED
  BY <1>1, <1>2

\* The two loops of diff, and the end of it.
LEMMA DiffStep ==
    ASSUME Inv,
           (\E k \in Path : DiffNewKey(k) \/ DiffOldKey(k)) \/ StartDeletes \/ SendPatch
    PROVE  Inv'
<1> USE DEF Inv
<1>1. UNCHANGED <<sfs, rfs, old, new>>
  BY DEF DiffNewKey, DiffOldKey, StartDeletes, SendPatch
<1>2. phase \in {"diff", "deletes"} /\ phase' \in {"diff", "deletes", "apply", "done"}
  BY DEF DiffNewKey, DiffOldKey, StartDeletes, SendPatch
<1>3. TreesInv' /\ Untouched' /\ PhaseInv'
  BY <1>1, <1>2 DEF TreesInv, Untouched, Same, PhaseInv
<1>4. ASSUME NEW k \in Path, DiffNewKey(k) PROVE PatchInv' /\ TodoInv'
  <2> DEFINE d == DiffKey(old[k], new[k], k, sfs[k].data)
  <2>1. (\E S : d \in Seq(S)) /\ \A i \in 1 .. Len(d) : Sound(old, new, d[i])
    BY DiffKeySound
  <2>2. patch' = patch \o d /\ phase = "diff" /\ phase' = "diff" /\ todo' \subseteq todo
    BY <1>4 DEF DiffNewKey
  <2> HIDE DEF d
  <2>3. PatchInv'
    BY <1>1, <2>1, <2>2, GrowPatch DEF PatchInv
  <2> QED
    BY <2>2, <2>3 DEF TodoInv
<1>5. ASSUME NEW k \in Path, DiffOldKey(k) PROVE PatchInv' /\ TodoInv'
  <2> DEFINE d == <<DeleteEntry(k)>>
  <2>1. k \in Deletions /\ patch' = Append(patch, DeleteEntry(k))
        /\ phase = "deletes" /\ phase' = "deletes" /\ todo' \subseteq todo
    BY <1>5 DEF DiffOldKey, TodoInv
  <2>2. Sound(old, new, DeleteEntry(k))
    BY <2>1, KindFacts DEF Sound, DeleteEntry, Deletions, Listed
  <2>3. d \in Seq({DeleteEntry(k)}) /\ Len(d) = 1 /\ d[1] = DeleteEntry(k)
    OBVIOUS
  <2>4. \E S : d \in Seq(S)
    BY <2>3
  <2>5. patch' = patch \o d
    <3>1. PICK S : patch \in Seq(S)
      BY DEF PatchInv
    <3> QED
      BY <2>1, <3>1
  <2> HIDE DEF d
  <2>6. \A i \in 1 .. Len(d) : Sound(old, new, d[i])
    BY <2>2, <2>3
  <2>7. PatchInv'
    BY <1>1, <2>1, <2>4, <2>5, <2>6, GrowPatch DEF PatchInv
  <2> QED
    BY <1>1, <2>1, <2>7 DEF TodoInv, Deletions, Listed
<1>6. CASE StartDeletes
  <2>1. phase' = "deletes" /\ patch' = patch /\ todo' = Deletions
    BY <1>6 DEF StartDeletes
  <2>2. PatchInv'
    BY <1>1, <2>1 DEF PatchInv, Sound
  <2> QED
    BY <1>1, <1>3, <2>1, <2>2 DEF TodoInv, Deletions, Listed
<1>7. CASE SendPatch
  <2>1. /\ phase' = (IF patch = <<>> THEN "done" ELSE "apply")
        /\ patch' = patch /\ todo' = todo /\ todo = {}
    BY <1>7 DEF SendPatch
  <2>2. PatchInv'
    BY <1>1, <2>1 DEF PatchInv, Sound
  <2> QED
    BY <1>1, <1>3, <2>1, <2>2 DEF TodoInv, Deletions, Listed
<1> QED
  BY <1>3, <1>4, <1>5, <1>6, <1>7

\* An entry is applied, or the receiver dies inside one.
LEMMA EntryStep ==
    ASSUME Inv, ApplyItem \/ ReceiverCrash
    PROVE  Inv' /\ \A p \in Path : Same(p) => rfs'[p] = rfs[p]
<1> USE DEF Inv
<1> DEFINE e == Head(patch)
<1>1. /\ phase = "apply" /\ phase' \in {"apply", "done", "failed"} /\ patch # <<>>
      /\ ~ApplyFails(rfs, e) /\ UNCHANGED <<sfs, old, new>>
      /\ todo' \subseteq Path
  BY DEF ApplyItem, ReceiverCrash, Fail, PatchInv, TodoInv
<1>2. Sound(old, new, e)
  <2>1. PICK S : patch \in Seq(S)
    BY DEF PatchInv
  <2>2. Head(patch) = patch[1] /\ 1 \in 1 .. Len(patch)
    BY <1>1, <2>1
  <2> QED
    BY <2>2 DEF PatchInv
<1>3. rfs' = Applied(rfs, e) \/ rfs' \in Interrupted(rfs, e)
  BY DEF ApplyItem, ReceiverCrash
<1> HIDE DEF e
<1>4. OnPaths(rfs') /\ WellFormed(rfs')
  BY <1>1, <1>2, <1>3, EntryWellFormed
<1>5. \A p \in Path : Same(p) => rfs'[p] = rfs[p]
  BY <1>2, <1>3, EntryUntouched
<1>6. TreesInv' /\ Untouched' /\ PhaseInv'
  BY <1>1, <1>4, <1>5 DEF TreesInv, OnPaths, WellFormed, Untouched, Same, PhaseInv
<1>7. PatchInv' /\ TodoInv'
  <2>1. CASE ApplyItem
    <3>1. patch' = Tail(patch) /\ phase' = (IF Tail(patch) = <<>> THEN "done" ELSE "apply")
          /\ todo' = todo
      BY <2>1 DEF ApplyItem
    <3> QED
      BY <1>1, <3>1, TakeEntry DEF PatchInv, TodoInv
  <2>2. CASE ReceiverCrash
    BY <2>2, EmptyPatch DEF ReceiverCrash, Fail, PatchInv, TodoInv
  <2> QED
    BY <2>1, <2>2
<1> QED
  BY <1>5, <1>6, <1>7

\* The user edits the sender's tree.
LEMMA EditStep ==
    ASSUME Inv, SenderEdit
    PROVE  Inv'
<1> USE DEF Inv
<1>1. UNCHANGED <<rfs, phase, old, new, todo, patch>>
  BY DEF SenderEdit
<1>2. OnPaths(sfs') /\ WellFormed(sfs')
  <2>1. PICK p \in Editable \ {Root} :
            \/ /\ \A a \in Above(p) : sfs[a] = Dir
               /\ \/ \E d \in Contents : sfs[p] # Dir /\ sfs' = [sfs EXCEPT ![p] = File(d)]
                  \/ sfs[p] = Absent /\ sfs' = [sfs EXCEPT ![p] = Dir]
            \/ sfs' = Deleted(sfs, p)
    BY DEF SenderEdit
  <2>2. p \in Path /\ OnPaths(sfs) /\ WellFormed(sfs)
    BY TreeAssumption DEF TreesInv
  <2>3. CASE sfs' = Deleted(sfs, p)
    BY <2>2, <2>3, DeletedWellFormed
  <2>4. CASE sfs' # Deleted(sfs, p)
    <3>1. sfs[p] # Dir /\ \A a \in Above(p) : sfs[a] = Dir
      BY <2>1, <2>4, KindFacts
    <3>2. PICK n : sfs' = [sfs EXCEPT ![p] = n]
      BY <2>1, <2>4
    <3>3. OnPaths([sfs EXCEPT ![p] = n]) /\ WellFormed([sfs EXCEPT ![p] = n])
      BY <2>2, <3>1, ReplacedWellFormed
    <3> QED
      BY <3>2, <3>3
  <2> QED
    BY <2>3, <2>4
<1>3. TreesInv' /\ Untouched' /\ PhaseInv' /\ TodoInv'
  BY <1>1, <1>2 DEF TreesInv, OnPaths, WellFormed, Untouched, Same, PhaseInv, TodoInv, Deletions,
     Listed
<1>4. PatchInv'
  BY <1>1 DEF PatchInv, Sound
<1> QED
  BY <1>3, <1>4

LEMMA NextInv ==
    ASSUME Inv, [Next]_vars
    PROVE  Inv' /\ \A p \in Path : Same(p) => rfs'[p] = rfs[p]
<1>1. CASE SnapshotReceiver \/ SnapshotSender
  BY <1>1, WalkStep DEF SnapshotReceiver, SnapshotSender
<1>2. CASE (\E k \in Path : DiffNewKey(k) \/ DiffOldKey(k)) \/ StartDeletes \/ SendPatch
  <2>1. Inv'
    BY <1>2, DiffStep
  <2>2. rfs' = rfs
    BY <1>2 DEF DiffNewKey, DiffOldKey, StartDeletes, SendPatch
  <2> QED
    BY <2>1, <2>2
<1>3. CASE WalkFails \/ (\E k \in Path : DiffReadFails(k)) \/ ApplyItemFails \/ RunLost
  <2>1. Fail /\ UNCHANGED <<sfs, rfs, old, new>>
    BY <1>3 DEF WalkFails, DiffReadFails, ApplyItemFails, RunLost
  <2> QED
    BY <2>1, FailStep
<1>4. CASE ApplyItem \/ ReceiverCrash
  BY <1>4, EntryStep
<1>5. CASE SenderEdit
  BY <1>5, EditStep DEF SenderEdit
<1>6. CASE NewRun
  <2>1. /\ UNCHANGED <<sfs, rfs, todo, patch>> /\ phase' = "idle"
        /\ old' = NoTree /\ new' = NoTree /\ patch = <<>>
    BY <1>6 DEF NewRun, Inv, PatchInv
  <2>2. TreesInv' /\ Untouched' /\ PhaseInv'
    BY <2>1, NoTreeFacts DEF Inv, TreesInv, OnPaths, WellFormed, Untouched, Same, PhaseInv
  <2>3. PatchInv' /\ TodoInv'
    BY <2>1, EmptyPatch DEF Inv, PatchInv, TodoInv
  <2> QED
    BY <2>1, <2>2, <2>3 DEF Inv
<1>7. CASE UNCHANGED vars
  BY <1>7 DEF vars, Inv, TreesInv, OnPaths, WellFormed, PatchInv, Sound, TodoInv, Deletions, Listed,
     PhaseInv, Untouched, Same
<1> QED
  BY <1>1, <1>2, <1>3, <1>4, <1>5, <1>6, <1>7 DEF Next, Run

LEMMA Invariance == Spec => []Inv
<1>1. Inv /\ [Next]_vars => Inv'
  BY NextInv
<1> QED
  BY InitInv, <1>1, PTL DEF Spec

-----------------------------------------------------------------------------
(* The types.                                                              *)

TypeInv == TypeOK /\ \A i \in 1 .. Len(patch) : CopiesPlaced(patch[i].instructs)

LEMMA EntryIsType == Entry = EntryType
BY DEF Entry, EntryType, Instr

LEMMA InitTypes == Init => TypeInv
<1> SUFFICES ASSUME Init PROVE TypeInv
  OBVIOUS
<1>1. sfs \in Tree /\ rfs \in Tree /\ WellFormed(sfs) /\ WellFormed(rfs)
  BY TreeAssumption DEF Init
<1>2. old \in Tree /\ new \in Tree
  BY <1>1, PathAssumption, CallTypes DEF Init
<1>3. patch \in Seq(Entry) /\ Len(patch) = 0
  BY DEF Init
<1>4. phase \in Phases /\ todo \subseteq Path /\ quiet \in BOOLEAN
  BY DEF Init, Phases
<1>5. edits \in 0 .. MaxEdits /\ losses \in 0 .. MaxLosses
  BY TreeAssumption DEF Init
<1> QED
  BY <1>1, <1>2, <1>3, <1>4, <1>5 DEF TypeInv, TypeOK

\* The entries of a patch.
LEMMA PatchTypes ==
    ASSUME TypeInv, Inv, [Next]_vars
    PROVE  patch' \in Seq(Entry) /\ \A i \in 1 .. Len(patch') : CopiesPlaced(patch'[i].instructs)
<1> DEFINE Good(es) == es \in Seq(EntryType) /\ \A i \in 1 .. Len(es) : CopiesPlaced(es[i].instructs)
<1> SUFFICES Good(patch')
  BY EntryIsType
<1>1. Good(patch)
  BY EntryIsType DEF TypeInv, TypeOK
<1>2. Good(<<>>)
  OBVIOUS
<1>3. ASSUME NEW d, Good(d), patch' = patch \o d PROVE Good(patch')
  <2>1. patch' \in Seq(EntryType)
    BY <1>1, <1>3
  <2>2. \A i \in 1 .. Len(patch') :
            \/ i \in 1 .. Len(patch) /\ patch'[i] = patch[i]
            \/ i - Len(patch) \in 1 .. Len(d) /\ patch'[i] = d[i - Len(patch)]
    BY <1>1, <1>3
  <2> QED
    BY <1>1, <1>3, <2>1, <2>2
<1>4. ASSUME patch' = Tail(patch), patch # <<>> PROVE Good(patch')
  <2>1. patch' \in Seq(EntryType)
    BY <1>1, <1>4
  <2>2. \A i \in 1 .. Len(patch') : i + 1 \in 1 .. Len(patch) /\ patch'[i] = patch[i + 1]
    BY <1>1, <1>4
  <2> QED
    BY <1>1, <2>1, <2>2
<1>5. ASSUME NEW k \in Path, DiffNewKey(k) PROVE Good(patch')
  <2> DEFINE d == DiffKey(old[k], new[k], k, sfs[k].data)
  <2>1. sfs[k].data \in Data /\ old[k] \in Node /\ new[k] \in Node
    BY TreeFacts DEF TypeInv, TypeOK
  <2>2. Good(d)
    BY <2>1, DiffKeyFacts
  <2>3. patch' = patch \o d
    BY <1>5 DEF DiffNewKey
  <2> HIDE DEF d
  <2> QED
    BY <1>3, <2>2, <2>3
<1>6. ASSUME NEW k \in Path, DiffOldKey(k) PROVE Good(patch')
  <2>1. patch' = Append(patch, DeleteEntry(k))
    BY <1>6 DEF DiffOldKey
  <2>2. DeleteEntry(k) \in EntryType /\ CopiesPlaced(DeleteEntry(k).instructs)
    BY DEF DeleteEntry, EntryType, CopiesPlaced, Data
  <2>3. Good(<<DeleteEntry(k)>>)
    BY <2>2
  <2>4. patch' = patch \o <<DeleteEntry(k)>>
    BY <1>1, <2>1, <2>2
  <2> HIDE DEF Good
  <2> QED
    BY <1>3, <2>3, <2>4
<1>7. CASE ApplyItem
  BY <1>4, <1>7 DEF ApplyItem, Inv, PatchInv
<1>8. (patch' = <<>> \/ patch' = patch) => Good(patch')
  BY <1>1, <1>2
<1> HIDE DEF Good
<1> QED
  BY <1>5, <1>6, <1>7, <1>8
     DEF Next, Run, SnapshotReceiver, SnapshotSender, WalkFails, DiffReadFails, StartDeletes,
         SendPatch, ApplyItemFails, NewRun, RunLost, ReceiverCrash, SenderEdit, Fail, vars

LEMMA TypeStep ==
    ASSUME TypeInv, Inv, Inv', [Next]_vars
    PROVE  TypeInv'
<1> USE DEF TypeInv, TypeOK
<1>1. patch' \in Seq(Entry) /\ \A i \in 1 .. Len(patch') : CopiesPlaced(patch'[i].instructs)
  BY PatchTypes
<1>2. WellFormed(sfs') /\ WellFormed(rfs') /\ todo' \subseteq Path
  BY DEF Inv, TreesInv, WellFormed, TodoInv
<1>3. rfs' \in Tree
  <2>1. CASE ApplyItem \/ ReceiverCrash
    <3>1. /\ patch # <<>> /\ ~ApplyFails(rfs, Head(patch))
          /\ rfs' = Applied(rfs, Head(patch)) \/ rfs' \in Interrupted(rfs, Head(patch))
      BY <2>1 DEF ApplyItem, ReceiverCrash, Inv, PatchInv
    <3>2. Head(patch) \in EntryType /\ Head(patch) = patch[1] /\ 1 \in 1 .. Len(patch)
      BY <3>1, EntryIsType
    <3> QED
      BY <3>1, <3>2, StageType
  <2>2. CASE ~(ApplyItem \/ ReceiverCrash)
    <3>1. rfs' = rfs
      BY <2>2 DEF Next, Run, SnapshotReceiver, SnapshotSender, WalkFails, DiffNewKey, DiffReadFails,
         DiffOldKey, StartDeletes, SendPatch, ApplyItemFails, NewRun, RunLost, SenderEdit, vars
    <3> QED
      BY <3>1
  <2> QED
    BY <2>1, <2>2
<1>4. sfs' \in Tree
  <2>1. CASE SenderEdit
    <3>1. PICK p \in Editable \ {Root} :
            \/ sfs' = Deleted(sfs, p)
            \/ \E d \in Contents : sfs' = [sfs EXCEPT ![p] = File(d)]
            \/ sfs' = [sfs EXCEPT ![p] = Dir]
      BY <2>1 DEF SenderEdit
    <3>2. p \in Path /\ \A d \in Contents : File(d) \in Node
      BY TreeAssumption, NodeFacts
    <3> QED
      BY <3>1, <3>2, NodeFacts, CallTypes
  <2>2. CASE ~SenderEdit
    <3>1. sfs' = sfs
      BY <2>2 DEF Next, Run, SnapshotReceiver, SnapshotSender, WalkFails, DiffNewKey, DiffReadFails,
         DiffOldKey, StartDeletes, SendPatch, ApplyItem, ApplyItemFails, NewRun, RunLost,
         ReceiverCrash, vars
    <3> QED
      BY <3>1
  <2> QED
    BY <2>1, <2>2
<1>5. old' \in Tree /\ new' \in Tree
  <2>1. /\ old' = old \/ old' = NoTree \/ \E unread : old' = Walk(rfs, unread)
        /\ new' = new \/ new' = NoTree \/ \E unread : new' = Walk(sfs, unread)
    BY DEF Next, Run, SnapshotReceiver, SnapshotSender, WalkFails, DiffNewKey, DiffReadFails,
       DiffOldKey, StartDeletes, SendPatch, ApplyItem, ApplyItemFails, NewRun, RunLost,
       ReceiverCrash, SenderEdit, vars
  <2>2. ASSUME NEW t \in Tree PROVE NoTree \in Tree /\ \A unread : Walk(t, unread) \in Tree
    BY PathAssumption, CallTypes
  <2> QED
    BY <2>1, <2>2
<1>6. phase' \in Phases
  <2>1. \/ phase' = phase
        \/ phase' \in {"idle", "requested", "diff", "deletes", "apply", "done", "failed"}
    BY DEF Next, Run, SnapshotReceiver, SnapshotSender, WalkFails, DiffNewKey, DiffReadFails,
     DiffOldKey, StartDeletes, SendPatch, ApplyItem, ApplyItemFails, NewRun, RunLost,
     ReceiverCrash, SenderEdit, Fail, vars
  <2> QED
    BY <2>1 DEF Phases
<1>7. quiet' = quiet \/ quiet' \in {TRUE, FALSE}
  BY DEF Next, Run, SnapshotReceiver, SnapshotSender, WalkFails, DiffNewKey, DiffReadFails,
     DiffOldKey, StartDeletes, SendPatch, ApplyItem, ApplyItemFails, NewRun, RunLost,
     ReceiverCrash, SenderEdit, Fail, vars
<1>8. edits' = edits \/ (edits' = edits + 1 /\ edits < MaxEdits)
  BY DEF Next, Run, SnapshotReceiver, SnapshotSender, WalkFails, DiffNewKey, DiffReadFails,
     DiffOldKey, StartDeletes, SendPatch, ApplyItem, ApplyItemFails, NewRun, RunLost,
     ReceiverCrash, SenderEdit, Fail, vars
<1>9. losses' = losses \/ (losses' = losses + 1 /\ losses < MaxLosses)
  BY DEF Next, Run, SnapshotReceiver, SnapshotSender, WalkFails, DiffNewKey, DiffReadFails,
     DiffOldKey, StartDeletes, SendPatch, ApplyItem, ApplyItemFails, NewRun, RunLost,
     ReceiverCrash, SenderEdit, Fail, vars
<1>10. edits' \in 0 .. MaxEdits /\ losses' \in 0 .. MaxLosses
  BY <1>8, <1>9, TreeAssumption
<1> QED
  BY <1>1, <1>2, <1>3, <1>4, <1>5, <1>6, <1>7, <1>10

-----------------------------------------------------------------------------
(* The shape of a patch.                                                   *)

LEMMA NoEntries ==
    ASSUME NEW n
    PROVE  Ordered(n, <<>>) /\ \A p : ~About(<<>>, p)
BY EmptyPatch DEF Ordered, About

LEMMA InitShape == Init => ShapeInv
<1> SUFFICES ASSUME Init PROVE ShapeInv
  OBVIOUS
<1>1. ListedVisible
  BY NoTreeFacts DEF Init, ListedVisible
<1>2. Fresh /\ Covered /\ phase # "apply"
  BY DEF Init, Fresh, Covered
<1>3. Ordered(new, patch)
  BY NoEntries DEF Init
<1> QED
  BY <1>1, <1>2, <1>3 DEF ShapeInv

\* The patch grows by the entries of a key that had none.
LEMMA GrowShape ==
    ASSUME TypeInv, ShapeInv, Inv, UNCHANGED <<old, new, phase>>,
           NEW k \in todo, todo' = todo \ {k}, phase \in {"diff", "deletes"},
           NEW d \in Seq(EntryType), patch' = patch \o d, Ordered(new, d),
           AllAbout(d, k),
           d # <<>> \/ Agree(old[k], new[k])
    PROVE  ShapeInv'
<1>1. patch \in Seq(EntryType) /\ k \in Path /\ todo \subseteq Path
  BY EntryIsType DEF TypeInv, TypeOK
<1>2. \A i \in 1 .. Len(d) : ~About(patch, d[i].path)
  BY DEF ShapeInv, Fresh, AllAbout
<1>3. \A p : About(d, p) <=> d # <<>> /\ p = k
  <2>1. d # <<>> => 1 \in 1 .. Len(d)
    OBVIOUS
  <2>2. About(d, k) \/ d = <<>>
    BY <2>1 DEF About, AllAbout
  <2>3. \A p : About(d, p) => p = k /\ Len(d) # 0
    BY DEF About, AllAbout
  <2> QED
    BY <2>2, <2>3
<1>4. /\ Ordered(new, patch \o d)
      /\ \A p : About(patch \o d, p) <=> About(patch, p) \/ About(d, p)
  BY <1>1, <1>2, OrderedJoin DEF ShapeInv
<1>5. \A p : About(patch', p) <=> About(patch, p) \/ (d # <<>> /\ p = k)
  BY <1>3, <1>4
<1>6. Ordered(new', patch')
  BY <1>4
<1>7. Fresh'
  <2>1. \A p \in todo' : ~About(patch', p)
    BY <1>5 DEF ShapeInv, Fresh
  <2>2. phase' = "diff" => \A p \in Path : p \in todo' \/ About(patch', p) => new'[p] # Absent
    BY <1>5 DEF ShapeInv, Fresh
  <2> QED
    BY <2>1, <2>2 DEF Fresh
<1>8. Covered'
  <2> SUFFICES ASSUME NEW p \in Path, p \notin todo',
                      phase = "deletes" \/ (phase = "diff" /\ new[p] # Absent)
               PROVE  About(patch', p) \/ Agree(old[p], new[p])
    BY DEF Covered, Agree, IsFile
  <2>1. CASE p = k
    BY <1>5, <2>1
  <2>2. CASE p # k
    BY <1>5, <2>2 DEF ShapeInv, Covered
  <2> QED
    BY <2>1, <2>2
<1>9. ListedVisible' /\ phase' # "apply"
  BY DEF ShapeInv, ListedVisible
<1> QED
  BY <1>6, <1>7, <1>8, <1>9 DEF ShapeInv

\* When the receiver has the patch, what its entries would clear for a
\* directory is a file, as it was listed.
LEMMA ListedWaits ==
    ASSUME TypeInv, Inv, phase = "deletes"
    PROVE  Waits(new, patch, rfs)
<1> SUFFICES ASSUME NEW i \in 1 .. Len(patch), patch[i].op = "delete", new[patch[i].path] = Dir
             PROVE  IsFile(rfs[patch[i].path])
  BY DEF Waits
<1> DEFINE p == patch[i].path
<1>1. /\ Sound(old, new, patch[i]) /\ p \in Path /\ old[p] \in Node
      /\ old[p] # Absent /\ old[p] # Dir
  BY TreeFacts DEF Inv, PatchInv, TypeInv, TypeOK, Sound
<1>2. IsFile(old[p]) /\ rfs[p] = old[p]
  BY <1>1, NodeFacts DEF Inv, PhaseInv
<1> QED
  BY <1>2

LEMMA PatchUnderway ==
    ASSUME TypeInv, ShapeInv, Inv, phase = "apply"
    PROVE  Underway(old, new, patch, rfs) /\ patch # <<>>
BY EntryIsType DEF TypeInv, TypeOK, ShapeInv, Inv, TreesInv, PatchInv, Underway

LEMMA ShapeStep ==
    ASSUME TypeInv, ShapeInv, Inv, TypeInv', Inv', [Next]_vars
    PROVE  ShapeInv'
<1>1. ASSUME Fail, UNCHANGED <<old, new>> PROVE ShapeInv'
  <2>1. Ordered(new', patch')
    BY <1>1, NoEntries DEF Fail
  <2> QED
    BY <1>1, <2>1 DEF Fail, ShapeInv, ListedVisible, Fresh, Covered
<1>2. CASE WalkFails \/ (\E k \in Path : DiffReadFails(k)) \/ ApplyItemFails \/ RunLost \/ ReceiverCrash
  BY <1>1, <1>2 DEF WalkFails, DiffReadFails, ApplyItemFails, RunLost, ReceiverCrash
<1>3. CASE SnapshotReceiver
  <2>1. PICK unread \in SUBSET Unreadable : old' = Walk(rfs, unread)
    BY <1>3 DEF SnapshotReceiver
  <2>2. /\ phase' = "requested" /\ new' = NoTree
        /\ patch' = <<>>
    BY <1>3 DEF SnapshotReceiver, Inv, PatchInv, PhaseInv
  <2>3. ListedVisible'
    BY <2>1, <2>2, WalkFacts, NoTreeFacts DEF ListedVisible, Inv, TreesInv
  <2>4. Ordered(new', patch')
    BY <2>2, NoEntries
  <2> QED
    BY <2>2, <2>3, <2>4 DEF ShapeInv, Fresh, Covered
<1>4. CASE SnapshotSender
  <2>1. PICK unread \in SUBSET Unreadable : new' = Walk(sfs, unread)
    BY <1>4 DEF SnapshotSender
  <2>2. /\ phase' = "diff" /\ old' = old /\ todo' = {p \in Path : new'[p] # Absent}
        /\ patch' = <<>>
    BY <1>4 DEF SnapshotSender, Inv, PatchInv, Listed
  <2>3. ListedVisible'
    BY <2>1, <2>2, WalkFacts DEF ShapeInv, ListedVisible, Inv, TreesInv
  <2>4. Ordered(new', patch') /\ \A p : ~About(patch', p)
    BY <2>2, NoEntries
  <2>5. Fresh' /\ Covered'
    BY <2>2, <2>4 DEF Fresh, Covered
  <2> QED
    BY <2>2, <2>3, <2>4, <2>5 DEF ShapeInv
<1>5. ASSUME NEW k \in Path, DiffNewKey(k) PROVE ShapeInv'
  <2> DEFINE d == DiffKey(old[k], new[k], k, sfs[k].data)
  <2>1. sfs[k].data \in Data /\ old[k] \in Node /\ new[k] \in Node
    BY TreeFacts DEF TypeInv, TypeOK
  <2>2. /\ phase = "diff" /\ k \in todo /\ todo' = todo \ {k} /\ patch' = patch \o d
        /\ UNCHANGED <<old, new, phase>>
    BY <1>5 DEF DiffNewKey
  <2>3. new[k] # Absent
    BY <2>2 DEF ShapeInv, Fresh
  <2>4. d \in Seq(EntryType) /\ (d = <<>> => Agree(old[k], new[k]))
    BY <2>1, <2>3, DiffKeyFacts
  <2>5. Ordered(new, d) /\ AllAbout(d, k)
    BY DiffKeySound
  <2> HIDE DEF d
  <2> QED
    BY <2>2, <2>4, <2>5, GrowShape
<1>6. ASSUME NEW k \in Path, DiffOldKey(k) PROVE ShapeInv'
  <2> DEFINE e == DeleteEntry(k)
  <2>1. /\ phase = "deletes" /\ k \in todo /\ todo' = todo \ {k} /\ patch' = Append(patch, e)
        /\ UNCHANGED <<old, new, phase>>
    BY <1>6 DEF DiffOldKey
  <2>2. new[k] = Absent
    BY <2>1 DEF Inv, TodoInv, Deletions, Listed
  <2>3. e \in EntryType /\ e.path = k
    BY DEF DeleteEntry, EntryType, Data
  <2>4. patch \in Seq(EntryType)
    BY EntryIsType DEF TypeInv, TypeOK
  <2> HIDE DEF e
  <2>5. /\ <<e>> \in Seq(EntryType) /\ <<e>> # <<>> /\ Len(<<e>>) = 1 /\ <<e>>[1] = e
        /\ patch' = patch \o <<e>>
    BY <2>1, <2>3, <2>4
  <2>6. \A i \in 1 .. Len(<<e>>) : i = 1 /\ <<e>>[i] = e
    BY <2>5
  <2>7. Ordered(new, <<e>>)
    BY <2>2, <2>3, <2>6, KindFacts DEF Ordered
  <2>8. AllAbout(<<e>>, k)
    BY <2>3, <2>6 DEF AllAbout
  <2> QED
    BY <2>1, <2>3, <2>5, <2>7, <2>8, GrowShape
<1>7. CASE StartDeletes
  <2>1. /\ phase = "diff" /\ phase' = "deletes" /\ todo = {} /\ UNCHANGED <<old, new, patch>>
        /\ \A p \in todo' : new[p] = Absent
        /\ \A p \in Path \ todo' : old[p] = Absent \/ new[p] # Absent
    BY <1>7 DEF StartDeletes, Deletions, Listed
  <2>2. Fresh'
    BY <2>1 DEF ShapeInv, Fresh, Inv, TodoInv
  <2>3. Covered'
    <3> SUFFICES ASSUME NEW p \in Path, p \notin todo' PROVE About(patch, p) \/ Agree(old[p], new[p])
      BY <2>1 DEF Covered, Agree, IsFile, About
    <3>1. CASE new[p] = Absent
      BY <2>1, <3>1, KindFacts DEF Agree
    <3>2. CASE new[p] # Absent
      BY <2>1, <3>2 DEF ShapeInv, Covered
    <3> QED
      BY <3>1, <3>2
  <2>4. Ordered(new', patch')
    BY <2>1 DEF ShapeInv
  <2> QED
    BY <2>1, <2>2, <2>3, <2>4 DEF ShapeInv, ListedVisible
<1>8. CASE SendPatch
  <2>1. /\ phase = "deletes" /\ phase' \in {"done", "apply"} /\ UNCHANGED <<old, new, patch, rfs>>
    BY <1>8 DEF SendPatch
  <2>2. Waits(new', patch', rfs')
    BY <2>1, ListedWaits
  <2>3. Ordered(new', patch')
    BY <2>1 DEF ShapeInv
  <2> QED
    BY <2>1, <2>2, <2>3 DEF ShapeInv, ListedVisible, Fresh, Covered
<1>9. CASE ApplyItem
  <2>1. /\ phase = "apply" /\ phase' \in {"done", "apply"} /\ UNCHANGED <<old, new>>
        /\ patch' = Tail(patch) /\ rfs' = Applied(rfs, Head(patch)) /\ ~ApplyFails(rfs, Head(patch))
    BY <1>9 DEF ApplyItem
  <2>2. Underway(old, new, patch, rfs) /\ patch # <<>>
    BY <2>1, PatchUnderway
  <2>3. Waits(new', patch', rfs')
    BY <2>1, <2>2, StillWaits
  <2>4. Ordered(new', patch')
    BY <2>1, <2>2, OrderedTail DEF Underway
  <2> QED
    BY <2>1, <2>3, <2>4 DEF ShapeInv, ListedVisible, Fresh, Covered
<1>10. CASE NewRun
  <2>1. phase' = "idle" /\ new' = NoTree /\ old' = NoTree /\ patch' = <<>>
    BY <1>10 DEF NewRun, Inv, PatchInv
  <2>2. Ordered(new', patch')
    BY <2>1, NoEntries
  <2> QED
    BY <2>1, <2>2, NoTreeFacts DEF ShapeInv, ListedVisible, Fresh, Covered
<1>11. CASE SenderEdit \/ UNCHANGED vars
  <2>1. UNCHANGED <<rfs, phase, old, new, todo, patch>>
    BY <1>11 DEF SenderEdit, vars
  <2>2. Ordered(new', patch') /\ (phase' = "apply" => Waits(new', patch', rfs'))
    BY <2>1 DEF ShapeInv
  <2> QED
    BY <2>1, <2>2 DEF ShapeInv, ListedVisible, Fresh, Covered, Agree, IsFile, About
<1> QED
  BY <1>2, <1>3, <1>4, <1>5, <1>6, <1>7, <1>8, <1>9, <1>10, <1>11 DEF Next, Run

-----------------------------------------------------------------------------
(* What a quiet run does.                                                  *)

Base == Inv /\ TypeInv /\ ShapeInv

LEMMA InitBase == Init => Base
BY InitInv, InitTypes, InitShape DEF Base

LEMMA BaseStep ==
    ASSUME Base, [Next]_vars
    PROVE  Base'
BY NextInv, TypeStep, ShapeStep DEF Base

\* An entry that is applied, or a crash inside one.
LEMMA EntryFacts ==
    ASSUME Base, ApplyItem \/ ReceiverCrash
    PROVE  LET e == Head(patch)
           IN  /\ Underway(old, new, patch, rfs) /\ patch # <<>> /\ ~ApplyFails(rfs, e)
               /\ rfs' = Applied(rfs, e) \/ rfs' \in Interrupted(rfs, e)
               /\ Sound(old, new, e) /\ Visible(e.path)
               /\ e = patch[1] /\ 1 \in 1 .. Len(patch)
               /\ phase = "apply" /\ UNCHANGED <<sfs, old, new, quiet>>
<1>1. /\ phase = "apply" /\ ~ApplyFails(rfs, Head(patch)) /\ UNCHANGED <<sfs, old, new, quiet>>
      /\ rfs' = Applied(rfs, Head(patch)) \/ rfs' \in Interrupted(rfs, Head(patch))
  BY DEF ApplyItem, ReceiverCrash
<1>2. Underway(old, new, patch, rfs) /\ patch # <<>>
  BY <1>1, PatchUnderway DEF Base
<1>3. Sound(old, new, Head(patch)) /\ Head(patch) = patch[1] /\ 1 \in 1 .. Len(patch)
  BY <1>2, HeadFacts
<1>4. Visible(Head(patch).path)
  BY <1>3 DEF Base, ShapeInv, ListedVisible, Sound
<1> QED
  BY <1>1, <1>2, <1>3, <1>4

\* All other steps leave the receiver's tree alone.
LEMMA OtherSteps ==
    ASSUME [Next]_vars, ~(ApplyItem \/ ReceiverCrash)
    PROVE  rfs' = rfs
BY DEF Next, Run, SnapshotReceiver, SnapshotSender, WalkFails, DiffNewKey, DiffReadFails,
   DiffOldKey, StartDeletes, SendPatch, ApplyItemFails, NewRun, RunLost, SenderEdit, vars

\* Entries that are added carry what the sender has.
LEMMA MeantGrows ==
    ASSUME NEW S, patch \in Seq(S), NEW d \in Seq(S), patch' = patch \o d,
           UNCHANGED <<old, new>>,
           \A i \in 1 .. Len(patch) : Meant(old, new, patch[i]),
           \A i \in 1 .. Len(d) : Meant(old, new, d[i])
    PROVE  \A i \in 1 .. Len(patch') : Meant(old', new', patch'[i])
<1>1. \A i \in 1 .. Len(patch') :
          \/ i \in 1 .. Len(patch) /\ patch'[i] = patch[i]
          \/ i - Len(patch) \in 1 .. Len(d) /\ patch'[i] = d[i - Len(patch)]
  OBVIOUS
<1>2. ASSUME NEW i \in 1 .. Len(patch') PROVE Meant(old, new, patch'[i])
  BY <1>1
<1> QED
  BY <1>2 DEF Meant

LEMMA SeenStep ==
    ASSUME Unreadable = {}, Base, Base', Seen, [Next]_vars
    PROVE  Seen'
<1> DEFINE Looks == \A p \in Path : Visible(p) => new[p] = sfs[p] /\ OldOrNew(p)
           Carried == \A i \in 1 .. Len(patch) : Meant(old, new, patch[i])
<1>1. CASE SnapshotReceiver
  <2>1. old' = Walk(rfs, {}) /\ rfs' = rfs /\ ~quiet' /\ phase' = "requested"
    BY <1>1 DEF SnapshotReceiver, Seen
  <2>2. \A p \in Path : Visible(p) => old'[p] = rfs'[p]
    BY <2>1, WalkSees
  <2> QED
    BY <2>1, <2>2 DEF Seen
<1>2. CASE SnapshotSender
  <2>1. /\ new' = Walk(sfs, {}) /\ UNCHANGED <<sfs, rfs, old>> /\ phase = "requested" /\ phase' = "diff"
        /\ patch' = <<>>
    BY <1>2 DEF SnapshotSender, Base, Inv, PatchInv
  <2>2. \A p \in Path : Visible(p) => new'[p] = sfs'[p] /\ old'[p] = rfs'[p]
    BY <2>1, WalkSees DEF Seen
  <2>3. Looks' /\ Carried'
    BY <2>1, <2>2 DEF OldOrNew
  <2> QED
    BY <2>1, <2>2, <2>3 DEF Seen
<1>3. CASE WalkFails \/ (\E k \in Path : DiffReadFails(k)) \/ ApplyItemFails \/ RunLost
  <2>1. /\ phase' = "failed" /\ patch' = <<>> /\ UNCHANGED <<sfs, rfs, old, new, quiet>>
    BY <1>3 DEF WalkFails, DiffReadFails, ApplyItemFails, RunLost, Fail
  <2>2. Looks => Looks'
    BY <2>1 DEF OldOrNew
  <2> QED
    BY <2>1, <2>2 DEF Seen
<1>4. ASSUME NEW k \in Path, DiffNewKey(k) PROVE Seen'
  <2> DEFINE d == DiffKey(old[k], new[k], k, sfs[k].data)
  <2>1. /\ phase = "diff" /\ k \in todo /\ patch' = patch \o d
        /\ UNCHANGED <<sfs, rfs, phase, old, new, quiet>>
    BY <1>4 DEF DiffNewKey
  <2>2. Visible(k)
    BY <2>1 DEF Base, ShapeInv, Fresh, ListedVisible
  <2>3. sfs[k].data \in Data /\ old[k] \in Node /\ new[k] \in Node /\ patch \in Seq(EntryType)
    BY TreeFacts, EntryIsType DEF Base, TypeInv, TypeOK
  <2>4. /\ d \in Seq(EntryType)
        /\ sfs[k].data = new[k].data => \A i \in 1 .. Len(d) : Meant(old, new, d[i])
    BY <2>3, DiffKeyFacts
  <2> HIDE DEF d
  <2>5. quiet => Carried'
    BY <2>1, <2>2, <2>3, <2>4, MeantGrows DEF Seen
  <2>6. Looks => Looks'
    BY <2>1 DEF OldOrNew
  <2> QED
    BY <2>1, <2>5, <2>6 DEF Seen
<1>5. ASSUME NEW k \in Path, DiffOldKey(k) PROVE Seen'
  <2> DEFINE e == DeleteEntry(k)
  <2>1. /\ phase = "deletes" /\ patch' = Append(patch, e)
        /\ UNCHANGED <<sfs, rfs, phase, old, new, quiet>>
    BY <1>5 DEF DiffOldKey
  <2>2. patch \in Seq(EntryType) /\ e \in EntryType /\ Meant(old, new, e)
    BY EntryIsType DEF Base, TypeInv, TypeOK, DeleteEntry, EntryType, Data, Meant
  <2> HIDE DEF e
  <2>3. /\ <<e>> \in Seq(EntryType) /\ patch' = patch \o <<e>>
        /\ \A i \in 1 .. Len(<<e>>) : <<e>>[i] = e
    BY <2>1, <2>2
  <2>4. quiet => Carried'
    BY <2>1, <2>2, <2>3, MeantGrows DEF Seen
  <2>5. Looks => Looks'
    BY <2>1 DEF OldOrNew
  <2> QED
    BY <2>1, <2>4, <2>5 DEF Seen
<1>6. CASE StartDeletes \/ SendPatch
  <2>1. /\ phase \in {"diff", "deletes"} /\ phase' \in {"deletes", "apply", "done"}
        /\ phase' = "apply" => phase = "deletes"
        /\ UNCHANGED <<sfs, rfs, old, new, patch, quiet>>
    BY <1>6 DEF StartDeletes, SendPatch
  <2>2. Looks => Looks'
    BY <2>1 DEF OldOrNew
  <2>3. Carried => Carried'
    BY <2>1 DEF Meant
  <2>4. phase' = "apply" => Undone(old', new', patch', rfs')
    BY <2>1 DEF Seen, Undone
  <2> QED
    BY <2>1, <2>2, <2>3, <2>4 DEF Seen
<1>7. CASE ApplyItem \/ ReceiverCrash
  <2> SUFFICES ASSUME quiet
               PROVE  Looks' /\ Carried' /\ (phase' = "apply" => Undone(old', new', patch', rfs'))
    <3>1. phase' \in {"apply", "done", "failed"}
      BY <1>7 DEF ApplyItem, ReceiverCrash, Fail
    <3> QED
      BY <1>7, <3>1, EntryFacts DEF Seen
  <2> DEFINE e == Head(patch)
  <2>1. /\ Underway(old, new, patch, rfs) /\ patch # <<>> /\ ~ApplyFails(rfs, e)
        /\ rfs' = Applied(rfs, e) \/ rfs' \in Interrupted(rfs, e)
        /\ Sound(old, new, e) /\ Visible(e.path)
        /\ UNCHANGED <<sfs, old, new>>
    BY <1>7, EntryFacts
  <2>2. Undone(old, new, patch, rfs) /\ Meant(old, new, e)
    BY <1>7, EntryFacts DEF Seen
  <2>3. ASSUME NEW p \in Path, Visible(p) PROVE new'[p] = sfs'[p] /\ OldOrNew(p)'
    <3>1. new'[p] = sfs'[p] /\ OldOrNew(p)
      BY <2>1, <2>3 DEF Seen
    <3>2. CASE rfs'[p] = rfs[p]
      BY <2>1, <3>1, <3>2 DEF OldOrNew
    <3>3. CASE rfs'[p] # rfs[p]
      <4>1. \/ rfs'[p] = new[p]
            \/ /\ ~(IsFile(old[p]) /\ IsFile(new[p]))
               /\ \/ rfs'[p] = Absent
                  \/ IsFile(new[p]) /\ IsFile(rfs'[p]) /\ IsPrefix(rfs'[p].data, new[p].data)
        BY <2>1, <2>2, <3>3, StageOldOrNew
      <4> QED
        BY <2>1, <3>1, <4>1 DEF OldOrNew
    <3> QED
      BY <3>1, <3>2, <3>3
  <2>4. CASE ReceiverCrash
    <3>1. patch' = <<>> /\ phase' = "failed"
      BY <2>4 DEF ReceiverCrash, Fail
    <3> QED
      BY <2>3, <3>1
  <2>5. CASE ApplyItem
    <3>1. patch' = Tail(patch) /\ rfs' = Applied(rfs, e)
      BY <2>5 DEF ApplyItem
    <3>2. Undone(old', new', patch', rfs')
      BY <2>1, <2>2, <3>1, StillUndone
    <3>3. \A i \in 1 .. Len(patch') : i + 1 \in 1 .. Len(patch) /\ patch'[i] = patch[i + 1]
      BY <2>1, <3>1, OrderedTail DEF Underway
    <3>4. \A i \in 1 .. Len(patch') : Meant(old, new, patch'[i])
      BY <3>3 DEF Seen
    <3>5. Carried'
      BY <2>1, <3>4 DEF Meant
    <3> QED
      BY <2>3, <3>2, <3>5
  <2> QED
    BY <1>7, <2>4, <2>5
<1>8. CASE NewRun
  BY <1>8 DEF NewRun, Seen
<1>9. CASE SenderEdit
  <2>1. UNCHANGED <<rfs, phase, old>> /\ ~quiet'
    BY <1>9 DEF SenderEdit
  <2> QED
    BY <2>1 DEF Seen
<1>10. CASE UNCHANGED vars
  <2>1. UNCHANGED <<sfs, rfs, phase, old, new, patch, quiet>>
    BY <1>10 DEF vars
  <2>2. Undone(old, new, patch, rfs) => Undone(old', new', patch', rfs')
    BY <2>1
  <2>3. (Looks => Looks') /\ (Carried => Carried')
    BY <2>1 DEF OldOrNew, Meant
  <2> QED
    BY <2>1, <2>2, <2>3 DEF Seen
<1> QED
  BY <1>1, <1>2, <1>3, <1>4, <1>5, <1>6, <1>7, <1>8, <1>9, <1>10 DEF Next, Run

LEMMA InitSeen == Init => Seen
BY DEF Init, Seen

LEMMA BroughtStep ==
    ASSUME Unreadable = {}, Base, Base', Seen, Brought, [Next]_vars
    PROVE  Brought'
<1> USE RootVisible
<1>1. ~IsFile(rfs'[Root])
  <2>1. CASE ApplyItem \/ ReceiverCrash
    <3> DEFINE e == Head(patch)
    <3> SUFFICES ASSUME rfs'[Root] # rfs[Root] PROVE rfs'[Root] = Absent \/ rfs'[Root] = Dir
      BY KindFacts DEF Brought
    <3>1. /\ Underway(old, new, patch, rfs) /\ patch # <<>> /\ ~ApplyFails(rfs, e)
          /\ rfs' = Applied(rfs, e) \/ rfs' \in Interrupted(rfs, e)
          /\ Sound(old, new, e)
      BY <2>1, EntryFacts
    <3>2. Len(e.bytes) \in Nat /\ SubSeq(e.bytes, 1, Len(e.bytes)) = e.bytes
      BY <3>1, HeadFacts
    <3>3. e.path \in Path /\ e.op \in {"create", "delete", "update"}
      BY <3>1 DEF Sound
    <3>4. OnPaths(rfs)
      BY <3>1, TreeFacts DEF Underway
    <3>5. ~(e.op \in {"create", "update"} /\ e.path = Root)
      BY <3>1 DEF ApplyFails, CreateFails, UpdateFails
    <3> HIDE DEF e
    <3> QED
      BY <3>1, <3>2, <3>3, <3>4, <3>5, StageFacts
  <2>2. CASE ~(ApplyItem \/ ReceiverCrash)
    BY <2>2, OtherSteps DEF Brought
  <2> QED
    BY <2>1, <2>2
<1>2. ~IsFile(old'[Root])
  <2>1. CASE SnapshotReceiver
    <3>1. PICK unread : old' = Walk(rfs, unread)
      BY <2>1 DEF SnapshotReceiver
    <3>2. old'[Root] = rfs[Root] \/ old'[Root] = Absent
      BY <3>1 DEF Walk
    <3> QED
      BY <3>2, KindFacts DEF Brought
  <2>2. CASE NewRun
    BY <2>2, NoTreeFacts, KindFacts DEF NewRun
  <2>3. CASE ~(SnapshotReceiver \/ NewRun)
    <3>1. old' = old
      BY <2>3 DEF Next, Run, SnapshotSender, WalkFails, DiffNewKey, DiffReadFails, DiffOldKey,
         StartDeletes, SendPatch, ApplyItem, ApplyItemFails, RunLost, ReceiverCrash, SenderEdit,
         vars
    <3> QED
      BY <3>1 DEF Brought
  <2> QED
    BY <2>1, <2>2, <2>3
<1>3. quiet' => new'[Root] # Absent
  <2>1. CASE SnapshotSender
    <3>1. new' = Walk(sfs, {}) /\ sfs[Root] # Absent
      BY <2>1 DEF SnapshotSender
    <3> QED
      BY <3>1, WalkSees
  <2>2. CASE ~SnapshotSender
    <3>1. quiet' => quiet /\ new' = new
      BY <2>2 DEF Next, Run, SnapshotReceiver, WalkFails, DiffNewKey, DiffReadFails, DiffOldKey,
         StartDeletes, SendPatch, ApplyItem, ApplyItemFails, NewRun, RunLost, ReceiverCrash,
         SenderEdit, vars
    <3> QED
      BY <3>1 DEF Brought
  <2> QED
    BY <2>1, <2>2
<1>4. quiet' /\ phase' \in {"apply", "done"} => Reached(new', patch', rfs')
  <2>1. CASE SendPatch
    <3>1. /\ phase = "deletes" /\ todo = {} /\ UNCHANGED <<rfs, old, new, patch, quiet>>
      BY <2>1 DEF SendPatch
    <3>2. ASSUME NEW p \in Path, Visible(p), ~About(patch, p) PROVE Agree(rfs[p], new[p])
      <4>1. Agree(old[p], new[p])
        BY <3>1, <3>2 DEF Base, ShapeInv, Covered
      <4>2. old[p] = rfs[p]
        BY <3>1, <3>2 DEF Seen
      <4> QED
        BY <4>1, <4>2
    <3> QED
      BY <3>1, <3>2 DEF Reached
  <2>2. CASE ApplyItem
    <3> SUFFICES ASSUME quiet' PROVE Reached(new', patch', rfs')
      OBVIOUS
    <3> DEFINE e == Head(patch)
    <3>1. /\ Underway(old, new, patch, rfs) /\ patch # <<>> /\ ~ApplyFails(rfs, e)
          /\ Sound(old, new, e) /\ Visible(e.path) /\ e = patch[1] /\ 1 \in 1 .. Len(patch)
          /\ phase = "apply" /\ UNCHANGED <<sfs, old, new, quiet>>
      BY <2>2, EntryFacts
    <3>2. patch' = Tail(patch) /\ rfs' = Applied(rfs, e)
      BY <2>2 DEF ApplyItem
    <3>3. Undone(old, new, patch, rfs) /\ Meant(old, new, e)
      BY <3>1 DEF Seen
    <3>4. Reached(new, patch, rfs)
      BY <3>1 DEF Brought
    <3>5. e.op = "delete" /\ e.path = Root => IsFile(new[Root])
      <4>1. old[Root] \in Node /\ new[Root] \in Node
        BY <3>1, TreeFacts DEF Underway
      <4>2. ~IsFile(old[Root]) /\ new[Root] # Absent
        BY <3>1 DEF Brought
      <4> QED
        BY <3>1, <4>1, <4>2, NodeFacts DEF Sound
    <3>6. Reached(new, Tail(patch), Applied(rfs, e))
      BY <3>1, <3>3, <3>4, <3>5, StillReached
    <3> QED
      BY <3>1, <3>2, <3>6
  <2>3. CASE UNCHANGED vars
    BY <2>3 DEF vars, Brought
  <2>4. CASE ~(SendPatch \/ ApplyItem \/ UNCHANGED vars)
    <3>1. ~(quiet' /\ phase' \in {"apply", "done"})
      BY <2>4 DEF Next, Run, SnapshotReceiver, SnapshotSender, WalkFails, DiffNewKey,
         DiffReadFails, DiffOldKey, StartDeletes, ApplyItemFails, NewRun, RunLost, ReceiverCrash,
         SenderEdit, Fail
    <3> QED
      BY <3>1
  <2> QED
    BY <2>1, <2>2, <2>3, <2>4
<1> QED
  BY <1>1, <1>2, <1>3, <1>4 DEF Brought

\* At the end of a quiet run that went through nothing is left to do.
LEMMA BroughtMirrors ==
    ASSUME Base, Seen, Brought
    PROVE  Mirror
<1> SUFFICES ASSUME phase = "done", quiet, NEW p \in Path, Visible(p)
             PROVE  /\ IsFile(sfs[p]) \/ IsFile(rfs[p]) => rfs[p] = sfs[p]
                    /\ rfs[p] = Dir => sfs[p] = Dir
  BY DEF Mirror, InSync
<1>1. Len(patch) = 0
  BY EmptyPatch DEF Base, Inv, PatchInv
<1>2. Agree(rfs[p], new[p]) /\ new[p] = sfs[p]
  BY <1>1 DEF Seen, Brought, Reached, About
<1>3. rfs[p] \in Node /\ sfs[p] \in Node
  BY TreeFacts DEF Base, TypeInv, TypeOK
<1> QED
  BY <1>2, <1>3, NodeFacts, KindFacts DEF Agree

LEMMA BaseAlways == Spec => []Base
<1>1. Base /\ [Next]_vars => Base'
  BY BaseStep
<1> QED
  BY InitBase, <1>1, PTL DEF Spec

LEMMA SeenAlways == ASSUME Unreadable = {} PROVE Spec => []Seen
<1>1. Base /\ Base' /\ Seen /\ [Next]_vars => Seen'
  BY SeenStep
<1> QED
  BY InitSeen, BaseAlways, <1>1, PTL DEF Spec

-----------------------------------------------------------------------------
(* The theorems.                                                           *)

\* Both trees are trees at every moment: neither the order of a patch, nor
\* its failure, nor a crash inside an entry leaves a file without the
\* directories around it.
THEOREM WellFormedCorrect == Spec => [](WellFormed(sfs) /\ WellFormed(rfs))
<1>1. Inv => WellFormed(sfs) /\ WellFormed(rfs)
  BY DEF Inv, TreesInv
<1> QED
  BY Invariance, <1>1, PTL

\* While a run lasts, the receiver's copy of whatever both snapshots agree on
\* is the one in the snapshot.
THEOREM UntouchedCorrect == Spec => []Untouched
<1>1. Inv => Untouched
  BY DEF Inv
<1> QED
  BY Invariance, <1>1, PTL

\* No step of a run touches a path whose entry is the same in both snapshots.
THEOREM UnchangedUntouchedCorrect == Spec => UnchangedUntouched
<1> DEFINE Kept == \A p \in Path : old[p] # Absent /\ old[p] = new[p] => rfs'[p] = rfs[p]
<1>1. Inv /\ [Next]_vars => [Kept]_rfs
  BY NextInv DEF Same
<1> QED
  BY Invariance, <1>1, PTL DEF Spec, UnchangedUntouched

\* Every variable keeps its type and both trees stay trees: what the diff
\* computes can be sent, and what an update assembles is a file's content.
THEOREM TypeCorrect == Spec => []TypeOK
<1>1. Base => TypeOK
  BY DEF Base, TypeInv
<1> QED
  BY BaseAlways, <1>1, PTL

\* What the walk hides is never written, and goes only with a directory the
\* sender does not have: no entry is about a hidden path, and an entry that
\* makes directories or removes a subtree leaves the hidden ones alone.
THEOREM HiddenKeptCorrect == Spec => HiddenKept
<1> DEFINE Kept == \A p \in Path : ~Visible(p) /\ rfs'[p] # rfs[p] =>
                      rfs'[p] = Absent /\ \E a \in Above(p) : new[a] # Dir
<1>1. ASSUME Base, [Next]_vars PROVE Kept
  <2>1. CASE ApplyItem \/ ReceiverCrash
    BY <1>1, <2>1, EntryFacts, StageHidden
  <2>2. CASE ~(ApplyItem \/ ReceiverCrash)
    BY <1>1, <2>2, OtherSteps
  <2> QED
    BY <2>1, <2>2
<1>2. Base /\ [Next]_vars => [Kept]_rfs
  BY <1>1
<1> QED
  BY BaseAlways, <1>2, PTL DEF Spec, HiddenKept

\* When every path can be opened, the receiver's copy of a path is at every
\* moment of a quiet run the old one or the new one, and a file both sides
\* have is never absent or torn, whatever entry the receiver dies in.
THEOREM EachPathOldOrNewCorrect ==
    ASSUME Unreadable = {} PROVE Spec => []EachPathOldOrNew
<1>1. Seen => EachPathOldOrNew
  BY DEF Seen, EachPathOldOrNew
<1> QED
  BY SeenAlways, <1>1, PTL

\* When every path can be opened and the receiver's root is not a file, a
\* quiet run that ends without an error has made the receiver's visible files
\* the sender's, in whatever order the two loops of diff met the keys, and
\* whatever torn runs came before.
THEOREM MirrorCorrect ==
    ASSUME Unreadable = {}, \A t \in ReceiverTrees : ~IsFile(t[Root])
    PROVE  Spec => []Mirror
<1>1. Init => Brought
  BY NoTreeFacts, RootVisible, KindFacts DEF Init, Brought
<1>2. Base /\ Base' /\ Seen /\ Brought /\ [Next]_vars => Brought'
  BY BroughtStep
<1>3. Base /\ Seen /\ Brought => Mirror
  BY BroughtMirrors
<1> QED
  BY BaseAlways, SeenAlways, <1>1, <1>2, <1>3, PTL DEF Spec
=============================================================================
