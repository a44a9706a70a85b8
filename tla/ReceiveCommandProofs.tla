------------------------ MODULE ReceiveCommandProofs -------------------------
(***************************************************************************)
(* Proofs about ReceiveCommand for any number of sessions, any trees and   *)
(* any number of starts: however the sessions overlap, the types hold, the *)
(* receiver's tree stays a tree and what every session saw equal is not    *)
(* touched; a session that is alone leaves its sender's tree; and the key  *)
(* that is kept stays the key.                                             *)
(***************************************************************************)
EXTENDS ReceiveCommand, TreeProofs

\* What the sender of s has, as its walk finds it.
New(s) == Walk(sfs[s], {})

\* Every session that walked the tree found at p what its sender has.
SeenEqual(p) ==
    Visible(p) /\ \A s \in Session : at[s] = "free" \/ old[s][p] = sfs[s][p]

Places == {"free", "walked", "apply", "writing", "renaming", "adrift", "finished", "failed"}

\* at[s] and patch[s] may be changed one by one.
Shape ==
    /\ at \in [Session -> Places]
    /\ patch = [s \in Session |-> patch[s]] /\ old = [s \in Session |-> old[s]]

TreesInv ==
    /\ OnPaths(rfs) /\ WellFormed(rfs)
    /\ \A s \in Session : WellFormed(sfs[s]) /\ WellFormed(old[s])

SoundPatch(s) ==
    /\ \E S : patch[s] \in Seq(S)
    /\ \A i \in 1 .. Len(patch[s]) : Sound(old[s], New(s), patch[s][i])
    /\ at[s] \notin {"apply", "writing", "renaming", "adrift"} => patch[s] = <<>>
    /\ at[s] \in {"writing", "renaming", "adrift"} => patch[s] # <<>>

\* A file that is being written, and the directory of a temporary file, are
\* in the tree.
OpenInTree(s) ==
    /\ at[s] = "writing" =>
          Head(patch[s]).op = "create" /\ IsFile(rfs[Head(patch[s]).path])
    /\ at[s] = "renaming" =>
          Head(patch[s]).op = "update" /\ \A a \in Above(Head(patch[s]).path) : rfs[a] = Dir

\* What every session saw equal is still there.
StillThere ==
    \A p \in Path : SeenEqual(p) =>
        \A s \in Session : at[s] # "free" => old[s][p] = rfs[p]

Inv ==
    /\ Shape /\ TreesInv /\ StillThere
    /\ \A s \in Session : SoundPatch(s) /\ OpenInTree(s)

-----------------------------------------------------------------------------
(* One entry.                                                              *)

\* A walk of everything finds what is visible.
LEMMA WalkVisible ==
    ASSUME NEW t, NEW p \in Path, Visible(p)
    PROVE  Walk(t, {})[p] = t[p]
BY DEF Walk

LEMMA FirstEntry ==
    ASSUME Inv, NEW s \in Session, patch[s] # <<>>
    PROVE  Sound(old[s], New(s), Head(patch[s])) /\ Head(patch[s]).path \in Path
<1>1. PICK S : patch[s] \in Seq(S)
  BY DEF Inv, SoundPatch
<1>2. Head(patch[s]) = patch[s][1] /\ 1 \in 1 .. Len(patch[s])
  BY <1>1
<1> QED
  BY <1>2 DEF Inv, SoundPatch, Sound

\* What all saw equal is not what the first entry of a session is about.
LEMMA EntryKeepsSeen ==
    ASSUME Inv, NEW s \in Session, patch[s] # <<>>, NEW p \in Path, SeenEqual(p)
    PROVE  LET e == Head(patch[s])
           IN  /\ p # e.path
               /\ e.op = "create" => \A d : Created(rfs, e.path, d)[p] = rfs[p]
               /\ Deleted(rfs, e.path)[p] = rfs[p]
<1>1. at[s] # "free"
  BY DEF Inv, SoundPatch
<1>2. old[s][p] = rfs[p] /\ old[s][p] = sfs[s][p] /\ New(s)[p] = sfs[s][p]
  BY <1>1, WalkVisible DEF SeenEqual, Inv, StillThere, New
<1>3. WellFormed(old[s]) /\ WellFormed(New(s))
  BY WalkFacts DEF Inv, TreesInv, New
<1>4. Sound(old[s], New(s), Head(patch[s]))
  BY FirstEntry
<1> DEFINE o == old[s]
           n == New(s)
           e == Head(patch[s])
<1>5. WellFormed(o) /\ WellFormed(n) /\ Sound(o, n, e) /\ o[p] = n[p] /\ rfs[p] = o[p]
  BY <1>2, <1>3, <1>4
<1> HIDE DEF o, n, e
<1>6. e.path \in Path /\ p # e.path
  BY <1>5 DEF Sound
<1>7. ASSUME e.op = "create", NEW d PROVE Created(rfs, e.path, d)[p] = rfs[p]
  <2>1. p \in Above(e.path) => n[p] = Dir
    BY <1>5, <1>6, <1>7, KindFacts DEF Sound, WellFormed
  <2> QED
    BY <1>5, <1>6, <2>1 DEF Created
<1>8. Deleted(rfs, e.path)[p] = rfs[p]
  <2>1. p \in Under(e.path) => rfs[p] = Absent
    <3> SUFFICES ASSUME p \in Under(e.path), o[p] # Absent PROVE FALSE
      BY <1>5
    <3>1. e.path \in Above(p)
      BY <1>6, UnderAbove
    <3>2. o[e.path] = Dir /\ n[e.path] = Dir
      BY <1>5, <3>1 DEF WellFormed
    <3> QED
      BY <1>5, <3>2 DEF Sound
  <2> QED
    BY <1>6, <2>1 DEF Deleted
<1> QED
  BY <1>6, <1>7, <1>8 DEF e

-----------------------------------------------------------------------------
(* The frame of every step of the sessions.                                *)

\* A step that keeps the snapshots and what all saw equal, and after which
\* every patch is sound and every open file in the tree, keeps the invariant.
LEMMA KeepsInv ==
    ASSUME Inv, UNCHANGED <<sfs, old>>, Shape', OnPaths(rfs)', WellFormed(rfs)',
           \A s \in Session : at'[s] = "free" <=> at[s] = "free",
           \A p \in Path : SeenEqual(p) => rfs'[p] = rfs[p],
           \A s \in Session : SoundPatch(s)' /\ OpenInTree(s)'
    PROVE  Inv'
<1>1. TreesInv'
  BY DEF Inv, TreesInv, WellFormed
<1>2. \A p \in Path : SeenEqual(p)' <=> SeenEqual(p)
  BY DEF SeenEqual, Visible
<1>3. StillThere'
  BY <1>2 DEF Inv, StillThere
<1> QED
  BY <1>1, <1>3 DEF Inv

\* The patch of one session is as it was.
LEMMA SamePatch ==
    ASSUME Inv, UNCHANGED <<sfs, old>>, NEW s \in Session, patch'[s] = patch[s],
           at'[s] = at[s] \/ (patch[s] # <<>> /\ at'[s] \in {"writing", "renaming", "adrift"})
    PROVE  SoundPatch(s)'
<1>1. SoundPatch(s)
  BY DEF Inv
<1>2. old'[s] = old[s] /\ New(s)' = New(s)
  BY DEF New, Walk, Visible
<1>3. \A i : Sound(old[s], New(s), patch[s][i])' <=> Sound(old[s], New(s), patch[s][i])
  BY <1>2 DEF Sound
<1>4. (\E S : patch[s] \in Seq(S))'
  BY <1>1 DEF SoundPatch
<1>5. (\A i \in 1 .. Len(patch[s]) : Sound(old[s], New(s), patch[s][i]))'
  BY <1>1, <1>3 DEF SoundPatch
<1> HIDE DEF Sound, New
<1> QED
  BY <1>1, <1>4, <1>5 DEF SoundPatch

\* Its first entry is taken off.
LEMMA ShorterPatch ==
    ASSUME Inv, UNCHANGED <<sfs, old>>, NEW s \in Session, patch[s] # <<>>,
           patch'[s] = Tail(patch[s]), at'[s] = "apply"
    PROVE  SoundPatch(s)'
<1>1. PICK S : patch[s] \in Seq(S)
  BY DEF Inv, SoundPatch
<1>2. /\ patch'[s] \in Seq(S)
      /\ \A i \in 1 .. Len(patch'[s]) :
            i + 1 \in 1 .. Len(patch[s]) /\ patch'[s][i] = patch[s][i + 1]
  BY <1>1
<1>3. \A i \in 1 .. Len(patch'[s]) : Sound(old[s], New(s), patch'[s][i])
  BY <1>2 DEF Inv, SoundPatch
<1>4. old'[s] = old[s] /\ New(s)' = New(s)
  BY DEF New, Walk, Visible
<1> QED
  BY <1>2, <1>3, <1>4 DEF SoundPatch, Sound

\* It is dropped.
LEMMA EmptiedPatch ==
    ASSUME NEW s \in Session, patch'[s] = <<>>, at'[s] \in {"free", "walked", "finished", "failed"}
    PROVE  SoundPatch(s)' /\ OpenInTree(s)'
BY EmptyPatch DEF SoundPatch, OpenInTree

-----------------------------------------------------------------------------
(* The patch that arrives.                                                 *)

\* The entries of one key are at most three different ones, all sound.
LEMMA KeyEntries ==
    ASSUME NEW o, NEW n, NEW k \in Path
    PROVE  LET es == ToSet(DiffKey(o[k], n[k], k, n[k].data))
           IN  IsFiniteSet(es) /\ \A e \in es : Sound(o, n, e)
<1> DEFINE d == DiffKey(o[k], n[k], k, n[k].data)
<1>1. /\ \E S : d \in Seq(S)
      /\ \A i \in 1 .. Len(d) : Sound(o, n, d[i])
  BY DiffKeySound
<1> HIDE DEF d
<1>2. PICK S : d \in Seq(S)
  BY <1>1
<1>3. DOMAIN d = 1 .. Len(d) /\ Len(d) \in Nat
  BY <1>2
<1>4. \A e \in ToSet(d) : Sound(o, n, e)
  BY <1>1, <1>3 DEF ToSet
<1>5. IsFiniteSet(1 .. Len(d))
  BY <1>3, FS_Interval
<1>6. d \in Surjection(1 .. Len(d), ToSet(d))
  BY <1>2, <1>3 DEF Surjection, ToSet
<1>7. IsFiniteSet(ToSet(d))
  BY <1>5, <1>6, FS_Surjection
<1> QED
  BY <1>4, <1>7 DEF d

LEMMA ChangedSound ==
    ASSUME NEW o, NEW n
    PROVE  IsFiniteSet(Changed(o, n)) /\ \A e \in Changed(o, n) : Sound(o, n, e)
<1> DEFINE K == Listed(n)
           F == [k \in K |-> ToSet(DiffKey(o[k], n[k], k, n[k].data))]
           T == {F[k] : k \in K}
<1>1. K \in SUBSET Path /\ IsFiniteSet(K)
  BY ReceiveAssumption, FS_Subset DEF Listed
<1>2. \A k \in K : IsFiniteSet(F[k]) /\ \A e \in F[k] : Sound(o, n, e)
  BY <1>1, KeyEntries
<1>3. Changed(o, n) = UNION T
  BY DEF Changed
<1> HIDE DEF K
<1>4. F \in Surjection(K, T)
  BY DEF Surjection
<1> HIDE DEF F
<1>5. IsFiniteSet(T)
  BY <1>1, <1>4, FS_Surjection
<1>6. \A t \in T : IsFiniteSet(t) /\ \A e \in t : Sound(o, n, e)
  BY <1>2
<1> HIDE DEF T
<1>7. IsFiniteSet(UNION T)
  BY <1>5, <1>6, FS_UNION
<1> QED
  BY <1>3, <1>6, <1>7

LEMMA DroppedSound ==
    ASSUME NEW o, NEW n
    PROVE  IsFiniteSet(Dropped(o, n)) /\ \A e \in Dropped(o, n) : Sound(o, n, e)
<1> DEFINE K == Listed(o) \ Listed(n)
           F == [k \in K |-> DeleteEntry(k)]
<1>1. K \in SUBSET Path /\ IsFiniteSet(K)
  BY ReceiveAssumption, FS_Subset DEF Listed
<1>2. \A k \in K : Sound(o, n, DeleteEntry(k))
  BY <1>1, KindFacts DEF Sound, DeleteEntry, Listed
<1>3. F \in Surjection(K, Dropped(o, n))
  BY DEF Surjection, Dropped
<1> HIDE DEF F
<1>4. IsFiniteSet(Dropped(o, n))
  BY <1>1, <1>3, FS_Surjection
<1> QED
  BY <1>2, <1>4 DEF Dropped

\* Any order of the elements of a finite set is a sequence of them.
LEMMA Orders ==
    ASSUME NEW E, IsFiniteSet(E), NEW es \in SetToSeqs(E)
    PROVE  es \in Seq(E)
<1>1. Cardinality(E) \in Nat
  BY FS_CardinalityType
<1>2. es \in [1 .. Cardinality(E) -> E]
  BY DEF SetToSeqs
<1> QED
  BY <1>1, <1>2

LEMMA PatchesSound ==
    ASSUME NEW o, NEW n, NEW es \in Patches(o, n)
    PROVE  /\ \E S : es \in Seq(S)
           /\ \A i \in 1 .. Len(es) : Sound(o, n, es[i])
<1>1. PICK c \in SetToSeqs(Changed(o, n)), d \in SetToSeqs(Dropped(o, n)) : es = c \o d
  BY DEF Patches
<1>2. c \in Seq(Changed(o, n)) /\ d \in Seq(Dropped(o, n))
  BY ChangedSound, DroppedSound, Orders
<1>3. es \in Seq(Changed(o, n) \cup Dropped(o, n))
  BY <1>1, <1>2
<1>4. \A i \in 1 .. Len(es) : es[i] \in Changed(o, n) \cup Dropped(o, n)
  BY <1>3
<1> QED
  BY <1>3, <1>4, ChangedSound, DroppedSound

-----------------------------------------------------------------------------
(* The invariant.                                                          *)

LEMMA InitInv == Init => Inv
<1> SUFFICES ASSUME Init PROVE Inv
  OBVIOUS
<1>1. Shape
  BY DEF Init, Shape, Places
<1>2. TreesInv
  BY ReceiveAssumption, NoTreeFacts DEF Init, TreesInv, Tree, OnPaths
<1>3. StillThere
  BY DEF Init, StillThere
<1>4. \A s \in Session : SoundPatch(s) /\ OpenInTree(s)
  BY EmptyPatch DEF Init, SoundPatch, OpenInTree
<1> QED
  BY <1>1, <1>2, <1>3, <1>4 DEF Inv

\* A step of s that leaves the tree alone.
LEMMA QuietStep ==
    ASSUME Inv, NEW s \in Session, NEW place \in Places \ {"free"}, at[s] # "free",
           Goes(s, place), UNCHANGED <<rfs, sfs, old>>,
           NEW es, patch' = [patch EXCEPT ![s] = es],
           SoundPatch(s)', OpenInTree(s)'
    PROVE  Inv'
<1>1. /\ at'[s] = place /\ Shape'
      /\ \A r \in Session \ {s} : at'[r] = at[r] /\ patch'[r] = patch[r]
  BY DEF Inv, Shape, Goes
<1>2. ASSUME NEW r \in Session, r # s PROVE SoundPatch(r)' /\ OpenInTree(r)'
  <2>1. at'[r] = at[r] /\ patch'[r] = patch[r]
    BY <1>1, <1>2
  <2>2. SoundPatch(r)'
    BY <2>1, SamePatch
  <2> QED
    BY <2>1, <2>2 DEF Inv, OpenInTree
<1>3. \A r \in Session : at'[r] = "free" <=> at[r] = "free"
  BY <1>1
<1>4. OnPaths(rfs)' /\ WellFormed(rfs)' /\ \A p \in Path : SeenEqual(p) => rfs'[p] = rfs[p]
  BY DEF Inv, TreesInv, OnPaths, WellFormed
<1> QED
  BY <1>1, <1>2, <1>3, <1>4, KeepsInv

\* A step of s that puts a tree in place: what the others have open is either
\* in it or lost to them.
LEMMA LoudStep ==
    ASSUME Inv, NEW s \in Session, NEW tree, NEW place \in {"apply", "writing"}, NEW lost,
           Changes(s, tree, place, lost), at[s] # "free",
           \A r \in lost : at[r] \in {"writing", "renaming"},
           UNCHANGED <<sfs, old>>, NEW es, patch' = [patch EXCEPT ![s] = es],
           OnPaths(tree), WellFormed(tree),
           \A p \in Path : SeenEqual(p) => tree[p] = rfs[p],
           SoundPatch(s)', OpenInTree(s)',
           \A r \in Session \ ({s} \cup lost) :
              /\ at[r] = "writing" => IsFile(tree[Head(patch[r]).path])
              /\ at[r] = "renaming" => \A a \in Above(Head(patch[r]).path) : tree[a] = Dir
    PROVE  Inv' /\ \A p \in Path : SeenEqual(p) => rfs'[p] = rfs[p]
<1>1. /\ rfs' = tree /\ at'[s] = place
      /\ \A r \in Session \ {s} : at'[r] = IF r \in lost THEN "adrift" ELSE at[r]
      /\ \A r \in Session \ {s} : patch'[r] = patch[r]
  BY DEF Changes, Inv, Shape
<1>2. Shape'
  BY <1>1 DEF Changes, Inv, Shape, Places
<1>3. \A r \in Session : at'[r] = "free" <=> at[r] = "free"
  BY <1>1
<1>4. ASSUME NEW r \in Session, r # s PROVE SoundPatch(r)' /\ OpenInTree(r)'
  <2>1. CASE r \in lost
    <3>1. at'[r] = "adrift" /\ patch[r] # <<>> /\ patch'[r] = patch[r]
      BY <1>1, <1>4, <2>1 DEF Inv, SoundPatch
    <3>2. SoundPatch(r)'
      BY <3>1, SamePatch
    <3> QED
      BY <3>1, <3>2 DEF OpenInTree
  <2>2. CASE r \notin lost
    <3>1. at'[r] = at[r] /\ patch'[r] = patch[r]
      BY <1>1, <1>4, <2>2
    <3>2. SoundPatch(r)'
      BY <3>1, SamePatch
    <3>3. OpenInTree(r)'
      BY <1>1, <1>4, <2>2, <3>1 DEF OpenInTree, Inv
    <3> QED
      BY <3>2, <3>3
  <2> QED
    BY <2>1, <2>2
<1>5. OnPaths(rfs)' /\ WellFormed(rfs)' /\ \A p \in Path : SeenEqual(p) => rfs'[p] = rfs[p]
  BY <1>1 DEF OnPaths, WellFormed
<1> QED
  BY <1>2, <1>3, <1>4, <1>5, KeepsInv

-----------------------------------------------------------------------------
(* The steps of a session.                                                 *)

LEMMA SnapshotsStep ==
    ASSUME Inv, NEW s \in Session, Snapshots(s)
    PROVE  Inv' /\ rfs' = rfs
<1>1. /\ at[s] = "free" /\ at'[s] = "walked"
      /\ \A r \in Session : r # s => at'[r] = at[r] /\ old'[r] = old[r]
      /\ old'[s] = Walk(rfs, {})
      /\ UNCHANGED <<rfs, sfs, patch>> /\ Shape'
  BY DEF Snapshots, Goes, Inv, Shape, Places
<1>2. WellFormed(Walk(rfs, {}))
  BY WalkFacts DEF Inv, TreesInv
<1>3. TreesInv'
  BY <1>1, <1>2 DEF Inv, TreesInv, OnPaths, WellFormed
<1>4. ASSUME NEW p \in Path, SeenEqual(p)', NEW r \in Session, at'[r] # "free"
      PROVE  old'[r][p] = rfs'[p]
  <2>1. CASE r = s
    BY <1>1, <1>4, <2>1, WalkVisible DEF SeenEqual, Visible
  <2>2. CASE r # s
    <3>1. SeenEqual(p)
      BY <1>1, <1>4 DEF SeenEqual, Visible
    <3> QED
      BY <1>1, <1>4, <2>2, <3>1 DEF Inv, StillThere
  <2> QED
    BY <2>1, <2>2
<1>5. ASSUME NEW r \in Session PROVE SoundPatch(r)' /\ OpenInTree(r)'
  <2>1. CASE r = s
    <3>1. patch'[s] = <<>>
      BY <1>1 DEF Inv, SoundPatch
    <3> QED
      BY <1>1, <2>1, <3>1, EmptiedPatch
  <2>2. CASE r # s
    <3>1. at'[r] = at[r] /\ patch'[r] = patch[r] /\ old'[r] = old[r] /\ New(r)' = New(r)
      BY <1>1, <2>2 DEF New, Walk, Visible
    <3> QED
      BY <1>1, <3>1 DEF Inv, SoundPatch, OpenInTree, Sound
  <2> QED
    BY <2>1, <2>2
<1> QED
  BY <1>1, <1>3, <1>4, <1>5 DEF Inv, StillThere

\* A session that ends forgets its patch.
LEMMA EndsStep ==
    ASSUME Inv, NEW s \in Session, at[s] # "free", NEW outcome, Ends(s, outcome),
           patch' = [patch EXCEPT ![s] = <<>>], UNCHANGED <<rfs, sfs, old>>
    PROVE  Inv'
<1>1. PICK place \in {"failed", "finished"} : Goes(s, place)
  BY DEF Ends
<1>2. at'[s] = place /\ patch'[s] = <<>>
  BY <1>1 DEF Goes, Inv, Shape
<1>3. SoundPatch(s)' /\ OpenInTree(s)'
  BY <1>1, <1>2, EmptiedPatch
<1>4. place \in Places \ {"free"}
  BY DEF Places
<1> QED
  BY <1>1, <1>3, <1>4, QuietStep

LEMMA OutcomeSteps ==
    ASSUME Inv, NEW s \in Session,
           LosesPatch(s) \/ ApplyItemFails(s) \/ RenameFails(s) \/ Finishes(s)
    PROVE  Inv' /\ rfs' = rfs
<1>1. /\ at[s] # "free" /\ UNCHANGED <<rfs, sfs, old>>
      /\ \E outcome : Ends(s, outcome)
  BY DEF LosesPatch, ApplyItemFails, RenameFails, Finishes, FailsApplying, Applying
<1>2. patch' = [patch EXCEPT ![s] = <<>>]
  <2>1. CASE ApplyItemFails(s) \/ RenameFails(s)
    BY <2>1 DEF ApplyItemFails, RenameFails, FailsApplying
  <2>2. CASE LosesPatch(s) \/ Finishes(s)
    <3>1. patch' = patch /\ patch[s] = <<>>
      BY <2>2 DEF LosesPatch, Finishes, Inv, SoundPatch
    <3>2. patch = [r \in Session |-> patch[r]]
      BY DEF Inv, Shape
    <3> QED
      BY <3>1, <3>2
  <2> QED
    BY <2>1, <2>2
<1> QED
  BY <1>1, <1>2, EndsStep

LEMMA ReceivesStep ==
    ASSUME Inv, NEW s \in Session, ReceivesPatch(s)
    PROVE  Inv' /\ rfs' = rfs
<1>1. PICK es \in Patches(old[s], New(s)) : patch' = [patch EXCEPT ![s] = es]
  BY DEF ReceivesPatch, New
<1>2. at[s] = "walked" /\ UNCHANGED <<rfs, sfs, old>> /\ patch'[s] = es
  BY <1>1 DEF ReceivesPatch, Inv, Shape
<1>3. CASE es = <<>>
  <2>1. Ends(s, "finished")
    BY <1>2, <1>3 DEF ReceivesPatch
  <2> QED
    BY <1>1, <1>2, <1>3, <2>1, EndsStep
<1>4. CASE es # <<>>
  <2>1. Goes(s, "apply") /\ at'[s] = "apply"
    BY <1>2, <1>4 DEF ReceivesPatch, Goes, Inv, Shape
  <2>2. (\E S : es \in Seq(S)) /\ \A i \in 1 .. Len(es) : Sound(old[s], New(s), es[i])
    BY PatchesSound
  <2>3. SoundPatch(s)' /\ OpenInTree(s)'
    <3>1. old'[s] = old[s] /\ New(s)' = New(s)
      BY <1>2 DEF New, Walk, Visible
    <3> QED
      BY <1>2, <2>1, <2>2, <3>1 DEF SoundPatch, OpenInTree, Sound
  <2> QED
    BY <1>1, <1>2, <2>1, <2>3, QuietStep DEF Places
<1> QED
  BY <1>2, <1>3, <1>4

LEMMA FillsLostStep ==
    ASSUME Inv, NEW s \in Session, FillsLost(s)
    PROVE  Inv' /\ rfs' = rfs
<1>1. /\ at[s] = "adrift" /\ Goes(s, "apply") /\ UNCHANGED <<rfs, sfs, old>>
      /\ patch' = [patch EXCEPT ![s] = Tail(patch[s])] /\ patch[s] # <<>>
  BY DEF FillsLost, Inv, SoundPatch
<1>2. at'[s] = "apply" /\ patch'[s] = Tail(patch[s])
  BY <1>1 DEF Goes, Inv, Shape
<1>3. SoundPatch(s)' /\ OpenInTree(s)'
  BY <1>1, <1>2, ShorterPatch DEF OpenInTree
<1> QED
  BY <1>1, <1>3, QuietStep DEF Places

LEMMA AssemblesStep ==
    ASSUME Inv, NEW s \in Session, Assembles(s)
    PROVE  Inv' /\ rfs' = rfs
<1> DEFINE p == Head(patch[s]).path
<1>1. /\ at[s] = "apply" /\ patch[s] # <<>> /\ Head(patch[s]).op = "update"
      /\ ~ApplyFails(rfs, Head(patch[s]))
      /\ Goes(s, "renaming") /\ UNCHANGED <<rfs, sfs, old, patch>>
  BY DEF Assembles, Applying
<1>2. at'[s] = "renaming" /\ patch' = [patch EXCEPT ![s] = patch[s]]
  <2>1. patch = [r \in Session |-> patch[r]] /\ at \in [Session -> Places]
    BY DEF Inv, Shape
  <2> QED
    BY <1>1, <2>1 DEF Goes
<1>3. p \in Path /\ IsFile(rfs[p])
  BY <1>1, FirstEntry DEF ApplyFails, UpdateFails
<1>4. \A a \in Above(p) : rfs[a] = Dir
  BY <1>3, KindFacts DEF Inv, TreesInv, WellFormed
<1>5. SoundPatch(s)'
  BY <1>1, <1>2, SamePatch
<1>6. OpenInTree(s)'
  BY <1>1, <1>2, <1>4 DEF OpenInTree
<1> QED
  BY <1>1, <1>2, <1>5, <1>6, QuietStep DEF Places

\* A removal takes what others have open inside it out of their reach.
LEMMA DeletesStep ==
    ASSUME Inv, NEW s \in Session, Deletes(s)
    PROVE  Inv' /\ \A p \in Path : SeenEqual(p) => rfs'[p] = rfs[p]
<1> DEFINE e == Head(patch[s])
           gone == IF e.path = Root THEN {} ELSE Under(e.path)
           lost == WritersOf(gone \cup ({e.path} \ {Root})) \cup RenamersTo(gone)
           tree == Deleted(rfs, e.path)
<1>1. /\ at[s] = "apply" /\ patch[s] # <<>> /\ e.op = "delete"
      /\ Changes(s, tree, "apply", lost)
      /\ patch' = [patch EXCEPT ![s] = Tail(patch[s])] /\ UNCHANGED <<sfs, old>>
  BY DEF Deletes, Applying, Applied
<1>2. e.path \in Path
  BY <1>1, FirstEntry
<1>3. OnPaths(tree) /\ WellFormed(tree)
  BY <1>2, DeletedWellFormed DEF Inv, TreesInv
<1>4. \A p \in Path : SeenEqual(p) => tree[p] = rfs[p]
  BY <1>1, EntryKeepsSeen
<1>5. SoundPatch(s)' /\ OpenInTree(s)'
  <2>1. at'[s] = "apply" /\ patch'[s] = Tail(patch[s])
    BY <1>1 DEF Changes, Inv, Shape
  <2> QED
    BY <1>1, <2>1, ShorterPatch DEF OpenInTree
<1>6. \A r \in lost : at[r] \in {"writing", "renaming"}
  BY DEF WritersOf, RenamersTo
<1>7. \A q \in Path : q \notin Under(e.path) \cup {e.path} \/ e.path = Root => tree[q] = rfs[q]
  BY DEF Deleted
<1>8. ASSUME NEW r \in Session, r \notin lost, at[r] = "writing"
      PROVE  IsFile(tree[Head(patch[r]).path])
  <2>1. Head(patch[r]).path \in Path /\ IsFile(rfs[Head(patch[r]).path])
    BY <1>8, FirstEntry DEF Inv, SoundPatch, OpenInTree
  <2>2. Head(patch[r]).path \notin Under(e.path) \cup {e.path} \/ e.path = Root
    BY <1>8 DEF WritersOf
  <2> QED
    BY <1>7, <2>1, <2>2
<1>9. ASSUME NEW r \in Session, r \notin lost, at[r] = "renaming",
             NEW a \in Above(Head(patch[r]).path)
      PROVE  tree[a] = Dir
  <2>1. Head(patch[r]).path \in Path /\ a \in Path /\ rfs[a] = Dir
    BY <1>9, FirstEntry DEF Inv, SoundPatch, OpenInTree, Above
  <2>2. Head(patch[r]).path \notin Under(e.path) \/ e.path = Root
    BY <1>9 DEF RenamersTo
  <2>3. a \notin Under(e.path) \cup {e.path} \/ e.path = Root
    BY <1>2, <1>9, <2>1, <2>2, UnderAbove, AboveTransitive
  <2> QED
    BY <1>7, <2>1, <2>3
<1>10. \A r \in Session \ ({s} \cup lost) :
          /\ at[r] = "writing" => IsFile(tree[Head(patch[r]).path])
          /\ at[r] = "renaming" => \A a \in Above(Head(patch[r]).path) : tree[a] = Dir
  BY <1>8, <1>9
<1>11. at[s] # "free"
  BY <1>1
<1> HIDE DEF e, gone, lost, tree
<1> QED
  BY <1>1, <1>3, <1>4, <1>5, <1>6, <1>10, <1>11, LoudStep

\* A file is only made where no file is in the way and no directory is.
LEMMA OpensNewStep ==
    ASSUME Inv, NEW s \in Session, OpensNew(s)
    PROVE  Inv' /\ \A p \in Path : SeenEqual(p) => rfs'[p] = rfs[p]
<1> DEFINE e == Head(patch[s])
           tree == Created(rfs, e.path, <<>>)
<1>1. /\ at[s] = "apply" /\ patch[s] # <<>> /\ e.op = "create" /\ ~ApplyFails(rfs, e)
      /\ Changes(s, tree, "writing", {}) /\ UNCHANGED <<sfs, old, patch>>
  BY DEF OpensNew, Applying
<1>2. e.path \in Path /\ rfs[e.path] # Dir /\ \A a \in Above(e.path) : ~IsFile(rfs[a])
  BY <1>1, FirstEntry DEF ApplyFails, CreateFails, ThroughFile
<1>3. /\ OnPaths(tree) /\ WellFormed(tree)
      /\ \A q \in Path \ ({e.path} \cup Above(e.path)) : tree[q] = rfs[q]
      /\ \A q \in Above(e.path) : tree[q] = Dir
      /\ tree[e.path] = File(<<>>)
  BY <1>2, CreatedWellFormed DEF Inv, TreesInv
<1>4. \A p \in Path : SeenEqual(p) => tree[p] = rfs[p]
  BY <1>1, EntryKeepsSeen
<1>5. at'[s] = "writing" /\ patch' = [patch EXCEPT ![s] = patch[s]] /\ rfs' = tree
  <2>1. patch = [r \in Session |-> patch[r]]
    BY DEF Inv, Shape
  <2> QED
    BY <1>1, <2>1 DEF Changes
<1>6. SoundPatch(s)'
  BY <1>1, <1>5, SamePatch
<1>7. OpenInTree(s)'
  BY <1>1, <1>3, <1>5, KindFacts DEF OpenInTree
<1>8. ASSUME NEW r \in Session, at[r] = "writing" PROVE IsFile(tree[Head(patch[r]).path])
  <2>1. Head(patch[r]).path \in Path /\ IsFile(rfs[Head(patch[r]).path])
    BY <1>8, FirstEntry DEF Inv, SoundPatch, OpenInTree
  <2> QED
    BY <1>2, <1>3, <2>1, KindFacts
<1>9. ASSUME NEW r \in Session, at[r] = "renaming", NEW a \in Above(Head(patch[r]).path)
      PROVE  tree[a] = Dir
  <2>1. a \in Path /\ rfs[a] = Dir
    BY <1>9 DEF Inv, OpenInTree, Above
  <2> QED
    BY <1>2, <1>3, <2>1
<1>10. \A r \in Session \ ({s} \cup {}) :
          /\ at[r] = "writing" => IsFile(tree[Head(patch[r]).path])
          /\ at[r] = "renaming" => \A a \in Above(Head(patch[r]).path) : tree[a] = Dir
  BY <1>8, <1>9
<1>11. at[s] # "free" /\ UNCHANGED <<sfs, old>> /\ \A r \in {} : at[r] \in {"writing", "renaming"}
  BY <1>1
<1> DEFINE none == {}
<1> HIDE DEF e, tree, none
<1>12. /\ Changes(s, tree, "writing", none) /\ \A r \in none : at[r] \in {"writing", "renaming"}
       /\ \A r \in Session \ ({s} \cup none) :
            /\ at[r] = "writing" => IsFile(tree[Head(patch[r]).path])
            /\ at[r] = "renaming" => \A a \in Above(Head(patch[r]).path) : tree[a] = Dir
  BY <1>1, <1>10 DEF none
<1> QED
  BY <1>3, <1>4, <1>5, <1>6, <1>7, <1>11, <1>12, LoudStep

\* A file is put in the place of what is not a directory.
LEMMA ReplacesStep ==
    ASSUME Inv, NEW s \in Session, at[s] # "free", patch[s] # <<>>, NEW d,
           rfs[Head(patch[s]).path] # Dir,
           \A a \in Above(Head(patch[s]).path) : rfs[a] = Dir,
           NEW lost, \A r \in lost : at[r] = "writing",
           Changes(s, Updated(rfs, Head(patch[s]).path, d), "apply", lost),
           patch' = [patch EXCEPT ![s] = Tail(patch[s])], UNCHANGED <<sfs, old>>
    PROVE  Inv' /\ \A p \in Path : SeenEqual(p) => rfs'[p] = rfs[p]
<1> DEFINE q == Head(patch[s]).path
           tree == [rfs EXCEPT ![q] = File(d)]
<1>1. q \in Path /\ OnPaths(rfs) /\ WellFormed(rfs)
  BY FirstEntry DEF Inv, TreesInv
<1>2. OnPaths(tree) /\ WellFormed(tree)
  BY <1>1, ReplacedWellFormed
<1>3. tree[q] = File(d) /\ \A p \in Path \ {q} : tree[p] = rfs[p]
  BY <1>1 DEF OnPaths
<1>4. \A p \in Path : SeenEqual(p) => tree[p] = rfs[p]
  BY <1>3, EntryKeepsSeen
<1>5. at'[s] = "apply" /\ patch'[s] = Tail(patch[s]) /\ Changes(s, tree, "apply", lost)
  BY DEF Changes, Inv, Shape, Updated
<1>6. SoundPatch(s)' /\ OpenInTree(s)'
  BY <1>5, ShorterPatch DEF OpenInTree
<1>7. ASSUME NEW r \in Session, at[r] = "writing" PROVE IsFile(tree[Head(patch[r]).path])
  <2>1. Head(patch[r]).path \in Path /\ IsFile(rfs[Head(patch[r]).path])
    BY <1>7, FirstEntry DEF Inv, SoundPatch, OpenInTree
  <2> QED
    BY <1>3, <2>1, KindFacts
<1>8. ASSUME NEW r \in Session, at[r] = "renaming", NEW a \in Above(Head(patch[r]).path)
      PROVE  tree[a] = Dir
  <2>1. a \in Path /\ rfs[a] = Dir
    BY <1>8 DEF Inv, OpenInTree, Above
  <2> QED
    BY <1>3, <2>1
<1>9. \A r \in Session \ ({s} \cup lost) :
          /\ at[r] = "writing" => IsFile(tree[Head(patch[r]).path])
          /\ at[r] = "renaming" => \A a \in Above(Head(patch[r]).path) : tree[a] = Dir
  BY <1>7, <1>8
<1>10. \A r \in lost : at[r] \in {"writing", "renaming"}
  OBVIOUS
<1> HIDE DEF q, tree
<1> QED
  BY <1>2, <1>4, <1>5, <1>6, <1>9, <1>10, LoudStep

LEMMA FillsNewStep ==
    ASSUME Inv, NEW s \in Session, FillsNew(s)
    PROVE  Inv' /\ \A p \in Path : SeenEqual(p) => rfs'[p] = rfs[p]
<1> DEFINE p == Head(patch[s]).path
<1>1. at[s] = "writing" /\ patch[s] # <<>> /\ IsFile(rfs[p]) /\ p \in Path
  BY FirstEntry DEF FillsNew, Inv, SoundPatch, OpenInTree
<1>2. rfs[p] # Dir /\ \A a \in Above(p) : rfs[a] = Dir
  BY <1>1, KindFacts DEF Inv, TreesInv, WellFormed
<1>3. /\ Changes(s, Updated(rfs, p, Overwritten(rfs[p].data, held[s])), "apply", {})
      /\ patch' = [patch EXCEPT ![s] = Tail(patch[s])] /\ UNCHANGED <<sfs, old>>
  BY DEF FillsNew
<1> DEFINE none == {}
           d == Overwritten(rfs[p].data, held[s])
<1> HIDE DEF none, d
<1>4. (\A r \in none : at[r] = "writing") /\ Changes(s, Updated(rfs, p, d), "apply", none)
  BY <1>3 DEF none, d
<1> QED
  BY <1>1, <1>2, <1>3, <1>4, ReplacesStep

LEMMA RenamesStep ==
    ASSUME Inv, NEW s \in Session, Renames(s)
    PROVE  Inv' /\ \A p \in Path : SeenEqual(p) => rfs'[p] = rfs[p]
<1> DEFINE p == Head(patch[s]).path
<1>1. /\ at[s] = "renaming" /\ patch[s] # <<>> /\ rfs[p] # Dir
      /\ \A a \in Above(p) : rfs[a] = Dir
  BY DEF Renames, Inv, SoundPatch, OpenInTree
<1>2. \A r \in WritersOf({p}) : at[r] = "writing"
  BY DEF WritersOf
<1>3. /\ Changes(s, Updated(rfs, p, held[s]), "apply", WritersOf({p}))
      /\ patch' = [patch EXCEPT ![s] = Tail(patch[s])] /\ UNCHANGED <<sfs, old>>
  BY DEF Renames
<1> DEFINE lost == WritersOf({p})
           d == held[s]
<1> HIDE DEF lost, d
<1>4. (\A r \in lost : at[r] = "writing") /\ Changes(s, Updated(rfs, p, d), "apply", lost)
  BY <1>2, <1>3 DEF lost, d
<1> QED
  BY <1>1, <1>3, <1>4, ReplacesStep

-----------------------------------------------------------------------------
(* The steps of the program.                                               *)

\* Sessions that end with the program, or with its crash, forget their patch.
LEMMA StopsStep ==
    ASSUME Inv, Shutdown \/ Crash
    PROVE  Inv' /\ rfs' = rfs
<1>1. UNCHANGED <<rfs, sfs, old>> /\ Shape'
  BY DEF Shutdown, Crash, Inv, Shape, Places
<1>2. ASSUME NEW s \in Session
      PROVE  /\ at'[s] = "free" <=> at[s] = "free"
             /\ SoundPatch(s)' /\ OpenInTree(s)'
  <2>1. CASE Shutdown
    <3>1. at'[s] = (IF at[s] = "walked" THEN "failed" ELSE at[s]) /\ patch'[s] = patch[s]
      BY <2>1 DEF Shutdown
    <3>2. CASE at[s] = "walked"
      <4>1. patch'[s] = <<>>
        BY <3>1, <3>2 DEF Inv, SoundPatch
      <4> QED
        BY <3>1, <3>2, <4>1, EmptiedPatch
    <3>3. CASE at[s] # "walked"
      <4>1. SoundPatch(s)'
        BY <1>1, <3>1, <3>3, SamePatch
      <4> QED
        BY <1>1, <3>1, <3>3, <4>1 DEF Inv, OpenInTree
    <3> QED
      BY <3>2, <3>3
  <2>2. CASE Crash
    <3>1. /\ at'[s] = IF at[s] \in {"free", "finished"} THEN at[s] ELSE "failed"
          /\ patch'[s] = <<>>
      BY <2>2 DEF Crash
    <3> QED
      BY <3>1, EmptiedPatch
  <2> QED
    BY <2>1, <2>2
<1>3. OnPaths(rfs)' /\ WellFormed(rfs)' /\ \A p \in Path : SeenEqual(p) => rfs'[p] = rfs[p]
  BY <1>1 DEF Inv, TreesInv, OnPaths, WellFormed
<1> QED
  BY <1>1, <1>2, <1>3, KeepsInv

\* The key file, a start of the program and a stuttering step are no concern
\* of the sessions.
LEMMA OtherSteps ==
    ASSUME Inv, CliSteps \/ Restart \/ UNCHANGED vars
    PROVE  Inv' /\ rfs' = rfs
<1>1. UNCHANGED <<rfs, sessions>>
  BY DEF CliSteps, ReadKey, CreateKeyFile, FillKeyFile, KeyNotKept, FailsEarly, Restart, vars
<1>2. UNCHANGED <<rfs, sfs, at, old, patch>>
  BY <1>1 DEF sessions
<1>3. ASSUME NEW s \in Session PROVE SoundPatch(s)' /\ OpenInTree(s)'
  BY <1>2, SamePatch DEF Inv, OpenInTree
<1>4. Shape' /\ OnPaths(rfs)' /\ WellFormed(rfs)'
  BY <1>2 DEF Inv, Shape, TreesInv, OnPaths, WellFormed
<1> QED
  BY <1>2, <1>3, <1>4, KeepsInv

LEMMA NextInv ==
    ASSUME Inv, [Next]_vars
    PROVE  Inv' /\ \A p \in Path : SeenEqual(p) => rfs'[p] = rfs[p]
<1>1. CASE CliSteps \/ Restart \/ UNCHANGED vars
  BY <1>1, OtherSteps
<1>2. CASE EndsProgram \/ Interrupt \/ Crash
  BY <1>2, StopsStep DEF EndsProgram, Interrupt
<1>3. ASSUME NEW s \in Session, Snapshots(s) \/ ReceivesPatch(s) \/ LosesPatch(s) \/ ApplySteps(s)
      PROVE  Inv' /\ \A p \in Path : SeenEqual(p) => rfs'[p] = rfs[p]
  <2>1. CASE Snapshots(s)
    BY <2>1, SnapshotsStep
  <2>2. CASE ReceivesPatch(s)
    BY <2>2, ReceivesStep
  <2>3. CASE LosesPatch(s) \/ ApplyItemFails(s) \/ RenameFails(s) \/ Finishes(s)
    BY <2>3, OutcomeSteps
  <2>4. CASE FillsLost(s)
    BY <2>4, FillsLostStep
  <2>5. CASE Assembles(s)
    BY <2>5, AssemblesStep
  <2>6. CASE Deletes(s)
    BY <2>6, DeletesStep
  <2>7. CASE OpensNew(s)
    BY <2>7, OpensNewStep
  <2>8. CASE FillsNew(s)
    BY <2>8, FillsNewStep
  <2>9. CASE Renames(s)
    BY <2>9, RenamesStep
  <2> QED
    BY <1>3, <2>1, <2>2, <2>3, <2>4, <2>5, <2>6, <2>7, <2>8, <2>9 DEF ApplySteps
<1> QED
  BY <1>1, <1>2, <1>3 DEF Next

-----------------------------------------------------------------------------
(* What is proved.                                                         *)

THEOREM Invariance == Spec => []Inv
<1>1. Inv /\ [Next]_vars => Inv'
  BY NextInv
<1> QED
  BY <1>1, InitInv, PTL DEF Spec

\* However the sessions overlap and whenever the program ends or crashes,
\* whatever exists in the receiver's directory lies in directories that
\* exist: no session writes through a path another one has taken away.
THEOREM TreeStaysTree == Spec => []WellFormed(rfs)
<1>1. Inv => WellFormed(rfs)
  BY DEF Inv, TreesInv
<1> QED
  BY <1>1, Invariance, PTL

\* No session, whatever the others do between its snapshot and its patch,
\* touches a path that every session saw equal to its sender's.
THEOREM SeenEqualKeptCorrect == Spec => SeenEqualKept
<1> DEFINE Kept == \A p \in Path :
              /\ Visible(p)
              /\ \A s \in Session : at[s] = "free" \/ old[s][p] = sfs[s][p]
              => rfs'[p] = rfs[p]
<1>1. Inv /\ [Next]_vars => [Kept]_rfs
  BY NextInv DEF SeenEqual
<1>2. [][Next]_vars /\ []Inv => [][Kept]_rfs
  BY <1>1, PTL
<1> QED
  BY <1>2, Invariance, PTL DEF Spec, SeenEqualKept

-----------------------------------------------------------------------------
(* The types.                                                              *)

\* The entries the diff can make.
Fine == {e \in EntryType : CopiesPlaced(e.instructs)}

TypeInv == TypeOK /\ patch \in [Session -> Seq(Fine)]

LEMMA InitTypes == Init => TypeInv
<1> SUFFICES ASSUME Init PROVE TypeInv
  OBVIOUS
<1>1. <<>> \in Data /\ <<>> \in Seq(Fine) /\ NoTree \in Tree
  BY NodeFacts DEF Data, NoTree, Tree
<1>2. rfs \in Tree /\ WellFormed(rfs) /\ sfs \in [Session -> Tree]
  BY ReceiveAssumption DEF Init
<1>3. MaxStarts \in Nat /\ 1 \in 1 .. MaxStarts /\ 0 \in -1 .. MaxStarts /\ 0 \in 0 .. MaxStarts
  BY ReceiveAssumption
<1> QED
  BY <1>1, <1>2, <1>3 DEF Init, TypeInv, TypeOK, NoKey

\* A patch is made of such entries.
LEMMA PatchesType ==
    ASSUME NEW o \in Tree, NEW n \in Tree, NEW es \in Patches(o, n)
    PROVE  es \in Seq(Fine)
<1>1. ASSUME NEW k \in Path, NEW e \in ToSet(DiffKey(o[k], n[k], k, n[k].data))
      PROVE  e \in Fine
  <2> DEFINE d == DiffKey(o[k], n[k], k, n[k].data)
  <2>1. o[k] \in Node /\ n[k] \in Node /\ n[k].data \in Data
    BY TreeFacts
  <2>2. d \in Seq(EntryType) /\ \A i \in 1 .. Len(d) : CopiesPlaced(d[i].instructs)
    BY <2>1, DiffKeyFacts
  <2> HIDE DEF d
  <2>3. PICK i \in 1 .. Len(d) : e = d[i]
    BY <1>1, <2>2 DEF ToSet, d
  <2> QED
    BY <2>2, <2>3 DEF Fine
<1>2. Changed(o, n) \subseteq Fine
  BY <1>1 DEF Changed, Listed
<1>3. ASSUME NEW k \in Path PROVE DeleteEntry(k) \in Fine
  BY DEF DeleteEntry, Fine, EntryType, CopiesPlaced, Data
<1>4. Dropped(o, n) \subseteq Fine
  BY <1>3 DEF Dropped, Listed
<1>5. PICK c \in SetToSeqs(Changed(o, n)), d \in SetToSeqs(Dropped(o, n)) : es = c \o d
  BY DEF Patches
<1>6. c \in Seq(Changed(o, n)) /\ d \in Seq(Dropped(o, n))
  BY ChangedSound, DroppedSound, Orders
<1>7. c \in Seq(Fine) /\ d \in Seq(Fine)
  BY <1>2, <1>4, <1>6
<1> QED
  BY <1>5, <1>7

LEMMA FirstFine ==
    ASSUME TypeInv, NEW s \in Session, patch[s] # <<>>
    PROVE  /\ Head(patch[s]) \in EntryType /\ CopiesPlaced(Head(patch[s]).instructs)
           /\ Head(patch[s]).path \in Path /\ Head(patch[s]).bytes \in Data
           /\ Tail(patch[s]) \in Seq(Fine)
<1>1. patch[s] \in Seq(Fine)
  BY DEF TypeInv
<1>2. Head(patch[s]) \in Fine /\ Tail(patch[s]) \in Seq(Fine)
  BY <1>1
<1> QED
  BY <1>2 DEF Fine, EntryType

\* What a write leaves of a longer file is a file's content too.
LEMMA OverwrittenType ==
    ASSUME NEW d \in Data, NEW c \in Data
    PROVE  Overwritten(d, c) \in Data
BY DEF Overwritten, Data

\* The steps of one session.
LEMMA SessionTypes ==
    ASSUME Inv, TypeInv, NEW s \in Session,
           Snapshots(s) \/ ReceivesPatch(s) \/ LosesPatch(s) \/ ApplySteps(s)
    PROVE  /\ UNCHANGED <<keepOpen, program, keyFile, key, starts, sfs>>
           /\ verdict' \in {"none", "finished", "error"}
           /\ rfs' \in Tree
           /\ at' \in [Session -> Places]
           /\ old' \in [Session -> Tree] /\ held' \in [Session -> Data]
           /\ alone' \in [Session -> BOOLEAN]
           /\ patch' \in [Session -> Seq(Fine)]
<1> DEFINE Goal ==
           /\ UNCHANGED <<keepOpen, program, keyFile, key, starts, sfs>>
           /\ verdict' \in {"none", "finished", "error"}
           /\ rfs' \in Tree
           /\ at' \in [Session -> Places]
           /\ old' \in [Session -> Tree] /\ held' \in [Session -> Data]
           /\ alone' \in [Session -> BOOLEAN]
           /\ patch' \in [Session -> Seq(Fine)]
           e == Head(patch[s])
<1>1. /\ rfs \in Tree /\ at \in [Session -> Places] /\ old \in [Session -> Tree]
      /\ sfs \in [Session -> Tree] /\ held \in [Session -> Data]
      /\ alone \in [Session -> BOOLEAN]
      /\ patch \in [Session -> Seq(Fine)] /\ verdict \in {"none", "finished", "error"}
  BY DEF TypeInv, TypeOK, Places
<1>2. <<>> \in Seq(Fine)
  OBVIOUS
<1>3. \A place \in Places : Goes(s, place) => at' \in [Session -> Places]
  BY <1>1 DEF Goes
<1>4. ASSUME NEW place \in Places, NEW tree, NEW lost, Changes(s, tree, place, lost)
      PROVE  at' \in [Session -> Places] /\ rfs' = tree
  BY <1>1, <1>4 DEF Changes, Places
<1>5. ASSUME NEW outcome \in {"finished", "error"}, Ends(s, outcome)
      PROVE  at' \in [Session -> Places] /\ verdict' \in {"none", "finished", "error"}
  BY <1>1, <1>3, <1>5 DEF Ends, Places
<1>6. ASSUME FailsApplying(s) PROVE Goal
  BY <1>1, <1>2, <1>5, <1>6 DEF FailsApplying
<1>7. CASE Snapshots(s)
  <2>1. Walk(rfs, {}) \in Tree
    BY <1>1, CallTypes, PathAssumption
  <2>2. "walked" \in Places
    BY DEF Places
  <2> QED
    BY <1>1, <1>3, <1>7, <2>1, <2>2 DEF Snapshots, cli
<1>8. CASE ReceivesPatch(s)
  <2>1. old[s] \in Tree /\ Walk(sfs[s], {}) \in Tree
    BY <1>1, CallTypes, PathAssumption
  <2>2. patch' \in [Session -> Seq(Fine)]
    BY <1>1, <1>8, <2>1, PatchesType DEF ReceivesPatch
  <2>3. alone' \in [Session -> BOOLEAN]
    BY <1>1, <1>8 DEF ReceivesPatch
  <2>4. at' \in [Session -> Places] /\ verdict' \in {"none", "finished", "error"}
    BY <1>1, <1>3, <1>5, <1>8 DEF ReceivesPatch, Places
  <2> QED
    BY <1>1, <1>8, <2>2, <2>3, <2>4 DEF ReceivesPatch
<1>9. CASE LosesPatch(s) \/ Finishes(s)
  BY <1>1, <1>5, <1>9 DEF LosesPatch, Finishes
<1>10. CASE ApplyItemFails(s) \/ RenameFails(s)
  BY <1>6, <1>10 DEF ApplyItemFails, RenameFails
<1>11. CASE Deletes(s)
  <2>1. patch[s] # <<>> /\ e.op = "delete"
    BY <1>11 DEF Deletes, Applying
  <2>2. Deleted(rfs, e.path) \in Tree /\ Tail(patch[s]) \in Seq(Fine)
    BY <1>1, <2>1, FirstFine, CallTypes
  <2>3. at' \in [Session -> Places] /\ rfs' \in Tree
    BY <1>4, <1>11, <2>1, <2>2 DEF Deletes, Applied, Places
  <2> QED
    BY <1>1, <1>11, <2>2, <2>3 DEF Deletes, cli
<1>12. CASE OpensNew(s)
  <2>1. patch[s] # <<>>
    BY <1>12 DEF OpensNew, Applying
  <2>2. Created(rfs, e.path, <<>>) \in Tree /\ e.bytes \in Data
    <3>1. <<>> \in Data
      BY DEF Data
    <3> QED
      BY <1>1, <2>1, <3>1, FirstFine, CallTypes
  <2>3. at' \in [Session -> Places] /\ rfs' \in Tree
    BY <1>4, <1>12, <2>2 DEF OpensNew, Places
  <2> QED
    BY <1>1, <1>12, <2>2, <2>3 DEF OpensNew, cli
<1>13. CASE FillsNew(s)
  <2>1. patch[s] # <<>>
    BY <1>13 DEF FillsNew, Inv, SoundPatch
  <2>2. e.path \in Path /\ Tail(patch[s]) \in Seq(Fine)
    BY <2>1, FirstFine
  <2>3. Overwritten(rfs[e.path].data, held[s]) \in Data
    BY <1>1, <2>2, TreeFacts, OverwrittenType
  <2>4. Updated(rfs, e.path, Overwritten(rfs[e.path].data, held[s])) \in Tree
    BY <1>1, <2>2, <2>3, CallTypes, NodeFacts DEF Updated
  <2>5. at' \in [Session -> Places] /\ rfs' \in Tree
    BY <1>4, <1>13, <2>4 DEF FillsNew, Places
  <2> QED
    BY <1>1, <1>13, <2>2, <2>5 DEF FillsNew, cli
<1>14. CASE FillsLost(s)
  <2>1. patch[s] # <<>>
    BY <1>14 DEF FillsLost, Inv, SoundPatch
  <2>2. Tail(patch[s]) \in Seq(Fine)
    BY <2>1, FirstFine
  <2> QED
    BY <1>1, <1>3, <1>14, <2>2 DEF FillsLost, cli, Places
<1>15. CASE Assembles(s)
  <2>1. patch[s] # <<>> /\ e.op = "update" /\ ~ApplyFails(rfs, e)
    BY <1>15 DEF Assembles, Applying
  <2>2. e.instructs \in Seq(Instr) /\ CopiesPlaced(e.instructs) /\ e.path \in Path
    BY <2>1, FirstFine DEF EntryType
  <2>3. rfs[e.path].data \in Data /\ ~OutOfBounds(e.instructs, rfs[e.path].data)
    BY <1>1, <2>1, <2>2, TreeFacts DEF ApplyFails
  <2>4. Assemble(e.instructs, rfs[e.path].data) \in Data
    BY <2>2, <2>3, AssembleType
  <2> QED
    BY <1>1, <1>3, <1>15, <2>4 DEF Assembles, cli, Places
<1>16. CASE Renames(s)
  <2>1. patch[s] # <<>>
    BY <1>16 DEF Renames, Inv, SoundPatch
  <2>2. e.path \in Path /\ Tail(patch[s]) \in Seq(Fine)
    BY <2>1, FirstFine
  <2>3. Updated(rfs, e.path, held[s]) \in Tree
    BY <1>1, <2>2, CallTypes, NodeFacts DEF Updated
  <2>4. at' \in [Session -> Places] /\ rfs' \in Tree
    BY <1>4, <1>16, <2>3 DEF Renames, Places
  <2> QED
    BY <1>1, <1>16, <2>2, <2>4 DEF Renames, cli
<1> QED
  BY <1>7, <1>8, <1>9, <1>10, <1>11, <1>12, <1>13, <1>14, <1>15, <1>16 DEF ApplySteps

LEMMA TypeStep ==
    ASSUME Inv, Inv', TypeInv, [Next]_vars
    PROVE  TypeInv'
<1>1. WellFormed(rfs)'
  BY DEF Inv, TreesInv
<1>2. MaxStarts \in Nat \ {0}
  BY ReceiveAssumption
<1>3. CASE CliSteps
  <2>1. /\ UNCHANGED <<keepOpen, starts, rfs, sfs, at, old, patch, held, alone>>
        /\ verdict' \in {verdict, "error"}
    BY <1>3 DEF CliSteps, ReadKey, CreateKeyFile, FillKeyFile, KeyNotKept, FailsEarly, sessions
  <2>2. program' \in {"refused", "serving", "writing"}
    BY <1>3 DEF CliSteps, ReadKey, CreateKeyFile, FillKeyFile, KeyNotKept, FailsEarly
  <2>3. keyFile' \in -1 .. MaxStarts /\ key' \in 0 .. MaxStarts
    BY <1>2, <1>3 DEF CliSteps, ReadKey, CreateKeyFile, FillKeyFile, KeyNotKept, FailsEarly, Torn, NoKey,
       TypeInv, TypeOK
  <2> QED
    BY <1>1, <2>1, <2>2, <2>3 DEF TypeInv, TypeOK
<1>4. CASE \E s \in Session : Snapshots(s) \/ ReceivesPatch(s) \/ LosesPatch(s) \/ ApplySteps(s)
  BY <1>1, <1>4, SessionTypes DEF TypeInv, TypeOK, Places
<1>5. CASE Shutdown \/ Crash
  <2>1. UNCHANGED <<keepOpen, keyFile, key, starts, verdict, rfs, sfs, old, held, alone>>
    BY <1>5 DEF Shutdown, Crash
  <2>2. program' \in {"ended", "down"}
    BY <1>5 DEF Shutdown, Crash
  <2>3. at' \in [Session -> Places]
    BY <1>5 DEF Shutdown, Crash, TypeInv, TypeOK, Places
  <2>4. patch' \in [Session -> Seq(Fine)]
    <3>1. <<>> \in Seq(Fine)
      OBVIOUS
    <3> QED
      BY <1>5, <3>1 DEF Shutdown, Crash, TypeInv
  <2> QED
    BY <1>1, <2>1, <2>2, <2>3, <2>4 DEF TypeInv, TypeOK, Places
<1>6. CASE Restart
  <2>1. starts' \in 1 .. MaxStarts /\ key' \in 0 .. MaxStarts
    BY <1>2, <1>6 DEF Restart, TypeInv, TypeOK, NoKey
  <2>2. UNCHANGED <<keepOpen, keyFile, rfs, sfs, at, old, patch, held, alone>>
    BY <1>6 DEF Restart, sessions
  <2> QED
    BY <1>1, <1>6, <2>1, <2>2 DEF Restart, TypeInv, TypeOK
<1>7. CASE UNCHANGED vars
  BY <1>1, <1>7 DEF vars, cli, sessions, TypeInv, TypeOK
<1> QED
  BY <1>3, <1>4, <1>5, <1>6, <1>7 DEF Next, EndsProgram, Interrupt

LEMMA TypeAlways == Spec => []TypeInv
<1>1. Inv /\ Inv' /\ TypeInv /\ [Next]_vars => TypeInv'
  BY TypeStep
<1> QED
  BY InitTypes, Invariance, <1>1, PTL DEF Spec

\* Every variable keeps its type, and the tree stays a tree: what a session
\* assembles from a file others may have replaced, and what it writes over a
\* file others may have filled, is still a file's content.
THEOREM TypeCorrect == Spec => []TypeOK
<1>1. TypeInv => TypeOK
  BY DEF TypeInv
<1> QED
  BY TypeAlways, <1>1, PTL

-----------------------------------------------------------------------------
(* A session that is alone.                                                *)

\* es is what is left of the patch of a session whose walk found o and whose
\* sender has n, and t is what the entries before have made of the tree.
Fit(o, n, es, t) ==
    /\ Underway(o, n, es, t) /\ es \in Seq(Fine)
    /\ Undone(o, n, es, t) /\ Reached(n, es, t)
    /\ \A i \in 1 .. Len(es) : Meant(o, n, es[i]) /\ Visible(es[i].path)
    /\ n[Root] # Absent /\ ~IsFile(o[Root])

LEMMA FitHead ==
    ASSUME NEW o, NEW n, NEW es, NEW t, Fit(o, n, es, t), es # <<>>
    PROVE  /\ Head(es) \in EntryType /\ CopiesPlaced(Head(es).instructs)
           /\ Sound(o, n, Head(es)) /\ Head(es).path \in Path
           /\ Meant(o, n, Head(es)) /\ Visible(Head(es).path)
           /\ Tail(es) \in Seq(Fine) /\ Head(es).bytes \in Data
<1>1. es \in Seq(Fine) /\ Underway(o, n, es, t)
  BY DEF Fit
<1>2. Head(es) \in Fine /\ Tail(es) \in Seq(Fine)
  BY <1>1
<1>3. Head(es) = es[1] /\ 1 \in 1 .. Len(es) /\ Sound(o, n, Head(es)) /\ Head(es).path \in Path
      /\ Head(es).bytes \in Data
  BY <1>1, HeadFacts
<1>4. Meant(o, n, Head(es)) /\ Visible(Head(es).path)
  BY <1>3 DEF Fit
<1> QED
  BY <1>2, <1>3, <1>4 DEF Fine

\* It stays so with every entry.
LEMMA FitTail ==
    ASSUME NEW o, NEW n, NEW es, NEW t, Fit(o, n, es, t), es # <<>>,
           ~ApplyFails(t, Head(es)), WellFormed(Applied(t, Head(es)))
    PROVE  Fit(o, n, Tail(es), Applied(t, Head(es)))
<1>1. Underway(o, n, es, t) /\ Undone(o, n, es, t) /\ Reached(n, es, t)
  BY DEF Fit
<1>2. o \in Tree /\ n \in Tree /\ t \in Tree /\ WellFormed(n) /\ es \in Seq(EntryType)
      /\ Ordered(n, es)
  BY <1>1 DEF Underway
<1>3. /\ Head(es) \in EntryType /\ CopiesPlaced(Head(es).instructs)
      /\ Sound(o, n, Head(es)) /\ Meant(o, n, Head(es)) /\ Visible(Head(es).path)
      /\ Tail(es) \in Seq(Fine) /\ Tail(es) \in Seq(EntryType)
  BY <1>1, FitHead, HeadFacts
<1>4. Applied(t, Head(es)) \in Tree
  BY <1>2, <1>3, StageType
<1>5. Head(es).op = "delete" /\ Head(es).path = Root => IsFile(n[Root])
  <2>1. o[Root] \in Node /\ n[Root] \in Node
    BY <1>2, TreeFacts, RootVisible
  <2> QED
    BY <1>3, <2>1, NodeFacts DEF Fit, Sound
<1>6. /\ Waits(n, Tail(es), Applied(t, Head(es)))
      /\ Undone(o, n, Tail(es), Applied(t, Head(es)))
      /\ Reached(n, Tail(es), Applied(t, Head(es)))
  BY <1>1, <1>3, <1>5, StillWaits, StillUndone, StillReached
<1>7. /\ Ordered(n, Tail(es))
      /\ \A i \in 1 .. Len(Tail(es)) : i + 1 \in 1 .. Len(es) /\ Tail(es)[i] = es[i + 1]
  BY <1>2, OrderedTail
<1>8. \A i \in 1 .. Len(Tail(es)) :
          /\ Sound(o, n, Tail(es)[i])
          /\ Meant(o, n, Tail(es)[i]) /\ Visible(Tail(es)[i].path)
  BY <1>1, <1>7 DEF Fit, Underway
<1>9. Underway(o, n, Tail(es), Applied(t, Head(es)))
  BY <1>2, <1>3, <1>4, <1>6, <1>7, <1>8 DEF Underway
<1> QED
  BY <1>3, <1>6, <1>8, <1>9 DEF Fit

LEMMA FitEnd ==
    ASSUME NEW o, NEW n, NEW t, Fit(o, n, <<>>, t), NEW p \in Path, Visible(p)
    PROVE  Agree(t[p], n[p])
<1>1. ~About(<<>>, p)
  BY EmptyPatch DEF About
<1> QED
  BY <1>1 DEF Fit, Reached

\* Every element of a set has one place in each of its orders.
LEMMA OrdersAll ==
    ASSUME NEW E, IsFiniteSet(E), NEW es \in SetToSeqs(E)
    PROVE  /\ es \in Seq(E) /\ Len(es) \in Nat
           /\ \A i, j \in 1 .. Len(es) : es[i] = es[j] => i = j
           /\ \A e \in E : \E i \in 1 .. Len(es) : es[i] = e
<1>1. PICK c : c = Cardinality(E) /\ c \in Nat
  BY FS_CardinalityType
<1>2. es \in [1 .. c -> E] /\ \A i, j \in 1 .. c : i # j => es[i] # es[j]
  BY <1>1 DEF SetToSeqs
<1>3. es \in Seq(E) /\ Len(es) = c
  BY <1>1, <1>2
<1>4. es \in Injection(1 .. c, E)
  BY <1>2 DEF Injection, IsInjective
<1>5. Cardinality(1 .. c) = c
  BY <1>1, FS_Interval
<1>6. es \in Surjection(1 .. c, E)
  BY <1>1, <1>4, <1>5, FS_Injection
<1>7. \A e \in E : \E i \in 1 .. c : es[i] = e
  BY <1>6 DEF Surjection
<1> QED
  BY <1>1, <1>2, <1>3, <1>7

LEMMA SmallSets == ToSet(<<>>) = {} /\ \A x : ToSet(<<x>>) = {x}
<1>1. DOMAIN <<>> = {}
  BY EmptyPatch
<1>2. ToSet(<<>>) = {}
  BY <1>1 DEF ToSet
<1>3. ASSUME NEW x PROVE ToSet(<<x>>) = {x}
  <2>1. DOMAIN <<x>> = {1} /\ <<x>>[1] = x
    OBVIOUS
  <2> QED
    BY <2>1 DEF ToSet
<1> QED
  BY <1>2, <1>3

\* What diff has to say of one key.
LEMMA KeyCases ==
    ASSUME NEW o, NEW n, NEW k \in Path
    PROVE  LET C  == CreateEntry(k, n[k].data)
               D  == DeleteEntry(k)
               U  == UpdateEntry(k, Instructs(o[k].data, n[k].data, n[k].data))
               d  == DiffKey(o[k], n[k], k, n[k].data)
           IN  \/ d = <<>> /\ ToSet(d) = {}
               \/ ToSet(d) = {C}
               \/ ToSet(d) = {U}
               \/ ToSet(d) = {D, C}
               \/ ToSet(d) = {D} /\ ~IsFile(n[k])
<1> DEFINE C == CreateEntry(k, n[k].data)
           D == DeleteEntry(k)
           U == UpdateEntry(k, Instructs(o[k].data, n[k].data, n[k].data))
           d == DiffKey(o[k], n[k], k, n[k].data)
<1>1. \/ d = <<>> \/ d = <<C>> \/ d = <<U>> \/ d = <<D, C>>
      \/ d = <<D>> /\ ~IsFile(n[k])
  BY DiffKeyCases
<1> HIDE DEF C, D, U, d
<1>2. ToSet(<<>>) = {} /\ \A x : ToSet(<<x>>) = {x}
  BY SmallSets
<1>3. ToSet(<<D, C>>) = {D, C}
  BY DEF ToSet
<1> QED
  BY <1>1, <1>2, <1>3 DEF C, D, U, d

\* The entries of diff's first loop.
LEMMA ChangedFacts ==
    ASSUME NEW o \in Tree, NEW n \in Tree
    PROVE  /\ \A e \in Changed(o, n) : e.path \in Listed(n) /\ Meant(o, n, e)
           /\ \A e, f \in Changed(o, n) : e.path = f.path /\ e # f =>
                 \/ e.op = "delete" /\ f.op = "create"
                 \/ e.op = "create" /\ f.op = "delete"
           /\ \A e \in Changed(o, n) : e.op = "delete" /\ IsFile(n[e.path]) =>
                 \E f \in Changed(o, n) : f.path = e.path /\ f.op = "create"
           /\ \A k \in Listed(n) :
                 (\A e \in Changed(o, n) : e.path # k) => Agree(o[k], n[k])
<1> DEFINE C(k) == CreateEntry(k, n[k].data)
           D(k) == DeleteEntry(k)
           U(k) == UpdateEntry(k, Instructs(o[k].data, n[k].data, n[k].data))
           d(k) == DiffKey(o[k], n[k], k, n[k].data)
<1>1. \A k \in Path : /\ C(k).op = "create" /\ D(k).op = "delete" /\ U(k).op = "update"
                      /\ C(k).path = k /\ D(k).path = k /\ U(k).path = k
                      /\ Meant(o, n, C(k)) /\ Meant(o, n, D(k)) /\ Meant(o, n, U(k))
  BY DEF CreateEntry, DeleteEntry, UpdateEntry, Meant
<1>2. \A k \in Path : \/ d(k) = <<>> /\ ToSet(d(k)) = {}
                      \/ ToSet(d(k)) = {C(k)}
                      \/ ToSet(d(k)) = {U(k)}
                      \/ ToSet(d(k)) = {D(k), C(k)}
                      \/ ToSet(d(k)) = {D(k)} /\ ~IsFile(n[k])
  BY KeyCases
<1>3. \A k \in Path : n[k] # Absent /\ d(k) = <<>> => Agree(o[k], n[k])
  BY TreeFacts, DiffKeyFacts
<1>4. Listed(n) \subseteq Path /\ \A k \in Listed(n) : n[k] # Absent
  BY DEF Listed
<1>5. /\ \A e \in Changed(o, n) : \E k \in Listed(n) : e \in ToSet(d(k))
      /\ \A k \in Listed(n) : ToSet(d(k)) \subseteq Changed(o, n)
  BY DEF Changed
<1> HIDE DEF C, D, U, d
<1>6. \A k \in Listed(n) : \A e \in ToSet(d(k)) : e.path = k /\ Meant(o, n, e)
  BY <1>1, <1>2, <1>4
<1>7. \A e \in Changed(o, n) : e.path \in Listed(n) /\ Meant(o, n, e) /\ e \in ToSet(d(e.path))
  BY <1>5, <1>6
<1>8. ASSUME NEW e \in Changed(o, n), NEW f \in Changed(o, n), e.path = f.path, e # f
      PROVE  \/ e.op = "delete" /\ f.op = "create"
             \/ e.op = "create" /\ f.op = "delete"
  <2>1. PICK k \in Listed(n) : e \in ToSet(d(k)) /\ f \in ToSet(d(k))
    BY <1>7, <1>8
  <2>2. e \in {D(k), C(k)} /\ f \in {D(k), C(k)}
    BY <1>2, <1>4, <1>8, <2>1
  <2> QED
    BY <1>1, <1>4, <1>8, <2>1, <2>2
<1>9. ASSUME NEW e \in Changed(o, n), e.op = "delete", IsFile(n[e.path])
      PROVE  \E f \in Changed(o, n) : f.path = e.path /\ f.op = "create"
  <2>1. PICK k \in Listed(n) : k = e.path /\ e \in ToSet(d(k)) /\ k \in Path
    BY <1>4, <1>7
  <2>2. e # C(k) /\ e # U(k)
    BY <1>1, <1>9, <2>1
  <2>3. ToSet(d(k)) = {D(k), C(k)}
    BY <1>2, <1>9, <2>1, <2>2
  <2>4. C(k) \in Changed(o, n)
    BY <1>5, <2>1, <2>3
  <2> QED
    BY <1>1, <2>1, <2>4
<1>10. ASSUME NEW k \in Listed(n), \A e \in Changed(o, n) : e.path # k
       PROVE  Agree(o[k], n[k])
  <2>1. \A e : e \notin ToSet(d(k))
    BY <1>5, <1>6, <1>10
  <2>2. d(k) = <<>>
    BY <1>2, <1>4, <2>1
  <2> QED
    BY <1>3, <1>4, <2>2
<1> QED
  BY <1>7, <1>8, <1>9, <1>10

\* Both loops' entries are in the order the deletions need, and every key
\* that has something to be done has its entry.
LEMMA PatchesFit ==
    ASSUME NEW t \in Tree, NEW f \in Tree, WellFormed(t), WellFormed(f),
           ~IsFile(t[Root]), f[Root] # Absent,
           NEW es \in Patches(Walk(t, {}), Walk(f, {}))
    PROVE  Fit(Walk(t, {}), Walk(f, {}), es, t)
<1>1. PICK o, n : o = Walk(t, {}) /\ n = Walk(f, {})
  OBVIOUS
<1>2. o \in Tree /\ n \in Tree /\ WellFormed(o) /\ WellFormed(n)
  BY <1>1, CallTypes, WalkFacts, PathAssumption
<1>3. /\ \A p \in Path : Visible(p) => o[p] = t[p] /\ n[p] = f[p]
      /\ \A p \in Path : o[p] # Absent => o[p] = t[p] /\ Visible(p)
      /\ \A p \in Path : n[p] # Absent => n[p] = f[p] /\ Visible(p)
  BY <1>1, WalkSees, WalkFacts
<1>4. n[Root] # Absent /\ ~IsFile(o[Root])
  BY <1>3, RootVisible
<1>5. es \in Patches(o, n)
  BY <1>1
<1>6. PICK c, d : /\ c \in SetToSeqs(Changed(o, n)) /\ Paired(c)
                  /\ d \in SetToSeqs(Dropped(o, n)) /\ es = c \o d
  BY <1>5 DEF Patches
<1>7. /\ c \in Seq(Changed(o, n)) /\ Len(c) \in Nat
      /\ \A i, j \in 1 .. Len(c) : c[i] = c[j] => i = j
      /\ \A e \in Changed(o, n) : \E i \in 1 .. Len(c) : c[i] = e
  BY <1>6, ChangedSound, OrdersAll
<1>8. /\ d \in Seq(Dropped(o, n)) /\ Len(d) \in Nat
      /\ \A i, j \in 1 .. Len(d) : d[i] = d[j] => i = j
      /\ \A e \in Dropped(o, n) : \E i \in 1 .. Len(d) : d[i] = e
  BY <1>6, DroppedSound, OrdersAll
<1>9. es \in Seq(Fine) /\ \A i \in 1 .. Len(es) : Sound(o, n, es[i])
  BY <1>2, <1>5, PatchesType, PatchesSound
<1>10. \A e \in Dropped(o, n) : /\ e.op = "delete" /\ e.path \in Path /\ Meant(o, n, e)
                                /\ n[e.path] = Absent /\ e = DeleteEntry(e.path)
  BY DEF Dropped, DeleteEntry, Listed, Meant
<1>11. \A e \in Changed(o, n) : n[e.path] # Absent /\ Meant(o, n, e)
  BY <1>2, ChangedFacts DEF Listed
<1>12. Ordered(n, c)
  <2>1. DOMAIN c = 1 .. Len(c) /\ \A i \in 1 .. Len(c) : c[i] \in Changed(o, n)
    BY <1>7
  <2>2. ASSUME NEW i \in 1 .. Len(c), NEW j \in 1 .. Len(c), i < j, c[i].path = c[j].path
        PROVE  c[i].op = "delete" /\ c[j].op = "create"
    <3>1. c[i] # c[j]
      BY <1>7, <2>2
    <3>2. \/ c[i].op = "delete" /\ c[j].op = "create"
          \/ c[i].op = "create" /\ c[j].op = "delete"
      BY <1>2, <2>1, <2>2, <3>1, ChangedFacts
    <3>3. ~(c[j].op = "delete" /\ c[i].op = "create")
      BY <1>6, <2>1, <2>2 DEF Paired
    <3> QED
      BY <3>2, <3>3
  <2>3. ASSUME NEW i \in 1 .. Len(c), c[i].op = "delete", IsFile(n[c[i].path])
        PROVE  \E j \in 1 .. Len(c) : i < j /\ c[j].path = c[i].path
    <3>1. PICK e \in Changed(o, n) : e.path = c[i].path /\ e.op = "create"
      BY <1>2, <2>1, <2>3, ChangedFacts
    <3>2. PICK j \in 1 .. Len(c) : c[j] = e
      BY <1>7
    <3>3. j = i + 1
      BY <1>6, <2>1, <2>3, <3>1, <3>2 DEF Paired
    <3> QED
      BY <3>1, <3>2, <3>3
  <2> QED
    BY <2>2, <2>3 DEF Ordered
<1>13. Ordered(n, d)
  <2>1. \A i \in 1 .. Len(d) : d[i] \in Dropped(o, n)
    BY <1>8
  <2>2. ASSUME NEW i \in 1 .. Len(d), NEW j \in 1 .. Len(d), i < j, d[i].path = d[j].path
        PROVE  FALSE
    <3>1. d[i] = d[j]
      BY <1>10, <2>1, <2>2
    <3> QED
      BY <1>8, <2>2, <3>1
  <2>3. \A i \in 1 .. Len(d) : ~IsFile(n[d[i].path])
    BY <1>10, <2>1, KindFacts
  <2> QED
    BY <2>2, <2>3 DEF Ordered
<1>14. /\ Ordered(n, es)
       /\ \A p : About(es, p) <=> About(c, p) \/ About(d, p)
  <2>1. PICK S : S = Changed(o, n) \cup Dropped(o, n)
    OBVIOUS
  <2>2. c \in Seq(S) /\ d \in Seq(S)
    BY <1>7, <1>8, <2>1
  <2>3. \A i \in 1 .. Len(c) : n[c[i].path] # Absent
    BY <1>7, <1>11
  <2>4. \A i \in 1 .. Len(d) : n[d[i].path] = Absent
    BY <1>8, <1>10
  <2>5. \A i \in 1 .. Len(d) : ~About(c, d[i].path)
    BY <2>3, <2>4 DEF About
  <2> QED
    BY <1>6, <1>12, <1>13, <2>2, <2>5, OrderedJoin
<1>15. \A i \in 1 .. Len(es) : Visible(es[i].path)
  BY <1>3, <1>9 DEF Sound
<1>16. \A i \in 1 .. Len(es) : Meant(o, n, es[i])
  <2>1. es \in Seq(Changed(o, n) \cup Dropped(o, n))
    BY <1>6, <1>7, <1>8
  <2>2. \A i \in 1 .. Len(es) : es[i] \in Changed(o, n) \cup Dropped(o, n)
    BY <2>1
  <2> QED
    BY <1>10, <1>11, <2>2
<1>17. Waits(n, es, t)
  <2> SUFFICES ASSUME NEW i \in 1 .. Len(es), es[i].op = "delete", n[es[i].path] = Dir
               PROVE  IsFile(t[es[i].path])
    BY DEF Waits
  <2>1. PICK p \in Path : p = es[i].path /\ o[p] # Absent /\ o[p] # Dir /\ n[p] = Dir
    BY <1>9 DEF Sound
  <2>2. IsFile(o[p])
    BY <1>2, <2>1, TreeFacts, NodeFacts
  <2> QED
    BY <1>3, <2>1, <2>2
<1>18. Undone(o, n, es, t)
  BY <1>3 DEF Undone
<1>19. Reached(n, es, t)
  <2> SUFFICES ASSUME NEW p \in Path, Visible(p), ~About(es, p) PROVE Agree(o[p], n[p])
    BY <1>3 DEF Reached
  <2>1. CASE n[p] # Absent
    <3>1. ~About(c, p)
      BY <1>14
    <3>2. \A e \in Changed(o, n) : e.path # p
      BY <1>7, <3>1 DEF About
    <3> QED
      BY <1>2, <2>1, <3>2, ChangedFacts DEF Listed
  <2>2. CASE n[p] = Absent
    <3>1. o[p] = Absent
      <4> SUFFICES ASSUME o[p] # Absent PROVE FALSE
        OBVIOUS
      <4>1. DeleteEntry(p) \in Dropped(o, n) /\ DeleteEntry(p).path = p
        BY <2>2 DEF Dropped, Listed, DeleteEntry
      <4>2. ~About(d, p)
        BY <1>14
      <4> QED
        BY <1>8, <4>1, <4>2 DEF About
    <3> QED
      BY <2>2, <3>1, KindFacts DEF Agree
  <2> QED
    BY <2>1, <2>2
<1>20. es \in Seq(EntryType)
  BY <1>9 DEF Fine
<1>21. Underway(o, n, es, t)
  BY <1>2, <1>9, <1>14, <1>17, <1>20 DEF Underway
<1>22. Fit(o, n, es, t)
  BY <1>4, <1>9, <1>15, <1>16, <1>18, <1>19, <1>21 DEF Fit
<1> QED
  BY <1>1, <1>22

\* Where a session that is alone stands, with the snapshots o and n, the
\* entries es and the content h in hand: t is the receiver's tree.  In the
\* middle of a write it is some tree u with the file of the first entry made.
Stage(place, o, n, es, h, t) ==
    /\ place # "adrift"
    /\ place = "walked" => o = Walk(t, {})
    /\ place = "apply" => Fit(o, n, es, t)
    /\ place = "writing" =>
          \E u : /\ Fit(o, n, es, u) /\ es # <<>> /\ Head(es).op = "create"
                 /\ ~ApplyFails(u, Head(es))
                 /\ t = Created(u, Head(es).path, <<>>) /\ h = Head(es).bytes
    /\ place = "renaming" =>
          /\ Fit(o, n, es, t) /\ es # <<>> /\ Head(es).op = "update"
          /\ ~ApplyFails(t, Head(es))
          /\ h = Assemble(Head(es).instructs, t[Head(es).path].data)

Underways == {"walked", "apply", "writing", "renaming", "adrift"}

AloneInv ==
    \A s \in Session : alone[s] /\ at[s] \in Underways =>
        /\ Busy \subseteq {s}
        /\ Stage(at[s], old[s], New(s), patch[s], held[s], rfs)

\* The root of the receiver's tree is no file and never becomes one.
RootInv ==
    /\ ~IsFile(rfs[Root])
    /\ \A s \in Session : at[s] \in {"writing", "renaming"} => Head(patch[s]).path # Root

\* A session about to apply its first entry.
LEMMA Opening ==
    ASSUME NEW o, NEW n, NEW es, NEW t, Fit(o, n, es, t), es # <<>>,
           ~ApplyFails(t, Head(es)), Head(es).op = "create"
    PROVE  Stage("writing", o, n, es, Head(es).bytes, Created(t, Head(es).path, <<>>))
BY DEF Stage

\* The content is written into a file that was empty.
LEMMA Filling ==
    ASSUME NEW u \in Tree, NEW e, e.op = "create", e.path \in Path, e.bytes \in Data,
           NEW t, t = Created(u, e.path, <<>>)
    PROVE  Updated(t, e.path, Overwritten(t[e.path].data, e.bytes)) = Applied(u, e)
<1>1. PICK p, d : p = e.path /\ d = e.bytes
  OBVIOUS
<1>2. p \in Path /\ d \in Data /\ p \notin Above(p)
  BY <1>1, PathAssumption DEF Above
<1>3. \A c : /\ Created(u, p, c) = [q \in Path |-> Created(u, p, c)[q]]
             /\ Created(u, p, c)[p] = File(c)
             /\ \A q \in Path \ {p} : Created(u, p, c)[q] = IF q \in Above(p) THEN Dir ELSE u[q]
  BY <1>2 DEF Created
<1>4. Len(d) \in Nat /\ Len(<<>>) = 0 /\ d \in Seq(Chunk)
  BY <1>2, LenProperties DEF Data
<1>5. SubSeq(<<>>, Len(d) + 1, 0) = <<>>
  BY <1>4, SubSeqEmpty
<1>6. Overwritten(<<>>, d) = d
  BY <1>4, <1>5, ConcatEmptySeq DEF Overwritten
<1>7. t[p].data = <<>>
  <2>1. t[p] = File(<<>>)
    BY <1>1, <1>3
  <2>2. File(<<>>).data = <<>>
    BY DEF File
  <2> QED
    BY <2>1, <2>2
<1>8. [t EXCEPT ![p] = File(d)] = Created(u, p, d)
  <2> DEFINE v == [t EXCEPT ![p] = File(d)]
             w == Created(u, p, d)
  <2>1. t = [q \in Path |-> t[q]] /\ \A q \in Path \ {p} : t[q] = w[q]
    BY <1>1, <1>3
  <2>2. v = [q \in Path |-> v[q]] /\ w = [q \in Path |-> w[q]]
    BY <1>3, <2>1
  <2>3. v[p] = w[p] /\ \A q \in Path \ {p} : v[q] = w[q]
    BY <1>2, <1>3, <2>1
  <2> HIDE DEF v, w
  <2>4. v = w
    BY <2>2, <2>3
  <2> QED
    BY <2>4 DEF v, w
<1>9. Applied(u, e) = Created(u, p, d)
  BY <1>1 DEF Applied
<1> QED
  BY <1>1, <1>6, <1>7, <1>8, <1>9 DEF Updated

\* A session that has applied everything has what its sender has.
LEMMA FitMirrors ==
    ASSUME TypeInv, NEW s \in Session, Fit(old[s], New(s), <<>>, rfs)
    PROVE  Mirrors(s)
<1> SUFFICES ASSUME NEW p \in Path, Visible(p)
             PROVE  /\ IsFile(sfs[s][p]) \/ IsFile(rfs[p]) => rfs[p] = sfs[s][p]
                    /\ rfs[p] = Dir => sfs[s][p] = Dir
  BY DEF Mirrors
<1>1. New(s)[p] = sfs[s][p]
  BY WalkVisible DEF New
<1>2. Agree(rfs[p], sfs[s][p])
  BY <1>1, FitEnd
<1>3. rfs[p] \in Node /\ sfs[s][p] \in Node
  BY TreeFacts DEF TypeInv, TypeOK
<1> QED
  BY <1>2, <1>3, NodeFacts, KindFacts DEF Agree

LEMMA InitAlone ==
    ASSUME Init, \A t \in ReceiverTrees : ~IsFile(t[Root])
    PROVE  RootInv /\ AloneInv
<1>1. \A s \in Session : at[s] = "free"
  BY DEF Init
<1>2. rfs \in ReceiverTrees
  BY DEF Init
<1> QED
  BY <1>1, <1>2 DEF RootInv, AloneInv, Underways

-----------------------------------------------------------------------------
(* Its steps.                                                              *)

\* A step of s in a patch leaves the others where they are, or takes from
\* them what they have open.
LEMMA ApplyFrame ==
    ASSUME Inv, TypeInv, NEW s \in Session, ApplySteps(s)
    PROVE  /\ s \in Busy /\ at[s] \in Underways /\ UNCHANGED <<sfs, old, alone>>
           /\ \A r \in Session \ {s} :
                 /\ patch'[r] = patch[r]
                 /\ at'[r] = at[r] \/ (at[r] \in {"writing", "renaming"} /\ at'[r] = "adrift")
<1> DEFINE Others ==
              \A r \in Session \ {s} :
                 /\ patch'[r] = patch[r]
                 /\ at'[r] = at[r] \/ (at[r] \in {"writing", "renaming"} /\ at'[r] = "adrift")
<1>1. at \in [Session -> Places] /\ patch \in [Session -> Seq(Fine)]
  BY DEF TypeInv, TypeOK, Places
<1>2. at[s] \in {"apply", "writing", "renaming", "adrift"} /\ UNCHANGED <<sfs, old, alone>>
  BY DEF ApplySteps, ApplyItemFails, FailsApplying, Deletes, OpensNew, FillsNew, FillsLost,
     Assembles, Renames, RenameFails, Finishes, Applying
<1>3. s \in Busy /\ at[s] \in Underways
  BY <1>2 DEF Busy, Over, Underways
<1>4. ASSUME NEW place, Goes(s, place) PROVE \A r \in Session \ {s} : at'[r] = at[r]
  BY <1>1, <1>4 DEF Goes
<1>5. ASSUME NEW outcome, Ends(s, outcome) PROVE \A r \in Session \ {s} : at'[r] = at[r]
  BY <1>4, <1>5 DEF Ends
<1>6. ASSUME NEW tree, NEW place, NEW lost, Changes(s, tree, place, lost),
             \A r \in lost : at[r] \in {"writing", "renaming"}
      PROVE  \A r \in Session \ {s} :
                at'[r] = at[r] \/ (at[r] \in {"writing", "renaming"} /\ at'[r] = "adrift")
  BY <1>6 DEF Changes
<1>7. \A es : patch' = [patch EXCEPT ![s] = es] => \A r \in Session \ {s} : patch'[r] = patch[r]
  BY <1>1
<1>8. \A paths : /\ \A r \in WritersOf(paths) : at[r] \in {"writing", "renaming"}
                 /\ \A r \in RenamersTo(paths) : at[r] \in {"writing", "renaming"}
  BY DEF WritersOf, RenamersTo
<1>9. CASE ApplyItemFails(s) \/ RenameFails(s)
  BY <1>2, <1>3, <1>5, <1>7, <1>9 DEF ApplyItemFails, RenameFails, FailsApplying
<1>10. CASE Finishes(s)
  BY <1>2, <1>3, <1>5, <1>10 DEF Finishes
<1>11. CASE FillsLost(s)
  BY <1>2, <1>3, <1>4, <1>7, <1>11 DEF FillsLost
<1>12. CASE Assembles(s)
  BY <1>2, <1>3, <1>4, <1>12 DEF Assembles
<1>13. CASE Deletes(s)
  <2> DEFINE gone == IF Head(patch[s]).path = Root THEN {} ELSE Under(Head(patch[s]).path)
             lost == WritersOf(gone \cup ({Head(patch[s]).path} \ {Root})) \cup RenamersTo(gone)
  <2>1. /\ Changes(s, Applied(rfs, Head(patch[s])), "apply", lost)
        /\ patch' = [patch EXCEPT ![s] = Tail(patch[s])]
    BY <1>13 DEF Deletes
  <2>2. \A r \in lost : at[r] \in {"writing", "renaming"}
    BY <1>8
  <2> HIDE DEF lost
  <2> QED
    BY <1>2, <1>3, <1>6, <1>7, <2>1, <2>2
<1>14. CASE OpensNew(s)
  <2>1. PICK tree, none : Changes(s, tree, "writing", none) /\ patch' = patch /\ none = {}
    BY <1>14 DEF OpensNew
  <2> QED
    BY <1>2, <1>3, <1>6, <2>1
<1>15. CASE FillsNew(s)
  <2>1. PICK tree, none : /\ Changes(s, tree, "apply", none) /\ none = {}
                          /\ patch' = [patch EXCEPT ![s] = Tail(patch[s])]
    BY <1>15 DEF FillsNew
  <2> QED
    BY <1>2, <1>3, <1>6, <1>7, <2>1
<1>16. CASE Renames(s)
  <2>1. PICK tree, lost : /\ Changes(s, tree, "apply", lost)
                          /\ lost = WritersOf({Head(patch[s]).path})
                          /\ patch' = [patch EXCEPT ![s] = Tail(patch[s])]
    BY <1>16 DEF Renames
  <2> QED
    BY <1>2, <1>3, <1>6, <1>7, <1>8, <2>1
<1> QED
  BY <1>2, <1>3, <1>9, <1>10, <1>11, <1>12, <1>13, <1>14, <1>15, <1>16 DEF ApplySteps

\* What a step in the patch of a session that is alone comes to.
LEMMA ApplyStage ==
    ASSUME Inv, Inv', TypeInv, AloneInv, NEW s \in Session, ApplySteps(s), alone[s]
    PROVE  /\ at'[s] # "failed" /\ at'[s] # "finished" =>
                 Stage(at'[s], old[s], New(s), patch'[s], held'[s], rfs')
           /\ at'[s] = "finished" =>
                 rfs' = rfs /\ Fit(old[s], New(s), <<>>, rfs)
<1> DEFINE e == Head(patch[s])
<1>1. /\ at \in [Session -> Places] /\ patch \in [Session -> Seq(Fine)]
      /\ held \in [Session -> Data] /\ rfs \in Tree
  BY DEF TypeInv, TypeOK, Places
<1>2. Stage(at[s], old[s], New(s), patch[s], held[s], rfs) /\ at[s] \in Underways
  BY ApplyFrame DEF AloneInv
<1>3. WellFormed(rfs')
  BY DEF Inv, TreesInv, WellFormed
<1>4. at[s] # "adrift"
  BY <1>2 DEF Stage
<1>5. at[s] = "apply" => Fit(old[s], New(s), patch[s], rfs)
  BY <1>2 DEF Stage
<1>6. ASSUME NEW t, Fit(old[s], New(s), patch[s], t), patch[s] # <<>>, ~ApplyFails(t, e),
             rfs' = Applied(t, e), at'[s] = "apply", patch'[s] = Tail(patch[s])
      PROVE  Stage(at'[s], old[s], New(s), patch'[s], held'[s], rfs')
  <2>1. Fit(old[s], New(s), Tail(patch[s]), Applied(t, e))
    BY <1>3, <1>6, FitTail
  <2> QED
    BY <1>6, <2>1 DEF Stage
<1>7. CASE ApplyItemFails(s) \/ RenameFails(s)
  <2>1. at'[s] = "failed"
    BY <1>1, <1>7 DEF ApplyItemFails, RenameFails, FailsApplying, Ends, Goes
  <2> QED
    BY <2>1
<1>8. CASE Finishes(s)
  <2>1. at[s] = "apply" /\ patch[s] = <<>> /\ rfs' = rfs /\ at'[s] = "finished"
    BY <1>1, <1>8 DEF Finishes, Ends, Goes
  <2> QED
    BY <1>5, <2>1
<1>9. CASE Deletes(s)
  <2>1. /\ at[s] = "apply" /\ patch[s] # <<>> /\ ~ApplyFails(rfs, e)
        /\ rfs' = Applied(rfs, e) /\ at'[s] = "apply" /\ patch'[s] = Tail(patch[s])
    BY <1>1, <1>9 DEF Deletes, Applying, Changes
  <2> QED
    BY <1>5, <1>6, <2>1
<1>10. CASE OpensNew(s)
  <2>1. /\ at[s] = "apply" /\ patch[s] # <<>> /\ ~ApplyFails(rfs, e) /\ e.op = "create"
        /\ rfs' = Created(rfs, e.path, <<>>) /\ at'[s] = "writing" /\ patch'[s] = patch[s]
        /\ held'[s] = e.bytes
    BY <1>1, <1>10 DEF OpensNew, Applying, Changes
  <2> QED
    BY <1>5, <2>1, Opening
<1>11. CASE FillsNew(s)
  <2>1. /\ at[s] = "writing" /\ at'[s] = "apply" /\ patch'[s] = Tail(patch[s])
        /\ rfs' = Updated(rfs, e.path, Overwritten(rfs[e.path].data, held[s]))
    BY <1>1, <1>11 DEF FillsNew, Changes
  <2>2. PICK u : /\ Fit(old[s], New(s), patch[s], u) /\ patch[s] # <<>> /\ e.op = "create"
                 /\ ~ApplyFails(u, e)
                 /\ rfs = Created(u, e.path, <<>>) /\ held[s] = e.bytes
    BY <1>2, <2>1 DEF Stage
  <2>3. u \in Tree
    BY <2>2 DEF Fit, Underway
  <2>4. e.path \in Path /\ e.bytes \in Data
    BY <2>2, FitHead
  <2> HIDE DEF e
  <2>5. rfs' = Applied(u, e)
    BY <2>1, <2>2, <2>3, <2>4, Filling
  <2> QED
    BY <1>6, <2>1, <2>2, <2>5
<1>12. CASE FillsLost(s)
  BY <1>4, <1>12 DEF FillsLost
<1>13. CASE Assembles(s)
  <2>1. /\ at[s] = "apply" /\ patch[s] # <<>> /\ ~ApplyFails(rfs, e) /\ e.op = "update"
        /\ rfs' = rfs /\ at'[s] = "renaming" /\ patch'[s] = patch[s]
        /\ held'[s] = Assemble(e.instructs, rfs[e.path].data)
    BY <1>1, <1>13 DEF Assembles, Applying, Goes
  <2> QED
    BY <1>5, <2>1 DEF Stage
<1>14. CASE Renames(s)
  <2>1. /\ at[s] = "renaming" /\ at'[s] = "apply" /\ patch'[s] = Tail(patch[s])
        /\ rfs' = Updated(rfs, e.path, held[s])
    BY <1>1, <1>14 DEF Renames, Changes
  <2>2. /\ Fit(old[s], New(s), patch[s], rfs) /\ patch[s] # <<>> /\ e.op = "update"
        /\ ~ApplyFails(rfs, e) /\ held[s] = Assemble(e.instructs, rfs[e.path].data)
    BY <1>2, <2>1 DEF Stage
  <2>3. rfs' = Applied(rfs, e)
    BY <2>1, <2>2 DEF Applied
  <2> QED
    BY <1>6, <2>1, <2>2, <2>3
<1> QED
  BY <1>7, <1>8, <1>9, <1>10, <1>11, <1>12, <1>13, <1>14 DEF ApplySteps

\* As long as s is in a patch nobody else is alone, whoever s is.
LEMMA ApplyAlone ==
    ASSUME Inv, Inv', TypeInv, AloneInv, NEW s \in Session, ApplySteps(s)
    PROVE  /\ AloneInv'
           /\ \A r \in Session :
                 at[r] # "finished" /\ at'[r] = "finished" /\ alone[r] =>
                     r = s /\ rfs' = rfs /\ Fit(old[s], New(s), <<>>, rfs)
<1>1. /\ s \in Busy /\ at[s] \in Underways /\ UNCHANGED <<sfs, old, alone>>
      /\ \A r \in Session \ {s} :
            /\ patch'[r] = patch[r]
            /\ at'[r] = at[r] \/ (at[r] \in {"writing", "renaming"} /\ at'[r] = "adrift")
  BY ApplyFrame
<1>2. \A r \in Session \ {s} : alone[r] => at[r] \notin Underways /\ at'[r] = at[r]
  BY <1>1 DEF AloneInv, Underways
<1>3. New(s)' = New(s)
  BY <1>1 DEF New, Walk, Visible
<1>4. ASSUME alone[s], at'[s] \in Underways
      PROVE  /\ Busy' \subseteq {s}
             /\ Stage(at[s], old[s], New(s), patch[s], held[s], rfs)'
  <2>1. Busy \subseteq {s}
    BY <1>1, <1>4 DEF AloneInv
  <2>2. ASSUME NEW r \in Busy', r # s PROVE FALSE
    <3>1. r \in Session /\ at'[r] \notin {"free", "walked", "finished", "failed"}
      BY <2>2 DEF Busy, Over
    <3>2. r \in Busy
      BY <1>1, <2>2, <3>1 DEF Busy, Over
    <3> QED
      BY <2>1, <2>2, <3>2
  <2>3. Stage(at'[s], old[s], New(s), patch'[s], held'[s], rfs')
    BY <1>4, ApplyStage DEF Underways
  <2> HIDE DEF New, Stage
  <2>4. Stage(at[s], old[s], New(s), patch[s], held[s], rfs)'
    BY <1>1, <1>3, <2>3
  <2> QED
    BY <2>2, <2>4
<1>5. AloneInv'
  <2> SUFFICES ASSUME NEW r \in Session, alone'[r], at'[r] \in Underways
               PROVE  /\ Busy' \subseteq {r}
                      /\ Stage(at[r], old[r], New(r), patch[r], held[r], rfs)'
    BY DEF AloneInv
  <2> QED
    BY <1>1, <1>2, <1>4
<1>6. ASSUME NEW r \in Session, at[r] # "finished", at'[r] = "finished", alone[r]
      PROVE  r = s /\ rfs' = rfs /\ Fit(old[s], New(s), <<>>, rfs)
  <2>1. r = s
    BY <1>2, <1>6
  <2> QED
    BY <1>6, <2>1, ApplyStage
<1> QED
  BY <1>5, <1>6

\* Steps after which the sessions under way are some of those before, as they
\* were, none of the others has become busy, and the tree is the same.
LEMMA FewerUnderway ==
    ASSUME AloneInv, UNCHANGED <<rfs, sfs>>, NEW gone,
           \A r \in Session \ gone :
              /\ at'[r] = at[r] /\ old'[r] = old[r] /\ patch'[r] = patch[r]
              /\ held'[r] = held[r] /\ (alone'[r] => alone[r]),
           \A r \in Session \cap gone : at'[r] \in {"free", "walked", "finished", "failed"},
           NEW s \in Session, s \notin gone, alone'[s], at'[s] \in Underways
    PROVE  Busy' \subseteq {s} /\ Stage(at[s], old[s], New(s), patch[s], held[s], rfs)'
<1>1. Busy \subseteq {s} /\ Stage(at[s], old[s], New(s), patch[s], held[s], rfs)
  BY DEF AloneInv
<1>2. Busy' \subseteq Busy
  BY DEF Busy, Over
<1>3. New(s)' = New(s)
  BY DEF New, Walk, Visible
<1> HIDE DEF New, Stage, Busy
<1>4. Stage(at[s], old[s], New(s), patch[s], held[s], rfs)'
  BY <1>1, <1>3
<1> QED
  BY <1>1, <1>2, <1>4

\* The walk, the patch, and a connection lost in between.
LEMMA WaitingAlone ==
    ASSUME Inv, TypeInv, RootInv, AloneInv, NEW s \in Session,
           Snapshots(s) \/ ReceivesPatch(s) \/ LosesPatch(s)
    PROVE  /\ AloneInv'
           /\ \A r \in Session :
                 at[r] # "finished" /\ at'[r] = "finished" /\ alone[r] =>
                     r = s /\ rfs' = rfs /\ UNCHANGED <<sfs, old>> /\ Fit(old[s], New(s), <<>>, rfs)
<1>1. /\ at \in [Session -> Places] /\ patch \in [Session -> Seq(Fine)]
      /\ old \in [Session -> Tree] /\ alone \in [Session -> BOOLEAN]
      /\ rfs \in Tree /\ sfs \in [Session -> Tree]
  BY DEF TypeInv, TypeOK, Places
<1>2. UNCHANGED <<rfs, sfs, held>> /\ at[s] \in {"free", "walked"}
  BY DEF Snapshots, ReceivesPatch, LosesPatch
<1>3. \A r \in Session \ {s} :
          /\ at'[r] = at[r] /\ old'[r] = old[r] /\ patch'[r] = patch[r] /\ held'[r] = held[r]
          /\ alone'[r] => alone[r]
  BY <1>1 DEF Snapshots, ReceivesPatch, LosesPatch, Goes, Ends
<1>4. ASSUME at'[s] \in {"free", "walked", "finished", "failed"},
             NEW r \in Session \ {s}, alone'[r], at'[r] \in Underways
      PROVE  Busy' \subseteq {r} /\ Stage(at[r], old[r], New(r), patch[r], held[r], rfs)'
  <2>1. PICK gone : gone = {s}
    OBVIOUS
  <2>2. /\ r \notin gone /\ UNCHANGED <<rfs, sfs>>
        /\ \A q \in Session \cap gone : at'[q] \in {"free", "walked", "finished", "failed"}
        /\ \A q \in Session \ gone :
              /\ at'[q] = at[q] /\ old'[q] = old[q] /\ patch'[q] = patch[q]
              /\ held'[q] = held[q] /\ (alone'[q] => alone[q])
    BY <1>2, <1>3, <1>4, <2>1
  <2> QED
    BY <1>4, <2>2, FewerUnderway
<1>5. CASE Snapshots(s)
  <2>1. /\ at'[s] = "walked" /\ old'[s] = Walk(rfs, {}) /\ alone'[s] = (Busy = {})
    BY <1>1, <1>5 DEF Snapshots, Goes
  <2>2. Busy' = Busy
    BY <1>3, <1>5, <2>1 DEF Busy, Over, Snapshots
  <2>3. alone'[s] => Busy' \subseteq {s} /\ Stage(at[s], old[s], New(s), patch[s], held[s], rfs)'
    BY <1>2, <2>1, <2>2 DEF Stage
  <2>4. AloneInv'
    BY <1>4, <2>1, <2>3 DEF AloneInv
  <2> QED
    BY <1>3, <2>1, <2>4
<1>6. CASE LosesPatch(s)
  <2>1. at'[s] = "failed"
    BY <1>1, <1>6 DEF LosesPatch, Ends, Goes
  <2>2. at'[s] \notin Underways
    BY <2>1 DEF Underways
  <2>3. AloneInv'
    BY <1>4, <2>1, <2>2 DEF AloneInv
  <2> QED
    BY <1>3, <2>1, <2>3
<1>7. CASE ReceivesPatch(s)
  <2>1. PICK es \in Patches(old[s], Walk(sfs[s], {})) : patch' = [patch EXCEPT ![s] = es]
    BY <1>7 DEF ReceivesPatch
  <2>2. /\ at[s] = "walked" /\ sfs[s][Root] # Absent
        /\ UNCHANGED <<rfs, sfs, old, held>> /\ patch'[s] = es
    BY <1>1, <1>7, <2>1 DEF ReceivesPatch
  <2>3. ASSUME alone[s] PROVE Busy \subseteq {s} /\ Fit(old[s], New(s), es, rfs)
    <3>1. Busy \subseteq {s} /\ Stage(at[s], old[s], New(s), patch[s], held[s], rfs)
      BY <2>2, <2>3 DEF AloneInv, Underways
    <3>2. PICK t, f : t = rfs /\ f = sfs[s]
      OBVIOUS
    <3>3. old[s] = Walk(t, {}) /\ New(s) = Walk(f, {})
      BY <2>2, <3>1, <3>2 DEF Stage, New
    <3>4. /\ t \in Tree /\ f \in Tree /\ WellFormed(t) /\ WellFormed(f)
          /\ ~IsFile(t[Root]) /\ f[Root] # Absent
      BY <1>1, <2>2, <3>2 DEF Inv, TreesInv, RootInv
    <3>5. es \in Patches(Walk(t, {}), Walk(f, {}))
      BY <3>2, <3>3
    <3>6. Fit(Walk(t, {}), Walk(f, {}), es, t)
      BY <3>4, <3>5, PatchesFit
    <3> QED
      BY <3>1, <3>2, <3>3, <3>6
  <2>4. CASE es = <<>>
    <3>1. at'[s] = "finished" /\ alone' = alone
      BY <1>1, <1>7, <2>2, <2>4 DEF ReceivesPatch, Ends, Goes
    <3>2. at'[s] \notin Underways
      BY <3>1 DEF Underways
    <3>3. AloneInv'
      BY <1>4, <3>1, <3>2 DEF AloneInv
    <3> QED
      BY <1>3, <2>2, <2>3, <2>4, <3>1, <3>3
  <2>5. CASE es # <<>>
    <3>1. /\ at'[s] = "apply"
          /\ alone' = [r \in Session |-> alone[r] /\ (r # s => at[r] = "free" \/ Over(r))]
      BY <1>1, <1>7, <2>2, <2>5 DEF ReceivesPatch, Goes
    <3>2. \A r \in Session \ {s} : alone'[r] => at'[r] \notin Underways
      BY <1>3, <3>1 DEF Over, Underways
    <3>3. ASSUME alone'[s]
          PROVE  Busy' \subseteq {s} /\ Stage(at[s], old[s], New(s), patch[s], held[s], rfs)'
      <4>1. alone[s] /\ Busy \subseteq {s} /\ Fit(old[s], New(s), es, rfs)
        BY <2>3, <3>1, <3>3
      <4>2. Busy' \subseteq {s}
        BY <1>3, <4>1 DEF Busy, Over
      <4>3. New(s)' = New(s)
        BY <2>2 DEF New, Walk, Visible
      <4>4. Stage("apply", old[s], New(s), es, held[s], rfs)
        BY <4>1 DEF Stage
      <4> HIDE DEF New, Stage
      <4>5. Stage(at[s], old[s], New(s), patch[s], held[s], rfs)'
        BY <2>2, <3>1, <4>3, <4>4
      <4> QED
        BY <4>2, <4>5
    <3>4. AloneInv'
      BY <3>2, <3>3 DEF AloneInv
    <3> QED
      BY <1>3, <3>1, <3>4
  <2> QED
    BY <2>4, <2>5
<1> QED
  BY <1>5, <1>6, <1>7

\* The program's own steps end sessions or leave them alone.
LEMMA ProgramAlone ==
    ASSUME Inv, TypeInv, AloneInv,
           CliSteps \/ Restart \/ Shutdown \/ Crash \/ UNCHANGED vars
    PROVE  /\ AloneInv'
           /\ \A r \in Session : at'[r] = "finished" => at[r] = "finished"
<1>1. UNCHANGED <<rfs, sfs, old, held, alone>>
  BY DEF CliSteps, ReadKey, CreateKeyFile, FillKeyFile, KeyNotKept, FailsEarly, Restart, Shutdown, Crash,
     vars, sessions
<1>2. PICK gone : gone = {r \in Session : at'[r] # at[r] \/ patch'[r] # patch[r]}
  OBVIOUS
<1>3. \A r \in Session \cap gone : at'[r] \in {"free", "finished", "failed"}
  <2>1. CASE CliSteps \/ Restart \/ UNCHANGED vars
    BY <1>2, <2>1 DEF CliSteps, ReadKey, CreateKeyFile, FillKeyFile, KeyNotKept, FailsEarly, Restart,
       vars, sessions
  <2>2. CASE Shutdown \/ Crash
    BY <1>2, <2>2 DEF Shutdown, Crash
  <2> QED
    BY <2>1, <2>2
<1>4. \A r \in Session : at'[r] = "finished" => at[r] = "finished"
  BY DEF CliSteps, ReadKey, CreateKeyFile, FillKeyFile, KeyNotKept, FailsEarly, Restart, Shutdown, Crash,
     vars, sessions
<1>5. ASSUME NEW r \in Session, alone'[r], at'[r] \in Underways
      PROVE  Busy' \subseteq {r} /\ Stage(at[r], old[r], New(r), patch[r], held[r], rfs)'
  <2>1. r \notin gone
    BY <1>3, <1>5 DEF Underways
  <2>2. \A q \in Session \ gone :
            /\ at'[q] = at[q] /\ old'[q] = old[q] /\ patch'[q] = patch[q]
            /\ held'[q] = held[q] /\ (alone'[q] => alone[q])
    BY <1>1, <1>2
  <2> QED
    BY <1>1, <1>3, <1>5, <2>1, <2>2, FewerUnderway
<1>6. AloneInv'
  BY <1>5 DEF AloneInv
<1> QED
  BY <1>4, <1>6

\* Nobody writes at the root.
LEMMA RootStep ==
    ASSUME Inv, TypeInv, RootInv, [Next]_vars
    PROVE  RootInv'
<1>1. /\ at \in [Session -> Places] /\ patch \in [Session -> Seq(Fine)] /\ rfs \in Tree
      /\ OnPaths(rfs) /\ Root \in Path /\ Above(Root) = {}
  BY RootVisible, TreeFacts DEF TypeInv, TypeOK, Places
<1>2. ASSUME UNCHANGED <<rfs, sfs>>,
             \A r \in Session : at'[r] \in {"writing", "renaming"} =>
                 at[r] = at'[r] /\ patch'[r] = patch[r]
      PROVE  RootInv'
  BY <1>2 DEF RootInv
<1>3. CASE CliSteps \/ Restart \/ Shutdown \/ Crash \/ UNCHANGED vars
  <2>1. CASE CliSteps \/ Restart \/ UNCHANGED vars
    BY <1>2, <2>1 DEF CliSteps, ReadKey, CreateKeyFile, FillKeyFile, KeyNotKept, FailsEarly, Restart,
       vars, sessions
  <2>2. CASE Shutdown \/ Crash
    BY <1>2, <2>2 DEF Shutdown, Crash
  <2> QED
    BY <1>3, <2>1, <2>2
<1>4. ASSUME NEW s \in Session, Snapshots(s) \/ ReceivesPatch(s) \/ LosesPatch(s)
      PROVE  RootInv'
  <2>1. UNCHANGED <<rfs, sfs>>
    BY <1>4 DEF Snapshots, ReceivesPatch, LosesPatch
  <2>2. /\ at'[s] \in {"walked", "apply", "finished", "failed"}
        /\ \A r \in Session \ {s} : at'[r] = at[r] /\ patch'[r] = patch[r]
    BY <1>1, <1>4 DEF Snapshots, ReceivesPatch, LosesPatch, Goes, Ends
  <2> QED
    BY <1>2, <2>1, <2>2
<1>5. ASSUME NEW s \in Session, ApplySteps(s) PROVE RootInv'
  <2> DEFINE e == Head(patch[s])
  <2>1. /\ UNCHANGED sfs
        /\ \A r \in Session \ {s} :
              /\ patch'[r] = patch[r]
              /\ at'[r] = at[r] \/ at'[r] = "adrift"
    BY <1>5, ApplyFrame
  <2>2. SUFFICES /\ ~IsFile(rfs'[Root])
                 /\ at'[s] \in {"writing", "renaming"} => patch'[s] = patch[s] /\ e.path # Root
    BY <2>1 DEF RootInv
  <2>3. ASSUME rfs' = rfs, at'[s] \in Places \ {"writing", "renaming"}
        PROVE  /\ ~IsFile(rfs'[Root])
               /\ at'[s] \in {"writing", "renaming"} => patch'[s] = patch[s] /\ e.path # Root
    BY <2>3 DEF RootInv
  <2>4. CASE ApplyItemFails(s) \/ RenameFails(s) \/ Finishes(s) \/ FillsLost(s)
    <3>1. rfs' = rfs
      BY <2>4 DEF ApplyItemFails, RenameFails, FailsApplying, Finishes, FillsLost
    <3>2. at'[s] \in {"apply", "finished", "failed"}
      BY <1>1, <2>4 DEF ApplyItemFails, RenameFails, FailsApplying, Finishes, FillsLost, Ends, Goes
    <3> QED
      BY <2>3, <3>1, <3>2 DEF Places
  <2>5. CASE Deletes(s)
    <3>1. rfs' = Deleted(rfs, e.path) /\ at'[s] = "apply" /\ patch[s] # <<>>
      BY <1>1, <2>5 DEF Deletes, Changes, Applied, Applying
    <3>2. e.path \in Path
      BY <3>1, FirstEntry
    <3>3. rfs'[Root] = rfs[Root]
      <4>1. CASE e.path = Root
        BY <3>1, <4>1 DEF Deleted
      <4>2. CASE e.path # Root
        <5>1. Root \notin Under(e.path)
          BY <1>1, <3>2, UnderAbove
        <5> QED
          BY <1>1, <3>1, <4>2, <5>1 DEF Deleted
      <4> QED
        BY <4>1, <4>2
    <3> QED
      BY <3>1, <3>3 DEF RootInv
  <2>6. CASE OpensNew(s)
    <3>1. /\ rfs' = Created(rfs, e.path, <<>>) /\ at'[s] = "writing" /\ patch' = patch
          /\ e.path # Root
      BY <1>1, <2>6 DEF OpensNew, Changes, ApplyFails, CreateFails
    <3>2. rfs'[Root] = rfs[Root] \/ rfs'[Root] = Dir
      BY <1>1, <3>1 DEF Created
    <3> QED
      BY <3>1, <3>2, KindFacts DEF RootInv
  <2>7. CASE FillsNew(s) \/ Renames(s)
    <3>1. /\ at[s] \in {"writing", "renaming"} /\ at'[s] = "apply"
          /\ \E d : rfs' = [rfs EXCEPT ![e.path] = d]
      BY <1>1, <2>7 DEF FillsNew, Renames, Changes, Updated
    <3>2. e.path # Root
      BY <3>1 DEF RootInv
    <3>3. rfs'[Root] = rfs[Root]
      BY <1>1, <3>1, <3>2 DEF OnPaths
    <3> QED
      BY <3>1, <3>3 DEF RootInv
  <2>8. CASE Assembles(s)
    <3>1. /\ rfs' = rfs /\ patch' = patch /\ e.path # Root
      BY <2>8 DEF Assembles, ApplyFails, UpdateFails
    <3> QED
      BY <3>1 DEF RootInv
  <2> QED
    BY <1>5, <2>4, <2>5, <2>6, <2>7, <2>8 DEF ApplySteps
<1> QED
  BY <1>3, <1>4, <1>5 DEF Next, EndsProgram, Interrupt

LEMMA AloneStep ==
    ASSUME Inv, Inv', TypeInv, TypeInv', RootInv, AloneInv, [Next]_vars
    PROVE  /\ AloneInv'
           /\ \A s \in Session :
                 at[s] # "finished" /\ at'[s] = "finished" /\ alone[s] => Mirrors(s)'
<1>1. ASSUME NEW s \in Session, UNCHANGED <<rfs, sfs, old>>, Fit(old[s], New(s), <<>>, rfs)
      PROVE  Mirrors(s)'
  <2>1. Mirrors(s)
    BY <1>1, FitMirrors
  <2> QED
    BY <1>1, <2>1 DEF Mirrors, Visible
<1>2. CASE CliSteps \/ Restart \/ Shutdown \/ Crash \/ UNCHANGED vars
  BY <1>2, ProgramAlone
<1>3. ASSUME NEW s \in Session, ApplySteps(s)
      PROVE  /\ AloneInv'
             /\ \A r \in Session :
                   at[r] # "finished" /\ at'[r] = "finished" /\ alone[r] => Mirrors(r)'
  <2>1. UNCHANGED <<sfs, old>>
    BY <1>3, ApplyFrame
  <2> QED
    BY <1>1, <1>3, <2>1, ApplyAlone
<1>4. ASSUME NEW s \in Session, Snapshots(s) \/ ReceivesPatch(s) \/ LosesPatch(s)
      PROVE  /\ AloneInv'
             /\ \A r \in Session :
                   at[r] # "finished" /\ at'[r] = "finished" /\ alone[r] => Mirrors(r)'
  BY <1>1, <1>4, WaitingAlone
<1> QED
  BY <1>2, <1>3, <1>4 DEF Next, EndsProgram, Interrupt

\* When the receiver's root is not a file, a session that succeeds while no
\* other one was in a patch since its snapshot leaves its sender's tree: for
\* any trees and orders of the entries, and whatever sessions, half-applied
\* patches, ends of the program and crashes came before it.
THEOREM MirrorAloneCorrect ==
    ASSUME \A t \in ReceiverTrees : ~IsFile(t[Root])
    PROVE  Spec => MirrorAlone
<1> DEFINE Ended == \A s \in Session :
              at[s] # "finished" /\ at'[s] = "finished" /\ alone[s] => Mirrors(s)'
<1>1. Init => RootInv /\ AloneInv
  BY InitAlone
<1>2. Inv /\ Inv' /\ TypeInv /\ TypeInv' /\ RootInv /\ AloneInv /\ [Next]_vars
      => RootInv' /\ AloneInv' /\ [Ended]_vars
  BY RootStep, AloneStep
<1>3. Spec => [][Ended]_vars
  BY <1>1, <1>2, Invariance, TypeAlways, PTL DEF Spec
<1> QED
  BY <1>3 DEF MirrorAlone

-----------------------------------------------------------------------------
(* The end of a patch.                                                     *)

\* How a step may treat the patch of s.
Uncut(s) ==
    \/ s \in Busy' /\ patch'[s] = patch[s]
    \/ s \in Busy' /\ patch[s] # <<>> /\ patch'[s] = Tail(patch[s])
    \/ at'[s] = "finished" /\ patch[s] = <<>>
    \/ at'[s] = "failed" /\ (Blocked(s) \/ program' = "down")

LEMMA BusyPlaces ==
    \A s \in Session : /\ s \in Busy <=> at[s] \notin {"free", "walked", "finished", "failed"}
                       /\ s \in Busy' <=> at'[s] \notin {"free", "walked", "finished", "failed"}
BY DEF Busy, Over

LEMMA OwnStepUncut ==
    ASSUME Inv, TypeInv, NEW s \in Session, ApplySteps(s)
    PROVE  Uncut(s)
<1>1. at \in [Session -> Places] /\ patch \in [Session -> Seq(Fine)]
  BY DEF TypeInv, TypeOK, Places
<1>2. at[s] \in {"writing", "renaming", "adrift"} => patch[s] # <<>>
  BY DEF Inv, SoundPatch
<1>3. CASE ApplyItemFails(s)
  BY <1>1, <1>3 DEF ApplyItemFails, Applying, FailsApplying, Ends, Goes, Uncut, Blocked
<1>4. CASE RenameFails(s)
  BY <1>1, <1>2, <1>4 DEF RenameFails, FailsApplying, Ends, Goes, Uncut, Blocked
<1>5. CASE Finishes(s)
  BY <1>1, <1>5 DEF Finishes, Ends, Goes, Uncut
<1>6. CASE Deletes(s)
  <2>1. /\ at'[s] = "apply" /\ patch[s] # <<>> /\ patch'[s] = Tail(patch[s])
    BY <1>1, <1>6 DEF Deletes, Applying, Changes
  <2> QED
    BY <2>1, BusyPlaces DEF Uncut
<1>7. CASE OpensNew(s)
  <2>1. at'[s] = "writing" /\ patch'[s] = patch[s]
    BY <1>1, <1>7 DEF OpensNew, Changes
  <2> QED
    BY <2>1, BusyPlaces DEF Uncut
<1>8. CASE FillsNew(s) \/ FillsLost(s) \/ Renames(s)
  <2>1. at'[s] = "apply" /\ patch[s] # <<>> /\ patch'[s] = Tail(patch[s])
    BY <1>1, <1>2, <1>8 DEF FillsNew, FillsLost, Renames, Changes, Goes
  <2> QED
    BY <2>1, BusyPlaces DEF Uncut
<1>9. CASE Assembles(s)
  <2>1. at'[s] = "renaming" /\ patch'[s] = patch[s]
    BY <1>1, <1>9 DEF Assembles, Goes
  <2> QED
    BY <2>1, BusyPlaces DEF Uncut
<1> QED
  BY <1>3, <1>4, <1>5, <1>6, <1>7, <1>8, <1>9 DEF ApplySteps

\* A step that leaves the place and the patch of s alone.
LEMMA UntouchedUncut ==
    ASSUME NEW s \in Busy, at'[s] = at[s] \/ at'[s] = "adrift", patch'[s] = patch[s]
    PROVE  Uncut(s)
BY BusyPlaces DEF Uncut, Busy

LEMMA UncutStep ==
    ASSUME Inv, TypeInv, [Next]_vars, NEW s \in Busy
    PROVE  Uncut(s)
<1>1. s \in Session /\ at \in [Session -> Places] /\ patch \in [Session -> Seq(Fine)]
  BY DEF Busy, TypeInv, TypeOK, Places
<1>2. CASE CliSteps \/ Restart \/ UNCHANGED vars
  BY <1>2, UntouchedUncut DEF CliSteps, ReadKey, CreateKeyFile, FillKeyFile, KeyNotKept, FailsEarly,
     Restart, sessions, vars
<1>3. CASE EndsProgram \/ Interrupt
  <2>1. at'[s] = at[s] /\ patch' = patch
    BY <1>1, <1>3, BusyPlaces DEF EndsProgram, Interrupt, Shutdown
  <2> QED
    BY <2>1, UntouchedUncut
<1>4. CASE Crash
  BY <1>1, <1>4, BusyPlaces DEF Crash, Uncut
<1>5. ASSUME NEW r \in Session, Snapshots(r) \/ ReceivesPatch(r) \/ LosesPatch(r)
      PROVE  Uncut(s)
  <2>1. at[r] \in {"free", "walked"}
    BY <1>5 DEF Snapshots, ReceivesPatch, LosesPatch
  <2>2. r # s
    BY <2>1, BusyPlaces
  <2>3. at'[s] = at[s] /\ patch'[s] = patch[s]
    BY <1>1, <1>5, <2>2 DEF Snapshots, ReceivesPatch, LosesPatch, Ends, Goes
  <2> QED
    BY <2>3, UntouchedUncut
<1>6. ASSUME NEW r \in Session, ApplySteps(r) PROVE Uncut(s)
  <2>1. CASE r = s
    BY <1>6, <2>1, OwnStepUncut
  <2>2. CASE r # s
    BY <1>1, <1>6, <2>2, ApplyFrame, UntouchedUncut
  <2> QED
    BY <2>1, <2>2
<1> QED
  BY <1>2, <1>3, <1>4, <1>5, <1>6 DEF Next

\* No end of the program and no other session cuts a patch off: a session
\* leaves its patch after the last entry, at an entry that fails on the tree
\* it meets or in a crash.
THEOREM PatchNotCutCorrect == Spec => PatchNotCut
<1> DEFINE Kept == \A s \in Busy : Uncut(s)
<1>1. Inv /\ TypeInv /\ [Next]_vars => [Kept]_vars
  BY UncutStep
<1>2. Spec => [][Kept]_vars
  BY <1>1, Invariance, TypeAlways, PTL DEF Spec
<1> QED
  BY <1>2 DEF PatchNotCut, Uncut

-----------------------------------------------------------------------------
(* The key.                                                                *)

\* A key that is in its file is the only one in use, and the file is neither
\* being written nor refused.
KeyInv ==
    KeyIsKept => key \in {NoKey, keyFile} /\ program \notin {"writing", "refused"}

LEMMA KeyStep ==
    ASSUME KeyInv, [Next]_vars
    PROVE  /\ KeyInv'
           /\ KeyIsKept => /\ keyFile' = keyFile /\ key' \in {NoKey, keyFile}
                           /\ program' \notin {"writing", "refused"}
<1> USE DEF KeyInv, KeyIsKept
<1>1. CASE CliSteps
  BY <1>1 DEF CliSteps, ReadKey, CreateKeyFile, FillKeyFile, KeyNotKept, FailsEarly, NoKey, Torn
<1>2. CASE EndsProgram \/ Interrupt \/ Crash \/ Restart
  BY <1>2 DEF EndsProgram, Interrupt, Shutdown, Crash, Restart
<1>3. CASE \E s \in Session : Snapshots(s) \/ ReceivesPatch(s) \/ LosesPatch(s) \/ ApplySteps(s)
  <2>1. UNCHANGED <<keyFile, key, program>>
    BY <1>3 DEF Snapshots, ReceivesPatch, LosesPatch, ApplySteps, ApplyItemFails, FailsApplying,
                Deletes, OpensNew, FillsNew, FillsLost, Assembles, Renames, RenameFails,
                Finishes, cli
  <2> QED
    BY <2>1
<1>4. CASE UNCHANGED vars
  BY <1>4 DEF vars, cli
<1> QED
  BY <1>1, <1>2, <1>3, <1>4 DEF Next

\* Over any number of starts, crashes and interrupts: once a key is in its
\* file the program serves under that key or not at all, and never again
\* writes the file or refuses to start because of it.
THEOREM TicketKeptCorrect == Spec => TicketKept
<1> DEFINE Kept == KeyIsKept =>
              /\ keyFile' = keyFile /\ key' \in {NoKey, keyFile}
              /\ program' \notin {"writing", "refused"}
<1>1. Init => KeyInv
  BY DEF Init, KeyInv, KeyIsKept
<1>2. KeyInv /\ [Next]_vars => KeyInv' /\ [Kept]_cli
  BY KeyStep
<1>3. Spec => [][Kept]_cli
  BY <1>1, <1>2, PTL DEF Spec
<1> QED
  BY <1>3 DEF TicketKept
=============================================================================
