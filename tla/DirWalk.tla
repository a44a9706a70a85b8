------------------------------- MODULE DirWalk -------------------------------
(***************************************************************************)
(* dirwalker::walkdir: a thread that starts parallel visitors, the channel *)
(* they send their entries through, and the caller that collects them      *)
(* until every sender of the channel is gone.                              *)
(*                                                                         *)
(* Walk of FileTree takes one look at the whole tree.  This walk takes one *)
(* look at a path at a time while the user goes on editing, and promises   *)
(* what can still be promised then.  Files hold bytes here, and an entry   *)
(* their chunks.                                                           *)
(*                                                                         *)
(* The traversal (ignore's WalkParallel) is external: a visitor takes a    *)
(* path it knows of, and for a directory reads its names one by one before *)
(* it takes the next.  A name has the type it had when it was read.        *)
(***************************************************************************)
EXTENDS FileTree, Chunker, FiniteSets

CONSTANTS
    Visitor,      \* the visitors, one for each thread of the traversal
    StartTrees,   \* the trees the walk may meet
    Unreadable,   \* the paths that do not open
    Editable,     \* the paths the user edits
    Contents,     \* what the user writes
    MaxEdits      \* bound on the edits during a walk

ASSUME WalkAssumption ==
    /\ \A t \in StartTrees : t \in Tree /\ WellFormed(t)
    /\ Unreadable \subseteq Path /\ Editable \subseteq Path \ {Root}
    /\ Contents \subseteq Data
    /\ MaxEdits \in Nat

\* No directory.
NoDir == "none"

ASSUME NoDirAssumption == NoDir \notin Path

\* The directories around a path are finitely many and nested in each other.
ASSUME NestingAssumption ==
    \A r \in Path :
        /\ IsFiniteSet(Above(r))
        /\ \A p, q \in Above(r) : p = q \/ p \in Above(q) \/ q \in Above(p)

VARIABLES
    tree,     \* the directory that is walked
    phase,    \* where walkdir is
    found,    \* the paths found and not visited yet, with their type
    dir,      \* the directory each visitor reads, or NoDir
    unseen,   \* the names in it the visitor has not come to
    senders,  \* who holds a sender of the channel
    listed,   \* the entries sent so far
    was,      \* what each path has been since the walk began
    edits     \* number of edits so far

walker == <<phase, found, dir, unseen, senders, listed>>
user   == <<tree, was, edits>>
vars   == <<walker, user>>

FileEntry(chunks) == [kind |-> "file", data |-> chunks]

TypeOK ==
    /\ tree \in Tree /\ WellFormed(tree)
    /\ phase \in {"start", "spawned", "visiting", "returned", "refused"}
    /\ found \in [Path -> {"none", "dir", "file"}]
    /\ dir \in [Visitor -> Path \cup {NoDir}]
    /\ unseen \in [Visitor -> SUBSET {p \in Path : Visible(p)}]
    /\ \A p \in Path : found[p] # "none" \/ listed[p] # Absent => Visible(p)
    /\ senders \subseteq Visitor \cup {"builder"}
    /\ edits \in 0 .. MaxEdits

Init ==
    /\ tree \in StartTrees
    /\ phase = "start"
    /\ found = [p \in Path |-> "none"]
    /\ dir = [v \in Visitor |-> NoDir] /\ unseen = [v \in Visitor |-> {}]
    /\ senders = {}
    /\ listed = NoTree
    /\ was = [p \in Path |-> {tree[p]}]
    /\ edits = 0

-----------------------------------------------------------------------------
(* The walk.                                                               *)

\* A root that does not exist is an error, any other one starts the thread.
Start ==
    /\ phase = "start"
    /\ IF tree[Root] = Absent
       THEN phase' = "refused" /\ UNCHANGED senders
       ELSE phase' = "spawned" /\ senders' = {"builder"}
    /\ UNCHANGED <<found, dir, unseen, listed, user>>

TypeOf(n) ==
    CASE n.kind = "absent" -> "none" [] n.kind = "dir" -> "dir" [] n.kind = "file" -> "file"

\* The traversal looks at the root and builds its visitors, each with a clone
\* of the sender.  A root that is gone by now leaves it nothing to visit.
BuildVisitors ==
    /\ phase = "spawned"
    /\ phase' = "visiting"
    /\ found' = [found EXCEPT ![Root] = TypeOf(tree[Root])]
    /\ senders' = {"builder"} \cup Visitor
    /\ UNCHANGED <<dir, unseen, listed, user>>

Takes(v, p, type) ==
    /\ v \in senders /\ dir[v] = NoDir
    /\ found[p] = type
    /\ found' = [found EXCEPT ![p] = "none"]
    /\ UNCHANGED <<phase, senders, user>>

Children(p) == {q \in Under(p) : Under(p) \cap Above(q) = {}}

\* As VisitDir, with files alone in the list.
VisitDir_unlisted(v, p) ==
    /\ Takes(v, p, "dir")
    /\ UNCHANGED listed
    /\ IF tree[p] = Dir /\ p \notin Unreadable
       THEN /\ dir' = [dir EXCEPT ![v] = p]
            /\ unseen' = [unseen EXCEPT ![v] = {q \in Children(p) : q \notin Hidden}]
       ELSE UNCHANGED <<dir, unseen>>

\* As VisitDir, with the filter for hidden names off.
VisitDir_hidden_too(v, p) ==
    /\ Takes(v, p, "dir")
    /\ listed' = [listed EXCEPT ![p] = Dir]
    /\ IF tree[p] = Dir /\ p \notin Unreadable
       THEN /\ dir' = [dir EXCEPT ![v] = p]
            /\ unseen' = [unseen EXCEPT ![v] = Children(p)]
       ELSE UNCHANGED <<dir, unseen>>

\* What was a directory when it was found is sent as one.  If it does not open
\* by now there is nothing to read in it.  Hidden names are never found.
VisitDir(v, p) ==
    /\ Takes(v, p, "dir")
    /\ listed' = [listed EXCEPT ![p] = Dir]
    /\ IF tree[p] = Dir /\ p \notin Unreadable
       THEN /\ dir' = [dir EXCEPT ![v] = p]
            /\ unseen' = [unseen EXCEPT ![v] = {q \in Children(p) : q \notin Hidden}]
       ELSE UNCHANGED <<dir, unseen>>

\* As VisitFile, with what does not open taken for empty.
VisitFile_opens_always(v, p) ==
    /\ Takes(v, p, "file")
    /\ listed' = [listed EXCEPT ![p] =
                     FileEntry(chunk(IF p \notin Unreadable THEN tree[p].data ELSE <<>>))]
    /\ UNCHANGED <<dir, unseen>>

\* A file that does not open, or is none any more and so cannot be mapped, is
\* logged and left out.
VisitFile(v, p) ==
    /\ Takes(v, p, "file")
    /\ listed' = IF IsFile(tree[p]) /\ p \notin Unreadable
                 THEN [listed EXCEPT ![p] = FileEntry(chunk(tree[p].data))]
                 ELSE listed
    /\ UNCHANGED <<dir, unseen>>

\* One name of the directory; a name that is not there is not found.
ReadName(v, q) ==
    /\ q \in unseen[v]
    /\ unseen' = [unseen EXCEPT ![v] = @ \ {q}]
    /\ found' = [found EXCEPT ![q] = TypeOf(tree[q])]
    /\ UNCHANGED <<phase, dir, senders, listed, user>>

EndOfDir(v) ==
    /\ dir[v] # NoDir /\ unseen[v] = {}
    /\ dir' = [dir EXCEPT ![v] = NoDir]
    /\ UNCHANGED <<phase, found, unseen, senders, listed, user>>

Idle == (\A p \in Path : found[p] = "none") /\ \A v \in Visitor : dir[v] = NoDir

\* A visitor is dropped, and its sender with it, when no path is left and no
\* other visitor may find one.
DropVisitor(v) ==
    /\ phase = "visiting" /\ v \in senders /\ Idle
    /\ senders' = senders \ {v}
    /\ UNCHANGED <<phase, found, dir, unseen, listed, user>>

\* As DropBuilder, with the builder not moved into the thread.
DropBuilder_kept ==
    /\ phase = "visiting" /\ senders = {"builder"} /\ Idle
    /\ UNCHANGED vars

\* The thread ends once its visitors have.
DropBuilder ==
    /\ phase = "visiting" /\ senders = {"builder"} /\ Idle
    /\ senders' = {}
    /\ UNCHANGED <<phase, found, dir, unseen, listed, user>>

\* As Collect, taking only what is in the channel by now.
Collect_try ==
    /\ phase = "visiting"
    /\ phase' = "returned"
    /\ UNCHANGED <<found, dir, unseen, senders, listed, user>>

\* The collection ends when the channel has no sender left.
Collect ==
    /\ phase = "visiting" /\ senders = {}
    /\ phase' = "returned"
    /\ UNCHANGED <<found, dir, unseen, senders, listed, user>>

-----------------------------------------------------------------------------
(* The user.                                                               *)

\* A file is written, a directory made, or a subtree removed.  A directory
\* that is removed reads as empty from then on.
Edit ==
    /\ edits < MaxEdits /\ phase \notin {"returned", "refused"}
    /\ edits' = edits + 1
    /\ \E p \in Editable :
          \/ /\ \A a \in Above(p) : tree[a] = Dir
             /\ \/ \E d \in Contents : tree[p] # Dir /\ tree' = Updated(tree, p, d)
                \/ tree[p] = Absent /\ tree' = [tree EXCEPT ![p] = Dir]
             /\ UNCHANGED unseen
          \/ /\ tree' = Deleted(tree, p)
             /\ unseen' = [v \in Visitor |->
                              IF dir[v] \in {p} \cup Under(p) THEN {} ELSE unseen[v]]
    /\ tree' # tree
    /\ was' = [p \in Path |-> was[p] \cup {tree'[p]}]
    /\ UNCHANGED <<phase, found, dir, senders, listed>>

Visits ==
    \E v \in Visitor :
        \/ \E p \in Path : VisitDir(v, p) \/ VisitFile(v, p) \/ ReadName(v, p)
        \/ EndOfDir(v) \/ DropVisitor(v)

Walking == Start \/ BuildVisitors \/ Visits \/ DropBuilder \/ Collect

Next == Walking \/ Edit

Spec == Init /\ [][Next]_vars

\* The threads of the walk are scheduled.
FairSpec == Spec /\ WF_vars(Walking)

-----------------------------------------------------------------------------
(* What a walk promises.                                                   *)

\* What p has been at some moment of the walk, as an entry.
Entries(p) == {IF IsFile(n) THEN FileEntry(chunk(n.data)) ELSE n : n \in was[p]}

\* The list is a tree at every moment, whatever is edited under the walk:
\* every entry comes after those of the directories it lies in
\* (snapshot::diff and apply rely on it).
ListIsTree == WellFormed(listed)

\* Nothing is listed that was not there at some moment of the walk.
ListedWas == \A p \in Path : listed[p] # Absent => listed[p] \in Entries(p)

\* A path that nobody touched during the walk, nor a directory around it, is
\* listed as it is, unless it cannot be opened: the walk that returns is
\* complete, however its visitors took turns.
Untouched(p) == \A q \in {p} \cup Above(p) : Cardinality(was[q]) = 1

NothingMissed ==
    phase = "returned" =>
        \A p \in Path : Untouched(p) /\ Walk(tree, Unreadable)[p] # Absent =>
            listed[p] \in Entries(p)

\* The instructions made from the chunks of a listed file, and from what the
\* file holds when it is read again, can be made whatever has become of it,
\* never reach beyond the old content they are for, and restore the file if it
\* still is what was listed.
UpdateRestores ==
    \A p \in Path : IsFile(listed[p]) /\ IsFile(tree[p]) =>
        \A base \in Contents :
            LET instructs == Update(chunk(base), listed[p].data, tree[p].data)
            IN  /\ \A i \in DOMAIN instructs : instructs[i].kind # "panic"
                /\ ~OutOfFile(instructs, base)
                /\ listed[p] = FileEntry(chunk(tree[p].data)) =>
                      Rebuilt(instructs, base) = tree[p].data

\* The walk returns, whatever is edited meanwhile: the channel closes.
Returns == <>(phase \in {"returned", "refused"})
=============================================================================
