---------------------------- MODULE DirWalkProofs -----------------------------
(***************************************************************************)
(* Proofs about DirWalk for any tree, any nesting of paths, any number of  *)
(* visitors and any edits: what a walk lists is a tree, every entry of it  *)
(* was there during the walk, every path is visited at most once, and what *)
(* nobody touched is not missed.  And about the instructions an update is  *)
(* made of: they restore the file from the chunks of the old one.          *)
(***************************************************************************)
EXTENDS DirWalk, TreeProofs

Shape ==
    /\ OnPaths(found) /\ OnPaths(listed)
    /\ unseen = [v \in Visitor |-> unseen[v]]

\* The directories around p are listed.
Enclosed(p) == \A a \in Above(p) : listed[a] = Dir

\* Before the visitors are built nothing is known.
Fresh ==
    phase \in {"start", "spawned"} =>
        /\ \A p \in Path : found[p] = "none" /\ listed[p] = Absent
        /\ \A v \in Visitor : unseen[v] = {}

\* What is to be visited is not listed yet.
FoundInv == \A p \in Path : found[p] # "none" => listed[p] = Absent /\ Enclosed(p)

\* A name to be read is not found yet, and one visitor alone will read it.
UnseenInv ==
    \A v \in Visitor :
        /\ \A q \in unseen[v] : q \in Path /\ found[q] = "none" /\ listed[q] = Absent /\ Enclosed(q)
        /\ \A w \in Visitor : w # v => unseen[v] \cap unseen[w] = {}

Inv == Shape /\ Fresh /\ WellFormed(listed) /\ FoundInv /\ UnseenInv

\* What a path has been while it was walked, in the type it was found with too.
WasInv ==
    /\ OnPaths(was)
    /\ \A p \in Path :
          /\ was[p] \subseteq Node /\ IsFiniteSet(was[p]) /\ tree[p] \in was[p]
          /\ found[p] # "none" => \E n \in was[p] : found[p] = TypeOf(n)

\* The names a visitor has to read are in the directory it reads.
ReadingInv == \A v \in Visitor : \A q \in unseen[v] : dir[v] \in Above(q)

\* No sender goes before there is nothing left to visit, and the walk returns
\* when all of them have gone.
ClosingInv ==
    /\ phase \in {"visiting", "returned"} /\ senders # {"builder"} \cup Visitor => Idle
    /\ phase = "returned" => senders = {}

\* p, or a directory on the way to it, is waiting for a visitor.
OnTheWay(p) ==
    \E q \in {p} \cup Above(p) : found[q] # "none" \/ \E v \in Visitor : q \in unseen[v]

\* Once the visitors are built, what nobody touches is listed or will be.
CompleteInv ==
    phase \in {"visiting", "returned"} =>
        \A p \in Path : Untouched(p) /\ Walk(tree, Unreadable)[p] # Absent =>
            listed[p] # Absent \/ OnTheWay(p)

-----------------------------------------------------------------------------
(* The steps.                                                              *)

LEMMA InitInv == Init => Inv
BY NoTreeFacts DEF Init, Inv, Shape, Fresh, FoundInv, UnseenInv, OnPaths, NoTree

LEMMA NothingAboveRoot == Above(Root) = {}
BY PathAssumption DEF Above

LEMMA BuildStep ==
    ASSUME Inv, BuildVisitors
    PROVE  Inv'
<1>1. /\ phase = "spawned" /\ phase' = "visiting"
      /\ found' = [found EXCEPT ![Root] = TypeOf(tree[Root])]
      /\ UNCHANGED <<unseen, listed>>
  BY DEF BuildVisitors
<1>2. \A p \in Path \ {Root} : found'[p] = "none"
  BY <1>1 DEF Inv, Shape, Fresh, OnPaths
<1>3. FoundInv'
  BY <1>1, <1>2, NothingAboveRoot DEF Inv, Fresh, FoundInv, Enclosed
<1>4. UnseenInv'
  BY <1>1 DEF Inv, Fresh, UnseenInv
<1>5. Shape' /\ Fresh' /\ WellFormed(listed)'
  BY <1>1 DEF Inv, Shape, Fresh, OnPaths, WellFormed
<1> QED
  BY <1>3, <1>4, <1>5 DEF Inv

\* The paths directly inside a directory are reached with it.
LEMMA ChildrenEnclosed ==
    ASSUME NEW p \in Path, Enclosed(p), NEW q \in Children(p), NEW a \in Above(q)
    PROVE  q \in Path /\ q # p /\ p \in Above(q) /\ (a = p \/ listed[a] = Dir)
<1>1. q \in Path /\ p \in Above(q)
  BY UnderAbove DEF Children, Under
<1>2. q # p
  BY <1>1, AboveTransitive
<1>3. a = p \/ a \in Above(p) \/ p \in Above(a)
  BY <1>1, NestingAssumption
<1>4. a \in Path
  BY DEF Above
<1>5. ~ p \in Above(a)
  BY <1>4, UnderAbove DEF Children
<1> QED
  BY <1>1, <1>2, <1>3, <1>5 DEF Enclosed

LEMMA VisitDirStep ==
    ASSUME Inv, NEW v \in Visitor, NEW p \in Path, VisitDir(v, p)
    PROVE  Inv'
<1>1. /\ found[p] = "dir" /\ found' = [found EXCEPT ![p] = "none"]
      /\ listed' = [listed EXCEPT ![p] = Dir] /\ phase' = phase
      /\ \/ unseen' = unseen
         \/ unseen' = [unseen EXCEPT ![v] = {q \in Children(p) : q \notin Hidden}]
  BY DEF VisitDir, Takes
<1>2. /\ listed[p] = Absent /\ Enclosed(p) /\ phase \notin {"start", "spawned"}
      /\ listed'[p] = Dir /\ \A q \in Path \ {p} : listed'[q] = listed[q]
      /\ found'[p] = "none" /\ \A q \in Path \ {p} : found'[q] = found[q]
  BY <1>1 DEF Inv, FoundInv, Fresh, Shape, OnPaths
<1>3. \A q \in Path : Enclosed(q) => Enclosed(q)' /\ p \notin Above(q)
  BY <1>2, KindFacts DEF Enclosed, Above
<1>4. Shape' /\ Fresh'
  BY <1>1, <1>2 DEF Inv, Shape, Fresh, OnPaths
<1>5. WellFormed(listed)'
  BY <1>2, <1>3 DEF Inv, WellFormed, Enclosed
<1>6. FoundInv'
  BY <1>2, <1>3 DEF Inv, FoundInv
<1>7. ASSUME NEW q \in Children(p)
      PROVE  q \in Path /\ found'[q] = "none" /\ listed'[q] = Absent /\ Enclosed(q)' /\ ~Enclosed(q)
  <2>1. q \in Path /\ p \in Above(q) /\ q # p
    BY <1>2, <1>7, UnderAbove, AboveTransitive DEF Children, Under
  <2>2. ~Enclosed(q)
    BY <1>3, <2>1
  <2>3. Enclosed(q)'
    <3>1. ASSUME NEW a \in Above(q) PROVE a \in Path /\ (a = p \/ listed[a] = Dir)
      <4>1. a = p \/ listed[a] = Dir
        BY <1>2, <1>7, <3>1, ChildrenEnclosed
      <4> QED
        BY <4>1 DEF Above
    <3> QED
      BY <1>2, <3>1 DEF Enclosed
  <2>4. found[q] = "none" /\ listed[q] = Absent
    BY <2>1, <2>2 DEF Inv, FoundInv, WellFormed, Enclosed
  <2> QED
    BY <1>2, <2>1, <2>2, <2>3, <2>4
<1>8. \A w \in Visitor : unseen'[w] = unseen[w] \/ (w = v /\ unseen'[w] \subseteq Children(p))
  BY <1>1 DEF Inv, Shape
<1>9. \A w \in Visitor : \A q \in unseen[w] :
          /\ q \in Path /\ found'[q] = "none" /\ listed'[q] = Absent /\ Enclosed(q) /\ Enclosed(q)'
          /\ q \notin Children(p)
  BY <1>1, <1>2, <1>3, <1>7 DEF Inv, UnseenInv
<1>10. UnseenInv'
  <2>1. ASSUME NEW w \in Visitor, NEW q \in unseen'[w]
        PROVE  q \in Path /\ found'[q] = "none" /\ listed'[q] = Absent /\ Enclosed(q)'
    BY <1>7, <1>8, <1>9, <2>1
  <2>2. ASSUME NEW w \in Visitor, NEW u \in Visitor, u # w
        PROVE  unseen'[w] \cap unseen'[u] = {}
    BY <1>8, <1>9, <2>2 DEF Inv, UnseenInv
  <2> QED
    BY <2>1, <2>2 DEF UnseenInv
<1> QED
  BY <1>4, <1>5, <1>6, <1>10 DEF Inv

LEMMA VisitFileStep ==
    ASSUME Inv, NEW v \in Visitor, NEW p \in Path, VisitFile(v, p)
    PROVE  Inv'
<1>1. /\ found[p] = "file" /\ found' = [found EXCEPT ![p] = "none"]
      /\ \E n : listed' = [listed EXCEPT ![p] = n] \/ listed' = listed
      /\ phase' = phase /\ unseen' = unseen
  BY DEF VisitFile, Takes
<1>2. /\ listed[p] = Absent /\ Enclosed(p) /\ phase \notin {"start", "spawned"}
      /\ \A q \in Path \ {p} : listed'[q] = listed[q]
      /\ found'[p] = "none" /\ \A q \in Path \ {p} : found'[q] = found[q]
  BY <1>1 DEF Inv, FoundInv, Fresh, Shape, OnPaths
<1>3. \A q \in Path : Enclosed(q) => Enclosed(q)'
  BY <1>2, KindFacts DEF Enclosed, Above
<1>4. Shape' /\ Fresh'
  BY <1>1, <1>2 DEF Inv, Shape, Fresh, OnPaths
<1>5. WellFormed(listed)'
  BY <1>2, <1>3 DEF Inv, WellFormed, Enclosed
<1>6. FoundInv'
  BY <1>2, <1>3 DEF Inv, FoundInv
<1>7. UnseenInv'
  BY <1>1, <1>2, <1>3 DEF Inv, UnseenInv
<1> QED
  BY <1>4, <1>5, <1>6, <1>7 DEF Inv

LEMMA ReadNameStep ==
    ASSUME Inv, NEW v \in Visitor, NEW q \in Path, ReadName(v, q)
    PROVE  Inv'
<1>1. /\ q \in unseen[v] /\ unseen' = [unseen EXCEPT ![v] = unseen[v] \ {q}]
      /\ \E type : found' = [found EXCEPT ![q] = type]
      /\ UNCHANGED <<phase, listed>>
  BY DEF ReadName
<1>2. /\ listed[q] = Absent /\ Enclosed(q) /\ phase \notin {"start", "spawned"}
      /\ \A p \in Path \ {q} : found'[p] = found[p]
  BY <1>1 DEF Inv, UnseenInv, Fresh, Shape, OnPaths
<1>3. \A w \in Visitor : unseen'[w] \subseteq unseen[w] /\ q \notin unseen'[w]
  BY <1>1 DEF Inv, Shape, UnseenInv
<1>4. Shape' /\ Fresh' /\ WellFormed(listed)'
  BY <1>1, <1>2 DEF Inv, Shape, Fresh, OnPaths, WellFormed
<1>5. FoundInv' /\ UnseenInv'
  BY <1>1, <1>2, <1>3 DEF Inv, FoundInv, UnseenInv, Enclosed
<1> QED
  BY <1>4, <1>5 DEF Inv

\* Every other step leaves the list alone and at most takes names away.
LEMMA OtherSteps ==
    ASSUME Inv,
           \/ Start \/ DropBuilder \/ Collect \/ Edit \/ UNCHANGED vars
           \/ \E v \in Visitor : EndOfDir(v) \/ DropVisitor(v)
    PROVE  Inv'
<1>1. /\ UNCHANGED <<found, listed>>
      /\ phase' \in {"start", "spawned"} => phase \in {"start", "spawned"}
      /\ \/ unseen' = unseen
         \/ \E gone : unseen' = [v \in Visitor |-> IF dir[v] \in gone THEN {} ELSE unseen[v]]
  <2>1. CASE Edit
    BY <2>1 DEF Edit
  <2>2. CASE ~Edit
    BY <2>2 DEF Start, DropBuilder, Collect, EndOfDir, DropVisitor, vars, walker
  <2> QED
    BY <2>1, <2>2
<1>2. Shape' /\ \A v \in Visitor : unseen'[v] \subseteq unseen[v]
  BY <1>1 DEF Inv, Shape, OnPaths
<1>3. Fresh' /\ WellFormed(listed)' /\ FoundInv'
  BY <1>1, <1>2 DEF Inv, Fresh, WellFormed, FoundInv, Enclosed
<1>4. UnseenInv'
  BY <1>1, <1>2 DEF Inv, UnseenInv, Enclosed
<1> QED
  BY <1>2, <1>3, <1>4 DEF Inv

-----------------------------------------------------------------------------
(* Every step.                                                             *)

LEMMA NextInv ==
    ASSUME Inv, [Next]_vars
    PROVE  Inv'
<1>1. CASE BuildVisitors
  BY <1>1, BuildStep
<1>2. ASSUME NEW v \in Visitor, NEW p \in Path, VisitDir(v, p) \/ VisitFile(v, p) \/ ReadName(v, p)
      PROVE  Inv'
  BY <1>2, VisitDirStep, VisitFileStep, ReadNameStep
<1>3. CASE \/ Start \/ DropBuilder \/ Collect \/ Edit \/ UNCHANGED vars
           \/ \E v \in Visitor : EndOfDir(v) \/ DropVisitor(v)
  BY <1>3, OtherSteps
<1> QED
  BY <1>1, <1>2, <1>3 DEF Next, Walking, Visits

THEOREM Invariance == Spec => []Inv
<1>1. Inv /\ [Next]_vars => Inv'
  BY NextInv
<1> QED
  BY <1>1, InitInv, PTL DEF Spec

-----------------------------------------------------------------------------
(* Types, and what the paths have been.                                    *)

LEMMA TypeOfFacts ==
    /\ TypeOf(Absent) = "none" /\ TypeOf(Dir) = "dir"
    /\ \A n \in Node : /\ TypeOf(n) \in {"none", "dir", "file"}
                       /\ TypeOf(n) = "none" => n = Absent
                       /\ TypeOf(n) = "dir" => n = Dir
                       /\ TypeOf(n) = "file" => IsFile(n)
<1>1. TypeOf(Absent) = "none" /\ TypeOf(Dir) = "dir"
  BY DEF TypeOf, Absent, Dir
<1>2. ASSUME NEW n \in Node
      PROVE  /\ TypeOf(n) \in {"none", "dir", "file"}
             /\ TypeOf(n) = "none" => n = Absent
             /\ TypeOf(n) = "dir" => n = Dir
             /\ TypeOf(n) = "file" => IsFile(n)
  <2>1. CASE IsFile(n)
    BY <2>1 DEF IsFile, TypeOf
  <2>2. CASE ~IsFile(n)
    BY <1>1, <2>2, NodeFacts
  <2> QED
    BY <2>1, <2>2
<1> QED
  BY <1>1, <1>2

\* The names a visitor takes from a visible directory are visible, and the
\* directories around them are it and those around it.
LEMMA ChildFacts ==
    ASSUME NEW p \in Path, NEW q \in Children(p)
    PROVE  /\ q \in Path /\ p \in Above(q) /\ Above(q) \subseteq {p} \cup Above(p)
           /\ Visible(p) /\ q \notin Hidden => Visible(q)
<1>1. q \in Path /\ p \in Above(q)
  BY UnderAbove DEF Children, Under
<1>2. ASSUME NEW a \in Above(q) PROVE a \in {p} \cup Above(p)
  <2>1. a = p \/ a \in Above(p) \/ p \in Above(a)
    BY <1>1, NestingAssumption
  <2>2. a \in Path
    BY DEF Above
  <2> QED
    BY <2>1, <2>2, UnderAbove DEF Children
<1> QED
  BY <1>1, <1>2 DEF Visible

LEMMA EditFacts ==
    ASSUME TypeOK, Edit
    PROVE  /\ tree' \in Tree /\ WellFormed(tree')
           /\ was' = [p \in Path |-> was[p] \cup {tree'[p]}]
           /\ UNCHANGED <<phase, found, dir, senders, listed>> /\ edits' \in 0 .. MaxEdits
           /\ \/ unseen' = unseen
              \/ \E p \in Path :
                    /\ tree'[p] = Absent
                    /\ unseen' = [v \in Visitor |-> IF dir[v] \in {p} \cup Under(p)
                                                    THEN {} ELSE unseen[v]]
<1>1. /\ edits < MaxEdits /\ edits' = edits + 1
      /\ was' = [p \in Path |-> was[p] \cup {tree'[p]}]
      /\ UNCHANGED <<phase, found, dir, senders, listed>>
  BY DEF Edit
<1>2. PICK p \in Editable :
        \/ /\ \A a \in Above(p) : tree[a] = Dir
           /\ \/ \E d \in Contents : tree[p] # Dir /\ tree' = Updated(tree, p, d)
              \/ tree[p] = Absent /\ tree' = [tree EXCEPT ![p] = Dir]
           /\ UNCHANGED unseen
        \/ /\ tree' = Deleted(tree, p)
           /\ unseen' = [v \in Visitor |-> IF dir[v] \in {p} \cup Under(p) THEN {} ELSE unseen[v]]
  BY DEF Edit
<1>3. p \in Path /\ p # Root /\ Contents \subseteq Data /\ MaxEdits \in Nat
  BY WalkAssumption
<1>4. tree \in Tree /\ WellFormed(tree) /\ OnPaths(tree) /\ edits \in Nat
  BY <1>3, TreeFacts DEF TypeOK
<1>5. edits' \in 0 .. MaxEdits
  BY <1>1, <1>3, <1>4
<1>6. CASE tree' = Deleted(tree, p)
  <2>1. tree' \in Tree /\ WellFormed(tree')
    BY <1>3, <1>4, <1>6, CallTypes, DeletedWellFormed
  <2>2. tree'[p] = Absent
    BY <1>3, <1>6 DEF Deleted
  <2> QED
    BY <1>1, <1>2, <1>3, <1>5, <2>1, <2>2
<1>7. CASE tree' # Deleted(tree, p)
  <2>1. PICK n \in Node : tree[p] # Dir /\ tree' = [tree EXCEPT ![p] = n]
    BY <1>2, <1>3, <1>7, NodeFacts, KindFacts DEF Updated
  <2>2. \A a \in Above(p) : tree[a] = Dir
    BY <1>2, <1>7
  <2>3. tree' \in Tree
    BY <1>3, <1>4, <2>1, CallTypes
  <2>4. WellFormed(tree')
    BY <1>3, <1>4, <2>1, <2>2, ReplacedWellFormed
  <2> QED
    BY <1>1, <1>2, <1>5, <1>7, <2>3, <2>4
<1> QED
  BY <1>6, <1>7

LEMMA InitTypes == Init => TypeOK
<1> SUFFICES ASSUME Init PROVE TypeOK
  OBVIOUS
<1>1. tree \in Tree /\ WellFormed(tree) /\ edits \in 0 .. MaxEdits
  BY WalkAssumption DEF Init
<1>2. \A p \in Path : ~(found[p] # "none" \/ listed[p] # Absent)
  BY NoTreeFacts DEF Init
<1> QED
  BY <1>1, <1>2 DEF Init, TypeOK

LEMMA TypeStep ==
    ASSUME Inv, TypeOK, [Next]_vars
    PROVE  TypeOK'
<1> USE DEF TypeOK
<1>1. CASE Edit
  <2>1. unseen' \in [Visitor -> SUBSET {p \in Path : Visible(p)}]
    <3>1. CASE unseen' = unseen
      BY <3>1
    <3>2. CASE unseen' # unseen
      <4>1. PICK gone : unseen' = [v \in Visitor |-> IF dir[v] \in gone THEN {} ELSE unseen[v]]
        BY <1>1, <3>2, EditFacts
      <4> QED
        BY <4>1
    <3> QED
      BY <3>1, <3>2
  <2> QED
    BY <1>1, <2>1, EditFacts
<1>2. ASSUME NEW v \in Visitor, NEW p \in Path, VisitDir(v, p) PROVE TypeOK'
  <2>1. /\ found[p] = "dir" /\ found' = [found EXCEPT ![p] = "none"]
        /\ listed' = [listed EXCEPT ![p] = Dir] /\ UNCHANGED <<phase, senders, user>>
        /\ \/ UNCHANGED <<dir, unseen>>
           \/ /\ dir' = [dir EXCEPT ![v] = p]
              /\ unseen' = [unseen EXCEPT ![v] = {q \in Children(p) : q \notin Hidden}]
    BY <1>2 DEF VisitDir, Takes
  <2>2. Visible(p)
    BY <2>1
  <2>3. {q \in Children(p) : q \notin Hidden} \subseteq {q \in Path : Visible(q)}
    BY <2>2, ChildFacts
  <2>4. dir' \in [Visitor -> Path \cup {NoDir}]
    BY <2>1
  <2>5. unseen' \in [Visitor -> SUBSET {q \in Path : Visible(q)}]
    BY <2>1, <2>3
  <2>6. \A q \in Path \ {p} : found'[q] = found[q] /\ listed'[q] = listed[q]
    BY <2>1 DEF Inv, Shape, OnPaths
  <2>7. \A q \in Path : found'[q] # "none" \/ listed'[q] # Absent => Visible(q)
    BY <2>2, <2>6
  <2> QED
    BY <2>1, <2>4, <2>5, <2>7 DEF user
<1>3. ASSUME NEW v \in Visitor, NEW p \in Path, VisitFile(v, p) PROVE TypeOK'
  <2>1. /\ found[p] = "file" /\ found' = [found EXCEPT ![p] = "none"]
        /\ UNCHANGED <<phase, senders, dir, unseen, user>>
        /\ \E n : listed' = [listed EXCEPT ![p] = n] \/ listed' = listed
    BY <1>3 DEF VisitFile, Takes
  <2>2. \A q \in Path \ {p} : found'[q] = found[q] /\ listed'[q] = listed[q]
    BY <2>1 DEF Inv, Shape, OnPaths
  <2>3. \A q \in Path : found'[q] # "none" \/ listed'[q] # Absent => Visible(q)
    BY <2>1, <2>2
  <2> QED
    BY <2>1, <2>3 DEF user
<1>4. ASSUME NEW v \in Visitor, NEW q \in Path, ReadName(v, q) PROVE TypeOK'
  <2>1. /\ q \in unseen[v] /\ unseen' = [unseen EXCEPT ![v] = unseen[v] \ {q}]
        /\ found' = [found EXCEPT ![q] = TypeOf(tree[q])]
        /\ UNCHANGED <<phase, dir, senders, listed, user>>
    BY <1>4 DEF ReadName
  <2>2. TypeOf(tree[q]) \in {"none", "dir", "file"}
    BY TypeOfFacts, TreeFacts
  <2>3. \A p \in Path : found'[p] # "none" \/ listed'[p] # Absent => Visible(p)
    BY <2>1
  <2>4. unseen' \in [Visitor -> SUBSET {p \in Path : Visible(p)}]
    BY <2>1
  <2> QED
    BY <2>1, <2>2, <2>3, <2>4 DEF user
<1>5. CASE BuildVisitors
  <2>1. /\ phase' = "visiting" /\ found' = [found EXCEPT ![Root] = TypeOf(tree[Root])]
        /\ senders' = {"builder"} \cup Visitor /\ UNCHANGED <<dir, unseen, listed, user>>
    BY <1>5 DEF BuildVisitors
  <2>2. TypeOf(tree[Root]) \in {"none", "dir", "file"}
    BY TypeOfFacts, TreeFacts, RootVisible
  <2>3. \A p \in Path : found'[p] # "none" \/ listed'[p] # Absent => Visible(p)
    BY <2>1, RootVisible
  <2> QED
    BY <2>1, <2>2, <2>3 DEF user
<1>6. ASSUME NEW v \in Visitor, EndOfDir(v) PROVE TypeOK'
  BY <1>6 DEF EndOfDir, user
<1>7. CASE Start \/ DropBuilder \/ Collect \/ UNCHANGED vars \/ \E v \in Visitor : DropVisitor(v)
  <2>1. /\ UNCHANGED <<tree, found, dir, unseen, listed, edits>>
        /\ phase' \in {"start", "spawned", "visiting", "returned", "refused"}
        /\ senders' \subseteq Visitor \cup {"builder"}
    BY <1>7 DEF Start, DropBuilder, Collect, DropVisitor, vars, walker, user
  <2> QED
    BY <2>1
<1> QED
  BY <1>1, <1>2, <1>3, <1>4, <1>5, <1>6, <1>7 DEF Next, Walking, Visits

LEMMA InitWas == Init => WasInv /\ ListedWas
<1> SUFFICES ASSUME Init PROVE WasInv /\ ListedWas
  OBVIOUS
<1>1. tree \in Tree
  BY WalkAssumption DEF Init
<1>2. \A p \in Path : was[p] = {tree[p]} /\ tree[p] \in Node /\ found[p] = "none"
  BY <1>1, TreeFacts DEF Init
<1>3. WasInv
  BY <1>2, FS_Singleton DEF Init, WasInv, OnPaths
<1> QED
  BY <1>3, NoTreeFacts DEF Init, ListedWas

\* Steps of the walk leave the history alone: what is found and what is listed
\* is there at that moment, or was when it was found.
LEMMA WasStep ==
    ASSUME Inv, TypeOK, TypeOK', WasInv, ListedWas, [Next]_vars
    PROVE  WasInv' /\ ListedWas'
<1>1. \A p \in Path : tree[p] \in Node
  BY TreeFacts DEF TypeOK
<1>2. CASE Edit
  <2>1. /\ was' = [p \in Path |-> was[p] \cup {tree'[p]}]
        /\ tree' \in Tree /\ UNCHANGED <<found, listed>>
    BY <1>2, EditFacts
  <2>2. \A p \in Path : tree'[p] \in Node
    BY <2>1, TreeFacts
  <2>3. \A p \in Path : IsFiniteSet(was'[p])
    BY <2>1, FS_AddElement DEF WasInv
  <2>4. WasInv'
    BY <2>1, <2>2, <2>3 DEF WasInv, OnPaths
  <2>5. \A p \in Path : was[p] \subseteq was'[p]
    BY <2>1
  <2>6. \A p \in Path : Entries(p) \subseteq Entries(p)'
    BY <2>5 DEF Entries
  <2>7. ListedWas'
    BY <2>1, <2>6 DEF ListedWas
  <2> QED
    BY <2>4, <2>7
<1>3. ASSUME UNCHANGED <<tree, was>>,
             NEW q \in Path, \A p \in Path \ {q} : found'[p] = found[p] /\ listed'[p] = listed[p],
             found'[q] # "none" => \E n \in was[q] : found'[q] = TypeOf(n),
             listed'[q] # Absent => listed'[q] \in Entries(q)
      PROVE  WasInv' /\ ListedWas'
  <2>1. WasInv'
    BY <1>3 DEF WasInv, OnPaths
  <2>2. \A p \in Path : Entries(p)' = Entries(p)
    BY <1>3 DEF Entries
  <2>3. ListedWas'
    BY <1>3, <2>2 DEF ListedWas
  <2> QED
    BY <2>1, <2>3
<1>4. ASSUME NEW v \in Visitor, NEW p \in Path, VisitDir(v, p) PROVE WasInv' /\ ListedWas'
  <2>1. /\ found[p] = "dir" /\ found' = [found EXCEPT ![p] = "none"]
        /\ listed' = [listed EXCEPT ![p] = Dir] /\ UNCHANGED <<tree, was>>
    BY <1>4 DEF VisitDir, Takes, user
  <2>2. /\ \A q \in Path \ {p} : found'[q] = found[q] /\ listed'[q] = listed[q]
        /\ found'[p] = "none" /\ listed'[p] = Dir
    BY <2>1 DEF Inv, Shape, OnPaths
  <2>3. Dir \in was[p]
    BY <2>1, TypeOfFacts DEF WasInv
  <2>4. Dir \in Entries(p)
    BY <2>3, KindFacts DEF Entries
  <2> QED
    BY <1>3, <2>1, <2>2, <2>4
<1>5. ASSUME NEW v \in Visitor, NEW p \in Path, VisitFile(v, p) PROVE WasInv' /\ ListedWas'
  <2>1. /\ found' = [found EXCEPT ![p] = "none"] /\ UNCHANGED <<tree, was>>
        /\ \/ listed' = listed
           \/ IsFile(tree[p]) /\ listed' = [listed EXCEPT ![p] = FileEntry(chunk(tree[p].data))]
    BY <1>5 DEF VisitFile, Takes, user
  <2>2. /\ \A q \in Path \ {p} : found'[q] = found[q] /\ listed'[q] = listed[q]
        /\ found'[p] = "none"
        /\ \/ listed'[p] = listed[p]
           \/ IsFile(tree[p]) /\ listed'[p] = FileEntry(chunk(tree[p].data))
    BY <2>1 DEF Inv, Shape, OnPaths
  <2>3. IsFile(tree[p]) => FileEntry(chunk(tree[p].data)) \in Entries(p)
    BY DEF Entries, WasInv
  <2>4. listed'[p] # Absent => listed'[p] \in Entries(p)
    BY <2>2, <2>3 DEF ListedWas
  <2> QED
    BY <1>3, <2>1, <2>2, <2>4
<1>6. ASSUME NEW q \in Path, found' = [found EXCEPT ![q] = TypeOf(tree[q])],
             UNCHANGED <<tree, was, listed>>
      PROVE  WasInv' /\ ListedWas'
  <2>1. \A p \in Path \ {q} : found'[p] = found[p]
    BY <1>6 DEF Inv, Shape, OnPaths
  <2>2. found'[q] = TypeOf(tree[q]) /\ tree[q] \in was[q]
    BY <1>6 DEF Inv, Shape, OnPaths, WasInv
  <2>3. listed'[q] # Absent => listed'[q] \in Entries(q)
    BY <1>6 DEF ListedWas
  <2> QED
    BY <1>3, <1>6, <2>1, <2>2, <2>3
<1>7. CASE BuildVisitors \/ \E v \in Visitor, q \in Path : ReadName(v, q)
  BY <1>6, <1>7, RootVisible DEF BuildVisitors, ReadName, user
<1>8. CASE \/ Start \/ DropBuilder \/ Collect \/ UNCHANGED vars
           \/ \E v \in Visitor : EndOfDir(v) \/ DropVisitor(v)
  <2>1. UNCHANGED <<tree, was, found, listed>>
    BY <1>8 DEF Start, DropBuilder, Collect, EndOfDir, DropVisitor, vars, walker, user
  <2>2. \A p \in Path : Entries(p)' = Entries(p)
    BY <2>1 DEF Entries
  <2> QED
    BY <2>1, <2>2 DEF WasInv, OnPaths, ListedWas
<1> QED
  BY <1>2, <1>4, <1>5, <1>7, <1>8 DEF Next, Walking, Visits

-----------------------------------------------------------------------------
(* Nothing is missed.                                                      *)

\* The path to p goes through a child of every directory around p.
LEMMA ChildOnTheWay ==
    ASSUME NEW p \in Path, NEW q \in Above(p)
    PROVE  \E c \in {p} \cup Above(p) : c \in Children(q)
<1> DEFINE S == {c \in {p} \cup Above(p) : q \in Above(c)}
           T == {Cardinality(Above(c)) : c \in S}
<1>1. p \in S /\ S \subseteq Path /\ q \in Path
  BY DEF Above
<1>2. \A c \in S : IsFiniteSet(Above(c)) /\ Cardinality(Above(c)) \in Nat
  BY <1>1, NestingAssumption, FS_CardinalityType
<1>3. T \in SUBSET Nat /\ T # {}
  BY <1>1, <1>2
<1>4. PICK n \in T : \A m \in T : n <= m
  <2> HIDE DEF T
  <2> QED
    BY <1>3, LeastNumber
<1>5. PICK c \in S : n = Cardinality(Above(c))
  OBVIOUS
<1>6. Under(q) \cap Above(c) = {}
  <2> SUFFICES ASSUME NEW d \in Under(q) \cap Above(c) PROVE FALSE
    OBVIOUS
  <2>1. d \in Path /\ q \in Above(d)
    BY <1>1, UnderAbove DEF Under
  <2>2. d \in S
    BY <1>1, <2>1, AboveTransitive
  <2>3. Above(d) \subseteq Above(c) /\ d \notin Above(d)
    BY <1>1, <2>1, AboveTransitive
  <2>4. Cardinality(Above(d)) <= Cardinality(Above(c)) /\ Cardinality(Above(d)) # Cardinality(Above(c))
    BY <1>2, <2>3, FS_Subset
  <2>5. n <= Cardinality(Above(d))
    BY <1>4, <2>2
  <2> QED
    BY <1>2, <1>5, <2>2, <2>4, <2>5
<1>7. c \in Under(q)
  BY <1>1, UnderAbove
<1> QED
  BY <1>6, <1>7 DEF Children

\* A path that is not touched is what it has been, before the step as after.
LEMMA UntouchedFacts ==
    ASSUME TypeOK, WasInv, NEW p \in Path, Untouched(p)
    PROVE  \A q \in {p} \cup Above(p) :
              /\ q \in Path /\ was[q] = {tree[q]} /\ tree[q] \in Node
              /\ found[q] # "none" => found[q] = TypeOf(tree[q])
<1> SUFFICES ASSUME NEW q \in {p} \cup Above(p)
             PROVE  /\ q \in Path /\ was[q] = {tree[q]} /\ tree[q] \in Node
                    /\ found[q] # "none" => found[q] = TypeOf(tree[q])
  OBVIOUS
<1>1. q \in Path /\ Cardinality(was[q]) = 1
  BY DEF Above, Untouched
<1>2. tree[q] \in was[q] /\ IsFiniteSet(was[q]) /\ was[q] \subseteq Node
  BY <1>1 DEF WasInv
<1>3. \E x : was[q] = {x}
  BY <1>1, <1>2, FS_Singleton
<1>4. was[q] = {tree[q]}
  BY <1>2, <1>3
<1> QED
  BY <1>1, <1>2, <1>4 DEF WasInv

Walked == Inv /\ TypeOK /\ WasInv /\ ListedWas

LEMMA WalkedStep == ASSUME Walked, [Next]_vars PROVE Walked'
BY NextInv, TypeStep, WasStep DEF Walked

Closing == ReadingInv /\ ClosingInv

\* A visitor that is in no directory has no name to read.
LEMMA NoNames ==
    ASSUME TypeOK, ReadingInv, NEW v \in Visitor, dir[v] = NoDir
    PROVE  unseen[v] = {}
BY NoDirAssumption DEF ReadingInv, TypeOK, Above

LEMMA ClosingStep ==
    ASSUME Walked, Closing, [Next]_vars
    PROVE  Closing'
<1> USE DEF Closing
<1>0. TypeOK /\ Shape /\ Fresh
  BY DEF Walked, Inv
<1>1. ASSUME NEW v \in Visitor, NEW p \in Path, VisitDir(v, p) PROVE Closing'
  <2>1. /\ v \in senders /\ dir[v] = NoDir /\ found[p] = "dir" /\ UNCHANGED <<phase, senders>>
        /\ \/ UNCHANGED <<dir, unseen>>
           \/ /\ dir' = [dir EXCEPT ![v] = p]
              /\ unseen' = [unseen EXCEPT ![v] = {q \in Children(p) : q \notin Hidden}]
    BY <1>1 DEF VisitDir, Takes
  <2>2. ReadingInv'
    BY <1>0, <2>1, ChildFacts DEF ReadingInv, TypeOK
  <2>3. ~Idle
    BY <2>1 DEF Idle
  <2> QED
    BY <2>1, <2>2, <2>3 DEF ClosingInv
<1>2. ASSUME NEW v \in Visitor, NEW p \in Path, VisitFile(v, p) PROVE Closing'
  <2>1. v \in senders /\ found[p] = "file" /\ UNCHANGED <<phase, senders, dir, unseen>>
    BY <1>2 DEF VisitFile, Takes
  <2>2. ~Idle
    BY <2>1 DEF Idle
  <2> QED
    BY <2>1, <2>2 DEF ReadingInv, ClosingInv
<1>3. ASSUME NEW v \in Visitor, NEW q \in Path, ReadName(v, q) PROVE Closing'
  <2>1. /\ q \in unseen[v] /\ unseen' = [unseen EXCEPT ![v] = unseen[v] \ {q}]
        /\ UNCHANGED <<phase, senders, dir>>
    BY <1>3 DEF ReadName
  <2>2. ~Idle
    BY <1>0, <2>1, NoNames DEF Idle
  <2>3. ReadingInv'
    BY <1>0, <2>1 DEF ReadingInv, TypeOK
  <2> QED
    BY <2>1, <2>2, <2>3 DEF ClosingInv
<1>4. ASSUME NEW v \in Visitor, EndOfDir(v) PROVE Closing'
  <2>1. /\ dir[v] # NoDir /\ unseen[v] = {} /\ dir' = [dir EXCEPT ![v] = NoDir]
        /\ UNCHANGED <<phase, found, unseen, senders>>
    BY <1>4 DEF EndOfDir
  <2>2. ReadingInv'
    BY <1>0, <2>1 DEF ReadingInv, TypeOK
  <2>3. ~Idle
    BY <2>1 DEF Idle
  <2> QED
    BY <2>1, <2>2, <2>3 DEF ClosingInv
<1>5. CASE Edit
  <2>1. /\ UNCHANGED <<phase, found, dir, senders>>
        /\ \A v \in Visitor : unseen'[v] \subseteq unseen[v]
    BY <1>0, <1>5, EditFacts DEF TypeOK
  <2> QED
    BY <2>1 DEF ReadingInv, ClosingInv, Idle
<1>6. CASE Start \/ BuildVisitors
  <2>1. /\ phase \in {"start", "spawned"}
        /\ \/ phase' \in {"spawned", "refused"}
           \/ phase' = "visiting" /\ senders' = {"builder"} \cup Visitor
        /\ UNCHANGED <<dir, unseen>>
    BY <1>6 DEF Start, BuildVisitors
  <2> QED
    BY <2>1 DEF ReadingInv, ClosingInv
<1>7. CASE DropBuilder \/ Collect \/ UNCHANGED vars \/ \E v \in Visitor : DropVisitor(v)
  <2>1. UNCHANGED <<found, dir, unseen>>
    BY <1>7 DEF DropBuilder, Collect, DropVisitor, vars, walker
  <2>2. CASE DropBuilder \/ \E v \in Visitor : DropVisitor(v)
    <3>1. phase = "visiting" /\ phase' = "visiting" /\ Idle
      BY <2>2 DEF DropBuilder, DropVisitor
    <3> QED
      BY <2>1, <3>1 DEF ReadingInv, ClosingInv, Idle
  <2>3. CASE Collect
    <3>1. phase = "visiting" /\ phase' = "returned" /\ senders = {} /\ senders' = {}
      BY <2>3 DEF Collect
    <3> QED
      BY <2>1, <3>1 DEF ReadingInv, ClosingInv, Idle
  <2>4. CASE UNCHANGED vars
    BY <2>4 DEF vars, walker, ReadingInv, ClosingInv, Idle
  <2> QED
    BY <1>7, <2>2, <2>3, <2>4
<1> QED
  BY <1>1, <1>2, <1>3, <1>4, <1>5, <1>6, <1>7 DEF Next, Walking, Visits

\* Whoever takes a path off what is to be visited lists it, or finds the next
\* one on the way.
LEMMA CompleteStep ==
    ASSUME Walked, Walked', Closing, CompleteInv, [Next]_vars
    PROVE  CompleteInv'
<1> SUFFICES ASSUME phase' \in {"visiting", "returned"}, NEW p \in Path, Untouched(p)',
                    (Walk(tree, Unreadable)[p])' # Absent
             PROVE  listed'[p] # Absent \/ OnTheWay(p)'
  BY DEF CompleteInv
<1> DEFINE W == {p} \cup Above(p)
<1>0. /\ TypeOK /\ WasInv /\ Inv /\ Shape /\ TypeOK' /\ WasInv'
      /\ W \subseteq Path /\ ReadingInv /\ ClosingInv
  BY DEF Walked, Inv, Above, Closing
<1>1. \A q \in W : was'[q] = {tree'[q]} /\ (found'[q] # "none" => found'[q] = TypeOf(tree'[q]))
  <2> SUFFICES ASSUME NEW q \in W
               PROVE  was'[q] = {tree'[q]} /\ (found'[q] # "none" => found'[q] = TypeOf(tree'[q]))
    OBVIOUS
  <2>1. q \in Path /\ Cardinality(was'[q]) = 1
    BY <1>0 DEF Untouched
  <2>2. /\ tree'[q] \in was'[q] /\ IsFiniteSet(was'[q])
        /\ found'[q] # "none" => \E n \in was'[q] : found'[q] = TypeOf(n)
    BY <1>0, <2>1 DEF WasInv, TypeOf
  <2>3. \E x : was'[q] = {x}
    BY <2>1, <2>2, FS_Singleton
  <2> QED
    BY <2>2, <2>3
<1>2. /\ tree'[p] # Absent /\ Above(p) \cap Unreadable = {} /\ Visible(p)
      /\ p \in Unreadable => ~IsFile(tree'[p])
      /\ \A a \in Above(p) : tree'[a] = Dir
  BY <1>0 DEF Walk, TypeOK, WellFormed
<1>3. /\ \A q \in W : tree[q] = tree'[q] /\ was[q] = was'[q]
      /\ Untouched(p) /\ Walk(tree, Unreadable)[p] # Absent
  <2>1. CASE Edit
    <3>1. \A q \in W : was'[q] = was[q] \cup {tree'[q]} /\ tree[q] \in was[q]
      BY <1>0, <2>1, EditFacts DEF WasInv
    <3>2. ASSUME NEW q \in W PROVE tree[q] = tree'[q] /\ was[q] = was'[q]
      <4>1. was'[q] = {tree'[q]} /\ was'[q] = was[q] \cup {tree'[q]} /\ tree[q] \in was[q]
        BY <1>1, <3>1
      <4> QED
        BY <4>1
    <3>3. Untouched(p)
      BY <3>2 DEF Untouched
    <3>4. Walk(tree, Unreadable)[p] # Absent
      BY <1>2, <3>2 DEF Walk
    <3> QED
      BY <3>2, <3>3, <3>4
  <2>2. CASE ~Edit
    <3>1. UNCHANGED <<tree, was>>
      BY <2>2 DEF Next, Walking, Visits, Start, BuildVisitors, VisitDir, VisitFile, Takes,
         ReadName, EndOfDir, DropVisitor, DropBuilder, Collect, vars, user
    <3> QED
      BY <3>1 DEF Untouched
  <2> QED
    BY <2>1, <2>2
<1>4. \A q \in W : found[q] # "none" => found[q] = TypeOf(tree[q])
  BY <1>0, <1>3, UntouchedFacts
<1>5. phase \in {"visiting", "returned"} => listed[p] # Absent \/ OnTheWay(p)
  BY <1>3 DEF CompleteInv
<1>6. ASSUME NEW v \in Visitor, NEW q \in Path, VisitDir(v, q)
      PROVE  listed'[p] # Absent \/ OnTheWay(p)'
  <2>1. /\ found[q] = "dir" /\ found' = [found EXCEPT ![q] = "none"] /\ dir[v] = NoDir
        /\ listed' = [listed EXCEPT ![q] = Dir] /\ UNCHANGED phase
        /\ tree[q] = Dir /\ q \notin Unreadable =>
              unseen' = [unseen EXCEPT ![v] = {r \in Children(q) : r \notin Hidden}]
        /\ unseen' = unseen \/ unseen' = [unseen EXCEPT ![v] = {r \in Children(q) : r \notin Hidden}]
    BY <1>6 DEF VisitDir, Takes
  <2>2. /\ \A r \in Path \ {q} : listed'[r] = listed[r] /\ found'[r] = found[r]
        /\ listed'[q] = Dir
        /\ \A w \in Visitor : unseen[w] \subseteq unseen'[w]
    <3>1. unseen[v] = {}
      BY <1>0, <2>1, NoNames
    <3> QED
      BY <1>0, <2>1, <3>1 DEF Shape, OnPaths
  <2>3. CASE q \notin W
    BY <1>0, <1>5, <2>1, <2>2, <2>3 DEF OnTheWay
  <2>4. CASE q = p
    BY <2>2, <2>4, KindFacts
  <2>5. CASE q \in Above(p)
    <3>1. PICK c \in W : c \in Children(q)
      BY <2>5, ChildOnTheWay
    <3>2. c \notin Hidden
      BY <1>2 DEF Visible
    <3>3. unseen' = [unseen EXCEPT ![v] = {r \in Children(q) : r \notin Hidden}]
      BY <1>2, <1>3, <2>1, <2>5
    <3>4. c \in unseen'[v]
      BY <1>0, <3>1, <3>2, <3>3 DEF Shape
    <3> QED
      BY <3>4 DEF OnTheWay
  <2> QED
    BY <2>3, <2>4, <2>5
<1>7. ASSUME NEW v \in Visitor, NEW q \in Path, VisitFile(v, q)
      PROVE  listed'[p] # Absent \/ OnTheWay(p)'
  <2>1. /\ found[q] = "file" /\ found' = [found EXCEPT ![q] = "none"]
        /\ IsFile(tree[q]) /\ q \notin Unreadable =>
              listed' = [listed EXCEPT ![q] = FileEntry(chunk(tree[q].data))]
        /\ \E n : listed' = listed \/ listed' = [listed EXCEPT ![q] = n]
        /\ UNCHANGED <<phase, dir, unseen>>
    BY <1>7 DEF VisitFile, Takes
  <2>2. \A r \in Path \ {q} : listed'[r] = listed[r] /\ found'[r] = found[r]
    BY <1>0, <2>1 DEF Shape, OnPaths
  <2>3. CASE q \notin W
    BY <1>0, <1>5, <2>1, <2>2, <2>3 DEF OnTheWay
  <2>4. CASE q \in W
    <3>1. tree[q] \in Node
      BY <1>0, TreeFacts DEF TypeOK
    <3>2. IsFile(tree[q])
      BY <1>4, <2>1, <2>4, <3>1, TypeOfFacts
    <3>3. q = p /\ p \notin Unreadable
      BY <1>2, <1>3, <2>4, <3>2, KindFacts
    <3>4. listed'[p] = FileEntry(chunk(tree[p].data))
      BY <1>0, <2>1, <3>2, <3>3 DEF Shape, OnPaths
    <3>5. listed'[p] # Absent
      BY <3>4 DEF FileEntry, Absent
    <3> QED
      BY <3>5
  <2> QED
    BY <2>3, <2>4
<1>8. ASSUME NEW v \in Visitor, NEW q \in Path, ReadName(v, q)
      PROVE  listed'[p] # Absent \/ OnTheWay(p)'
  <2>1. /\ unseen' = [unseen EXCEPT ![v] = unseen[v] \ {q}]
        /\ found' = [found EXCEPT ![q] = TypeOf(tree[q])]
        /\ UNCHANGED <<phase, listed>>
    BY <1>8 DEF ReadName
  <2>2. /\ \A r \in Path \ {q} : found'[r] = found[r]
        /\ found'[q] = TypeOf(tree[q])
        /\ \A w \in Visitor : unseen[w] \subseteq unseen'[w] \cup {q}
    BY <1>0, <2>1 DEF Shape, OnPaths
  <2>3. CASE q \notin W
    BY <1>0, <1>5, <2>1, <2>2, <2>3 DEF OnTheWay
  <2>4. CASE q \in W
    <3>1. tree[q] \in Node
      BY <1>0, TreeFacts DEF TypeOK
    <3>2. tree[q] # Absent
      BY <1>2, <1>3, <2>4, KindFacts
    <3>3. found'[q] # "none"
      BY <2>2, <3>1, <3>2, TypeOfFacts
    <3> QED
      BY <2>4, <3>3 DEF OnTheWay
  <2> QED
    BY <2>3, <2>4
<1>9. CASE BuildVisitors
  <2>1. found' = [found EXCEPT ![Root] = TypeOf(tree[Root])]
    BY <1>9 DEF BuildVisitors
  <2>2. Root \in W
    BY <1>0, PathAssumption DEF Above
  <2>3. tree[Root] \in Node /\ tree[Root] # Absent
    BY <1>0, <1>2, <1>3, <2>2, TreeFacts, KindFacts DEF TypeOK
  <2>4. found'[Root] # "none"
    BY <1>0, <2>1, <2>3, RootVisible, TypeOfFacts DEF Shape, OnPaths
  <2> QED
    BY <2>2, <2>4 DEF OnTheWay
<1>10. CASE Edit
  <2>1. /\ UNCHANGED <<phase, found, dir, listed>>
        /\ \/ unseen' = unseen
           \/ \E r \in Path :
                 /\ tree'[r] = Absent
                 /\ unseen' = [v \in Visitor |-> IF dir[v] \in {r} \cup Under(r)
                                                 THEN {} ELSE unseen[v]]
    BY <1>0, <1>10, EditFacts
  <2>2. ASSUME NEW v \in Visitor, NEW q \in W, q \in unseen[v] PROVE q \in unseen'[v]
    <3>1. CASE unseen' = unseen
      BY <2>2, <3>1
    <3>2. CASE unseen' # unseen
      <4>1. PICK r \in Path :
                 /\ tree'[r] = Absent
                 /\ unseen' = [w \in Visitor |-> IF dir[w] \in {r} \cup Under(r)
                                                 THEN {} ELSE unseen[w]]
        BY <2>1, <3>2
      <4>2. dir[v] \in Above(q)
        BY <1>0, <2>2 DEF ReadingInv
      <4>3. dir[v] \in Above(p) /\ dir[v] \in Path
        BY <1>0, <4>2, AboveTransitive
      <4>4. dir[v] # r
        BY <1>2, <4>1, <4>3, KindFacts
      <4>5. dir[v] \notin Under(r)
        <5>1. dir[v] \in Under(r) => r \in Above(p)
          BY <4>1, <4>3, UnderAbove, AboveTransitive
        <5> QED
          BY <1>2, <4>1, <5>1, KindFacts
      <4> QED
        BY <2>2, <4>1, <4>4, <4>5
    <3> QED
      BY <3>1, <3>2
  <2>3. OnTheWay(p) => OnTheWay(p)'
    BY <2>1, <2>2 DEF OnTheWay
  <2> QED
    BY <1>5, <2>1, <2>3
<1>11. CASE \/ Start \/ DropBuilder \/ Collect \/ UNCHANGED vars
            \/ \E v \in Visitor : EndOfDir(v) \/ DropVisitor(v)
  <2>1. UNCHANGED <<found, unseen, listed>> /\ phase \in {"visiting", "returned"}
    BY <1>11 DEF Start, DropBuilder, Collect, EndOfDir, DropVisitor, vars, walker
  <2> QED
    BY <1>5, <2>1 DEF OnTheWay
<1> QED
  BY <1>6, <1>7, <1>8, <1>9, <1>10, <1>11 DEF Next, Walking, Visits

\* A walk that has returned has nothing on the way.
LEMMA ReturnedComplete ==
    ASSUME Walked, Closing, CompleteInv
    PROVE  NothingMissed
<1> SUFFICES ASSUME phase = "returned", NEW p \in Path, Untouched(p),
                    Walk(tree, Unreadable)[p] # Absent
             PROVE  listed[p] \in Entries(p)
  BY DEF NothingMissed
<1>1. Idle
  BY DEF Closing, ClosingInv
<1>2. ~OnTheWay(p)
  BY <1>1, NoNames DEF Idle, OnTheWay, Walked, Closing, Above
<1>3. listed[p] # Absent
  BY <1>2 DEF CompleteInv
<1> QED
  BY <1>3 DEF Walked, ListedWas

-----------------------------------------------------------------------------
(* The chunks of a file.                                                   *)

\* The next cut is the first place where one may be.
LEMMA CutFacts ==
    ASSUME NEW bytes \in Data, NEW from \in 0 .. Len(bytes) - 1
    PROVE  CutAfter(bytes, from) \in from + 1 .. Len(bytes)
<1> DEFINE T == {to \in from + 1 .. Len(bytes) : IsCut(bytes, from, to)}
<1>1. Len(bytes) \in Nat
  BY DEF Data
<1>2. T \in SUBSET Nat /\ Len(bytes) \in T
  BY <1>1 DEF IsCut
<1>3. PICK n \in T : \A m \in T : n <= m
  <2> HIDE DEF T
  <2> QED
    BY <1>2, LeastNumber
<1>4. \A t \in from + 1 .. n - 1 : ~IsCut(bytes, from, t)
  BY <1>1, <1>3
<1> QED
  BY <1>3, <1>4 DEF CutAfter

\* f lists the chunks from every place on, the first of them being lo.
Chunks(f, bytes, lo) ==
    f = [from \in lo .. Len(bytes) |->
            IF from = Len(bytes)
            THEN <<>>
            ELSE <<FileChunk(bytes, from, CutAfter(bytes, from))>> \o f[CutAfter(bytes, from)]]

\* The chunks cs follow each other from one place to the end of the file, and
\* each is what its hash, offset and length say.
ChunkType == [hash : Data, offset : Nat, length : Nat]

Tiles(cs, bytes, from) ==
    /\ cs \in Seq(ChunkType)
    /\ \A i \in 1 .. Len(cs) :
          /\ cs[i].offset + cs[i].length <= Len(bytes)
          /\ cs[i].hash = SubSeq(bytes, cs[i].offset + 1, cs[i].offset + cs[i].length)
          /\ cs[i].offset = IF i = 1 THEN from ELSE cs[i - 1].offset + cs[i - 1].length
    /\ Len(bytes) = IF Len(cs) = 0 THEN from ELSE cs[Len(cs)].offset + cs[Len(cs)].length

LEMMA TilesNothing ==
    ASSUME NEW bytes \in Data
    PROVE  Tiles(<<>>, bytes, Len(bytes))
BY DEF Tiles

LEMMA TilesOneMore ==
    ASSUME NEW bytes \in Data, NEW from \in 0 .. Len(bytes), NEW to \in from .. Len(bytes),
           NEW cs, Tiles(cs, bytes, to)
    PROVE  Tiles(<<FileChunk(bytes, from, to)>> \o cs, bytes, from)
<1> DEFINE c == FileChunk(bytes, from, to)
           ds == <<c>> \o cs
<1>1. Len(bytes) \in Nat /\ from \in Nat /\ to \in Nat /\ from <= to /\ to <= Len(bytes)
  BY DEF Data
<1>2. /\ c \in ChunkType /\ c.offset = from /\ c.length = to - from
      /\ c.offset + c.length = to /\ c.hash = SubSeq(bytes, from + 1, to)
  <2>1. SubSeq(bytes, from + 1, to) \in Data
    BY <1>1 DEF Data
  <2> QED
    BY <1>1, <2>1 DEF FileChunk, ChunkType
<1> HIDE DEF c
<1>3. /\ cs \in Seq(ChunkType) /\ ds \in Seq(ChunkType) /\ Len(cs) \in Nat
      /\ Len(ds) = Len(cs) + 1 /\ ds[1] = c
      /\ \A i \in 2 .. Len(ds) : i - 1 \in 1 .. Len(cs) /\ ds[i] = cs[i - 1]
  BY <1>2 DEF Tiles
<1> HIDE DEF ds
<1>4. ASSUME NEW i \in 1 .. Len(ds)
      PROVE  /\ ds[i].offset + ds[i].length <= Len(bytes)
             /\ ds[i].hash = SubSeq(bytes, ds[i].offset + 1, ds[i].offset + ds[i].length)
             /\ ds[i].offset = IF i = 1 THEN from ELSE ds[i - 1].offset + ds[i - 1].length
  <2>1. CASE i = 1
    BY <1>1, <1>2, <1>3, <2>1
  <2>2. CASE i # 1
    <3>1. i \in 2 .. Len(ds) /\ i - 1 \in 1 .. Len(cs) /\ ds[i] = cs[i - 1]
      BY <1>3, <2>2
    <3>2. i # 2 => i - 1 \in 2 .. Len(ds) /\ ds[i - 1] = cs[i - 2]
      BY <1>3, <3>1
    <3>3. cs[i - 1].offset = IF i - 1 = 1 THEN to ELSE cs[i - 2].offset + cs[i - 2].length
      BY <3>1 DEF Tiles
    <3>4. ds[i].offset = ds[i - 1].offset + ds[i - 1].length
      BY <1>2, <1>3, <3>1, <3>2, <3>3
    <3> QED
      BY <2>2, <3>1, <3>4 DEF Tiles
  <2> QED
    BY <2>1, <2>2
<1>5. Len(bytes) = ds[Len(ds)].offset + ds[Len(ds)].length
  <2>1. CASE Len(cs) = 0
    BY <1>2, <1>3, <2>1 DEF Tiles
  <2>2. CASE Len(cs) # 0
    <3>1. Len(ds) \in 2 .. Len(ds) /\ ds[Len(ds)] = cs[Len(cs)]
      BY <1>3, <2>2
    <3> QED
      BY <2>2, <3>1 DEF Tiles
  <2> QED
    BY <2>1, <2>2
<1>6. Tiles(ds, bytes, from)
  BY <1>3, <1>4, <1>5 DEF Tiles
<1> QED
  BY <1>6 DEF ds, c

\* chunk's recursion defines something, and cuts the file without a gap.
LEMMA ChunksExist ==
    ASSUME NEW bytes \in Data, NEW K \in 0 .. Len(bytes)
    PROVE  \E f : Chunks(f, bytes, Len(bytes) - K)
<1> DEFINE N == Len(bytes)
           T == {k \in 0 .. N : ~ \E f : Chunks(f, bytes, N - k)}
<1>0. N \in Nat
  BY DEF Data
<1> SUFFICES ASSUME T # {} PROVE FALSE
  OBVIOUS
<1>1. PICK k \in T : \A m \in T : k <= m
  <2>1. T \in SUBSET Nat /\ T # {}
    OBVIOUS
  <2> HIDE DEF T
  <2> QED
    BY <2>1, LeastNumber
<1>2. CASE k = 0
  <2>1. Chunks([from \in N .. N |-> <<>>], bytes, N)
    BY <1>0 DEF Chunks
  <2> QED
    BY <1>0, <1>1, <1>2, <2>1
<1>3. CASE k # 0
  <2> DEFINE lo == N - k
             to == CutAfter(bytes, lo)
  <2>1. k \in 0 .. N /\ k - 1 \notin T
    <3> HIDE DEF T
    <3>1. k \in 0 .. N
      BY <1>1 DEF T
    <3> QED
      BY <1>0, <1>1, <1>3, <3>1
  <2>2. PICK f : Chunks(f, bytes, lo + 1)
    <3>1. k - 1 \in 0 .. N
      BY <1>0, <1>3, <2>1
    <3>2. \E f : Chunks(f, bytes, N - (k - 1))
      BY <2>1, <3>1
    <3>3. N - (k - 1) = lo + 1
      BY <1>0, <2>1
    <3> QED
      BY <3>2, <3>3
  <2> HIDE DEF T
  <2>6. lo \in 0 .. N - 1
    BY <1>0, <1>3, <2>1
  <2>3. to \in lo + 1 .. N
    BY <2>6, CutFacts
  <2> HIDE DEF to, lo, N
  <2> DEFINE g == [from \in lo .. N |->
                     IF from = lo THEN <<FileChunk(bytes, lo, to)>> \o f[to] ELSE f[from]]
  <2>4. ASSUME NEW from \in lo .. N
        PROVE  g[from] = IF from = N THEN <<>>
                         ELSE <<FileChunk(bytes, from, CutAfter(bytes, from))>>
                                  \o g[CutAfter(bytes, from)]
    <3>1. CASE from = lo
      <4>1. g[to] = f[to] /\ from # N
        BY <1>0, <2>6, <2>3, <3>1
      <4>2. g[from] = <<FileChunk(bytes, lo, to)>> \o f[to]
        BY <3>1
      <4> QED
        BY <3>1, <4>1, <4>2 DEF to
    <3>2. CASE from # lo
      <4>1. from \in lo + 1 .. N /\ g[from] = f[from]
        BY <1>0, <2>6, <3>2
      <4>2. f[from] = IF from = N THEN <<>>
                      ELSE <<FileChunk(bytes, from, CutAfter(bytes, from))>>
                               \o f[CutAfter(bytes, from)]
        BY <2>2, <4>1 DEF Chunks, N
      <4>3. from # N => CutAfter(bytes, from) \in from + 1 .. N
        BY <1>0, <2>6, <4>1, CutFacts DEF N
      <4>4. from # N => g[CutAfter(bytes, from)] = f[CutAfter(bytes, from)]
        BY <1>0, <2>6, <4>1, <4>3
      <4> QED
        BY <4>1, <4>2, <4>4
    <3> QED
      BY <3>1, <3>2
  <2>5. Chunks(g, bytes, lo)
    BY <2>4 DEF Chunks, N
  <2> QED
    BY <1>1, <2>5 DEF lo, T
<1> QED
  BY <1>2, <1>3

LEMMA ChunkTiles ==
    ASSUME NEW bytes \in Data
    PROVE  Tiles(chunk(bytes), bytes, 0)
<1> DEFINE N == Len(bytes)
           f == CHOOSE g : Chunks(g, bytes, 0)
           T == {k \in 0 .. N : ~Tiles(f[N - k], bytes, N - k)}
<1>0. N \in Nat
  BY DEF Data
<1>1. Chunks(f, bytes, 0)
  <2>1. N \in 0 .. N /\ N - N = 0
    BY <1>0
  <2>2. \E g : Chunks(g, bytes, 0)
    BY <2>1, ChunksExist
  <2> QED
    BY <2>2
<1>2. chunk(bytes) = f[0]
  BY DEF chunk, Chunks
<1> HIDE DEF f
<1>3. ASSUME T # {} PROVE FALSE
  <2>1. PICK k \in T : \A m \in T : k <= m
    <3>1. T \in SUBSET Nat
      OBVIOUS
    <3> HIDE DEF T
    <3> QED
      BY <1>3, <3>1, LeastNumber
  <2> DEFINE lo == N - k
             to == CutAfter(bytes, lo)
  <2>2. f[lo] = IF lo = N THEN <<>> ELSE <<FileChunk(bytes, lo, to)>> \o f[to]
    <3>1. lo \in 0 .. N
      BY <1>0, <2>1
    <3> HIDE DEF lo, T
    <3> QED
      BY <1>1, <3>1 DEF Chunks
  <2>3. CASE lo = N
    BY <2>1, <2>2, <2>3, TilesNothing
  <2>4. CASE lo # N
    <3>1. lo \in 0 .. N - 1
      BY <1>0, <2>1, <2>4
    <3>2. to \in lo + 1 .. N
      BY <3>1, CutFacts
    <3> HIDE DEF to
    <3>3. N - to \in 0 .. N /\ N - to < k /\ N - (N - to) = to
      BY <1>0, <2>1, <3>1, <3>2
    <3>4. Tiles(f[to], bytes, to)
      BY <2>1, <3>3
    <3>5. lo \in 0 .. Len(bytes) /\ to \in lo .. Len(bytes)
      BY <1>0, <3>1, <3>2
    <3> HIDE DEF lo, N, T
    <3>6. Tiles(<<FileChunk(bytes, lo, to)>> \o f[to], bytes, lo)
      BY <3>4, <3>5, TilesOneMore
    <3> QED
      BY <2>1, <2>2, <2>4, <3>6 DEF T, lo
  <2> QED
    BY <2>3, <2>4
<1>4. N \in 0 .. N /\ N - N = 0
  BY <1>0
<1> QED
  BY <1>2, <1>3, <1>4

\* The chunk that is copied has the hash that was looked up.
LEMMA MatchingFacts ==
    ASSUME NEW cs, NEW hash, cs \in Seq(ChunkType), \E j \in DOMAIN cs : cs[j].hash = hash
    PROVE  Matching(cs, hash) \in 1 .. Len(cs) /\ cs[Matching(cs, hash)].hash = hash
<1> DEFINE T == {i \in DOMAIN cs : cs[i].hash = hash}
<1>1. DOMAIN cs = 1 .. Len(cs) /\ Len(cs) \in Nat /\ T \in SUBSET (1 .. Len(cs)) /\ T # {}
  OBVIOUS
<1>2. PICK i \in T : \A j \in T : j <= i
  <2> HIDE DEF T
  <2> QED
    BY <1>1, LastPlace
<1>3. Matching(cs, hash) \in T
  BY <1>2 DEF Matching
<1> QED
  BY <1>1, <1>3

\* An update never copies from beyond the file its chunks were made of.
LEMMA UpdateInFile ==
    ASSUME NEW base \in Data, NEW newChunks, NEW bytes
    PROVE  ~OutOfFile(Update(chunk(base), newChunks, bytes), base)
<1> DEFINE o == chunk(base)
           ins == Update(o, newChunks, bytes)
<1> SUFFICES ASSUME NEW i \in DOMAIN ins, ins[i].kind = "copy"
             PROVE  ~(ins[i].offset + ins[i].length > Len(base))
  BY DEF OutOfFile
<1>1. Tiles(o, base, 0)
  BY ChunkTiles
<1> HIDE DEF o
<1> DEFINE hash == newChunks[i].hash
           c == o[Matching(o, hash)]
<1>2. ins[i] = IF \E j \in DOMAIN o : o[j].hash = hash
               THEN CopyBytes(c) ELSE AtPlace(bytes, newChunks[i])
  BY DEF Update
<1>3. \E j \in DOMAIN o : o[j].hash = hash
  BY <1>2 DEF AtPlace, Slice, LiteralData, Panic
<1>4. Matching(o, hash) \in 1 .. Len(o)
  BY <1>1, <1>3, MatchingFacts DEF Tiles
<1>5. c.offset + c.length <= Len(base) /\ c \in ChunkType
  BY <1>1, <1>4 DEF Tiles
<1>6. ins[i].offset = c.offset /\ ins[i].length = c.length
  BY <1>2, <1>3 DEF CopyBytes
<1>7. c.offset \in Nat /\ c.length \in Nat /\ Len(base) \in Nat
  BY <1>5 DEF ChunkType, Data
<1> HIDE DEF c, ins
<1> QED
  BY <1>5, <1>6, <1>7

\* A range that is kept within the bytes is one, wherever the chunk was.
LEMMA AtPlaceFacts ==
    ASSUME NEW bytes \in Data, NEW c \in ChunkType
    PROVE  /\ AtPlace(bytes, c).kind = "literal"
           /\ c.offset + c.length <= Len(bytes) =>
                 AtPlace(bytes, c).data = SubSeq(bytes, c.offset + 1, c.offset + c.length)
<1> DEFINE start == Within(bytes, c.offset)
           end   == Within(bytes, c.offset + c.length)
<1>1. c.offset \in Nat /\ c.length \in Nat /\ Len(bytes) \in Nat
  BY DEF ChunkType, Data
<1>2. start <= end /\ end <= Len(bytes)
  BY <1>1 DEF Within
<1>3. AtPlace(bytes, c) = LiteralData(SubSeq(bytes, start + 1, end))
  BY <1>2 DEF AtPlace, Slice
<1>4. c.offset + c.length <= Len(bytes) => start = c.offset /\ end = c.offset + c.length
  BY <1>1 DEF Within
<1>5. \A d : LiteralData(d).kind = "literal" /\ LiteralData(d).data = d
  BY DEF LiteralData
<1> HIDE DEF start, end
<1> QED
  BY <1>3, <1>4, <1>5

\* Every instruction can be made.
LEMMA UpdateMade ==
    ASSUME NEW o, NEW newChunks \in Seq(ChunkType), NEW bytes \in Data,
           NEW i \in DOMAIN Update(o, newChunks, bytes)
    PROVE  Update(o, newChunks, bytes)[i].kind # "panic"
<1> DEFINE c == newChunks[i]
<1>0. i \in DOMAIN newChunks
  BY DEF Update
<1>1. c \in ChunkType
  BY <1>0
<1>2. \/ \E old : Update(o, newChunks, bytes)[i] = CopyBytes(old)
      \/ Update(o, newChunks, bytes)[i] = AtPlace(bytes, c)
  BY <1>0 DEF Update
<1> HIDE DEF c
<1> QED
  BY <1>1, <1>2, AtPlaceFacts DEF CopyBytes

\* The pieces of a file put one after the other are the file.
LEMMA TilesJoin ==
    ASSUME NEW bytes \in Data, NEW cs, Tiles(cs, bytes, 0), NEW pieces,
           DOMAIN pieces = DOMAIN cs, pieces = [i \in DOMAIN pieces |-> pieces[i]],
           \A i \in 1 .. Len(cs) : pieces[i] = cs[i].hash
    PROVE  FlattenSeq(pieces) = bytes
<1> DEFINE N == Len(cs)
           end(i) == cs[i].offset + cs[i].length
<1>1. /\ cs \in Seq(ChunkType) /\ N \in Nat /\ DOMAIN cs = 1 .. N
      /\ Len(bytes) \in Nat /\ bytes \in Seq(Chunk)
      /\ \A i \in 1 .. N : cs[i] \in ChunkType
  BY DEF Tiles, Data
<1>2. Len(pieces) = N
  BY <1>1
<1>3. CASE N = 0
  <2>1. pieces = <<>> /\ bytes = <<>>
    BY <1>1, <1>2, <1>3 DEF Tiles
  <2> QED
    BY <2>1 DEF FlattenSeq
<1>4. CASE N # 0
  <2>1. PICK f : Joins(f, pieces, N) /\ FlattenSeq(pieces) = f[N]
    BY <1>1, <1>2, <1>4, FlattenIsJoin
  <2> DEFINE T == {n \in 1 .. N : f[n] # SubSeq(bytes, 1, end(n))}
  <2>2. CASE T = {}
    <3>1. f[N] = SubSeq(bytes, 1, end(N))
      BY <1>1, <1>4, <2>2
    <3>2. end(N) = Len(bytes)
      BY <1>4 DEF Tiles
    <3> QED
      BY <1>1, <2>1, <3>1, <3>2
  <2>3. CASE T # {}
    <3>1. PICK n \in T : \A m \in T : n <= m
      <4>1. T \in SUBSET Nat
        BY <1>1
      <4> HIDE DEF T
      <4> QED
        BY <2>3, <4>1, LeastNumber
    <3>2. f[n] = IF n = 1 THEN pieces[n] ELSE f[n - 1] \o pieces[n]
      BY <2>1 DEF Joins
    <3>3. /\ pieces[n] = SubSeq(bytes, cs[n].offset + 1, end(n)) /\ end(n) <= Len(bytes)
          /\ cs[n].offset = IF n = 1 THEN 0 ELSE end(n - 1)
          /\ cs[n].offset \in Nat /\ cs[n].length \in Nat
      BY <1>1 DEF Tiles, ChunkType
    <3>4. CASE n = 1
      BY <3>1, <3>2, <3>3, <3>4
    <3>5. CASE n # 1
      <4>1. n - 1 \in 1 .. N /\ n - 1 \notin T
        BY <1>1, <3>1, <3>5
      <4>2. f[n - 1] = SubSeq(bytes, 1, end(n - 1))
        BY <4>1
      <4> DEFINE m == end(n - 1)
                 k == end(n)
      <4>3. m \in Nat /\ k \in Nat /\ m <= k /\ k <= Len(bytes)
        BY <3>3, <3>5
      <4>4. f[n] = SubSeq(bytes, 1, m) \o SubSeq(bytes, m + 1, k)
        BY <3>2, <3>3, <3>5, <4>2
      <4>5. f[n] # SubSeq(bytes, 1, k)
        BY <3>1
      <4> HIDE DEF m, k
      <4>6. 1 \in 1 .. Len(bytes) + 1 /\ m \in 1 - 1 .. Len(bytes) /\ k \in m .. Len(bytes)
        BY <1>1, <4>3
      <4>7. SubSeq(bytes, 1, m) \o SubSeq(bytes, m + 1, k) = SubSeq(bytes, 1, k)
        BY <1>1, <4>6, ConcatAdjacentSubSeq
      <4> QED
        BY <4>4, <4>5, <4>7
    <3> QED
      BY <3>4, <3>5
  <2> QED
    BY <2>2, <2>3
<1> QED
  BY <1>3, <1>4

\* What is rebuilt from the instructions is the file they were made for, if it
\* still is what it was when it was listed.
LEMMA RebuiltIsFile ==
    ASSUME NEW base \in Data, NEW bytes \in Data
    PROVE  Rebuilt(Update(chunk(base), chunk(bytes), bytes), base) = bytes
<1> DEFINE o == chunk(base)
           n == chunk(bytes)
           ins == Update(o, n, bytes)
           piece(i) == IF ins[i].kind = "copy"
                       THEN SubSeq(base, ins[i].offset + 1, ins[i].offset + ins[i].length)
                       ELSE ins[i].data
           pieces == [i \in DOMAIN ins |-> piece(i)]
<1>1. Tiles(o, base, 0) /\ Tiles(n, bytes, 0)
  BY ChunkTiles
<1> HIDE DEF o, n
<1>2. /\ DOMAIN ins = DOMAIN n /\ DOMAIN n = 1 .. Len(n) /\ o \in Seq(ChunkType)
      /\ Len(bytes) \in Nat
  BY <1>1 DEF Update, Tiles, Data
<1>3. ASSUME NEW i \in 1 .. Len(n) PROVE piece(i) = n[i].hash
  <2> DEFINE c == o[Matching(o, n[i].hash)]
             has == \E j \in DOMAIN o : o[j].hash = n[i].hash
  <2>1. ins[i] = IF has THEN CopyBytes(c) ELSE AtPlace(bytes, n[i])
    BY <1>2 DEF Update
  <2>2. CASE has
    <3>1. Matching(o, n[i].hash) \in 1 .. Len(o) /\ c.hash = n[i].hash
      BY <1>2, <2>2, MatchingFacts
    <3>2. c.hash = SubSeq(base, c.offset + 1, c.offset + c.length)
      BY <1>1, <3>1 DEF Tiles
    <3>3. ins[i] = CopyBytes(c)
      BY <2>1, <2>2
    <3>4. ins[i].kind = "copy" /\ ins[i].offset = c.offset /\ ins[i].length = c.length
      BY <3>3 DEF CopyBytes
    <3> HIDE DEF c, ins
    <3> QED
      BY <3>1, <3>2, <3>4
  <2>3. CASE ~has
    <3>1. /\ n[i].hash = SubSeq(bytes, n[i].offset + 1, n[i].offset + n[i].length)
          /\ n[i].offset + n[i].length <= Len(bytes) /\ n[i] \in ChunkType
      BY <1>1 DEF Tiles
    <3>2. ins[i] = AtPlace(bytes, n[i])
      BY <2>1, <2>3
    <3> HIDE DEF ins
    <3>3. ins[i].kind # "copy" /\ ins[i].data = n[i].hash
      BY <3>1, <3>2, AtPlaceFacts
    <3> QED
      BY <3>3
  <2> QED
    BY <2>2, <2>3
<1>4. pieces = [i \in DOMAIN pieces |-> pieces[i]] /\ DOMAIN pieces = DOMAIN n
  BY <1>2
<1>5. \A i \in 1 .. Len(n) : pieces[i] = n[i].hash
  BY <1>2, <1>3
<1>6. FlattenSeq(pieces) = bytes
  <2> HIDE DEF pieces
  <2> QED
    BY <1>1, <1>4, <1>5, TilesJoin
<1> QED
  BY <1>6 DEF Rebuilt, o, n

-----------------------------------------------------------------------------
(* The theorems.                                                           *)

\* Whatever the user edits during the walk and however the visitors take
\* turns, every listed path has its directories in the list: what TreeSync's
\* theorems take a snapshot to be.
THEOREM ListIsTreeCorrect == Spec => []ListIsTree
<1>1. Inv => ListIsTree
  BY DEF Inv, ListIsTree
<1> QED
  BY <1>1, Invariance, PTL

\* No path is listed twice, and none that is listed is visited again: a key of
\* the snapshot map is never overwritten by another entry of the walk.
THEOREM ListedOnce == Spec => [][\A p \in Path : listed[p] # Absent => listed'[p] = listed[p]]_listed
<1> DEFINE Kept == \A p \in Path : listed[p] # Absent => listed'[p] = listed[p]
<1>1. Inv /\ [Next]_vars => [Kept]_listed
  <2> SUFFICES ASSUME Inv, Next PROVE [Kept]_listed
    BY DEF vars, walker
  <2>1. ASSUME NEW v \in Visitor, NEW p \in Path, VisitDir(v, p) \/ VisitFile(v, p) PROVE Kept
    <3>1. found[p] # "none" /\ \E n : listed' = [listed EXCEPT ![p] = n] \/ listed' = listed
      BY <2>1 DEF VisitDir, VisitFile, Takes
    <3> QED
      BY <3>1 DEF Inv, FoundInv, Shape, OnPaths
  <2>2. CASE listed' = listed
    BY <2>2
  <2> QED
    BY <2>1, <2>2 DEF Next, Walking, Visits, Start, BuildVisitors, ReadName, EndOfDir, DropVisitor,
                      DropBuilder, Collect, Edit
<1>2. [][Next]_vars /\ []Inv => [][Kept]_listed
  BY <1>1, PTL
<1> QED
  BY <1>2, Invariance, PTL DEF Spec

\* Everything keeps its type, the tree under the walk stays a tree, and no
\* visitor comes to a hidden name.
THEOREM TypeCorrect == Spec => []TypeOK
<1>1. Inv /\ TypeOK /\ [Next]_vars => TypeOK'
  BY TypeStep
<1> QED
  BY <1>1, InitTypes, Invariance, PTL DEF Spec

LEMMA AlwaysWalked == Spec => []Walked
<1>1. Init => Walked
  BY InitInv, InitTypes, InitWas DEF Walked
<1>2. Walked /\ [Next]_vars => Walked'
  BY WalkedStep
<1> QED
  BY <1>1, <1>2, PTL DEF Spec

\* Whatever a walk lists was at that path at some moment of the walk, with the
\* chunks of one content the file had: a name that is listed late, or whose
\* type has changed since it was found, brings nothing that never was.
THEOREM ListedWasCorrect == Spec => []ListedWas
<1>1. Walked => ListedWas
  BY DEF Walked
<1> QED
  BY <1>1, AlwaysWalked, PTL

\* A walk that returns has listed every visible and readable path nobody
\* touched meanwhile, however many visitors shared the work and whatever the
\* user edited elsewhere: a visitor that leaves does not leave work behind.
THEOREM NothingMissedCorrect == Spec => []NothingMissed
<1>1. Init => Closing /\ CompleteInv
  BY DEF Init, Closing, ReadingInv, ClosingInv, CompleteInv
<1>2. Walked /\ Closing /\ [Next]_vars => Closing'
  BY ClosingStep
<1>3. Walked /\ Walked' /\ Closing /\ CompleteInv /\ [Next]_vars => CompleteInv'
  BY CompleteStep
<1>4. Walked /\ Closing /\ CompleteInv => NothingMissed
  BY ReturnedComplete
<1> QED
  BY <1>1, <1>2, <1>3, <1>4, AlwaysWalked, PTL DEF Spec

\* Whatever a file and its chunks are: the instructions of an update can be
\* made and stay within the old content, also when the new file has changed
\* since it was listed, and restore it when it has not.
THEOREM UpdateRestoresCorrect == Spec => []UpdateRestores
<1>1. ASSUME Walked PROVE UpdateRestores
  <2> SUFFICES ASSUME NEW p \in Path, IsFile(listed[p]), NEW base \in Contents
               PROVE  LET instructs == Update(chunk(base), listed[p].data, tree[p].data)
                      IN  /\ \A i \in DOMAIN instructs : instructs[i].kind # "panic"
                          /\ ~OutOfFile(instructs, base)
                          /\ listed[p] = FileEntry(chunk(tree[p].data)) =>
                                Rebuilt(instructs, base) = tree[p].data
    BY DEF UpdateRestores
  <2>1. base \in Data /\ tree[p].data \in Data
    BY <1>1, WalkAssumption, TreeFacts DEF Walked, TypeOK
  <2>2. listed[p] = FileEntry(chunk(tree[p].data)) => listed[p].data = chunk(tree[p].data)
    BY DEF FileEntry
  <2>3. listed[p].data \in Seq(ChunkType)
    <3>1. listed[p] \in Entries(p)
      BY <1>1, KindFacts DEF Walked, ListedWas
    <3>2. PICK n \in was[p] : listed[p] = IF IsFile(n) THEN FileEntry(chunk(n.data)) ELSE n
      BY <3>1 DEF Entries
    <3>3. listed[p].data = chunk(n.data)
      BY <3>2 DEF FileEntry
    <3>4. n.data \in Data
      BY <1>1, <3>2 DEF Walked, WasInv, Node
    <3> QED
      BY <3>3, <3>4, ChunkTiles DEF Tiles
  <2> QED
    BY <2>1, <2>2, <2>3, UpdateMade, UpdateInFile, RebuiltIsFile
<1> QED
  BY <1>1, AlwaysWalked, PTL
=============================================================================
