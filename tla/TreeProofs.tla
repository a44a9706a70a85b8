----------------------------- MODULE TreeProofs ------------------------------
(***************************************************************************)
(* Facts about trees, walks, the file-system calls and the entries of a    *)
(* patch, for any nesting of paths and any content.                        *)
(***************************************************************************)
EXTENDS SnapshotDiff, FiniteSetTheorems, SequenceTheorems, WellFoundedInduction, TLAPS

\* t is a function on the paths, whatever its nodes are.
OnPaths(t) == t = [p \in Path |-> t[p]]

\* An entry of the patch is about a path the snapshots disagree on: there is a
\* file to make, one to change, or something to remove.
Sound(o, n, e) ==
    /\ e.path \in Path
    /\ e.op \in {"create", "delete", "update"}
    /\ o[e.path] # n[e.path]
    /\ e.op = "create" => IsFile(n[e.path]) /\ ~IsFile(o[e.path])
    /\ e.op = "update" => IsFile(n[e.path]) /\ IsFile(o[e.path])
    /\ e.op = "delete" => o[e.path] # Absent /\ ~(IsFile(o[e.path]) /\ IsFile(n[e.path]))

\* It carries the content of the sender's snapshot.
Meant(o, n, e) ==
    /\ e.op = "create" => e.bytes = n[e.path].data
    /\ e.op = "update" =>
          e.instructs = Instructs(o[e.path].data, n[e.path].data, n[e.path].data)

\* The entries es hold one about p.
About(es, p) == \E i \in 1 .. Len(es) : es[i].path = p
AllAbout(es, p) == \A i \in 1 .. Len(es) : es[i].path = p

\* Of two entries about one path the first deletes and the second creates, and
\* what is deleted to make way for a file is followed by that file.
Ordered(n, es) ==
    /\ \A i, j \in 1 .. Len(es) :
          i < j /\ es[i].path = es[j].path => es[i].op = "delete" /\ es[j].op = "create"
    /\ \A i \in 1 .. Len(es) :
          es[i].op = "delete" /\ IsFile(n[es[i].path]) =>
              \E j \in 1 .. Len(es) : i < j /\ es[j].path = es[i].path

\* What is in the way of a directory is a file until it is deleted.
Waits(n, es, t) ==
    \A i \in 1 .. Len(es) :
        es[i].op = "delete" /\ n[es[i].path] = Dir => IsFile(t[es[i].path])

\* A node a where the sender has b, as far as a run can bring it: directories
\* are made for files alone.
Agree(a, b) ==
    /\ IsFile(b) => a = b
    /\ b = Absent => a = Absent
    /\ b = Dir => ~IsFile(a)

\* A visible file on both sides that has an entry in es has not been touched.
Undone(o, n, es, t) ==
    \A p \in Path : Visible(p) /\ About(es, p) /\ IsFile(o[p]) /\ IsFile(n[p]) => t[p] = o[p]

\* A visible path without an entry in es is as it should be.
Reached(n, es, t) == \A p \in Path : Visible(p) /\ ~About(es, p) => Agree(t[p], n[p])

-----------------------------------------------------------------------------
(* Induction over the natural numbers, and what FlattenSeq computes.       *)

\* The least-number principle: a claim about every number holds if it does not
\* fail at a least one.
LEMMA LeastNumber ==
    ASSUME NEW T \in SUBSET Nat, T # {}
    PROVE  \E n \in T : \A m \in T : n <= m
<1> DEFINE R == OpToRel(<, Nat)
<1>1. R = {s \in Nat \X Nat : s[1] < s[2]}
  BY DEF OpToRel
<1>2. IsWellFoundedOn(R, Nat)
  BY NatLessThanWellFounded, Zenon
<1> HIDE DEF R
<1>3. PICK n \in T : \A m \in T : ~(<<m, n>> \in R)
  BY <1>2, WFMin
<1>4. \A m \in T : ~(m < n)
  BY <1>1, <1>3
<1> QED
  BY <1>3, <1>4

\* f[i] is the concatenation of the first i pieces.
Joins(f, pieces, n) ==
    f = [i \in 1 .. n |-> IF i = 1 THEN pieces[i] ELSE f[i - 1] \o pieces[i]]

\* FlattenSeq's recursion defines something.
LEMMA JoinExists ==
    ASSUME NEW pieces, NEW N \in Nat
    PROVE  \E f : Joins(f, pieces, N)
<1> DEFINE T == {n \in Nat : ~ \E f : Joins(f, pieces, n)}
<1> SUFFICES ASSUME T # {} PROVE FALSE
  OBVIOUS
<1>1. PICK n \in T : \A m \in T : n <= m
  BY LeastNumber
<1>2. CASE n = 0
  <2>1. Joins([i \in 1 .. 0 |-> 0], pieces, 0)
    BY DEF Joins
  <2> QED
    BY <1>1, <1>2, <2>1
<1>3. CASE n # 0
  <2>1. n - 1 \in Nat /\ n - 1 \notin T
    BY <1>1, <1>3
  <2>2. PICK f : Joins(f, pieces, n - 1)
    BY <2>1
  <2> DEFINE g == [i \in 1 .. n |->
                     IF i < n THEN f[i]
                     ELSE IF n = 1 THEN pieces[n] ELSE f[n - 1] \o pieces[n]]
  <2>3. ASSUME NEW i \in 1 .. n
        PROVE  g[i] = IF i = 1 THEN pieces[i] ELSE g[i - 1] \o pieces[i]
    <3>1. CASE i = n
      BY <1>3, <3>1
    <3>2. CASE i < n
      <4>1. i \in 1 .. n - 1
        BY <1>1, <3>2
      <4>2. f[i] = IF i = 1 THEN pieces[i] ELSE f[i - 1] \o pieces[i]
        BY <2>2, <4>1 DEF Joins
      <4>3. i # 1 => i - 1 \in 1 .. n /\ i - 1 < n
        BY <1>1, <4>1
      <4> QED
        BY <3>2, <4>2, <4>3
    <3> QED
      BY <3>1, <3>2
  <2>4. Joins(g, pieces, n)
    BY <2>3 DEF Joins
  <2> QED
    BY <1>1, <2>4
<1> QED
  BY <1>2, <1>3

\* FlattenSeq is the last of the joins.
LEMMA FlattenIsJoin ==
    ASSUME NEW pieces, Len(pieces) \in Nat \ {0}
    PROVE  \E f : Joins(f, pieces, Len(pieces)) /\ FlattenSeq(pieces) = f[Len(pieces)]
<1> DEFINE f == CHOOSE g : Joins(g, pieces, Len(pieces))
<1>1. Joins(f, pieces, Len(pieces))
  BY JoinExists
<1>2. FlattenSeq(pieces) = f[Len(pieces)]
  BY DEF FlattenSeq, Joins
<1> QED
  BY <1>1, <1>2

\* The type of a concatenation.
LEMMA FlattenType ==
    ASSUME NEW S, NEW pieces \in Seq(Seq(S))
    PROVE  FlattenSeq(pieces) \in Seq(S)
<1> DEFINE N == Len(pieces)
<1>1. CASE N = 0
  BY <1>1 DEF FlattenSeq
<1>2. CASE N # 0
  <2>1. PICK f : Joins(f, pieces, N) /\ FlattenSeq(pieces) = f[N]
    BY <1>2, FlattenIsJoin
  <2> DEFINE T == {n \in 1 .. N : f[n] \notin Seq(S)}
  <2>2. CASE T = {}
    BY <1>2, <2>1, <2>2
  <2>3. CASE T # {}
    <3>1. T \subseteq Nat
      OBVIOUS
    <3>2. PICK n \in T : \A m \in T : n <= m
      BY <2>3, <3>1, LeastNumber
    <3>3. f[n] = IF n = 1 THEN pieces[n] ELSE f[n - 1] \o pieces[n]
      BY <2>1 DEF Joins
    <3>4. n # 1 => f[n - 1] \in Seq(S)
      BY <3>2
    <3>5. pieces[n] \in Seq(S) /\ f[n] \notin Seq(S)
      OBVIOUS
    <3>6. CASE n = 1
      BY <3>3, <3>5, <3>6
    <3>7. CASE n # 1
      <4>1. f[n] = f[n - 1] \o pieces[n]
        BY <3>3, <3>7
      <4> HIDE DEF T
      <4> QED
        BY <3>4, <3>5, <3>7, <4>1
    <3> QED
      BY <3>6, <3>7
  <2> QED
    BY <2>2, <2>3
<1> QED
  BY <1>1, <1>2

\* The concatenation of sequences of one element.
LEMMA FlattenSingles ==
    ASSUME NEW S, NEW s \in Seq(S), NEW pieces, Len(pieces) = Len(s), s # <<>>,
           \A i \in 1 .. Len(s) : pieces[i] = <<s[i]>>
    PROVE  FlattenSeq(pieces) = s
<1> DEFINE N == Len(s)
<1>0. N \in Nat \ {0}
  OBVIOUS
<1>1. PICK f : Joins(f, pieces, N) /\ FlattenSeq(pieces) = f[N]
  BY <1>0, FlattenIsJoin
<1> DEFINE T == {n \in 1 .. N : f[n] # SubSeq(s, 1, n)}
<1>2. CASE T = {}
  BY <1>0, <1>1, <1>2
<1>3. CASE T # {}
  <2>1. T \subseteq Nat
    OBVIOUS
  <2>2. PICK n \in T : \A m \in T : n <= m
    BY <1>3, <2>1, LeastNumber
  <2>3. f[n] = IF n = 1 THEN <<s[n]>> ELSE f[n - 1] \o <<s[n]>>
    BY <1>1 DEF Joins
  <2>4. n # 1 => f[n - 1] = SubSeq(s, 1, n - 1)
    BY <2>2
  <2>5. n # 1 => SubSeq(s, 1, n) = SubSeq(s, 1, n - 1) \o <<s[n]>>
    OBVIOUS
  <2>6. SubSeq(s, 1, 1) = <<s[1]>>
    <3>1. 1 \in 1 .. Len(s)
      OBVIOUS
    <3>2. SubSeq(s, 1, 1) = <<s[1]>> \o SubSeq(s, 2, 1)
      BY <3>1, SubSeqRecursiveFirst
    <3>3. SubSeq(s, 2, 1) = <<>>
      BY SubSeqEmpty
    <3>4. <<s[1]>> \in Seq(S)
      BY <3>1
    <3> QED
      BY <3>2, <3>3, <3>4, ConcatEmptySeq
  <2> QED
    BY <2>3, <2>4, <2>5, <2>6
<1> QED
  BY <1>2, <1>3

-----------------------------------------------------------------------------
(* Trees.                                                                  *)

LEMMA AboveTransitive ==
    ASSUME NEW p \in Path, NEW a \in Above(p), NEW b \in Above(a)
    PROVE  b \in Above(p) /\ a \in Path /\ b \in Path /\ a # p
BY PathAssumption DEF Above

LEMMA UnderAbove ==
    ASSUME NEW p \in Path, NEW q \in Path
    PROVE  q \in Under(p) <=> p \in Above(q)
BY DEF Under, Above

\* The root is listed by every walk that opens it.
LEMMA RootVisible == Root \in Path /\ Above(Root) = {} /\ Visible(Root)
BY PathAssumption DEF Above, Visible

LEMMA KindFacts ==
    /\ Absent # Dir
    /\ \A d : File(d) # Dir /\ File(d) # Absent /\ IsFile(File(d))
    /\ ~IsFile(Dir) /\ ~IsFile(Absent)
BY DEF Absent, Dir, File, IsFile

\* A node is one of the three kinds, and a file is its content.
LEMMA NodeFacts ==
    /\ Absent \in Node /\ Dir \in Node /\ \A d \in Data : File(d) \in Node
    /\ \A n \in Node : n.data \in Data
    /\ \A n \in Node : n = Absent \/ n = Dir \/ (IsFile(n) /\ n = File(n.data))
<1>1. <<>> \in Data
  BY DEF Data
<1>2. /\ Absent \in Node /\ Dir \in Node /\ \A d \in Data : File(d) \in Node
      /\ \A n \in Node : n.data \in Data
  BY <1>1 DEF Node, Absent, Dir, File
<1>3. \A n \in Node : n = Absent \/ n = Dir \/ (IsFile(n) /\ n = File(n.data))
  BY DEF Node, Absent, Dir, File, IsFile
<1> QED
  BY <1>2, <1>3

LEMMA TreeFacts ==
    ASSUME NEW t \in Tree
    PROVE  OnPaths(t) /\ \A p \in Path : t[p] \in Node /\ t[p].data \in Data
BY NodeFacts DEF Tree, OnPaths

\* The calls keep the type of a tree.
LEMMA CallTypes ==
    ASSUME NEW t \in Tree, NEW p \in Path
    PROVE  /\ \A d \in Data : Created(t, p, d) \in Tree
           /\ \A gone : [q \in Path |-> IF q \in gone THEN Absent ELSE t[q]] \in Tree
           /\ Deleted(t, p) \in Tree
           /\ \A n \in Node : [t EXCEPT ![p] = n] \in Tree
           /\ NoTree \in Tree /\ \A unread : Walk(t, unread) \in Tree
<1>1. \A q \in Path : t[q] \in Node
  BY TreeFacts
<1>2. \A d \in Data : Created(t, p, d) \in Tree
  BY <1>1, NodeFacts DEF Created, Tree
<1>3. \A gone : [q \in Path |-> IF q \in gone THEN Absent ELSE t[q]] \in Tree
  BY <1>1, NodeFacts DEF Tree
<1>4. Deleted(t, p) \in Tree
  BY <1>1, NodeFacts DEF Deleted, Tree
<1>5. \A n \in Node : [t EXCEPT ![p] = n] \in Tree
  BY DEF Tree
<1>6. NoTree \in Tree /\ \A unread : Walk(t, unread) \in Tree
  BY <1>1, NodeFacts DEF NoTree, Walk, Tree
<1> QED
  BY <1>2, <1>3, <1>4, <1>5, <1>6

\* A walk lists what is there, and every directory on the way to it.
LEMMA WalkFacts ==
    ASSUME NEW t, NEW unread, WellFormed(t)
    PROVE  /\ WellFormed(Walk(t, unread))
           /\ \A p \in Path :
                 Walk(t, unread)[p] # Absent => Walk(t, unread)[p] = t[p] /\ Visible(p)
<1> DEFINE w == Walk(t, unread)
<1>1. ASSUME NEW p \in Path, w[p] # Absent
      PROVE  w[p] = t[p] /\ Visible(p) /\ Above(p) \cap unread = {}
  BY <1>1 DEF Walk
<1>2. ASSUME NEW p \in Path, w[p] # Absent, NEW a \in Above(p)
      PROVE  w[a] = Dir
  <2>1. a \in Path /\ Above(a) \subseteq Above(p)
    BY AboveTransitive DEF Above
  <2>2. t[a] = Dir
    BY <1>1, <1>2 DEF WellFormed
  <2>3. Visible(a) /\ Above(a) \cap unread = {} /\ a \notin unread
    BY <1>1, <1>2, <2>1 DEF Visible
  <2> QED
    BY <2>1, <2>2, <2>3 DEF Walk
<1> QED
  BY <1>1, <1>2 DEF WellFormed

\* Creating a file where there is no directory makes its directories.
LEMMA CreatedWellFormed ==
    ASSUME NEW t, WellFormed(t), NEW p \in Path, t[p] # Dir, NEW d
    PROVE  /\ OnPaths(Created(t, p, d)) /\ WellFormed(Created(t, p, d))
           /\ \A q \in Path \ ({p} \cup Above(p)) : Created(t, p, d)[q] = t[q]
           /\ \A q \in Above(p) : Created(t, p, d)[q] = Dir
           /\ Created(t, p, d)[p] = File(d)
<1> DEFINE c == Created(t, p, d)
<1>1. /\ c[p] = File(d)
      /\ \A q \in Above(p) : c[q] = Dir
      /\ \A q \in Path \ ({p} \cup Above(p)) : c[q] = t[q]
  BY AboveTransitive, PathAssumption DEF Created, Above
<1>2. ASSUME NEW q \in Path, c[q] # Absent, NEW a \in Above(q) PROVE c[a] = Dir
  <2>1. a \in Path
    BY DEF Above
  <2>2. CASE q \in {p} \cup Above(p)
    BY <1>1, <2>2, AboveTransitive
  <2>3. CASE q \notin {p} \cup Above(p)
    BY <1>1, <1>2, <2>1, <2>3 DEF WellFormed
  <2> QED
    BY <2>2, <2>3
<1>3. OnPaths(c)
  BY DEF OnPaths, Created
<1> QED
  BY <1>1, <1>2, <1>3 DEF WellFormed

\* Removing a set of paths with all there is inside them.
LEMMA RemovedWellFormed ==
    ASSUME NEW t, WellFormed(t), NEW gone \in SUBSET Path,
           \A q \in gone : Under(q) \subseteq gone
    PROVE  WellFormed([q \in Path |-> IF q \in gone THEN Absent ELSE t[q]])
BY UnderAbove DEF WellFormed, Above

LEMMA DeletedWellFormed ==
    ASSUME NEW t, OnPaths(t), WellFormed(t), NEW p \in Path
    PROVE  OnPaths(Deleted(t, p)) /\ WellFormed(Deleted(t, p))
<1>1. CASE p = Root
  BY <1>1 DEF Deleted
<1>2. CASE p # Root
  <2> DEFINE gone == {p} \cup Under(p)
  <2>1. gone \in SUBSET Path
    BY DEF Under
  <2>2. \A q \in gone : Under(q) \subseteq gone
    BY PathAssumption DEF Under
  <2>3. Deleted(t, p) = [q \in Path |-> IF q \in gone THEN Absent ELSE t[q]]
    BY <1>2 DEF Deleted
  <2> HIDE DEF gone
  <2>4. WellFormed([q \in Path |-> IF q \in gone THEN Absent ELSE t[q]])
    BY <2>1, <2>2, RemovedWellFormed
  <2> QED
    BY <2>3, <2>4 DEF OnPaths
<1> QED
  BY <1>1, <1>2

\* Putting a file in the place of a file, or anything in an empty place.
LEMMA ReplacedWellFormed ==
    ASSUME NEW t, OnPaths(t), WellFormed(t), NEW p \in Path, NEW n,
           t[p] # Dir, n = Absent \/ \A a \in Above(p) : t[a] = Dir
    PROVE  OnPaths([t EXCEPT ![p] = n]) /\ WellFormed([t EXCEPT ![p] = n])
<1> DEFINE u == [t EXCEPT ![p] = n]
<1>1. u = [q \in Path |-> IF q = p THEN n ELSE t[q]]
  BY DEF OnPaths
<1>2. ASSUME NEW q \in Path, u[q] # Absent, NEW a \in Above(q) PROVE u[a] = Dir
  <2>1. a \in Path /\ a # q
    BY AboveTransitive, PathAssumption DEF Above
  <2>2. t[a] = Dir
    BY <1>1, <1>2 DEF WellFormed
  <2> QED
    BY <1>1, <2>1, <2>2
<1> QED
  BY <1>1, <1>2 DEF WellFormed, OnPaths

\* A walk that can open everything lists all that is visible.
LEMMA WalkSees ==
    ASSUME NEW t
    PROVE  \A p \in Path : Visible(p) => Walk(t, {})[p] = t[p]
BY DEF Walk

-----------------------------------------------------------------------------
(* The instructions of an update.                                          *)

Instr == [kind : {"copy", "literal"}, at : Nat, data : Data]

\* Places are counted from one.
CopiesPlaced(ins) == \A i \in DOMAIN ins : ins[i].kind = "copy" => ins[i].at >= 1

\* A set of places has a last one.
LEMMA LastPlace ==
    ASSUME NEW N \in Nat, NEW T \in SUBSET (1 .. N), T # {}
    PROVE  \E n \in T : \A m \in T : m <= n
<1> DEFINE U == {k \in Nat : N - k \in T}
<1>1. \A m \in T : N - m \in U
  OBVIOUS
<1>2. U \in SUBSET Nat /\ U # {}
  BY <1>1
<1>3. PICK k \in U : \A l \in U : k <= l
  BY <1>2, LeastNumber
<1>4. N - k \in T /\ \A m \in T : k <= N - m
  BY <1>1, <1>3
<1> QED
  BY <1>4

LEMMA ChunkAtFacts ==
    ASSUME NEW d \in Data, NEW c \in ToSet(d)
    PROVE  ChunkAt(d, c) \in 1 .. Len(d) /\ d[ChunkAt(d, c)] = c
<1> DEFINE T == {i \in 1 .. Len(d) : d[i] = c}
<1>1. DOMAIN d = 1 .. Len(d) /\ Len(d) \in Nat
  BY DEF Data
<1>2. T \in SUBSET (1 .. Len(d)) /\ T # {}
  BY <1>1 DEF ToSet
<1>3. PICK i \in T : \A j \in T : j <= i
  BY <1>1, <1>2, LastPlace
<1>4. i \in DOMAIN d /\ d[i] = c /\ \A j \in DOMAIN d : d[j] = c => j <= i
  BY <1>1, <1>3
<1>5. ChunkAt(d, c) \in DOMAIN d /\ d[ChunkAt(d, c)] = c
  BY <1>4 DEF ChunkAt
<1> QED
  BY <1>1, <1>5

LEMMA InstructsFacts ==
    ASSUME NEW o \in Data, NEW n \in Data, NEW bytes \in Data
    PROVE  /\ Instructs(o, n, bytes) \in Seq(Instr)
           /\ CopiesPlaced(Instructs(o, n, bytes))
<1> DEFINE ins == Instructs(o, n, bytes)
<1>1. /\ DOMAIN n = 1 .. Len(n) /\ Len(n) \in Nat
      /\ \A i \in 1 .. Len(n) : n[i] \in Chunk
      /\ Len(bytes) \in Nat /\ \A i \in 1 .. Len(bytes) : bytes[i] \in Chunk
      /\ Len(o) \in Nat
  BY DEF Data
<1>2. DOMAIN ins = 1 .. Len(n)
  BY <1>1 DEF Instructs
<1>3. ASSUME NEW i \in 1 .. Len(n)
      PROVE  ins[i] \in Instr /\ (ins[i].kind = "copy" => ins[i].at >= 1)
  <2>1. CASE n[i] \in ToSet(o)
    <3>1. ins[i] = Copy(ChunkAt(o, n[i]))
      BY <1>1, <2>1 DEF Instructs
    <3>2. ChunkAt(o, n[i]) \in 1 .. Len(o)
      BY <2>1, ChunkAtFacts
    <3>3. <<>> \in Data
      BY DEF Data
    <3> QED
      BY <1>1, <3>1, <3>2, <3>3 DEF Copy, Instr
  <2>2. CASE n[i] \notin ToSet(o)
    <3> DEFINE d == IF i <= Len(bytes) THEN <<bytes[i]>> ELSE <<>>
    <3>1. d \in Data
      BY <1>1 DEF Data
    <3>2. ins[i] = Literal(d)
      BY <1>1, <2>2 DEF Instructs
    <3> HIDE DEF d
    <3> QED
      BY <3>1, <3>2 DEF Literal, Instr
  <2> QED
    BY <2>1, <2>2
<1>4. ins \in Seq(Instr)
  <2>1. ins = [i \in 1 .. Len(n) |-> ins[i]]
    BY <1>2 DEF Instructs
  <2> QED
    BY <1>1, <1>3, <2>1
<1> QED
  BY <1>2, <1>3, <1>4 DEF CopiesPlaced

\* Assembling instructions that fit the file gives a content.
LEMMA AssembleType ==
    ASSUME NEW ins \in Seq(Instr), CopiesPlaced(ins), NEW base \in Data, ~OutOfBounds(ins, base)
    PROVE  Assemble(ins, base) \in Data
<1> DEFINE piece(i) == IF ins[i].kind = "copy" THEN <<base[ins[i].at]>> ELSE ins[i].data
           pieces == [i \in DOMAIN ins |-> piece(i)]
<1>1. /\ DOMAIN ins = 1 .. Len(ins) /\ Len(ins) \in Nat
      /\ \A i \in 1 .. Len(ins) : ins[i] \in Instr
      /\ Len(base) \in Nat /\ \A i \in 1 .. Len(base) : base[i] \in Chunk
  BY DEF Data
<1>2. ASSUME NEW i \in 1 .. Len(ins) PROVE piece(i) \in Seq(Chunk)
  <2>1. CASE ins[i].kind = "copy"
    <3>1. ins[i].at \in 1 .. Len(base)
      BY <1>1, <2>1 DEF Instr, OutOfBounds, CopiesPlaced
    <3>2. base[ins[i].at] \in Chunk
      BY <1>1, <3>1
    <3> QED
      BY <2>1, <3>2
  <2>2. CASE ins[i].kind # "copy"
    BY <1>1, <2>2 DEF Instr, Data
  <2> QED
    BY <2>1, <2>2
<1>3. pieces = [i \in 1 .. Len(ins) |-> piece(i)]
  BY <1>1
<1> HIDE DEF piece
<1>4. pieces \in Seq(Seq(Chunk))
  BY <1>1, <1>2, <1>3
<1> HIDE DEF pieces
<1>5. FlattenSeq(pieces) \in Data
  BY <1>4, FlattenType DEF Data
<1> QED
  BY <1>5 DEF Assemble, pieces, piece

\* An update computed from the whole new content, applied to the old one,
\* gives the new one: every chunk is copied from where the old file has it, or
\* carried along.
LEMMA UpdateRestoresFile ==
    ASSUME NEW o \in Data, NEW n \in Data
    PROVE  Assemble(Instructs(o, n, n), o) = n
<1> DEFINE ins == Instructs(o, n, n)
           piece(i) == IF ins[i].kind = "copy" THEN <<o[ins[i].at]>> ELSE ins[i].data
           pieces == [i \in DOMAIN ins |-> piece(i)]
<1>1. n \in Seq(Chunk) /\ DOMAIN n = 1 .. Len(n) /\ Len(n) \in Nat
  BY DEF Data
<1>2. DOMAIN ins = 1 .. Len(n)
  BY <1>1 DEF Instructs
<1>3. ASSUME NEW i \in 1 .. Len(n) PROVE piece(i) = <<n[i]>>
  <2>1. CASE n[i] \in ToSet(o)
    <3>1. ins[i] = Copy(ChunkAt(o, n[i]))
      BY <1>1, <2>1 DEF Instructs
    <3>2. o[ChunkAt(o, n[i])] = n[i]
      BY <2>1, ChunkAtFacts
    <3> QED
      BY <3>1, <3>2 DEF Copy
  <2>2. CASE n[i] \notin ToSet(o)
    <3>1. ins[i] = Literal(<<n[i]>>)
      BY <1>1, <2>2 DEF Instructs
    <3> QED
      BY <3>1 DEF Literal
  <2> QED
    BY <2>1, <2>2
<1>4. pieces = [i \in 1 .. Len(n) |-> <<n[i]>>]
  BY <1>2, <1>3
<1>5. FlattenSeq(pieces) = n
  <2> HIDE DEF pieces
  <2>1. Len(pieces) = Len(n) /\ \A i \in 1 .. Len(n) : pieces[i] = <<n[i]>>
    BY <1>1, <1>4
  <2>2. CASE n = <<>>
    BY <2>1, <2>2, <1>1, <1>4 DEF FlattenSeq
  <2>3. CASE n # <<>>
    BY <1>1, <2>1, <2>3, FlattenSingles
  <2> QED
    BY <2>2, <2>3
<1> QED
  BY <1>5 DEF Assemble

-----------------------------------------------------------------------------
(* Entries.                                                                *)

LEMMA NoTreeFacts == WellFormed(NoTree) /\ \A p \in Path : NoTree[p] = Absent
BY DEF WellFormed, NoTree

LEMMA EmptyPatch == Len(<<>>) = 0 /\ \E S : <<>> \in Seq(S)
<1>1. <<>> \in Seq({})
  OBVIOUS
<1> QED
  BY <1>1

EntryType == [op : {"create", "delete", "update"}, path : Path, bytes : Data,
              instructs : Seq(Instr)]

\* What one turn of diff's first loop adds: nothing, or one of four patches.
LEMMA DiffKeyCases ==
    ASSUME NEW o, NEW n, NEW k \in Path, NEW bytes
    PROVE  LET C == CreateEntry(k, bytes)
               D == DeleteEntry(k)
               U == UpdateEntry(k, Instructs(o[k].data, n[k].data, bytes))
               d == DiffKey(o[k], n[k], k, bytes)
           IN  \/ d = <<>>
               \/ d = <<C>> /\ Sound(o, n, C)
               \/ d = <<U>> /\ Sound(o, n, U)
               \/ d = <<D, C>> /\ Sound(o, n, C) /\ Sound(o, n, D)
               \/ d = <<D>> /\ Sound(o, n, D) /\ ~IsFile(n[k])
<1> DEFINE C == CreateEntry(k, bytes)
           D == DeleteEntry(k)
           U == UpdateEntry(k, Instructs(o[k].data, n[k].data, bytes))
<1>1. /\ C.path = k /\ C.op = "create"
      /\ D.path = k /\ D.op = "delete"
      /\ U.path = k /\ U.op = "update"
  BY DEF CreateEntry, DeleteEntry, UpdateEntry
<1> HIDE DEF C, D, U
<1>2. IsFile(n[k]) /\ ~IsFile(o[k]) => Sound(o, n, C)
  BY <1>1 DEF Sound, IsFile
<1>3. IsFile(n[k]) /\ IsFile(o[k]) /\ o[k].data # n[k].data => Sound(o, n, U)
  BY <1>1 DEF Sound
<1>4. o[k].kind # n[k].kind /\ o[k].kind # "absent" => Sound(o, n, D)
  BY <1>1, KindFacts DEF Sound, IsFile, Absent
<1> QED
  BY <1>2, <1>3, <1>4 DEF DiffKey, IsFile, C, D, U

\* What one turn of diff's first loop adds is sound, whatever it read.
LEMMA DiffKeySound ==
    ASSUME NEW o, NEW n, NEW k \in Path, NEW bytes
    PROVE  LET d == DiffKey(o[k], n[k], k, bytes)
           IN  /\ \E S : d \in Seq(S)
               /\ \A i \in 1 .. Len(d) : Sound(o, n, d[i])
               /\ AllAbout(d, k)
               /\ Ordered(n, d)
<1> DEFINE C == CreateEntry(k, bytes)
           D == DeleteEntry(k)
           U == UpdateEntry(k, Instructs(o[k].data, n[k].data, bytes))
           d == DiffKey(o[k], n[k], k, bytes)
<1>1. /\ C.path = k /\ C.op = "create"
      /\ D.path = k /\ D.op = "delete"
      /\ U.path = k /\ U.op = "update"
  BY DEF CreateEntry, DeleteEntry, UpdateEntry
<1>2. \/ d = <<>>
      \/ d = <<C>> /\ Sound(o, n, C)
      \/ d = <<U>> /\ Sound(o, n, U)
      \/ d = <<D, C>> /\ Sound(o, n, C) /\ Sound(o, n, D)
      \/ d = <<D>> /\ Sound(o, n, D) /\ ~IsFile(n[k])
  BY DiffKeyCases
<1> HIDE DEF C, D, U, d
<1>3. <<>> \in Seq({C, D, U}) /\ <<C>> \in Seq({C, D, U}) /\ <<U>> \in Seq({C, D, U})
      /\ <<D, C>> \in Seq({C, D, U}) /\ <<D>> \in Seq({C, D, U})
  OBVIOUS
<1>4. \E S : d \in Seq(S)
  BY <1>2, <1>3
<1> DEFINE Goal == /\ \A i \in 1 .. Len(d) : Sound(o, n, d[i]) /\ d[i].path = k
                   /\ Ordered(n, d)
<1>5. ASSUME d = <<>> PROVE Goal
  BY <1>5 DEF Ordered
<1>6. ASSUME NEW x, d = <<x>>, Sound(o, n, x), x.path = k, x.op = "delete" => ~IsFile(n[k])
      PROVE  Goal
  <2>1. Len(d) = 1 /\ d[1] = x
    BY <1>6
  <2> QED
    BY <1>6, <2>1 DEF Ordered
<1>7. ASSUME d = <<D, C>>, Sound(o, n, C), Sound(o, n, D) PROVE Goal
  <2>1. Len(d) = 2 /\ d[1] = D /\ d[2] = C
    BY <1>7
  <2>2. \A i \in 1 .. Len(d) : i = 1 \/ i = 2
    BY <2>1
  <2>3. \A i \in 1 .. Len(d) : Sound(o, n, d[i]) /\ d[i].path = k
    BY <1>1, <1>7, <2>1, <2>2
  <2>4. \A i, j \in 1 .. Len(d) : i < j => d[i].op = "delete" /\ d[j].op = "create"
    BY <1>1, <2>1, <2>2
  <2>5. \A i \in 1 .. Len(d) :
            d[i].op = "delete" => \E j \in 1 .. Len(d) : i < j /\ d[j].path = d[i].path
    <3>1. 2 \in 1 .. Len(d) /\ d[2].path = k
      BY <1>1, <2>1
    <3>2. \A i \in 1 .. Len(d) : d[i].op = "delete" => i < 2 /\ d[i].path = k
      BY <1>1, <2>1, <2>2
    <3> QED
      BY <3>1, <3>2
  <2>6. Ordered(n, d)
    BY <2>4, <2>5 DEF Ordered
  <2> QED
    BY <2>3, <2>6
<1> HIDE DEF Goal
<1>8. Goal
  BY <1>1, <1>2, <1>5, <1>6, <1>7
<1> QED
  BY <1>4, <1>8 DEF d, Goal, AllAbout

\* Their types, what they carry if the file is read as it was listed, and that
\* there are none only if there is nothing to do.
LEMMA DiffKeyFacts ==
    ASSUME NEW o, NEW n, NEW k \in Path, NEW bytes \in Data, o[k] \in Node, n[k] \in Node
    PROVE  LET d == DiffKey(o[k], n[k], k, bytes)
           IN  /\ d \in Seq(EntryType)
               /\ \A i \in 1 .. Len(d) : CopiesPlaced(d[i].instructs)
               /\ d = <<>> /\ n[k] # Absent => Agree(o[k], n[k])
               /\ bytes = n[k].data => \A i \in 1 .. Len(d) : Meant(o, n, d[i])
<1> DEFINE I == Instructs(o[k].data, n[k].data, bytes)
           C == CreateEntry(k, bytes)
           D == DeleteEntry(k)
           U == UpdateEntry(k, I)
           d == DiffKey(o[k], n[k], k, bytes)
           Fine(x) == /\ x \in EntryType /\ CopiesPlaced(x.instructs)
                      /\ bytes = n[k].data => Meant(o, n, x)
<1>1. I \in Seq(Instr) /\ CopiesPlaced(I)
  BY NodeFacts, InstructsFacts
<1>2. <<>> \in Data /\ <<>> \in Seq(Instr) /\ CopiesPlaced(<<>>)
  BY DEF Data, CopiesPlaced
<1>3. Fine(C) /\ Fine(D) /\ Fine(U)
  <2> HIDE DEF I
  <2>1. C \in EntryType /\ D \in EntryType /\ U \in EntryType
    BY <1>1, <1>2 DEF EntryType, CreateEntry, DeleteEntry, UpdateEntry
  <2>2. CopiesPlaced(C.instructs) /\ CopiesPlaced(D.instructs) /\ CopiesPlaced(U.instructs)
    BY <1>1, <1>2 DEF CreateEntry, DeleteEntry, UpdateEntry
  <2>3. bytes = n[k].data => Meant(o, n, C) /\ Meant(o, n, D) /\ Meant(o, n, U)
    BY DEF Meant, CreateEntry, DeleteEntry, UpdateEntry, I
  <2> QED
    BY <2>1, <2>2, <2>3
<1>4. d = <<>> \/ d = <<C>> \/ d = <<U>> \/ d = <<D, C>> \/ d = <<D>>
  BY DiffKeyCases
<1>5. d = <<>> /\ n[k] # Absent => Agree(o[k], n[k])
  <2> SUFFICES ASSUME d = <<>>, n[k] # Absent PROVE Agree(o[k], n[k])
    OBVIOUS
  <2>1. <<C>> # <<>> /\ <<U>> # <<>> /\ <<D, C>> # <<>> /\ <<D>> # <<>>
    OBVIOUS
  <2> HIDE DEF C, D, U
  <2>2. /\ ~(o[k].kind = "absent" /\ n[k].kind = "file")
        /\ o[k].kind = "file" /\ n[k].kind = "file" => o[k].data = n[k].data
        /\ ~(o[k].kind = "dir" /\ n[k].kind = "file")
        /\ ~(o[k].kind = "file" /\ n[k].kind = "dir")
    BY <2>1 DEF DiffKey, C, D, U
  <2>3. o[k].kind \in {"absent", "dir", "file"}
    BY DEF Node
  <2>4. IsFile(n[k]) => o[k] = n[k]
    <3>1. IsFile(n[k]) => IsFile(o[k]) /\ o[k].data = n[k].data
      BY <2>2, <2>3 DEF IsFile
    <3>2. IsFile(n[k]) => n[k] = File(n[k].data) /\ (IsFile(o[k]) => o[k] = File(o[k].data))
      BY NodeFacts, KindFacts
    <3> QED
      BY <3>1, <3>2
  <2>5. n[k] = Dir => ~IsFile(o[k])
    BY <2>2 DEF Dir, IsFile
  <2> QED
    BY <2>4, <2>5 DEF Agree
<1> HIDE DEF C, D, U, d, Fine
<1>6. d \in Seq(EntryType) /\ \A i \in 1 .. Len(d) : Fine(d[i])
  <2>1. C \in EntryType /\ D \in EntryType /\ U \in EntryType
    BY <1>3 DEF Fine
  <2>2. CASE d = <<>>
    BY <2>2
  <2>3. ASSUME NEW x \in EntryType, d = <<x>>, Fine(x)
        PROVE  d \in Seq(EntryType) /\ \A i \in 1 .. Len(d) : Fine(d[i])
    <3>1. Len(d) = 1 /\ d[1] = x /\ <<x>> \in Seq(EntryType)
      BY <2>3
    <3> QED
      BY <2>3, <3>1
  <2>4. CASE d = <<D, C>>
    <3>1. Len(d) = 2 /\ d[1] = D /\ d[2] = C /\ <<D, C>> \in Seq(EntryType)
      BY <2>1, <2>4
    <3> QED
      BY <1>3, <2>4, <3>1
  <2> QED
    BY <1>3, <1>4, <2>1, <2>2, <2>3, <2>4
<1> QED
  BY <1>5, <1>6 DEF d, Fine

-----------------------------------------------------------------------------
(* What an entry does.                                                     *)

\* Two patches about different paths, one after the other.
LEMMA OrderedJoin ==
    ASSUME NEW n, NEW S, NEW a \in Seq(S), NEW b \in Seq(S), Ordered(n, a), Ordered(n, b),
           \A i \in 1 .. Len(b) : ~About(a, b[i].path)
    PROVE  /\ Ordered(n, a \o b)
           /\ \A p : About(a \o b, p) <=> About(a, p) \/ About(b, p)
<1> DEFINE c == a \o b
<1>1. /\ Len(c) = Len(a) + Len(b) /\ Len(a) \in Nat /\ Len(b) \in Nat
      /\ \A i \in 1 .. Len(a) : i \in 1 .. Len(c) /\ c[i] = a[i]
      /\ \A i \in 1 .. Len(b) : Len(a) + i \in 1 .. Len(c) /\ c[Len(a) + i] = b[i]
      /\ \A i \in 1 .. Len(c) :
            \/ i \in 1 .. Len(a) /\ c[i] = a[i]
            \/ i - Len(a) \in 1 .. Len(b) /\ c[i] = b[i - Len(a)]
  OBVIOUS
<1> HIDE DEF c
<1>2. ASSUME NEW i \in 1 .. Len(c), NEW j \in 1 .. Len(c), i < j, c[i].path = c[j].path
      PROVE  c[i].op = "delete" /\ c[j].op = "create"
  <2>1. CASE j \in 1 .. Len(a) /\ c[j] = a[j]
    <3>1. i \in 1 .. Len(a) /\ c[i] = a[i]
      BY <1>1, <1>2, <2>1
    <3> QED
      BY <1>2, <2>1, <3>1 DEF Ordered
  <2>2. CASE j - Len(a) \in 1 .. Len(b) /\ c[j] = b[j - Len(a)]
    <3>1. ~About(a, c[i].path)
      BY <1>2, <2>2
    <3>2. ~(i \in 1 .. Len(a) /\ c[i] = a[i])
      BY <3>1 DEF About
    <3>3. i - Len(a) \in 1 .. Len(b) /\ c[i] = b[i - Len(a)]
      BY <1>1, <3>2
    <3>4. i - Len(a) < j - Len(a) /\ b[i - Len(a)].path = b[j - Len(a)].path
      BY <1>1, <1>2, <2>2, <3>3
    <3>5. b[i - Len(a)].op = "delete" /\ b[j - Len(a)].op = "create"
      BY <2>2, <3>3, <3>4 DEF Ordered
    <3> QED
      BY <2>2, <3>3, <3>5
  <2> QED
    BY <1>1, <2>1, <2>2
<1>3. ASSUME NEW i \in 1 .. Len(c), c[i].op = "delete", IsFile(n[c[i].path])
      PROVE  \E j \in 1 .. Len(c) : i < j /\ c[j].path = c[i].path
  <2>1. CASE i \in 1 .. Len(a) /\ c[i] = a[i]
    <3>1. PICK j \in 1 .. Len(a) : i < j /\ a[j].path = a[i].path
      BY <1>3, <2>1 DEF Ordered
    <3> QED
      BY <1>1, <2>1, <3>1
  <2>2. CASE i - Len(a) \in 1 .. Len(b) /\ c[i] = b[i - Len(a)]
    <3>1. PICK j \in 1 .. Len(b) : i - Len(a) < j /\ b[j].path = c[i].path
      BY <1>3, <2>2 DEF Ordered
    <3>2. Len(a) + j \in 1 .. Len(c) /\ c[Len(a) + j] = b[j] /\ i < Len(a) + j
      BY <1>1, <3>1
    <3> QED
      BY <3>1, <3>2
  <2> QED
    BY <1>1, <2>1, <2>2
<1>4. Ordered(n, c)
  BY <1>2, <1>3 DEF Ordered
<1>5. ASSUME NEW p PROVE About(c, p) <=> About(a, p) \/ About(b, p)
  <2>1. About(c, p) => About(a, p) \/ About(b, p)
    BY <1>1 DEF About
  <2>2. About(a, p) => About(c, p)
    BY <1>1 DEF About
  <2>3. About(b, p) => About(c, p)
    BY <1>1 DEF About
  <2> QED
    BY <2>1, <2>2, <2>3
<1> QED
  BY <1>4, <1>5 DEF c

\* The first entry is taken off.
LEMMA OrderedTail ==
    ASSUME NEW n, NEW S, NEW es \in Seq(S), es # <<>>, Ordered(n, es)
    PROVE  LET e == Head(es)
               r == Tail(es)
           IN  /\ Ordered(n, r)
               /\ \A p : p # e.path => (About(r, p) <=> About(es, p))
               /\ About(es, e.path)
               /\ e.op # "delete" => ~About(r, e.path)
               /\ e.op = "delete" /\ IsFile(n[e.path]) => About(r, e.path)
               /\ \A i \in 1 .. Len(r) :
                     i + 1 \in 1 .. Len(es) /\ r[i] = es[i + 1]
                     /\ (r[i].path = e.path => r[i].op = "create")
<1> DEFINE e == Head(es)
           r == Tail(es)
<1>1. /\ e = es[1] /\ 1 \in 1 .. Len(es) /\ Len(es) \in Nat /\ Len(r) = Len(es) - 1
      /\ \A i \in 1 .. Len(r) : i + 1 \in 1 .. Len(es) /\ r[i] = es[i + 1] /\ 1 < i + 1
      /\ \A i \in 1 .. Len(es) : i # 1 => i - 1 \in 1 .. Len(r) /\ es[i] = r[i - 1]
  OBVIOUS
<1> HIDE DEF e, r
<1>2. ASSUME NEW i \in 1 .. Len(r), NEW j \in 1 .. Len(r), i < j, r[i].path = r[j].path
      PROVE  r[i].op = "delete" /\ r[j].op = "create"
  <2>1. /\ i + 1 \in 1 .. Len(es) /\ r[i] = es[i + 1]
        /\ j + 1 \in 1 .. Len(es) /\ r[j] = es[j + 1] /\ i + 1 < j + 1
    BY <1>1, <1>2
  <2> QED
    BY <1>2, <2>1 DEF Ordered
<1>3. ASSUME NEW i \in 1 .. Len(es), es[i].op = "delete", IsFile(n[es[i].path])
      PROVE  \E j \in 1 .. Len(r) : i <= j /\ r[j].path = es[i].path
  <2>1. PICK j \in 1 .. Len(es) : i < j /\ es[j].path = es[i].path
    BY <1>3 DEF Ordered
  <2>2. j - 1 \in 1 .. Len(r) /\ es[j] = r[j - 1] /\ i <= j - 1
    BY <1>1, <2>1
  <2> QED
    BY <2>1, <2>2
<1>4. Ordered(n, r)
  <2>1. ASSUME NEW i \in 1 .. Len(r), r[i].op = "delete", IsFile(n[r[i].path])
        PROVE  \E j \in 1 .. Len(r) : i < j /\ r[j].path = r[i].path
    <3>1. i + 1 \in 1 .. Len(es) /\ r[i] = es[i + 1]
      BY <1>1
    <3>2. PICK j \in 1 .. Len(r) : i + 1 <= j /\ r[j].path = r[i].path
      BY <1>3, <2>1, <3>1
    <3>3. i < j
      BY <3>2
    <3> QED
      BY <3>2, <3>3
  <2> QED
    BY <1>2, <2>1 DEF Ordered
<1>5. \A p : p # e.path => (About(r, p) <=> About(es, p))
  BY <1>1 DEF About
<1>6. About(es, e.path)
  BY <1>1 DEF About
<1>7. \A i \in 1 .. Len(r) : r[i].path = e.path => e.op = "delete" /\ r[i].op = "create"
  <2> SUFFICES ASSUME NEW i \in 1 .. Len(r), r[i].path = e.path
               PROVE  e.op = "delete" /\ r[i].op = "create"
    OBVIOUS
  <2>1. i + 1 \in 1 .. Len(es) /\ r[i] = es[i + 1] /\ 1 < i + 1
    BY <1>1
  <2>2. es[1].path = es[i + 1].path
    BY <1>1, <2>1
  <2> QED
    BY <1>1, <2>1, <2>2 DEF Ordered
<1>8. e.op = "delete" /\ IsFile(n[e.path]) => About(r, e.path)
  BY <1>1, <1>3 DEF About
<1> QED
  BY <1>1, <1>4, <1>5, <1>6, <1>7, <1>8 DEF e, r, About

\* Wherever a tree differs after an entry, or after a crash inside it: a
\* directory made for a file, a beginning of that file, the result of an
\* update, or nothing where something was deleted.
LEMMA StageFacts ==
    ASSUME NEW t, OnPaths(t), NEW e, e.path \in Path, ~ApplyFails(t, e),
           e.op \in {"create", "delete", "update"}, Len(e.bytes) \in Nat,
           SubSeq(e.bytes, 1, Len(e.bytes)) = e.bytes,
           NEW u, u = Applied(t, e) \/ u \in Interrupted(t, e),
           NEW q \in Path, u[q] # t[q]
    PROVE  \/ /\ e.op = "create" /\ q \in Above(e.path) /\ u[q] = Dir /\ ~IsFile(t[q])
           \/ /\ e.op = "create" /\ q = e.path
              /\ \E k \in 0 .. Len(e.bytes) : u[q] = File(SubSeq(e.bytes, 1, k))
           \/ /\ e.op = "update" /\ q = e.path /\ IsFile(t[q])
              /\ u[q] = File(Assemble(e.instructs, t[q].data))
           \/ /\ e.op = "delete" /\ e.path # Root /\ q \in {e.path} \cup Under(e.path)
              /\ u[q] = Absent
<1> DEFINE p == e.path
<1>1. CASE e.op = "create"
  <2>1. \/ \E dirs \in SUBSET Above(p) : u = DirsMade(t, dirs)
        \/ \E k \in 0 .. Len(e.bytes) : u = Created(t, p, SubSeq(e.bytes, 1, k))
    <3>1. u # t /\ Len(e.bytes) \in 0 .. Len(e.bytes)
      OBVIOUS
    <3>2. Applied(t, e) = Created(t, p, SubSeq(e.bytes, 1, Len(e.bytes)))
      BY <1>1 DEF Applied
    <3>3. u \in Interrupted(t, e) =>
            \/ u = t
            \/ \E dirs \in SUBSET Above(p) : u = DirsMade(t, dirs)
            \/ \E k \in 0 .. Len(e.bytes) : u = Created(t, p, SubSeq(e.bytes, 1, k))
      BY <1>1 DEF Interrupted
    <3> QED
      BY <3>1, <3>2, <3>3
  <2>2. \A a \in Above(p) : ~IsFile(t[a])
    BY <1>1 DEF ApplyFails, CreateFails, ThroughFile
  <2>3. ASSUME NEW d
        PROVE  /\ Created(t, p, d)[p] = File(d)
               /\ \A a \in Above(p) : a # p => Created(t, p, d)[a] = Dir
               /\ \A a \in Path \ ({p} \cup Above(p)) : Created(t, p, d)[a] = t[a]
    BY PathAssumption DEF Created, Above
  <2>4. CASE \E dirs \in SUBSET Above(p) : u = DirsMade(t, dirs)
    <3>1. PICK dirs \in SUBSET Above(p) : u = DirsMade(t, dirs)
      BY <2>4
    <3>2. q \in dirs /\ u[q] = Dir
      BY <3>1 DEF DirsMade
    <3> QED
      BY <1>1, <2>2, <3>1, <3>2
  <2>5. CASE \E k \in 0 .. Len(e.bytes) : u = Created(t, p, SubSeq(e.bytes, 1, k))
    <3>1. PICK k \in 0 .. Len(e.bytes) : u = Created(t, p, SubSeq(e.bytes, 1, k))
      BY <2>5
    <3>2. CASE q = p
      BY <1>1, <2>3, <3>1, <3>2
    <3>3. CASE q # p
      <4>1. q \in Above(p)
        BY <2>3, <3>1, <3>3
      <4>2. u[q] = Dir
        BY <2>3, <3>1, <3>3, <4>1
      <4> QED
        BY <1>1, <2>2, <4>1, <4>2
    <3> QED
      BY <3>2, <3>3
  <2> QED
    BY <2>1, <2>4, <2>5
<1>2. CASE e.op = "update"
  <2>1. u = [t EXCEPT ![p] = File(Assemble(e.instructs, t[p].data))] \/ u = t
    BY <1>2 DEF Applied, Interrupted, Updated
  <2>2. IsFile(t[p])
    BY <1>2 DEF ApplyFails, UpdateFails
  <2>3. \A n : [t EXCEPT ![p] = n][q] = IF q = p THEN n ELSE t[q]
    BY DEF OnPaths
  <2>4. q = p /\ u[q] = File(Assemble(e.instructs, t[p].data))
    BY <2>1, <2>3
  <2> QED
    BY <1>2, <2>2, <2>4
<1>3. CASE e.op = "delete"
  <2>1. \/ u = Deleted(t, p)
        \/ \E gone \in SUBSET Under(p) :
              p # Root /\ u = [x \in Path |-> IF x \in gone THEN Absent ELSE t[x]]
    BY <1>3 DEF Applied, Interrupted
  <2> QED
    BY <1>3, <2>1 DEF Deleted
<1> QED
  BY <1>1, <1>2, <1>3

-----------------------------------------------------------------------------
(* Going through a patch.                                                  *)

\* es is what is left of a patch from o to n, to be applied to t.
Underway(o, n, es, t) ==
    /\ o \in Tree /\ n \in Tree /\ t \in Tree
    /\ WellFormed(n) /\ WellFormed(t)
    /\ es \in Seq(EntryType)
    /\ \A i \in 1 .. Len(es) : Sound(o, n, es[i])
    /\ Ordered(n, es) /\ Waits(n, es, t)

LEMMA HeadFacts ==
    ASSUME NEW o, NEW n, NEW es, NEW t, Underway(o, n, es, t), es # <<>>
    PROVE  /\ Head(es) \in EntryType /\ Head(es) = es[1] /\ 1 \in 1 .. Len(es)
           /\ Sound(o, n, Head(es)) /\ Head(es).path \in Path
           /\ Head(es).bytes \in Data /\ Len(Head(es).bytes) \in Nat
           /\ SubSeq(Head(es).bytes, 1, Len(Head(es).bytes)) = Head(es).bytes
           /\ Tail(es) \in Seq(EntryType)
<1>1. es \in Seq(EntryType)
  BY DEF Underway
<1>2. /\ Head(es) \in EntryType /\ Head(es) = es[1] /\ 1 \in 1 .. Len(es)
      /\ Tail(es) \in Seq(EntryType)
  BY <1>1
<1>3. Sound(o, n, Head(es))
  BY <1>2 DEF Underway
<1>4. Head(es).bytes \in Data /\ Head(es).path \in Path
  BY <1>2 DEF EntryType
<1>5. \A d \in Data : Len(d) \in Nat /\ SubSeq(d, 1, Len(d)) = d
  BY DEF Data
<1> QED
  BY <1>2, <1>3, <1>4, <1>5

\* A deletion takes nothing that the sender has: what makes way for a
\* directory is a file, with nothing inside.
LEMMA NothingWanted ==
    ASSUME NEW o, NEW n, NEW es, NEW t, Underway(o, n, es, t), es # <<>>,
           Head(es).op = "delete", NEW q \in Under(Head(es).path)
    PROVE  /\ n[q] # Absent => n[Head(es).path] = Dir
           /\ n[Head(es).path] = Dir => t[q] = Absent
<1> DEFINE p == Head(es).path
<1>1. p \in Path /\ q \in Path /\ p \in Above(q)
  BY HeadFacts, UnderAbove DEF Under
<1>2. n[q] # Absent => n[p] = Dir
  BY <1>1 DEF Underway, WellFormed
<1>3. n[p] = Dir => IsFile(t[p])
  BY HeadFacts DEF Underway, Waits
<1>4. n[p] = Dir => t[q] = Absent
  BY <1>1, <1>3, KindFacts DEF Underway, WellFormed
<1> QED
  BY <1>2, <1>4

\* What is in the way of a directory stays a file until its turn.
LEMMA StillWaits ==
    ASSUME NEW o, NEW n, NEW es, NEW t, Underway(o, n, es, t), es # <<>>,
           ~ApplyFails(t, Head(es))
    PROVE  Waits(n, Tail(es), Applied(t, Head(es)))
<1> DEFINE e == Head(es)
           r == Tail(es)
           u == Applied(t, e)
<1> SUFFICES ASSUME NEW i \in 1 .. Len(r), r[i].op = "delete", n[r[i].path] = Dir
             PROVE  IsFile(u[r[i].path])
  BY DEF Waits
<1> DEFINE q == r[i].path
<1>1. i + 1 \in 1 .. Len(es) /\ r[i] = es[i + 1] /\ q # e.path
  BY OrderedTail DEF Underway
<1>2. IsFile(t[q]) /\ q \in Path
  BY <1>1 DEF Underway, Waits, Sound
<1>3. OnPaths(t) /\ t[q] # Absent
  BY <1>2, TreeFacts, KindFacts DEF Underway
<1> HIDE DEF q, r
<1>4. ASSUME u[q] # t[q] PROVE FALSE
  <2>1. \/ e.op = "create" /\ ~IsFile(t[q])
        \/ q = e.path
        \/ e.op = "delete" /\ q \in Under(e.path)
    <3>1. e.op \in {"create", "delete", "update"}
      BY HeadFacts DEF Sound
    <3> QED
      BY <1>2, <1>3, <1>4, <3>1, HeadFacts, StageFacts
  <2>2. e.op = "delete" /\ q \in Under(e.path)
    BY <1>1, <1>2, <2>1
  <2>3. n[q] # Absent
    BY KindFacts DEF q
  <2> QED
    BY <1>3, <2>2, <2>3, NothingWanted
<1> QED
  BY <1>2, <1>4 DEF q

\* No file both sides have is touched before its turn.
LEMMA StillUndone ==
    ASSUME NEW o, NEW n, NEW es, NEW t, Underway(o, n, es, t), es # <<>>,
           ~ApplyFails(t, Head(es)), Undone(o, n, es, t)
    PROVE  Undone(o, n, Tail(es), Applied(t, Head(es)))
<1> DEFINE e == Head(es)
           r == Tail(es)
           u == Applied(t, e)
<1> SUFFICES ASSUME NEW q \in Path, Visible(q), About(r, q), IsFile(o[q]), IsFile(n[q])
             PROVE  u[q] = o[q]
  BY DEF Undone
<1>1. es \in Seq(EntryType) /\ Ordered(n, es) /\ Sound(o, n, e) /\ OnPaths(t) /\ WellFormed(n)
  BY HeadFacts, TreeFacts DEF Underway
<1>2. /\ q # e.path => About(es, q)
      /\ e.op # "delete" => ~About(r, e.path)
  BY <1>1, OrderedTail
<1> HIDE DEF e, r
<1>3. q # e.path
  <2> SUFFICES ASSUME q = e.path PROVE FALSE
    OBVIOUS
  <2>1. e.op = "delete"
    BY <1>2
  <2> QED
    BY <1>1, <2>1 DEF Sound
<1>4. t[q] = o[q]
  BY <1>2, <1>3 DEF Undone
<1>5. ASSUME u[q] # t[q] PROVE FALSE
  <2>1. \/ e.op = "create" /\ ~IsFile(t[q])
        \/ e.op = "delete" /\ q \in Under(e.path)
    <3>1. e.op \in {"create", "delete", "update"}
      BY <1>1 DEF Sound
    <3> QED
      BY <1>1, <1>3, <1>5, <3>1, HeadFacts, StageFacts DEF e
  <2>2. e.op = "delete" /\ q \in Under(e.path)
    BY <1>4, <2>1
  <2>3. n[q] # Absent /\ t[q] # Absent
    BY <1>4, KindFacts
  <2> QED
    BY <2>2, <2>3, NothingWanted DEF e
<1> QED
  BY <1>4, <1>5

\* Its content is the sender's, and where it was a file on both sides the
\* update has worked on the receiver's.
LEMMA HeadContent ==
    ASSUME NEW o, NEW n, NEW es, NEW t, Underway(o, n, es, t), es # <<>>,
           Undone(o, n, es, t), Meant(o, n, Head(es)), Visible(Head(es).path)
    PROVE  LET e == Head(es)
           IN  /\ e.op = "create" => n[e.path] = File(e.bytes) /\ e.bytes = n[e.path].data
               /\ e.op = "update" => n[e.path] = File(Assemble(e.instructs, t[e.path].data))
<1> DEFINE e == Head(es)
           p == e.path
<1>1. /\ Sound(o, n, e) /\ p \in Path /\ o[p] \in Node /\ n[p] \in Node
      /\ About(es, p)
  BY HeadFacts, TreeFacts, OrderedTail DEF Underway
<1>2. \A m \in Node : IsFile(m) => m = File(m.data) /\ m.data \in Data
  BY NodeFacts, KindFacts
<1>3. e.op = "create" => n[p] = File(e.bytes) /\ e.bytes = n[p].data
  BY <1>1, <1>2 DEF Sound, Meant
<1>4. ASSUME e.op = "update" PROVE n[p] = File(Assemble(e.instructs, t[p].data))
  <2>1. IsFile(n[p]) /\ IsFile(o[p])
    BY <1>1, <1>4 DEF Sound
  <2>2. t[p] = o[p]
    BY <1>1, <2>1 DEF Undone
  <2>3. e.instructs = Instructs(o[p].data, n[p].data, n[p].data)
    BY <1>4 DEF Meant
  <2>4. Assemble(e.instructs, t[p].data) = n[p].data
    BY <1>1, <1>2, <2>1, <2>2, <2>3, UpdateRestoresFile
  <2> QED
    BY <1>1, <1>2, <2>1, <2>4
<1> QED
  BY <1>3, <1>4

\* A path whose last entry is applied is as it should be, and so is every
\* other one that the entry changes.
LEMMA StillReached ==
    ASSUME NEW o, NEW n, NEW es, NEW t, Underway(o, n, es, t), es # <<>>,
           ~ApplyFails(t, Head(es)), Undone(o, n, es, t), Reached(n, es, t),
           Meant(o, n, Head(es)), Visible(Head(es).path),
           Head(es).op = "delete" /\ Head(es).path = Root => IsFile(n[Root])
    PROVE  Reached(n, Tail(es), Applied(t, Head(es)))
<1> DEFINE e == Head(es)
           p == e.path
           r == Tail(es)
           u == Applied(t, e)
<1> SUFFICES ASSUME NEW q \in Path, Visible(q), ~About(r, q)
             PROVE  Agree(u[q], n[q])
  BY DEF Reached
<1>1. /\ Sound(o, n, e) /\ OnPaths(t) /\ WellFormed(n) /\ p \in Path
      /\ e.op \in {"create", "delete", "update"}
  BY HeadFacts, TreeFacts DEF Underway, Sound
<1>2. /\ q # p => ~About(es, q)
      /\ q = p /\ e.op = "delete" => ~IsFile(n[q])
  BY OrderedTail DEF Underway
<1>3. CASE q = p /\ e.op = "create"
  <2>1. u[q] = n[q] /\ IsFile(n[q])
    <3>1. u = Created(t, p, e.bytes)
      BY <1>3 DEF Applied
    <3>2. Created(t, p, e.bytes)[p] = File(e.bytes)
      BY <1>1, PathAssumption DEF Created, Above
    <3>3. n[p] = File(e.bytes)
      BY <1>3, HeadContent
    <3> QED
      BY <1>3, <3>1, <3>2, <3>3, KindFacts
  <2> QED
    BY <2>1, KindFacts DEF Agree
<1>4. CASE q = p /\ e.op = "update"
  <2>1. u[q] = File(Assemble(e.instructs, t[p].data))
    <3>1. \A m : [t EXCEPT ![p] = m][p] = m
      BY <1>1 DEF OnPaths
    <3>2. u = [t EXCEPT ![p] = File(Assemble(e.instructs, t[p].data))]
      BY <1>4 DEF Applied, Updated
    <3> QED
      BY <1>4, <3>1, <3>2
  <2>2. u[q] = n[q] /\ IsFile(n[q])
    BY <1>4, <2>1, HeadContent, KindFacts
  <2> QED
    BY <2>2, KindFacts DEF Agree
<1>5. CASE q = p /\ e.op = "delete"
  <2>1. ~IsFile(n[q]) /\ p # Root
    BY <1>2, <1>5
  <2>2. u[q] = Absent
    BY <1>5, <2>1 DEF Applied, Deleted
  <2> QED
    BY <2>1, <2>2, KindFacts DEF Agree
<1>6. CASE q # p
  <2>1. Agree(t[q], n[q])
    BY <1>2, <1>6 DEF Reached
  <2>2. CASE u[q] = t[q]
    BY <2>1, <2>2
  <2>3. CASE u[q] # t[q]
    <3>1. \/ e.op = "create" /\ q \in Above(p) /\ u[q] = Dir
          \/ e.op = "delete" /\ q \in Under(p) /\ u[q] = Absent
      BY <1>1, <1>6, <2>3, HeadFacts, StageFacts
    <3>2. CASE e.op = "create" /\ q \in Above(p) /\ u[q] = Dir
      <4>1. n[q] = Dir
        BY <1>1, <3>2, KindFacts DEF Sound, WellFormed
      <4> QED
        BY <3>2, <4>1, KindFacts DEF Agree
    <3>3. CASE e.op = "delete" /\ q \in Under(p) /\ u[q] = Absent
      <4>1. n[q] = Absent
        BY <2>3, <3>3, NothingWanted
      <4> QED
        BY <3>3, <4>1, KindFacts DEF Agree
    <3> QED
      BY <3>1, <3>2, <3>3
  <2> QED
    BY <2>2, <2>3
<1> QED
  BY <1>1, <1>3, <1>4, <1>5, <1>6

\* Whatever an entry, or a crash inside it, changes becomes the sender's or,
\* unless both sides have a file there, is gone or is a beginning of it.
LEMMA StageOldOrNew ==
    ASSUME NEW o, NEW n, NEW es, NEW t, Underway(o, n, es, t), es # <<>>,
           ~ApplyFails(t, Head(es)), Undone(o, n, es, t),
           Meant(o, n, Head(es)), Visible(Head(es).path),
           NEW u, u = Applied(t, Head(es)) \/ u \in Interrupted(t, Head(es)),
           NEW q \in Path, u[q] # t[q]
    PROVE  \/ u[q] = n[q]
           \/ /\ ~(IsFile(o[q]) /\ IsFile(n[q]))
              /\ \/ u[q] = Absent
                 \/ IsFile(n[q]) /\ IsFile(u[q]) /\ IsPrefix(u[q].data, n[q].data)
<1> DEFINE e == Head(es)
           p == e.path
<1>1. /\ Sound(o, n, e) /\ OnPaths(t) /\ WellFormed(n) /\ p \in Path
      /\ e.op \in {"create", "delete", "update"}
      /\ e.bytes \in Data
  BY HeadFacts, TreeFacts DEF Underway, Sound
<1>2. \/ e.op = "create" /\ q \in Above(p) /\ u[q] = Dir
      \/ e.op = "create" /\ q = p /\ \E k \in 0 .. Len(e.bytes) : u[q] = File(SubSeq(e.bytes, 1, k))
      \/ e.op = "update" /\ q = p /\ u[q] = File(Assemble(e.instructs, t[q].data))
      \/ e.op = "delete" /\ q \in {p} \cup Under(p) /\ u[q] = Absent
  BY <1>1, HeadFacts, StageFacts
<1>3. CASE e.op = "create" /\ q \in Above(p) /\ u[q] = Dir
  BY <1>1, <1>3, KindFacts DEF Sound, WellFormed
<1>4. CASE e.op = "create" /\ q = p /\ \E k \in 0 .. Len(e.bytes) : u[q] = File(SubSeq(e.bytes, 1, k))
  <2>1. PICK k \in 0 .. Len(e.bytes) : u[q] = File(SubSeq(e.bytes, 1, k))
    BY <1>4
  <2>2. n[q].data = e.bytes /\ IsFile(n[q]) /\ ~IsFile(o[q])
    BY <1>1, <1>4, HeadContent DEF Sound
  <2>3. ASSUME NEW d \in Data, NEW m \in 0 .. Len(d) PROVE IsPrefix(SubSeq(d, 1, m), d)
    <3>1. d \in Seq(Chunk) /\ Len(SubSeq(d, 1, m)) = m
      BY DEF Data
    <3> QED
      BY <3>1 DEF IsPrefix
  <2>4. u[q].data = SubSeq(e.bytes, 1, k) /\ IsFile(u[q])
    BY <2>1 DEF File, IsFile
  <2> QED
    BY <1>1, <2>2, <2>3, <2>4
<1>5. CASE e.op = "update" /\ q = p /\ u[q] = File(Assemble(e.instructs, t[q].data))
  BY <1>5, HeadContent
<1>6. CASE e.op = "delete" /\ q \in {p} \cup Under(p) /\ u[q] = Absent
  <2>1. CASE q = p
    BY <1>1, <1>6, <2>1 DEF Sound
  <2>2. CASE q \in Under(p)
    BY <1>6, <2>2, NothingWanted
  <2> QED
    BY <1>6, <2>1, <2>2
<1> QED
  BY <1>2, <1>3, <1>4, <1>5, <1>6

\* A hidden path is only ever removed, with a directory around it that the
\* sender does not have.
LEMMA StageHidden ==
    ASSUME NEW o, NEW n, NEW es, NEW t, Underway(o, n, es, t), es # <<>>,
           ~ApplyFails(t, Head(es)), Visible(Head(es).path),
           NEW u, u = Applied(t, Head(es)) \/ u \in Interrupted(t, Head(es)),
           NEW q \in Path, u[q] # t[q], ~Visible(q)
    PROVE  u[q] = Absent /\ \E a \in Above(q) : n[a] # Dir
<1> DEFINE e == Head(es)
           p == e.path
<1>1. /\ OnPaths(t) /\ p \in Path /\ e.op \in {"create", "delete", "update"}
  BY HeadFacts, TreeFacts DEF Underway, Sound
<1>2. q # p /\ q \notin Above(p)
  BY <1>1, AboveTransitive DEF Visible
<1>3. e.op = "delete" /\ q \in Under(p) /\ u[q] = Absent
  BY <1>1, <1>2, HeadFacts, StageFacts
<1>4. p \in Above(q)
  BY <1>1, <1>3, UnderAbove
<1>5. n[p] # Dir
  BY <1>3, NothingWanted
<1> QED
  BY <1>3, <1>4, <1>5

\* The receiver's tree stays one.
LEMMA StageType ==
    ASSUME NEW t \in Tree, NEW e \in EntryType, CopiesPlaced(e.instructs), ~ApplyFails(t, e),
           NEW u, u = Applied(t, e) \/ u \in Interrupted(t, e)
    PROVE  u \in Tree
<1> DEFINE p == e.path
<1>1. /\ p \in Path /\ e.bytes \in Data /\ e.instructs \in Seq(Instr)
      /\ e.op \in {"create", "delete", "update"}
  BY DEF EntryType
<1>2. t[p] \in Node /\ t[p].data \in Data
  BY <1>1, TreeFacts
<1>3. CASE e.op = "create"
  <2>1. \A k \in 0 .. Len(e.bytes) : SubSeq(e.bytes, 1, k) \in Data
    BY <1>1 DEF Data
  <2>3. \A d \in Data : Created(t, p, d) \in Tree
    BY <1>1, CallTypes
  <2>4. \A dirs : DirsMade(t, dirs) \in Tree
    BY TreeFacts, NodeFacts DEF DirsMade, Tree
  <2>5. \/ u = t
        \/ u = Created(t, p, e.bytes)
        \/ \E dirs : u = DirsMade(t, dirs)
        \/ \E k \in 0 .. Len(e.bytes) : u = Created(t, p, SubSeq(e.bytes, 1, k))
    BY <1>3 DEF Applied, Interrupted
  <2> QED
    BY <1>1, <2>1, <2>3, <2>4, <2>5
<1>4. CASE e.op = "delete"
  <2>1. \/ u = t
        \/ u = Deleted(t, p)
        \/ \E gone : u = [q \in Path |-> IF q \in gone THEN Absent ELSE t[q]]
    BY <1>4 DEF Applied, Interrupted
  <2> QED
    BY <1>1, <2>1, CallTypes
<1>5. CASE e.op = "update"
  <2>1. u = t \/ u = [t EXCEPT ![p] = File(Assemble(e.instructs, t[p].data))]
    BY <1>5 DEF Applied, Interrupted, Updated
  <2>2. ~OutOfBounds(e.instructs, t[p].data)
    BY <1>5 DEF ApplyFails
  <2>3. File(Assemble(e.instructs, t[p].data)) \in Node
    BY <1>1, <1>2, <2>2, AssembleType, NodeFacts
  <2> QED
    BY <1>1, <2>1, <2>3, CallTypes
<1> QED
  BY <1>1, <1>3, <1>4, <1>5
=============================================================================
