---------------------------- MODULE FramingProofs -----------------------------
(***************************************************************************)
(* Proofs about Framing for bytes and headers of any size, any prefix-free *)
(* set of messages and any number of them: however the bytes are cut up,   *)
(* the messages received are the ones that were sent.                      *)
(***************************************************************************)
EXTENDS Framing, SequenceTheorems, WellFoundedInduction, TLAPS

-----------------------------------------------------------------------------
(* The numbers a header holds.                                             *)

\* The least-number principle: a claim about every number holds if it does not
\* fail at a least one.
LEMMA LeastNumber ==
    ASSUME NEW T \in SUBSET Nat, T # {}
    PROVE  \E n \in T : \A m \in T : n <= m
<1> DEFINE R == OpToRel(<, Nat)
<1>1. R = {s \in Nat \X Nat : s[1] < s[2]}
  BY DEF OpToRel
<1>2. IsWellFoundedOn(R, Nat)
  BY NatLessThanWellFounded, Zenon
<1> HIDE DEF R
<1>3. PICK n \in T : \A m \in T : ~(<<m, n>> \in R)
  BY <1>2, WFMin
<1>4. \A m \in T : ~(m < n)
  BY <1>1, <1>3
<1> QED
  BY <1>3, <1>4

\* f[i] is the weight of the digit after the first i.
Weighs(f, n) == f = [i \in 0 .. n |-> IF i = 0 THEN 1 ELSE Base * f[i - 1]]

LEMMA WeightExists ==
    ASSUME NEW N \in Nat
    PROVE  \E f : Weighs(f, N)
<1> DEFINE T == {n \in Nat : ~ \E f : Weighs(f, n)}
<1> SUFFICES ASSUME T # {} PROVE FALSE
  OBVIOUS
<1>1. PICK n \in T : \A m \in T : n <= m
  BY LeastNumber
<1>2. CASE n = 0
  <2>1. Weighs([i \in 0 .. 0 |-> 1], 0)
    BY DEF Weighs
  <2> QED
    BY <1>1, <1>2, <2>1
<1>3. CASE n # 0
  <2>1. n - 1 \in Nat /\ n - 1 \notin T
    BY <1>1, <1>3
  <2>2. PICK f : Weighs(f, n - 1)
    BY <2>1
  <2> DEFINE g == [i \in 0 .. n |-> IF i < n THEN f[i] ELSE Base * f[n - 1]]
  <2>3. ASSUME NEW i \in 0 .. n
        PROVE  g[i] = IF i = 0 THEN 1 ELSE Base * g[i - 1]
    <3>1. CASE i = n
      BY <1>3, <3>1
    <3>2. CASE i < n
      <4>1. i \in 0 .. n - 1
        BY <1>1, <3>2
      <4>2. f[i] = IF i = 0 THEN 1 ELSE Base * f[i - 1]
        BY <2>2, <4>1 DEF Weighs
      <4>3. i # 0 => i - 1 \in 0 .. n /\ i - 1 < n
        BY <1>1, <4>1
      <4> QED
        BY <3>2, <4>2, <4>3
    <3> QED
      BY <3>1, <3>2
  <2>4. Weighs(g, n)
    BY <2>3 DEF Weighs
  <2> QED
    BY <1>1, <2>4
<1> QED
  BY <1>2, <1>3

LEMMA WeightFacts ==
    /\ Weight[0] = 1
    /\ \A i \in 1 .. HeaderSize : Weight[i] = Base * Weight[i - 1]
    /\ \A i \in 0 .. HeaderSize : Weight[i] \in Nat \ {0}
<1>0. HeaderSize \in Nat \ {0} /\ Base \in Nat \ {0, 1}
  BY FramingAssumption
<1>1. Weighs(Weight, HeaderSize)
  BY <1>0, WeightExists DEF Weight, Weighs
<1>2. Weight[0] = 1 /\ \A i \in 1 .. HeaderSize : Weight[i] = Base * Weight[i - 1]
  BY <1>0, <1>1 DEF Weighs
<1> DEFINE T == {i \in 0 .. HeaderSize : Weight[i] \notin Nat \ {0}}
<1>3. ASSUME T # {} PROVE FALSE
  <2>0. T \in SUBSET Nat
    BY <1>0
  <2>1. PICK i \in T : \A m \in T : i <= m
    BY <1>3, <2>0, LeastNumber
  <2>2. i # 0
    BY <1>2
  <2>3. i - 1 \in 0 .. HeaderSize /\ i - 1 \notin T /\ i \in 1 .. HeaderSize
    BY <1>0, <2>1, <2>2
  <2>4. Weight[i - 1] \in Nat \ {0} /\ Weight[i] = Base * Weight[i - 1]
    BY <1>2, <2>3
  <2>5. \A w \in Nat \ {0} : Base * w \in Nat \ {0}
    BY <1>0
  <2> QED
    BY <2>4, <2>5
<1> QED
  BY <1>2, <1>3

\* The division by a product.
LEMMA Digit ==
    ASSUME NEW n \in Nat, NEW w \in Nat \ {0}, NEW b \in Nat \ {0}
    PROVE  n % (b * w) = (n % w) + ((n \div w) % b) * w
<1> DEFINE q == n \div w
           r == n % w
           d == q % b
           k == q \div b
<1>1. q \in Nat /\ r \in 0 .. w - 1 /\ n = w * q + r
  OBVIOUS
<1>2. k \in Nat /\ d \in 0 .. b - 1 /\ q = b * k + d
  BY <1>1
<1> HIDE DEF q, r, d, k
<1>3. n = (b * w) * k + (d * w + r)
  <2>1. w * (b * k + d) = (b * w) * k + d * w
    BY <1>2
  <2> QED
    BY <1>1, <1>2, <2>1
<1>4. d * w + r \in 0 .. (b * w) - 1
  <2>1. d * w <= (b - 1) * w
    BY <1>2
  <2>2. (b - 1) * w = b * w - w
    OBVIOUS
  <2>3. d * w \in Nat /\ b * w \in Nat
    BY <1>2
  <2> QED
    BY <1>1, <2>1, <2>2, <2>3
<1>5. b * w \in Nat \ {0}
  OBVIOUS
<1> DEFINE m == b * w
           x == d * w + r
<1>6. m \in Nat \ {0} /\ x \in 0 .. m - 1 /\ n = m * k + x
  BY <1>3, <1>4, <1>5
<1> HIDE DEF m, x
<1>7. n % m = x
  BY <1>2, <1>6
<1> QED
  BY <1>7 DEF m, x, q, r, d

LEMMA Remainder ==
    ASSUME NEW n \in Nat, NEW w \in Nat \ {0}
    PROVE  n % w \in Nat /\ n % w <= n /\ (n < w => n % w = n)
<1>1. n \div w \in Nat /\ n % w \in 0 .. w - 1 /\ n = w * (n \div w) + (n % w)
  OBVIOUS
<1>2. w * (n \div w) \in Nat
  BY <1>1
<1>3. ASSUME n < w PROVE n % w = n
  <2>1. n \in 0 .. w - 1 /\ 0 \in Nat /\ n = w * 0 + n
    BY <1>3
  <2> QED
    BY <2>1
<1> QED
  BY <1>1, <1>2, <1>3

\* value[i] is the number the first i bytes of b stand for.
Values(f, b, n) == f = [i \in 0 .. n |-> IF i = 0 THEN 0 ELSE f[i - 1] + b[i] * Weight[i - 1]]

LEMMA ValueExists ==
    ASSUME NEW b, NEW N \in Nat
    PROVE  \E f : Values(f, b, N)
<1> DEFINE T == {n \in Nat : ~ \E f : Values(f, b, n)}
<1> SUFFICES ASSUME T # {} PROVE FALSE
  OBVIOUS
<1>1. PICK n \in T : \A m \in T : n <= m
  BY LeastNumber
<1>2. CASE n = 0
  <2>1. Values([i \in 0 .. 0 |-> 0], b, 0)
    BY DEF Values
  <2> QED
    BY <1>1, <1>2, <2>1
<1>3. CASE n # 0
  <2>1. n - 1 \in Nat /\ n - 1 \notin T
    BY <1>1, <1>3
  <2>2. PICK f : Values(f, b, n - 1)
    BY <2>1
  <2> DEFINE g == [i \in 0 .. n |-> IF i < n THEN f[i] ELSE f[n - 1] + b[n] * Weight[n - 1]]
  <2>3. ASSUME NEW i \in 0 .. n
        PROVE  g[i] = IF i = 0 THEN 0 ELSE g[i - 1] + b[i] * Weight[i - 1]
    <3>1. CASE i = n
      BY <1>3, <3>1
    <3>2. CASE i < n
      <4>1. i \in 0 .. n - 1
        BY <1>1, <3>2
      <4>2. f[i] = IF i = 0 THEN 0 ELSE f[i - 1] + b[i] * Weight[i - 1]
        BY <2>2, <4>1 DEF Values
      <4>3. i # 0 => i - 1 \in 0 .. n /\ i - 1 < n
        BY <1>1, <4>1
      <4> QED
        BY <3>2, <4>2, <4>3
    <3> QED
      BY <3>1, <3>2
  <2>4. Values(g, b, n)
    BY <2>3 DEF Values
  <2> QED
    BY <1>1, <2>4
<1> QED
  BY <1>2, <1>3

LEMMA ToBytesType ==
    ASSUME NEW n \in Nat
    PROVE  /\ ToBytes(n) \in Seq(Byte) /\ Len(ToBytes(n)) = HeaderSize
           /\ \A i \in 1 .. HeaderSize : ToBytes(n)[i] = (n \div Weight[i - 1]) % Base
<1>0. HeaderSize \in Nat \ {0} /\ Base \in Nat \ {0, 1}
  BY FramingAssumption
<1>1. ASSUME NEW i \in 1 .. HeaderSize PROVE (n \div Weight[i - 1]) % Base \in Byte
  <2>1. Weight[i - 1] \in Nat \ {0}
    BY <1>0, WeightFacts
  <2>2. \A w \in Nat \ {0} : n \div w \in Nat
    OBVIOUS
  <2>3. \A q \in Nat : q % Base \in 0 .. Base - 1
    BY <1>0
  <2> QED
    BY <2>1, <2>2, <2>3 DEF Byte
<1> QED
  BY <1>0, <1>1 DEF ToBytes

\* A length that goes through a header comes out as its remainder.
LEMMA RoundTrip ==
    ASSUME NEW n \in Nat
    PROVE  FromBytes(ToBytes(n)) = n % Limit
<1> DEFINE b == ToBytes(n)
           f == CHOOSE g : Values(g, b, HeaderSize)
           T == {i \in 0 .. HeaderSize : f[i] # n % Weight[i]}
<1>0. HeaderSize \in Nat \ {0} /\ Base \in Nat \ {0, 1}
  BY FramingAssumption
<1>1. Len(b) = HeaderSize /\ \A i \in 1 .. HeaderSize : b[i] = (n \div Weight[i - 1]) % Base
  BY ToBytesType
<1> HIDE DEF b
<1>2. Values(f, b, HeaderSize)
  BY <1>0, ValueExists
<1>3. FromBytes(b) = f[HeaderSize]
  BY <1>1 DEF FromBytes, Values
<1> HIDE DEF f
<1>4. ASSUME T # {} PROVE FALSE
  <2>0. T \in SUBSET Nat
    BY <1>0
  <2>1. PICK i \in T : \A m \in T : i <= m
    BY <1>4, <2>0, LeastNumber
  <2>2. f[0] = 0 /\ n % Weight[0] = 0
    BY <1>0, <1>2, WeightFacts DEF Values
  <2>3. i # 0
    BY <2>2
  <2>4. i - 1 \in 0 .. HeaderSize /\ i - 1 \notin T /\ i \in 1 .. HeaderSize
    BY <1>0, <2>1, <2>3
  <2>5. f[i - 1] = n % Weight[i - 1]
    BY <2>4
  <2>6. f[i] = f[i - 1] + b[i] * Weight[i - 1]
    BY <1>2, <2>3 DEF Values
  <2>7. b[i] = (n \div Weight[i - 1]) % Base
    BY <1>1, <2>4
  <2>8. Weight[i] = Base * Weight[i - 1] /\ Weight[i - 1] \in Nat \ {0}
    BY <2>4, WeightFacts
  <2>9. n % (Base * Weight[i - 1])
           = (n % Weight[i - 1]) + ((n \div Weight[i - 1]) % Base) * Weight[i - 1]
    BY <1>0, <2>8, Digit
  <2> QED
    BY <2>5, <2>6, <2>7, <2>8, <2>9
<1>5. f[HeaderSize] = n % Weight[HeaderSize]
  BY <1>0, <1>4
<1> QED
  BY <1>3, <1>5 DEF b, Limit
-----------------------------------------------------------------------------
(* Sequences.                                                              *)

\* What was taken of a sequence and what is left make it up.
LEMMA Taken ==
    ASSUME NEW S, NEW d \in Seq(S), NEW n \in 0 .. Len(d)
    PROVE  /\ SubSeq(d, 1, n) \in Seq(S) /\ Len(SubSeq(d, 1, n)) = n
           /\ SubSeq(d, n + 1, Len(d)) \in Seq(S)
           /\ SubSeq(d, 1, n) \o SubSeq(d, n + 1, Len(d)) = d
<1>1. Len(d) \in Nat /\ \A i \in 1 .. Len(d) : d[i] \in S
  BY LenProperties
<1>2. SubSeq(d, 1, n) \in Seq(S) /\ Len(SubSeq(d, 1, n)) = n
  BY <1>1, SubSeqProperties
<1>3. SubSeq(d, n + 1, Len(d)) \in Seq(S)
  BY <1>1, SubSeqProperties
<1>4. SubSeq(d, 1, n) \o SubSeq(d, n + 1, Len(d)) = SubSeq(d, 1, Len(d))
  <2>1. /\ 1 \in 1 .. Len(d) + 1 /\ n \in 1 - 1 .. Len(d) /\ Len(d) \in n .. Len(d)
    BY <1>1
  <2> QED
    BY <2>1, ConcatAdjacentSubSeq
<1> QED
  BY <1>2, <1>3, <1>4, SubSeqFull

LEMMA PrefixByItem ==
    ASSUME NEW S, NEW s \in Seq(S), NEW t \in Seq(S)
    PROVE  IsPrefix(s, t) <=> Len(s) <= Len(t) /\ \A i \in 1 .. Len(s) : s[i] = t[i]
<1>1. /\ Len(s) \in Nat /\ \A i \in 1 .. Len(s) : s[i] \in S
      /\ Len(t) \in Nat /\ \A i \in 1 .. Len(t) : t[i] \in S
  BY LenProperties
<1>2. CASE Len(s) <= Len(t)
  <2>1. /\ SubSeq(s, 1, Len(s)) \in Seq(S) /\ Len(SubSeq(s, 1, Len(s))) = Len(s)
        /\ \A i \in 1 .. Len(s) : SubSeq(s, 1, Len(s))[i] = s[i]
    BY SubSeqFull
  <2>2. Len(s) \in 0 .. Len(t) /\ \A i \in 1 .. Len(s) : t[i] \in S
    BY <1>1, <1>2
  <2>3. /\ SubSeq(t, 1, Len(s)) \in Seq(S) /\ Len(SubSeq(t, 1, Len(s))) = Len(s)
        /\ \A i \in 1 .. Len(s) : SubSeq(t, 1, Len(s))[i] = t[i]
    <3>1. \A i \in 1 .. Len(s) - 1 + 1 : SubSeq(t, 1, Len(s))[i] = t[1 + i - 1]
      BY <1>1, <2>2, SubSeqProperties
    <3> QED
      BY <1>1, <2>2, <3>1, Taken
  <2>4. SubSeq(s, 1, Len(s)) = SubSeq(t, 1, Len(s)) <=> \A i \in 1 .. Len(s) : s[i] = t[i]
    BY <2>1, <2>3, SeqEqual
  <2> QED
    BY <1>2, <2>4 DEF IsPrefix
<1>3. CASE ~(Len(s) <= Len(t))
  BY <1>3 DEF IsPrefix
<1> QED
  BY <1>2, <1>3

\* Two cuts of one sequence: the shorter first part begins the longer one.
LEMMA TwoCuts ==
    ASSUME NEW S, NEW a \in Seq(S), NEW x \in Seq(S), NEW b \in Seq(S), NEW y \in Seq(S),
           a \o x = b \o y, Len(a) <= Len(b)
    PROVE  /\ IsPrefix(a, b)
           /\ Len(a) = Len(b) => a = b /\ x = y
<1>1. Len(a) \in Nat /\ Len(b) \in Nat /\ Len(x) \in Nat /\ Len(y) \in Nat
  BY LenProperties
<1>2. \A i \in 1 .. Len(a) : (a \o x)[i] = a[i]
  BY <1>1, ConcatProperties
<1>3. \A i \in 1 .. Len(b) : (b \o y)[i] = b[i]
  BY <1>1, ConcatProperties
<1>4. \A i \in 1 .. Len(a) : a[i] = b[i]
  BY <1>1, <1>2, <1>3
<1>5. ASSUME Len(a) = Len(b) PROVE a = b /\ x = y
  <2>1. a = b
    BY <1>4, <1>5, SeqEqual
  <2> QED
    BY <2>1, ConcatSimplifications
<1> QED
  BY <1>4, <1>5, PrefixByItem

LEMMA Joined ==
    /\ \A s, t \in Seq(Byte) : s \o t \in Seq(Byte)
    /\ \A s, t, u \in Seq(Byte) : (s \o t) \o u = s \o (t \o u)
    /\ \A s \in Seq(Byte) : s \o <<>> = s /\ <<>> \o s = s
BY ConcatProperties, ConcatAssociative, ConcatEmptySeq

-----------------------------------------------------------------------------
(* The invariant.                                                          *)

Frame(m) == ToBytes(Len(m)) \o m

\* f[i] is the bytes of every message from the i-th one on.
Framed(f) ==
    /\ f \in [1 .. Len(sent) + 1 -> Seq(Byte)]
    /\ f[Len(sent) + 1] = <<>>
    /\ \A i \in 1 .. Len(sent) : f[i] = Frame(sent[i]) \o f[i + 1]

\* The bytes from the beginning of what recv_msg is reading.
Flight == (buf \o pipe) \o (header \o payload)

\* They are those of the messages that were not returned, without what was
\* read of a header.
InFlight(f) ==
    /\ Len(got) <= Len(sent)
    /\ reader = "header" =>
          Len(buf) + need = HeaderSize /\ Flight = f[Len(got) + 1]
    /\ reader = "payload" =>
          /\ Len(got) < Len(sent)
          /\ Len(buf) + need = Len(sent[Len(got) + 1]) % Limit
          /\ Flight = sent[Len(got) + 1] \o f[Len(got) + 2]

Inv == TypeOK /\ GarbledOnlyByLength /\ \E f : Framed(f) /\ (reader \notin Failed => InFlight(f))

LEMMA Sizes ==
    /\ HeaderSize \in Nat \ {0} /\ Limit \in Nat \ {0}
    /\ \A m \in Message : m \in Seq(Byte) /\ Len(m) \in Nat
    /\ \A m \in Message : Frame(m) \in Seq(Byte)
<1>1. HeaderSize \in Nat \ {0} /\ \A m \in Message : m \in Seq(Byte) /\ Len(m) \in Nat
  BY FramingAssumption, LenProperties
<1>2. Limit \in Nat \ {0}
  BY <1>1, WeightFacts DEF Limit
<1>3. \A m \in Message : Frame(m) \in Seq(Byte)
  BY <1>1, ToBytesType, ConcatProperties DEF Frame
<1> QED
  BY <1>1, <1>2, <1>3

LEMMA InitInv == Init => Inv
<1> SUFFICES ASSUME Init PROVE Inv
  OBVIOUS
<1>1. TypeOK
  BY Sizes DEF Init, TypeOK
<1>2. GarbledOnlyByLength
  BY DEF Init, GarbledOnlyByLength
<1> DEFINE f == [i \in 1 .. 1 |-> <<>>]
<1>3. Framed(f)
  BY DEF Init, Framed
<1>4. Flight = <<>>
  <2>1. <<>> \o <<>> = <<>>
    OBVIOUS
  <2> QED
    BY <2>1 DEF Init, Flight
<1>5. InFlight(f)
  BY <1>4, Sizes DEF Init, InFlight
<1> QED
  BY <1>1, <1>2, <1>3, <1>5 DEF Inv

LEMMA Regroup ==
    ASSUME NEW a \in Seq(Byte), NEW b \in Seq(Byte), NEW c \in Seq(Byte)
    PROVE  (a \o b) \o c = a \o (b \o c)
BY ConcatAssociative

\* Where the bytes are cut does not matter.
LEMMA FlightParts ==
    ASSUME TypeOK
    PROVE  /\ Flight \in Seq(Byte) /\ buf \o pipe \in Seq(Byte) /\ header \o payload \in Seq(Byte)
           /\ pipe \o (header \o payload) \in Seq(Byte)
           /\ Flight = buf \o (pipe \o (header \o payload))
<1>1. /\ buf \in Seq(Byte) /\ pipe \in Seq(Byte)
      /\ header \in Seq(Byte) /\ payload \in Seq(Byte)
  BY DEF TypeOK
<1>2. /\ buf \o pipe \in Seq(Byte) /\ header \o payload \in Seq(Byte)
  BY <1>1, ConcatProperties
<1>3. Flight \in Seq(Byte) /\ pipe \o (header \o payload) \in Seq(Byte)
  BY <1>1, <1>2, ConcatProperties DEF Flight
<1>4. Flight = buf \o (pipe \o (header \o payload))
  <2>1. PICK a, b, c : a = buf /\ b = pipe /\ c = header \o payload
    OBVIOUS
  <2>2. (a \o b) \o c = a \o (b \o c)
    BY <1>1, <1>2, <2>1, Regroup
  <2> QED
    BY <2>1, <2>2 DEF Flight
<1> QED
  BY <1>2, <1>3, <1>4

-----------------------------------------------------------------------------
(* The steps of the sending end.                                           *)

\* A new message comes after all the others.
LEMMA SendStep ==
    ASSUME Inv, NEW m \in Message, SendMsg(m)
    PROVE  Inv'
<1>0. PICK n, z : n = Len(sent) /\ z = Frame(m)
  OBVIOUS
<1>1. /\ header = <<>> /\ payload = <<>> /\ header' = ToBytes(Len(m)) /\ payload' = m
      /\ sent' = Append(sent, m) /\ UNCHANGED <<writer, pipe, reader, need, buf, got>>
  BY DEF SendMsg, Between, receiving
<1>2. sent \in Seq(Message) /\ n \in Nat /\ z \in Seq(Byte)
  BY <1>0, Sizes DEF Inv, TypeOK
<1>3. /\ sent' \in Seq(Message) /\ Len(sent') = n + 1 /\ sent'[n + 1] = m
      /\ \A i \in 1 .. n : sent'[i] = sent[i]
  BY <1>0, <1>1, <1>2
<1>4. TypeOK'
  BY <1>1, <1>3, Sizes, ToBytesType DEF Inv, TypeOK
<1>5. GarbledOnlyByLength'
  <2>1. DOMAIN sent = 1 .. n /\ DOMAIN sent' = 1 .. n + 1
    BY <1>0, <1>2, <1>3
  <2> QED
    BY <1>1, <1>2, <1>3, <2>1 DEF Inv, GarbledOnlyByLength
<1>6. Flight' = Flight \o z
  <2>1. Flight = buf \o pipe
    BY <1>1, FlightParts, Joined DEF Inv, Flight
  <2> QED
    BY <1>0, <1>1, <2>1 DEF Flight, Frame
<1>7. PICK f : Framed(f) /\ (reader \notin Failed => InFlight(f))
  BY DEF Inv
<1>8. /\ \A i \in 1 .. n + 1 : f[i] \in Seq(Byte)
      /\ f[n + 1] = <<>>
      /\ \A i \in 1 .. n : f[i] = Frame(sent[i]) \o f[i + 1]
  BY <1>0, <1>7 DEF Framed
<1> DEFINE join == [i \in 1 .. n + 2 |-> IF i = n + 2 THEN <<>> ELSE f[i] \o z]
<1>14. PICK g : g = join
  OBVIOUS
<1>9. \A i \in 1 .. n + 1 : g[i] = f[i] \o z /\ g[i] \in Seq(Byte)
  <2> SUFFICES ASSUME NEW i \in 1 .. n + 1 PROVE g[i] = f[i] \o z /\ g[i] \in Seq(Byte)
    OBVIOUS
  <2>1. i \in 1 .. n + 2 /\ i # n + 2
    BY <1>2
  <2>2. g[i] = f[i] \o z
    BY <1>14, <2>1
  <2> QED
    BY <1>2, <1>8, <2>2, Joined
<1>10. g[n + 2] = <<>> /\ g \in [1 .. n + 2 -> Seq(Byte)]
  <2>1. g[n + 2] = <<>>
    BY <1>2, <1>14
  <2>2. \A i \in 1 .. n + 2 : i \in 1 .. n + 1 \/ i = n + 2
    BY <1>2
  <2>3. ASSUME NEW i \in 1 .. n + 2 PROVE g[i] \in Seq(Byte)
    <3>1. CASE i \in 1 .. n + 1
      BY <1>9, <3>1
    <3>2. CASE i = n + 2
      BY <2>1, <3>2, EmptySeq
    <3> QED
      BY <2>2, <3>1, <3>2
  <2>4. g \in [1 .. n + 2 -> Seq(Byte)]
    BY <1>14, <2>3
  <2> QED
    BY <2>1, <2>4
<1> HIDE DEF join
<1>11. ASSUME NEW i \in 1 .. n + 1 PROVE g[i] = Frame(sent'[i]) \o g[i + 1]
  <2>1. CASE i = n + 1
    <3>1. g[i] = z /\ g[i + 1] = <<>>
      <4>1. g[i] = <<>> \o z
        BY <1>8, <1>9, <2>1
      <4>2. i + 1 = n + 2
        BY <1>2, <2>1
      <4> QED
        BY <1>2, <1>10, <4>1, <4>2, Joined
    <3> QED
      BY <1>0, <1>2, <1>3, <2>1, <3>1, Joined
  <2>2. CASE i \in 1 .. n
    <3>1. sent[i] \in Message
      BY <1>0, <1>2, <2>2
    <3>2. Frame(sent[i]) \in Seq(Byte) /\ f[i + 1] \in Seq(Byte) /\ i + 1 \in 1 .. n + 1
      BY <1>2, <1>8, <2>2, <3>1, Sizes
    <3>3. (Frame(sent[i]) \o f[i + 1]) \o z = Frame(sent[i]) \o (f[i + 1] \o z)
      BY <1>2, <3>2, Joined
    <3>4. sent'[i] = sent[i] /\ g[i] = f[i] \o z /\ g[i + 1] = f[i + 1] \o z
      BY <1>3, <1>9, <2>2, <3>2
    <3> QED
      BY <1>8, <2>2, <3>3, <3>4
  <2>3. i = n + 1 \/ i \in 1 .. n
    BY <1>2
  <2> QED
    BY <2>1, <2>2, <2>3
<1>12. Framed(g)'
  <2>1. (\A i \in 1 .. Len(sent) : g[i] = Frame(sent[i]) \o g[i + 1])'
    <3>1. \A i \in 1 .. n + 1 : Frame(sent[i])' = Frame(sent'[i])
      BY DEF Frame, ToBytes
    <3> QED
      BY <1>3, <1>11, <3>1
  <2>2. n + 1 + 1 = n + 2
    BY <1>2
  <2> QED
    BY <1>3, <1>10, <2>1, <2>2 DEF Framed
<1>13. ASSUME reader' \notin Failed PROVE InFlight(g)'
  <2>1. InFlight(f) /\ Len(got) \in Nat
    BY <1>1, <1>7, <1>13 DEF Inv, TypeOK
  <2>2. (Len(got) <= Len(sent))'
    BY <1>0, <1>1, <1>2, <1>3, <2>1 DEF InFlight
  <2>3. CASE reader = "header"
    <3>1. Flight = f[Len(got) + 1] /\ Len(buf) + need = HeaderSize /\ Len(got) + 1 \in 1 .. n + 1
      BY <1>0, <1>2, <2>1, <2>3 DEF InFlight
    <3>2. Flight' = g[Len(got) + 1]
      BY <1>6, <1>9, <3>1
    <3> QED
      BY <1>1, <2>2, <2>3, <3>1, <3>2 DEF InFlight
  <2>4. CASE reader = "payload"
    <3>0. PICK k : k = Len(got) + 1
      OBVIOUS
    <3>1. k \in 1 .. n /\ k + 1 \in 1 .. n + 1 /\ k + 1 = Len(got) + 2
      BY <1>0, <1>2, <2>1, <2>4, <3>0 DEF InFlight
    <3>2. /\ Len(buf) + need = Len(sent[k]) % Limit
          /\ Flight = sent[k] \o f[k + 1]
      BY <2>1, <2>4, <3>0, <3>1 DEF InFlight
    <3>3. sent[k] \in Seq(Byte) /\ f[k + 1] \in Seq(Byte)
      BY <1>0, <1>2, <1>8, <3>1, Sizes
    <3>4. Flight' = sent[k] \o g[k + 1]
      <4>1. (sent[k] \o f[k + 1]) \o z = sent[k] \o (f[k + 1] \o z)
        BY <1>2, <3>3, Joined
      <4> QED
        BY <1>6, <1>9, <3>1, <3>2, <4>1
    <3>5. sent'[k] = sent[k]
      BY <1>3, <3>1
    <3>6. (Len(got) < Len(sent))'
      BY <1>1, <1>2, <1>3, <3>0, <3>1
    <3>7. /\ (Len(buf) + need)' = Len(sent'[k]) % Limit
          /\ Flight' = sent'[k] \o g[k + 1]
      BY <1>1, <3>2, <3>4, <3>5
    <3>8. Len(got') + 1 = k /\ Len(got') + 2 = k + 1
      BY <1>1, <2>1, <3>0
    <3> QED
      BY <1>1, <2>2, <2>4, <3>6, <3>7, <3>8 DEF InFlight
  <2>5. reader \in {"header", "payload"}
    BY <1>1, <1>13 DEF Inv, TypeOK
  <2> QED
    BY <2>3, <2>4, <2>5
<1> QED
  BY <1>4, <1>5, <1>12, <1>13, <1>1 DEF Inv

-----------------------------------------------------------------------------
(* The other steps.                                                        *)

\* A step that sends nothing new keeps the bytes of the messages.
LEMMA SameMessages ==
    ASSUME Inv, sent' = sent, TypeOK', GarbledOnlyByLength',
           \A f : Framed(f) /\ (reader \notin Failed => InFlight(f)) =>
                     (reader' \notin Failed => InFlight(f)')
    PROVE  Inv'
<1>1. PICK f : Framed(f) /\ (reader \notin Failed => InFlight(f))
  BY DEF Inv
<1>2. Framed(f)'
  BY <1>1 DEF Framed, Frame, ToBytes
<1>3. (reader \notin Failed => InFlight(f))'
  BY <1>1
<1> QED
  BY <1>2, <1>3 DEF Inv

\* A step that moves bytes towards the reader, or back into no hands, leaves
\* what is in flight as it is.
LEMMA SameFlight ==
    ASSUME Inv, TypeOK', Flight' = Flight, Len(buf') + need' = Len(buf) + need,
           UNCHANGED <<sent, got, reader>>
    PROVE  Inv'
<1>1. GarbledOnlyByLength'
  BY DEF Inv, GarbledOnlyByLength
<1>2. ASSUME NEW f, Framed(f), reader \notin Failed => InFlight(f), reader' \notin Failed
      PROVE  InFlight(f)'
  BY <1>2 DEF InFlight
<1> QED
  BY <1>1, <1>2, SameMessages

LEMMA WriteStep ==
    ASSUME Inv, NEW n \in 1 .. Capacity, Write(n)
    PROVE  Inv'
<1>0. PICK d : d = IF header # <<>> THEN header ELSE payload
  OBVIOUS
<1>1. /\ n \in 1 .. Len(d) /\ pipe' = pipe \o SubSeq(d, 1, n)
      /\ IF header # <<>>
         THEN header' = SubSeq(d, n + 1, Len(d)) /\ UNCHANGED payload
         ELSE payload' = SubSeq(d, n + 1, Len(d)) /\ UNCHANGED header
      /\ UNCHANGED <<writer, sent, reader, need, buf, got>>
  BY <1>0 DEF Write, receiving
<1>2. /\ buf \in Seq(Byte) /\ pipe \in Seq(Byte) /\ need \in Nat
      /\ header \in Seq(Byte) /\ payload \in Seq(Byte) /\ d \in Seq(Byte)
  BY <1>0 DEF Inv, TypeOK
<1>3. PICK x, y : x = SubSeq(d, 1, n) /\ y = SubSeq(d, n + 1, Len(d))
  OBVIOUS
<1>4. x \in Seq(Byte) /\ y \in Seq(Byte) /\ x \o y = d
  <2>1. n \in 0 .. Len(d)
    BY <1>1
  <2> QED
    BY <1>2, <1>3, <2>1, Taken
<1>5. /\ header' \in Seq(Byte) /\ payload' \in Seq(Byte) /\ pipe' \in Seq(Byte)
  BY <1>1, <1>2, <1>3, <1>4, Joined
<1>6. x \o (header' \o payload') = header \o payload
  <2>1. CASE header # <<>>
    <3>1. header' = y /\ payload' = payload /\ header = x \o y
      BY <1>0, <1>1, <1>3, <1>4, <2>1
    <3> QED
      BY <1>2, <1>4, <3>1, Joined
  <2>2. CASE header = <<>>
    <3>1. header' = <<>> /\ payload' = y /\ payload = x \o y
      BY <1>0, <1>1, <1>3, <1>4, <2>2
    <3> QED
      BY <1>2, <1>4, <2>2, <3>1, Joined
  <2> QED
    BY <2>1, <2>2
<1>7. Flight' = Flight
  <2>1. PICK r : r = header' \o payload'
    OBVIOUS
  <2>2. r \in Seq(Byte) /\ x \o r = header \o payload
    BY <1>5, <1>6, <2>1, Joined
  <2>3. Flight' = (buf \o (pipe \o x)) \o r
    BY <1>1, <1>3, <2>1 DEF Flight
  <2>4. (buf \o (pipe \o x)) \o r = ((buf \o pipe) \o x) \o r
    <3>1. buf \in Seq(Byte) /\ pipe \in Seq(Byte) /\ x \in Seq(Byte)
      BY <1>2, <1>4
    <3>2. (buf \o pipe) \o x = buf \o (pipe \o x)
      BY <3>1, ConcatAssociative
    <3> QED
      BY <3>2
  <2>5. ((buf \o pipe) \o x) \o r = (buf \o pipe) \o (x \o r)
    <3>1. PICK c : c = buf \o pipe
      OBVIOUS
    <3>2. c \in Seq(Byte)
      BY <1>2, <3>1, Joined
    <3>3. (c \o x) \o r = c \o (x \o r)
      BY <1>4, <2>2, <3>2, Joined
    <3> QED
      BY <3>1, <3>3
  <2> QED
    BY <2>2, <2>3, <2>4, <2>5 DEF Flight
<1>8. TypeOK'
  BY <1>1, <1>5 DEF Inv, TypeOK
<1> QED
  BY <1>1, <1>7, <1>8, SameFlight

LEMMA ReadStep ==
    ASSUME Inv, NEW n \in 1 .. Capacity, Read(n)
    PROVE  Inv'
<1>1. /\ n \in 1 .. need /\ n <= Len(pipe)
      /\ buf' = buf \o SubSeq(pipe, 1, n) /\ pipe' = SubSeq(pipe, n + 1, Len(pipe))
      /\ need' = need - n
      /\ UNCHANGED <<reader, got, writer, header, payload, sent>>
  BY DEF Read, sending
<1>2. /\ buf \in Seq(Byte) /\ pipe \in Seq(Byte) /\ need \in Nat
      /\ header \o payload \in Seq(Byte)
  BY FlightParts DEF Inv, TypeOK
<1>3. PICK x, y : x = SubSeq(pipe, 1, n) /\ y = SubSeq(pipe, n + 1, Len(pipe))
  OBVIOUS
<1>4. x \in Seq(Byte) /\ y \in Seq(Byte) /\ x \o y = pipe /\ Len(x) = n
  <2>1. n \in 0 .. Len(pipe)
    BY <1>1, <1>2
  <2> QED
    BY <1>2, <1>3, <2>1, Taken
<1>5. buf' \in Seq(Byte) /\ pipe' \in Seq(Byte) /\ Len(buf') = Len(buf) + n
  BY <1>1, <1>2, <1>3, <1>4, ConcatProperties
<1>6. need' \in Nat /\ Len(buf') + need' = Len(buf) + need
  BY <1>1, <1>2, <1>5
<1>7. Flight' = Flight
  <2>1. (buf \o x) \o y = buf \o (x \o y)
    BY <1>2, <1>4, Joined
  <2> QED
    BY <1>1, <1>3, <1>4, <2>1 DEF Flight
<1>8. TypeOK'
  BY <1>1, <1>5, <1>6 DEF Inv, TypeOK
<1> QED
  BY <1>1, <1>6, <1>7, <1>8, SameFlight

\* The message that is being received.
LEMMA Receiving ==
    ASSUME TypeOK, NEW f, Framed(f), InFlight(f), reader \in {"header", "payload"}, need = 0
    PROVE  LET k == Len(got) + 1
           IN  /\ k \in 1 .. Len(sent) /\ sent[k] \in Message /\ f[k + 1] \in Seq(Byte)
               /\ reader = "header" =>
                     /\ buf = ToBytes(Len(sent[k]))
                     /\ pipe \o (header \o payload) = sent[k] \o f[k + 1]
               /\ reader = "payload" =>
                     /\ Len(buf) = Len(sent[k]) % Limit
                     /\ buf \o (pipe \o (header \o payload)) = sent[k] \o f[k + 1]
<1>0. PICK k : k = Len(got) + 1
  OBVIOUS
<1>1. /\ Len(got) \in Nat /\ Len(sent) \in Nat /\ sent \in Seq(Message) /\ Len(buf) \in Nat
      /\ k \in 1 .. Len(sent) + 1 /\ buf \in Seq(Byte)
  BY <1>0 DEF TypeOK, InFlight
<1>2. PICK r : r = pipe \o (header \o payload)
  OBVIOUS
<1>3. r \in Seq(Byte) /\ Flight = buf \o r
  BY <1>2, FlightParts
<1>4. /\ \A i \in 1 .. Len(sent) + 1 : f[i] \in Seq(Byte)
      /\ f[Len(sent) + 1] = <<>>
      /\ \A i \in 1 .. Len(sent) : f[i] = Frame(sent[i]) \o f[i + 1]
  BY DEF Framed
<1>5. CASE reader = "header"
  <2>1. Len(buf) = HeaderSize /\ buf \o r = f[k] /\ HeaderSize \in Nat \ {0}
    BY <1>0, <1>1, <1>3, <1>5, Sizes DEF InFlight
  <2>2. k # Len(sent) + 1
    <3> SUFFICES ASSUME buf \o r = <<>> PROVE FALSE
      BY <1>4, <2>1
    <3>1. Len(buf \o r) = Len(buf) + Len(r) /\ Len(r) \in Nat /\ Len(<<>>) = 0
      BY <1>1, <1>3, ConcatProperties, LenProperties
    <3> QED
      BY <2>1, <3>1
  <2>3. k \in 1 .. Len(sent) /\ k + 1 \in 1 .. Len(sent) + 1
    BY <1>1, <2>2
  <2>4. sent[k] \in Message /\ f[k + 1] \in Seq(Byte)
    BY <1>1, <1>4, <2>3
  <2>5. PICK b, m : b = ToBytes(Len(sent[k])) /\ m = sent[k]
    OBVIOUS
  <2>6. b \in Seq(Byte) /\ Len(b) = HeaderSize /\ m \in Seq(Byte)
    BY <2>4, <2>5, Sizes, ToBytesType
  <2>7. f[k] = (b \o m) \o f[k + 1]
    BY <1>4, <2>3, <2>5 DEF Frame
  <2>8. PICK y : y = m \o f[k + 1]
    OBVIOUS
  <2>9. y \in Seq(Byte) /\ buf \o r = b \o y
    BY <2>1, <2>4, <2>6, <2>7, <2>8, Joined
  <2>10. buf = b /\ r = y
    <3>1. Len(buf) = Len(b) /\ Len(buf) <= Len(b)
      BY <2>1, <2>6
    <3> QED
      BY <1>1, <1>3, <2>6, <2>9, <3>1, TwoCuts
  <2> QED
    BY <1>0, <1>2, <1>5, <2>3, <2>4, <2>5, <2>8, <2>10
<1>6. CASE reader = "payload"
  <2>1. /\ k \in 1 .. Len(sent) /\ k + 1 = Len(got) + 2 /\ k + 1 \in 1 .. Len(sent) + 1
        /\ Len(buf) = Len(sent[k]) % Limit
        /\ buf \o r = sent[k] \o f[k + 1]
    <3>1. /\ Len(got) < Len(sent) /\ Len(buf) + 0 = Len(sent[Len(got) + 1]) % Limit
          /\ Flight = sent[Len(got) + 1] \o f[Len(got) + 2]
      BY <1>6 DEF InFlight
    <3>2. k \in 1 .. Len(sent) /\ k + 1 = Len(got) + 2 /\ k + 1 \in 1 .. Len(sent) + 1
      BY <1>0, <1>1, <3>1
    <3>3. Len(buf) + 0 = Len(buf)
      BY <1>1
    <3> QED
      BY <1>0, <1>3, <3>1, <3>2, <3>3
  <2>2. sent[k] \in Message /\ f[k + 1] \in Seq(Byte)
    BY <1>1, <1>4, <2>1
  <2> QED
    BY <1>0, <1>2, <1>6, <2>1, <2>2
<1> QED
  BY <1>5, <1>6

LEMMA HeaderStep ==
    ASSUME Inv, ReadHeader
    PROVE  Inv'
<1>1. /\ reader = "header" /\ need = 0 /\ reader' = "payload"
      /\ need' = FromBytes(buf) /\ buf' = <<>>
      /\ UNCHANGED <<got, writer, header, payload, sent, pipe>>
  BY DEF ReadHeader, sending
<1>2. TypeOK
  BY DEF Inv
<1>3. PICK f : Framed(f) /\ (reader \notin Failed => InFlight(f))
  BY DEF Inv
<1>4. PICK k : k = Len(got) + 1
  OBVIOUS
<1>5. ASSUME NEW g, Framed(g), InFlight(g)
      PROVE  InFlight(g)' /\ need' \in Nat
  <2>1. /\ k \in 1 .. Len(sent) /\ sent[k] \in Message /\ g[k + 1] \in Seq(Byte)
        /\ buf = ToBytes(Len(sent[k]))
        /\ pipe \o (header \o payload) = sent[k] \o g[k + 1]
    BY <1>1, <1>2, <1>4, <1>5, Receiving
  <2>2. Len(sent[k]) \in Nat /\ Limit \in Nat \ {0}
    BY <2>1, Sizes
  <2>3. need' = Len(sent[k]) % Limit
    BY <1>1, <2>1, <2>2, RoundTrip
  <2>4. need' \in Nat
    BY <2>2, <2>3, Remainder
  <2>5. Flight' = sent[k] \o g[k + 1]
    <3>1. <<>> \o pipe = pipe
      BY <1>2, Joined DEF TypeOK
    <3> QED
      BY <1>1, <2>1, <3>1 DEF Flight
  <2>6. Len(buf') + need' = Len(sent[k]) % Limit
    BY <1>1, <2>3, <2>4
  <2>7. Len(got) \in Nat /\ Len(sent) \in Nat
    BY <1>2 DEF TypeOK
  <2>8. k = Len(got) + 1 /\ k + 1 = Len(got) + 2 /\ Len(got) < Len(sent) /\ Len(got) <= Len(sent)
    BY <1>4, <2>1, <2>7
  <2> QED
    BY <1>1, <2>4, <2>5, <2>6, <2>8 DEF InFlight
<1>6. reader \notin Failed
  BY <1>1 DEF Failed
<1>7. TypeOK'
  <2>1. need' \in Nat
    BY <1>3, <1>5, <1>6
  <2>2. <<>> \in Seq(Byte)
    BY EmptySeq
  <2> QED
    BY <1>1, <1>2, <2>1, <2>2 DEF TypeOK
<1>8. GarbledOnlyByLength'
  BY <1>1 DEF GarbledOnlyByLength
<1> QED
  BY <1>1, <1>5, <1>6, <1>7, <1>8, SameMessages

\* A buffer decodes to the message it was meant for, and only when that one is
\* not too long for a header.
LEMMA DecodesSent ==
    ASSUME NEW m \in Message, NEW b \in Seq(Byte), NEW x \in Seq(Byte), NEW y \in Seq(Byte),
           b \o x = m \o y, Len(b) = Len(m) % Limit
    PROVE  /\ \A d \in Decode(b) : d = m /\ b = m /\ x = y
           /\ Len(m) < Limit => m \in Decode(b)
<1>1. /\ m \in Seq(Byte) /\ Len(m) \in Nat /\ Len(b) \in Nat /\ Limit \in Nat \ {0}
      /\ Len(b) <= Len(m) /\ (Len(m) < Limit => Len(b) = Len(m))
  <2>1. m \in Seq(Byte) /\ Len(m) \in Nat /\ Len(b) \in Nat /\ Limit \in Nat \ {0}
    BY Sizes, LenProperties
  <2> QED
    BY <2>1, Remainder
<1>2. IsPrefix(b, m) /\ (Len(b) = Len(m) => b = m /\ x = y)
  BY <1>1, TwoCuts
<1>3. ASSUME NEW d \in Decode(b) PROVE d = m /\ b = m /\ x = y
  <2>1. d \in Message /\ IsPrefix(d, b)
    BY DEF Decode
  <2>2. d \in Seq(Byte) /\ Len(d) \in Nat
    BY <2>1, Sizes
  <2>3. Len(d) <= Len(b) /\ \A i \in 1 .. Len(d) : d[i] = b[i]
    BY <2>1, <2>2, PrefixByItem
  <2>4. \A i \in 1 .. Len(b) : b[i] = m[i]
    BY <1>1, <1>2, PrefixByItem
  <2>5. Len(d) <= Len(m) /\ \A i \in 1 .. Len(d) : d[i] = m[i]
    BY <1>1, <2>2, <2>3, <2>4
  <2>6. IsPrefix(d, m)
    BY <1>1, <2>2, <2>5, PrefixByItem
  <2>7. d = m
    BY <2>1, <2>6, FramingAssumption
  <2>8. Len(b) = Len(m)
    BY <1>1, <2>3, <2>7
  <2> QED
    BY <1>2, <2>7, <2>8
<1>4. ASSUME Len(m) < Limit PROVE m \in Decode(b)
  <2>1. b = m
    BY <1>1, <1>2, <1>4
  <2>2. IsPrefix(m, m)
    BY <1>1, PrefixByItem
  <2> QED
    BY <2>1, <2>2 DEF Decode
<1> QED
  BY <1>3, <1>4

\* What recv_msg returns is the next message that was sent.
LEMMA RecvStep ==
    ASSUME Inv, RecvMsg
    PROVE  Inv' /\ Len(got) < Len(sent) /\ got' = Append(got, sent[Len(got) + 1])
<1>1. PICK m \in Decode(buf) : got' = Append(got, m)
  BY DEF RecvMsg
<1>2. /\ reader = "payload" /\ need = 0
      /\ reader' = "header" /\ need' = HeaderSize /\ buf' = <<>>
      /\ UNCHANGED <<writer, header, payload, sent, pipe>>
  BY DEF RecvMsg, sending
<1>3. TypeOK /\ reader \notin Failed
  BY <1>2 DEF Inv, Failed
<1>4. PICK k, r : k = Len(got) + 1 /\ r = pipe \o (header \o payload)
  OBVIOUS
<1>5. /\ r \in Seq(Byte) /\ buf \in Seq(Byte) /\ got \in Seq(Message)
      /\ Len(got) \in Nat /\ Len(sent) \in Nat
  BY <1>3, <1>4, FlightParts DEF TypeOK
<1>6. ASSUME NEW f, Framed(f), InFlight(f)
      PROVE  /\ k \in 1 .. Len(sent) /\ m = sent[k] /\ m \in Message
             /\ r = f[k + 1]
  <2>1. /\ k \in 1 .. Len(sent) /\ sent[k] \in Message /\ f[k + 1] \in Seq(Byte)
        /\ Len(buf) = Len(sent[k]) % Limit
        /\ buf \o r = sent[k] \o f[k + 1]
    BY <1>2, <1>3, <1>4, <1>6, Receiving
  <2>2. PICK c, y : c = sent[k] /\ y = f[k + 1]
    OBVIOUS
  <2>3. c \in Message /\ y \in Seq(Byte) /\ Len(buf) = Len(c) % Limit /\ buf \o r = c \o y
    BY <2>1, <2>2
  <2>4. m = c /\ r = y
    BY <1>1, <1>5, <2>3, DecodesSent
  <2> QED
    BY <2>1, <2>2, <2>4
<1>7. PICK f : Framed(f) /\ InFlight(f)
  BY <1>3 DEF Inv
<1>8. k \in 1 .. Len(sent) /\ m = sent[k] /\ m \in Message
  BY <1>6, <1>7
<1>9. /\ got' = Append(got, sent[Len(got) + 1]) /\ Len(got) < Len(sent)
      /\ got' \in Seq(Message) /\ Len(got') = k
  BY <1>1, <1>4, <1>5, <1>8
<1>10. TypeOK'
  <2>1. HeaderSize \in Nat /\ <<>> \in Seq(Byte)
    BY Sizes, EmptySeq
  <2> QED
    BY <1>2, <1>3, <1>9, <2>1 DEF TypeOK
<1>11. GarbledOnlyByLength'
  BY <1>2 DEF GarbledOnlyByLength
<1>12. ASSUME NEW g, Framed(g), InFlight(g) PROVE InFlight(g)'
  <2>1. r = g[k + 1]
    BY <1>6, <1>12
  <2>2. Flight' = r
    <3>1. <<>> \o pipe = pipe
      BY <1>3, Joined DEF TypeOK
    <3> QED
      BY <1>2, <1>4, <3>1 DEF Flight
  <2>3. Len(got') + 1 = k + 1 /\ Len(got') <= Len(sent)
    BY <1>5, <1>8, <1>9
  <2>4. Len(buf') + need' = HeaderSize
    BY <1>2, Sizes
  <2> QED
    BY <1>2, <2>1, <2>2, <2>3, <2>4 DEF InFlight
<1> QED
  BY <1>2, <1>3, <1>9, <1>10, <1>11, <1>12, SameMessages

\* A payload that is complete and no message is one that was cut short.
LEMMA DecodeFailsStep ==
    ASSUME Inv, DecodeFails
    PROVE  Inv'
<1>1. /\ reader = "payload" /\ need = 0 /\ Decode(buf) = {} /\ reader' = "garbled"
      /\ UNCHANGED <<need, buf, got, writer, header, payload, sent, pipe>>
  BY DEF DecodeFails, sending
<1>2. TypeOK /\ reader \notin Failed
  BY <1>1 DEF Inv, Failed
<1>3. PICK f : Framed(f) /\ InFlight(f)
  BY <1>2 DEF Inv
<1>4. PICK k, r : k = Len(got) + 1 /\ r = pipe \o (header \o payload)
  OBVIOUS
<1>5. /\ k \in 1 .. Len(sent) /\ sent[k] \in Message /\ f[k + 1] \in Seq(Byte)
      /\ Len(buf) = Len(sent[k]) % Limit
      /\ buf \o r = sent[k] \o f[k + 1]
  BY <1>1, <1>2, <1>3, <1>4, Receiving
<1>6. r \in Seq(Byte) /\ buf \in Seq(Byte)
  BY <1>2, <1>4, FlightParts DEF TypeOK
<1>7. ~(Len(sent[k]) < Limit)
  <2>1. PICK c, y : c = sent[k] /\ y = f[k + 1]
    OBVIOUS
  <2>2. c \in Message /\ y \in Seq(Byte) /\ Len(buf) = Len(c) % Limit /\ buf \o r = c \o y
    BY <1>5, <2>1
  <2>3. Len(c) < Limit => c \in Decode(buf)
    BY <1>6, <2>2, DecodesSent
  <2> QED
    BY <1>1, <2>1, <2>3
<1>8. Len(sent[k]) >= Limit /\ k \in DOMAIN sent
  <2>1. Len(sent[k]) \in Nat /\ Limit \in Nat
    BY <1>5, Sizes
  <2>2. DOMAIN sent = 1 .. Len(sent)
    BY <1>2 DEF TypeOK
  <2> QED
    BY <1>5, <1>7, <2>1, <2>2
<1>9. GarbledOnlyByLength'
  BY <1>1, <1>8 DEF GarbledOnlyByLength
<1>10. TypeOK'
  BY <1>1, <1>2 DEF TypeOK, Failed
<1>11. reader' \in Failed
  BY <1>1 DEF Failed
<1> QED
  BY <1>1, <1>9, <1>10, <1>11, SameMessages

\* The ends of both sides, and a stuttering step.
LEMMA EndSteps ==
    ASSUME Inv, WriteFails \/ DropWriter \/ ReadFails \/ Lose \/ UNCHANGED vars
    PROVE  Inv'
<1>1. CASE WriteFails \/ DropWriter \/ UNCHANGED vars
  <2>1. UNCHANGED <<header, payload, pipe, reader, need, buf, got, sent>>
    BY <1>1 DEF WriteFails, DropWriter, vars, sending, receiving
  <2>2. TypeOK'
    BY <1>1, <2>1 DEF WriteFails, DropWriter, vars, sending, Inv, TypeOK
  <2> QED
    BY <2>1, <2>2, SameFlight DEF Flight
<1>2. CASE ReadFails \/ Lose
  <2>1. /\ reader' \in {"ended", "lost"} /\ pipe' \in {pipe, <<>>}
        /\ UNCHANGED <<need, buf, got, writer, header, payload, sent>>
    BY <1>2 DEF ReadFails, Lose, sending
  <2>2. TypeOK'
    BY <2>1, EmptySeq DEF Inv, TypeOK, Failed
  <2>3. GarbledOnlyByLength'
    BY <2>1 DEF GarbledOnlyByLength
  <2>4. reader' \in Failed
    BY <2>1 DEF Failed
  <2> QED
    BY <2>1, <2>2, <2>3, <2>4, SameMessages
<1> QED
  BY <1>1, <1>2

LEMMA NextInv ==
    ASSUME Inv, [Next]_vars
    PROVE  Inv'
BY SendStep, WriteStep, ReadStep, HeaderStep, RecvStep, DecodeFailsStep, EndSteps
   DEF Next, Writer, Reader

LEMMA Invariance == Spec => []Inv
<1>1. Inv /\ [Next]_vars => Inv'
  BY NextInv
<1> QED
  BY InitInv, <1>1, PTL DEF Spec

-----------------------------------------------------------------------------
(* The theorems.                                                           *)

\* What is in the buffers and on the stream are bytes, what is still needed is
\* a number, and what was sent and returned are messages.
THEOREM TypeCorrect == Spec => []TypeOK
<1>1. Inv => TypeOK
  BY DEF Inv
<1> QED
  BY Invariance, <1>1, PTL

\* However the bytes were cut up, a payload fails to decode only after a
\* message whose length the header could not hold.
THEOREM GarbledOnlyByLengthCorrect == Spec => []GarbledOnlyByLength
<1>1. Inv => GarbledOnlyByLength
  BY DEF Inv
<1> QED
  BY Invariance, <1>1, PTL

\* Every step of the bytes is a step of the messages or none.
LEMMA StepMaps ==
    ASSUME Inv, [Next]_vars
    PROVE  [Stream!Send \/ Stream!Receive \/ Stream!Fail]_Stream!vars
<1>1. CASE \E m \in Message : SendMsg(m)
  BY <1>1 DEF SendMsg, receiving, Stream!Send
<1>2. CASE RecvMsg
  <2>1. reader \notin Failed /\ reader' \notin Failed /\ sent' = sent
    BY <1>2 DEF RecvMsg, Failed, sending
  <2>2. Len(got) < Len(sent) /\ got' = Append(got, sent[Len(got) + 1])
    BY <1>2, RecvStep
  <2>3. (reader' \in Failed) = (reader \in Failed)
    BY <2>1
  <2> QED
    BY <2>1, <2>2, <2>3 DEF Stream!Receive
<1>3. CASE DecodeFails \/ ReadFails \/ Lose
  <2>1. reader' \in Failed /\ UNCHANGED <<sent, got>>
    BY <1>3 DEF DecodeFails, ReadFails, Lose, Failed, sending
  <2>2. (reader' \in Failed) = TRUE
    BY <2>1
  <2> QED
    BY <2>1, <2>2 DEF Stream!Fail
<1>4. CASE \/ \E n \in 1 .. Capacity : Write(n) \/ Read(n)
           \/ WriteFails \/ DropWriter \/ ReadHeader \/ UNCHANGED vars
  <2>1. UNCHANGED <<sent, got>>
    BY <1>4 DEF Write, Read, WriteFails, DropWriter, ReadHeader, vars, sending, receiving
  <2>2. reader' = reader \/ (reader = "header" /\ reader' = "payload")
    BY <1>4 DEF Write, Read, WriteFails, DropWriter, ReadHeader, vars, receiving
  <2>3. (reader' \in Failed) = (reader \in Failed)
    BY <2>2 DEF Failed
  <2> QED
    BY <2>1, <2>3 DEF Stream!vars
<1> QED
  BY <1>1, <1>2, <1>3, <1>4 DEF Next, Writer, Reader

\* For any messages, in pieces of any size and through ends at any byte:
\* recv_msg returns the messages that were sent, whole, in order and once
\* each, and nothing once it has failed.
THEOREM ImplementsStreamCorrect == Spec => ImplementsStream
<1>1. Init => Stream!Init
  BY DEF Init, Stream!Init, Failed
<1>2. Inv /\ [Next]_vars => [Stream!Send \/ Stream!Receive \/ Stream!Fail]_Stream!vars
  BY StepMaps
<1> QED
  BY <1>1, <1>2, Invariance, PTL DEF Spec, ImplementsStream, Stream!Spec
=============================================================================
