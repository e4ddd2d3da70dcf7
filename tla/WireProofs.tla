------------------------------ MODULE WireProofs ------------------------------
(***************************************************************************)
(* Proofs about what an accepted request goes through on its way to the    *)
(* shim (RequestWire, RequestChecks, SinkScratch): laid out in empty       *)
(* buffers, every list, tensor and structure of it is read back as it was  *)
(* meant, and the shim refuses nothing of it; a sink laid out in an empty  *)
(* scratch is what the shim finds there.  For every request of the types   *)
(* of request.rs.                                                          *)
(*                                                                         *)
(* Lists are joined, and dimensions multiplied, step by step: the steps    *)
(* are given by a function, and what they lead to is proved by a least     *)
(* counterexample (LeastElement, SetInduction).                            *)
(***************************************************************************)
EXTENDS RequestRun, SequenceTheorems, WellFoundedInduction, TLAPS

(* The lists of r in empty buffers, and what the shim reads of r then.      *)
Laid(r) == Filled(EmptyBuffers, r)
Wired(r) == Encoded(r, Profile, Laid(r))
ReadAlone(r) == RequestRead(Wired(r), Laid(r))

(* The order of the numbers, as a relation.                                 *)
LEMMA LessWellFounded ==
    \E R : IsWellFoundedOn(R, Nat) /\ \A i, j \in Nat : <<i, j>> \in R <=> i < j
<1>1. IsWellFoundedOn(OpToRel(<, Nat), Nat)
  BY NatLessThanWellFounded
<1>2. \A i, j \in Nat : <<i, j>> \in OpToRel(<, Nat) <=> i < j
  BY DEF OpToRel
<1> QED BY <1>1, <1>2

(* A set of numbers that is not empty has an element with none before it.   *)
LEMMA MinimalElement ==
    ASSUME NEW R, IsWellFoundedOn(R, Nat), NEW S \in SUBSET Nat, S # {}
    PROVE  \E x \in S : \A y \in S : ~ (<<y, x>> \in R)
<1>1. S \subseteq Nat
  OBVIOUS
<1> QED BY <1>1, WFMin

(* It has a least element: what induction comes to here, where no theorem   *)
(* with an operator for a parameter can be used.                            *)
LEMMA LeastElement ==
    ASSUME NEW S \in SUBSET Nat, S # {}
    PROVE  \E x \in S : \A y \in S : x <= y
<1>1. PICK R : IsWellFoundedOn(R, Nat) /\ \A i, j \in Nat : <<i, j>> \in R <=> i < j
  BY LessWellFounded
<1>2. PICK x \in S : \A y \in S : ~ (<<y, x>> \in R)
  <2>1. IsWellFoundedOn(R, Nat)
    BY <1>1
  <2> QED BY <2>1, MinimalElement
<1>3. ASSUME NEW y \in S PROVE x <= y
  <2>1. x \in Nat /\ y \in Nat
    OBVIOUS
  <2>2. ~ (y < x)
    BY <1>1, <1>2, <2>1
  <2> QED BY <2>1, <2>2
<1> QED BY <1>3

(* A set of numbers that has 0 and the successor of each of its elements    *)
(* has all of them.                                                         *)
LEMMA SetInduction ==
    ASSUME NEW S, 0 \in S, \A n \in Nat : n \in S => n + 1 \in S
    PROVE  Nat \subseteq S
<1> SUFFICES ASSUME ~ (Nat \subseteq S) PROVE FALSE
  OBVIOUS
<1> DEFINE T == Nat \ S
<1>1. T \in SUBSET Nat /\ T # {}
  OBVIOUS
<1>2. PICK m \in T : \A k \in T : m <= k
  <2> HIDE DEF T
  <2> QED BY <1>1, LeastElement
<1>3. m # 0 /\ m \in Nat
  OBVIOUS
<1>4. m - 1 \in Nat /\ ~ (m - 1 \in T)
  BY <1>2, <1>3
<1>5. m - 1 \in S
  BY <1>4
<1>6. m - 1 + 1 \in S
  BY <1>4, <1>5
<1> QED BY <1>3, <1>6

(* The largest number of a set of positions.                                *)
LEMMA LargestPosition ==
    ASSUME NEW k \in Nat, NEW S \in SUBSET (1 .. k + 1), k + 1 \in S
    PROVE  Max(S) = k + 1
<1>1. k + 1 \in S /\ \A y \in S : k + 1 >= y
  OBVIOUS
<1>2. ASSUME NEW x \in S, \A y \in S : x >= y PROVE x = k + 1
  BY <1>1, <1>2
<1> QED BY <1>1, <1>2 DEF Max

(* The products of the dimensions at positions up to k.                     *)
Multiplied(dims, k, it) ==
    it = [s \in SUBSET (1 .. k) |->
             IF s = {} THEN 1 ELSE it[s \ {Max(s)}] * dims[Max(s)]]

(* There are such products for every list of dimensions.                    *)
LEMMA ProductsExist ==
    ASSUME NEW dims
    PROVE  \A k \in Nat : \E it : Multiplied(dims, k, it)
<1> DEFINE Has == {k \in Nat : \E it : Multiplied(dims, k, it)}
<1>1. 0 \in Has
  <2> DEFINE it == [s \in SUBSET (1 .. 0) |-> 1]
  <2>1. \A s \in SUBSET (1 .. 0) : s = {}
    OBVIOUS
  <2>2. Multiplied(dims, 0, it)
    BY <2>1 DEF Multiplied
  <2> QED BY <2>2
<1>2. ASSUME NEW k \in Nat, k \in Has PROVE k + 1 \in Has
  <2>1. PICK it : Multiplied(dims, k, it)
    BY <1>2
  <2> DEFINE next == [s \in SUBSET (1 .. k + 1) |->
                         IF k + 1 \in s THEN it[s \ {k + 1}] * dims[k + 1] ELSE it[s]]
  <2>2. ASSUME NEW s \in SUBSET (1 .. k + 1)
        PROVE  next[s] = IF s = {} THEN 1 ELSE next[s \ {Max(s)}] * dims[Max(s)]
    <3>1. CASE k + 1 \in s
      <4>1. Max(s) = k + 1
        BY <3>1, LargestPosition
      <4>2. s \ {k + 1} \in SUBSET (1 .. k + 1) /\ k + 1 \notin s \ {k + 1}
        OBVIOUS
      <4>3. next[s \ {k + 1}] = it[s \ {k + 1}]
        BY <4>2
      <4> QED BY <3>1, <4>1, <4>3
    <3>2. CASE s = {}
      <4>1. s \in SUBSET (1 .. k)
        BY <3>2
      <4>2. it[s] = 1
        BY <2>1, <3>2, <4>1 DEF Multiplied
      <4> QED BY <3>2, <4>2
    <3>3. CASE k + 1 \notin s /\ s # {}
      <4>1. s \in SUBSET (1 .. k)
        BY <3>3
      <4>2. it[s] = it[s \ {Max(s)}] * dims[Max(s)]
        BY <2>1, <3>3, <4>1 DEF Multiplied
      <4>3. s \ {Max(s)} \in SUBSET (1 .. k + 1) /\ k + 1 \notin s \ {Max(s)}
        BY <3>3
      <4> QED BY <3>3, <4>2, <4>3
    <3> QED BY <3>1, <3>2, <3>3
  <2>3. Multiplied(dims, k + 1, next)
    BY <2>2 DEF Multiplied
  <2> HIDE DEF next
  <2> QED BY <2>3
<1> HIDE DEF Has
<1>3. Nat \subseteq Has
  BY <1>1, <1>2, SetInduction
<1> QED BY <1>3 DEF Has

(* Product is the last of them.                                             *)
LEMMA ProductIsFold ==
    ASSUME NEW dims, NEW S, dims \in Seq(S)
    PROVE  \E it : Multiplied(dims, Len(dims), it) /\ Product(dims) = it[1 .. Len(dims)]
<1>1. DOMAIN dims = 1 .. Len(dims) /\ Len(dims) \in Nat
  OBVIOUS
<1>2. \E it : Multiplied(dims, Len(dims), it)
  BY <1>1, ProductsExist
<1> QED BY <1>1, <1>2 DEF Product, FoldLeft, MapThenFoldSet, Multiplied

(* The product of numbers is one; of one number it is that number.          *)
LEMMA ProductOfNumbers ==
    ASSUME NEW dims \in Seq(Int)
    PROVE  Product(dims) \in Int
<1>1. PICK it : Multiplied(dims, Len(dims), it) /\ Product(dims) = it[1 .. Len(dims)]
  BY ProductIsFold
<1> DEFINE n == Len(dims)
           Has == {k \in Nat : k <= n => \A s \in SUBSET (1 .. k) : it[s] \in Int}
<1>2. n \in Nat /\ \A i \in 1 .. n : dims[i] \in Int
  OBVIOUS
<1>3. it[{}] = 1
  BY <1>1 DEF Multiplied
<1>4. 0 \in Has
  <2>1. \A s \in SUBSET (1 .. 0) : s = {}
    OBVIOUS
  <2>2. ASSUME NEW s \in SUBSET (1 .. 0) PROVE it[s] \in Int
    <3>1. s = {}
      BY <2>1
    <3>2. it[s] = 1
      BY <1>3, <3>1
    <3> QED BY <3>2
  <2> QED BY <2>2
<1>5. ASSUME NEW k \in Nat, k \in Has PROVE k + 1 \in Has
  <2> SUFFICES ASSUME k + 1 <= n, NEW s \in SUBSET (1 .. k + 1) PROVE it[s] \in Int
    OBVIOUS
  <2>1. CASE k + 1 \in s
    <3>1. Max(s) = k + 1
      BY <2>1, LargestPosition
    <3>2. s \in SUBSET (1 .. n) /\ s # {}
      BY <1>2, <2>1
    <3>3. it[s] = it[s \ {k + 1}] * dims[k + 1]
      BY <1>1, <3>1, <3>2 DEF Multiplied
    <3>4. it[s \ {k + 1}] \in Int
      <4>1. s \ {k + 1} \in SUBSET (1 .. k)
        OBVIOUS
      <4>2. k <= n
        BY <1>2
      <4> QED BY <1>5, <4>1, <4>2
    <3>5. dims[k + 1] \in Int
      BY <1>2
    <3> HIDE DEF n
    <3> QED BY <3>3, <3>4, <3>5
  <2>2. CASE k + 1 \notin s
    <3>1. s \in SUBSET (1 .. k)
      BY <2>2
    <3>2. k <= n
      BY <1>2
    <3> QED BY <1>5, <3>1, <3>2
  <2> QED BY <2>1, <2>2
<1>6. n \in Has
  <2> HIDE DEF Has
  <2>1. Nat \subseteq Has
    BY <1>4, <1>5, SetInduction
  <2> QED BY <1>2, <2>1
<1> QED BY <1>1, <1>2, <1>6

(* The product of one number is that number.                                *)
LEMMA ProductOfOne ==
    ASSUME NEW n \in Int
    PROVE  Product(<<n>>) = n
<1> DEFINE dims == <<n>>
<1>1. dims \in Seq(Int) /\ Len(dims) = 1 /\ dims[1] = n
  OBVIOUS
<1> HIDE DEF dims
<1>2. PICK it : Multiplied(dims, 1, it) /\ Product(dims) = it[1 .. 1]
  BY <1>1, ProductIsFold
<1>3. Max(1 .. 1) = 1
  <2>1. 1 .. 1 \in SUBSET (1 .. 0 + 1) /\ 0 + 1 \in 1 .. 1
    OBVIOUS
  <2> QED BY <2>1, LargestPosition
<1>4. it[{}] = 1
  BY <1>2 DEF Multiplied
<1>5. it[1 .. 1] = it[(1 .. 1) \ {1}] * dims[1]
  <2>1. 1 .. 1 # {} /\ 1 .. 1 \in SUBSET (1 .. 1)
    OBVIOUS
  <2> QED BY <1>2, <1>3, <2>1 DEF Multiplied
<1>6. (1 .. 1) \ {1} = {}
  OBVIOUS
<1>7. it[1 .. 1] = 1 * n
  BY <1>1, <1>4, <1>5, <1>6
<1>8. Product(dims) = n
  BY <1>2, <1>7
<1> QED BY <1>8 DEF dims

-----------------------------------------------------------------------------
(* Concatenation, and the function by which FlattenSeq is defined.          *)
Joined(a, b) == a \o b

Flattening(seqs, n, it) ==
    it = [i \in 1 .. n |-> IF i = 1 THEN seqs[i] ELSE Joined(it[i - 1], seqs[i])]

(* FlattenSeq is the last element of it.                                    *)
LEMMA FlattenIsFold ==
    ASSUME NEW seqs, NEW n, n = Len(seqs), n # 0, NEW it, Flattening(seqs, n, it)
    PROVE  \E f : Flattening(seqs, n, f) /\ FlattenSeq(seqs) = f[n]
  BY DEF FlattenSeq, Flattening, Joined

(* What is joined of a list of lists before each of them, and at the end.   *)
Joining(seqs, k, it) ==
    it = [i \in 0 .. k |-> IF i = 0 THEN <<>> ELSE Joined(it[i - 1], seqs[i])]

(* Every list of lists is joined step by step.                              *)
LEMMA JoinsExist ==
    ASSUME NEW seqs
    PROVE  \A k \in Nat : \E it : Joining(seqs, k, it)
<1> DEFINE Has == {k \in Nat : \E it : Joining(seqs, k, it)}
<1>1. 0 \in Has
  <2> DEFINE it == [i \in 0 .. 0 |-> <<>>]
  <2>1. \A i \in 0 .. 0 : i = 0
    OBVIOUS
  <2>2. Joining(seqs, 0, it)
    BY <2>1 DEF Joining
  <2> QED BY <2>2
<1>2. ASSUME NEW k \in Nat, k \in Has PROVE k + 1 \in Has
  <2>1. PICK it : Joining(seqs, k, it)
    BY <1>2
  <2> DEFINE next == [i \in 0 .. k + 1 |->
                         IF i = k + 1 THEN Joined(it[k], seqs[k + 1]) ELSE it[i]]
  <2>2. ASSUME NEW i \in 0 .. k + 1
        PROVE  next[i] = IF i = 0 THEN <<>> ELSE Joined(next[i - 1], seqs[i])
    <3>1. CASE i = k + 1
      <4>1. next[k] = it[k]
        OBVIOUS
      <4> QED BY <3>1, <4>1
    <3>2. CASE i # k + 1
      <4>1. i \in 0 .. k /\ next[i] = it[i]
        BY <3>2
      <4>2. i # 0 => i - 1 \in 0 .. k + 1 /\ i - 1 # k + 1
        BY <4>1
      <4>3. i # 0 => next[i - 1] = it[i - 1]
        BY <4>2
      <4>4. it[i] = IF i = 0 THEN <<>> ELSE Joined(it[i - 1], seqs[i])
        BY <2>1, <4>1 DEF Joining
      <4> QED BY <4>1, <4>3, <4>4
    <3> QED BY <3>1, <3>2
  <2>3. Joining(seqs, k + 1, next)
    BY <2>2 DEF Joining
  <2> HIDE DEF next
  <2> QED BY <2>3
<1> HIDE DEF Has
<1>3. Nat \subseteq Has
  BY <1>1, <1>2, SetInduction
<1> QED BY <1>3 DEF Has

(* Each step adds one part at the end.                                      *)
LEMMA JoinSteps ==
    ASSUME NEW seqs, NEW n \in Nat, NEW it, Joining(seqs, n, it)
    PROVE  it[0] = <<>> /\ \A i \in 1 .. n : it[i] = Joined(it[i - 1], seqs[i])
<1>1. ASSUME NEW i \in 0 .. n
      PROVE  it[i] = IF i = 0 THEN <<>> ELSE Joined(it[i - 1], seqs[i])
  BY DEF Joining
<1>2. 0 \in 0 .. n /\ \A i \in 1 .. n : i \in 0 .. n /\ i # 0
  OBVIOUS
<1>3. it[0] = <<>>
  BY <1>1, <1>2, Zenon
<1>4. \A i \in 1 .. n : it[i] = Joined(it[i - 1], seqs[i])
  BY <1>1, <1>2, Zenon
<1> QED BY <1>3, <1>4

(* What is joined of lists over a set are lists over it.                    *)
LEMMA JoinTyped ==
    ASSUME NEW S, NEW seqs \in Seq(Seq(S)), NEW n, n = Len(seqs),
           NEW it, Joining(seqs, n, it)
    PROVE  it \in [0 .. n -> Seq(S)]
<1> DEFINE Has == {k \in Nat : k <= n => it[k] \in Seq(S)}
<1>1. n \in Nat /\ \A i \in 1 .. n : seqs[i] \in Seq(S)
  OBVIOUS
<1>2. 0 \in Has
  <2>1. it[0] = <<>> /\ <<>> \in Seq(S)
    BY <1>1, JoinSteps
  <2> QED BY <2>1
<1>3. ASSUME NEW k \in Nat, k \in Has PROVE k + 1 \in Has
  <2> SUFFICES ASSUME k + 1 <= n PROVE it[k + 1] \in Seq(S)
    OBVIOUS
  <2>1. it[k] \in Seq(S)
    BY <1>1, <1>3
  <2>2. seqs[k + 1] \in Seq(S)
    BY <1>1
  <2>3. k + 1 \in 1 .. n /\ k + 1 - 1 = k
    BY <1>1
  <2>4. it[k + 1] = Joined(it[k], seqs[k + 1])
    BY <1>1, <2>3, JoinSteps
  <2> QED BY <2>1, <2>2, <2>4, ConcatProperties DEF Joined
<1>4. Nat \subseteq Has
  <2> HIDE DEF Has
  <2> QED BY <1>2, <1>3, SetInduction
<1>5. \A i \in 0 .. n : it[i] \in Seq(S)
  BY <1>1, <1>4
<1>6. it = [i \in 0 .. n |-> it[i]]
  BY DEF Joining
<1> QED BY <1>5, <1>6

(* Joining a list of lists is joining its parts one after the other.        *)
LEMMA FlattenIsJoin ==
    ASSUME NEW S, NEW seqs \in Seq(Seq(S)), NEW n, n = Len(seqs),
           NEW it, Joining(seqs, n, it)
    PROVE  FlattenSeq(seqs) = it[n]
<1>1. n \in Nat /\ it \in [0 .. n -> Seq(S)]
  BY JoinTyped
<1>2. it[0] = <<>> /\ \A i \in 1 .. n : it[i] = Joined(it[i - 1], seqs[i])
  BY <1>1, JoinSteps
<1>3. CASE n = 0
  <2>1. FlattenSeq(seqs) = seqs
    BY <1>3 DEF FlattenSeq
  <2>2. seqs = <<>>
    BY <1>3, EmptySeq
  <2> QED BY <1>2, <1>3, <2>1, <2>2
<1>4. CASE n # 0
  <2> DEFINE f0 == [i \in 1 .. n |-> it[i]]
  <2>1. it[1] = seqs[1]
    <3>1. 1 \in 1 .. n /\ 1 - 1 = 0 /\ seqs[1] \in Seq(S)
      BY <1>1, <1>4
    <3>2. it[1] = Joined(<<>>, seqs[1])
      BY <1>2, <3>1, Zenon
    <3> QED BY <3>1, <3>2 DEF Joined
  <2>2. ASSUME NEW i \in 1 .. n
        PROVE  f0[i] = IF i = 1 THEN seqs[i] ELSE Joined(f0[i - 1], seqs[i])
    <3>1. CASE i = 1
      BY <2>1, <3>1
    <3>2. CASE i # 1
      <4>1. i - 1 \in 1 .. n
        BY <1>1, <3>2
      <4> QED BY <1>2, <3>2, <4>1
    <3> QED BY <3>1, <3>2
  <2>3. Flattening(seqs, n, f0)
    BY <2>2 DEF Flattening
  <2> HIDE DEF f0
  <2>4. PICK f : Flattening(seqs, n, f) /\ FlattenSeq(seqs) = f[n]
    BY <1>4, <2>3, FlattenIsFold
  <2>11. ASSUME NEW i \in 1 .. n
         PROVE  f[i] = IF i = 1 THEN seqs[i] ELSE Joined(f[i - 1], seqs[i])
    BY <2>4 DEF Flattening
  <2> DEFINE Has == {k \in Nat : k + 1 <= n => f[k + 1] = it[k + 1]}
  <2>5. 0 \in Has
    <3>1. f[1] = seqs[1]
      BY <1>1, <1>4, <2>4 DEF Flattening
    <3> QED BY <2>1, <3>1
  <2>6. ASSUME NEW k \in Nat, k \in Has PROVE k + 1 \in Has
    <3> SUFFICES ASSUME k + 2 <= n PROVE f[k + 2] = it[k + 2]
      OBVIOUS
    <3>1. k + 2 \in 1 .. n /\ k + 2 # 1 /\ k + 2 - 1 = k + 1
      BY <1>1
    <3>2. f[k + 2] = Joined(f[k + 1], seqs[k + 2])
      <4>1. f[k + 2] = IF k + 2 = 1 THEN seqs[k + 2] ELSE Joined(f[k + 2 - 1], seqs[k + 2])
        BY <2>11, <3>1
      <4> QED BY <3>1, <4>1
    <3>3. it[k + 2] = Joined(it[k + 1], seqs[k + 2])
      <4>1. it[k + 2] = Joined(it[k + 2 - 1], seqs[k + 2])
        BY <1>2, <3>1
      <4> QED BY <3>1, <4>1
    <3>4. f[k + 1] = it[k + 1]
      BY <1>1, <2>6
    <3> QED BY <3>2, <3>3, <3>4
  <2>7. Nat \subseteq Has
    <3> HIDE DEF Has
    <3> QED BY <2>5, <2>6, SetInduction
  <2>8. n - 1 \in Nat /\ n - 1 + 1 = n
    BY <1>1, <1>4
  <2>9. n - 1 \in Has
    BY <2>7, <2>8
  <2>10. f[n] = it[n]
    BY <1>1, <2>8, <2>9
  <2> QED BY <2>4, <2>10
<1> QED BY <1>3, <1>4

(* The first elements of a list.                                            *)
LEMMA PrefixOf ==
    ASSUME NEW S, NEW seqs \in Seq(S), NEW m \in 0 .. Len(seqs)
    PROVE  /\ SubSeq(seqs, 1, m) \in Seq(S)
           /\ Len(SubSeq(seqs, 1, m)) = m
           /\ \A i \in 1 .. m : SubSeq(seqs, 1, m)[i] = seqs[i]
<1>1. \A i \in 1 .. m : seqs[i] \in S
  OBVIOUS
<1>2. m \in Int /\ 1 \in Int
  OBVIOUS
<1>3. /\ SubSeq(seqs, 1, m) \in Seq(S)
      /\ Len(SubSeq(seqs, 1, m)) = IF 1 <= m THEN m - 1 + 1 ELSE 0
      /\ \A i \in 1 .. m - 1 + 1 : SubSeq(seqs, 1, m)[i] = seqs[1 + i - 1]
  BY <1>1, <1>2, SubSeqProperties
<1>4. Len(SubSeq(seqs, 1, m)) = m
  BY <1>3
<1>5. \A i \in 1 .. m : SubSeq(seqs, 1, m)[i] = seqs[i]
  BY <1>3
<1> QED BY <1>3, <1>4, <1>5

(* Joining a prefix is what was joined by then.                             *)
LEMMA FlattenPrefix ==
    ASSUME NEW S, NEW seqs \in Seq(Seq(S)), NEW n, n = Len(seqs),
           NEW it, Joining(seqs, n, it), NEW m \in 0 .. n
    PROVE  FlattenSeq(SubSeq(seqs, 1, m)) = it[m]
<1> DEFINE p == SubSeq(seqs, 1, m)
           jt == [i \in 0 .. m |-> it[i]]
<1>1. n \in Nat /\ m \in Nat
  OBVIOUS
<1>2. p \in Seq(Seq(S)) /\ Len(p) = m /\ \A i \in 1 .. m : p[i] = seqs[i]
  BY PrefixOf
<1>3. it[0] = <<>> /\ \A i \in 1 .. n : it[i] = Joined(it[i - 1], seqs[i])
  BY <1>1, JoinSteps
<1> HIDE DEF p
<1>4. ASSUME NEW i \in 0 .. m
      PROVE  jt[i] = IF i = 0 THEN <<>> ELSE Joined(jt[i - 1], p[i])
  <2>1. CASE i = 0
    BY <1>3, <2>1
  <2>2. CASE i # 0
    <3>1. i - 1 \in 0 .. m /\ i \in 1 .. m /\ i \in 1 .. n
      BY <1>1, <2>2
    <3> QED BY <1>2, <1>3, <2>2, <3>1
  <2> QED BY <2>1, <2>2
<1>5. Joining(p, m, jt)
  BY <1>4 DEF Joining
<1>6. FlattenSeq(p) = jt[m]
  <2> HIDE DEF jt
  <2> QED BY <1>2, <1>5, FlattenIsJoin
<1>7. jt[m] = it[m]
  BY <1>1
<1> QED BY <1>6, <1>7 DEF p

(* An element of a list or of a function, kept closed where its index and   *)
(* its length would meet in one obligation.                                 *)
Nth(f, i) == f[i]

(* A step keeps what was joined, and puts the next part right after it.     *)
LEMMA JoinStep ==
    ASSUME NEW S, NEW seqs \in Seq(Seq(S)), NEW n, n = Len(seqs),
           NEW it, Joining(seqs, n, it), NEW k \in Nat, NEW m, m = k + 1, m <= n
    PROVE  /\ Nth(it, k) \in Seq(S) /\ Nth(it, m) \in Seq(S) /\ Nth(seqs, m) \in Seq(S)
           /\ Len(Nth(it, m)) = Len(Nth(it, k)) + Len(Nth(seqs, m))
           /\ \A j \in 1 .. Len(Nth(it, k)) : Nth(it, m)[j] = Nth(it, k)[j]
           /\ \A j \in 1 .. Len(Nth(seqs, m)) :
                  Nth(it, m)[Len(Nth(it, k)) + j] = Nth(seqs, m)[j]
<1>1. n \in Nat /\ it \in [0 .. n -> Seq(S)] /\ \A i \in 1 .. n : seqs[i] \in Seq(S)
  BY JoinTyped
<1>2. \A i \in 1 .. n : it[i] = Joined(it[i - 1], seqs[i])
  BY <1>1, JoinSteps
<1>3. k \in 0 .. n /\ m \in 1 .. n /\ m \in 0 .. n /\ m - 1 = k
  BY <1>1
<1> DEFINE a == Nth(it, k)
           b == Nth(seqs, m)
           c == Nth(it, m)
<1>4. a \in Seq(S) /\ b \in Seq(S) /\ c = Joined(a, b)
  <2>1. it[m] = Joined(it[m - 1], seqs[m])
    BY <1>2, <1>3
  <2> QED BY <1>1, <1>3, <2>1 DEF Nth
<1>5. /\ c \in Seq(S) /\ Len(c) = Len(a) + Len(b)
      /\ \A j \in 1 .. Len(a) : c[j] = a[j]
      /\ \A j \in 1 .. Len(b) : c[Len(a) + j] = b[j]
  <2> HIDE DEF a, b, c
  <2>1. c \in Seq(S) /\ Len(c) = Len(a) + Len(b)
    BY <1>4 DEF Joined
  <2>2. \A j \in 1 .. Len(a) : c[j] = a[j]
    BY <1>4 DEF Joined
  <2>3. \A j \in 1 .. Len(b) : c[Len(a) + j] = b[j]
    BY <1>4 DEF Joined
  <2> QED BY <2>1, <2>2, <2>3
<1> QED BY <1>4, <1>5

(* What was joined stays where it is.                                       *)
LEMMA JoinGrows ==
    ASSUME NEW S, NEW seqs \in Seq(Seq(S)), NEW n, n = Len(seqs),
           NEW it, Joining(seqs, n, it), NEW i \in 0 .. n
    PROVE  /\ Len(Nth(it, i)) <= Len(Nth(it, n))
           /\ \A j \in 1 .. Len(Nth(it, i)) : Nth(it, n)[j] = Nth(it, i)[j]
<1>1. n \in Nat /\ it \in [0 .. n -> Seq(S)]
  BY JoinTyped
<1> DEFINE Keeps(k) == /\ Len(Nth(it, i)) <= Len(Nth(it, k))
                       /\ \A j \in 1 .. Len(Nth(it, i)) : Nth(it, k)[j] = Nth(it, i)[j]
           Has == {d \in Nat : i + d <= n => Keeps(i + d)}
<1>2. Len(Nth(it, i)) \in Nat
  BY <1>1 DEF Nth
<1>3. 0 \in Has
  <2>1. i + 0 = i
    BY <1>1
  <2>2. Keeps(i)
    BY <1>2
  <2> HIDE DEF Keeps
  <2> QED BY <2>1, <2>2
<1>4. ASSUME NEW k \in Nat, NEW m, m = k + 1, m <= n, Keeps(k) PROVE Keeps(m)
  <2>1. /\ Nth(it, k) \in Seq(S) /\ Nth(seqs, m) \in Seq(S)
        /\ Len(Nth(it, m)) = Len(Nth(it, k)) + Len(Nth(seqs, m))
        /\ \A j \in 1 .. Len(Nth(it, k)) : Nth(it, m)[j] = Nth(it, k)[j]
    <3>1. m = k + 1
      BY <1>4
    <3>2. m <= n
      BY <1>4
    <3> HIDE DEF Keeps, Has
    <3> QED BY <3>1, <3>2, JoinStep
  <2>2. Len(Nth(it, k)) \in Nat /\ Len(Nth(seqs, m)) \in Nat
    BY <2>1
  <2>3. Len(Nth(it, i)) <= Len(Nth(it, m))
    BY <1>2, <1>4, <2>1, <2>2
  <2>4. ASSUME NEW j \in 1 .. Len(Nth(it, i)) PROVE Nth(it, m)[j] = Nth(it, i)[j]
    <3>1. j \in 1 .. Len(Nth(it, k))
      BY <1>2, <1>4, <2>2
    <3> QED BY <1>4, <2>1, <3>1
  <2> QED BY <2>3, <2>4
<1>5. ASSUME NEW d \in Nat, d \in Has PROVE d + 1 \in Has
  <2> HIDE DEF Keeps
  <2> SUFFICES ASSUME i + (d + 1) <= n PROVE Keeps(i + (d + 1))
    BY DEF Has
  <2>1. i + d \in Nat /\ i + (d + 1) = i + d + 1 /\ i + d <= n
    BY <1>1
  <2>2. Keeps(i + d)
    BY <1>5, <2>1 DEF Has
  <2> QED BY <1>4, <2>1, <2>2
<1>6. Nat \subseteq Has
  <2> HIDE DEF Has
  <2> QED BY <1>3, <1>5, SetInduction
<1>7. n - i \in Nat /\ i + (n - i) = n /\ n <= n
  BY <1>1
<1>8. Keeps(n)
  <2>1. n - i \in Has
    BY <1>6, <1>7
  <2> HIDE DEF Keeps
  <2> QED BY <1>1, <1>7, <2>1
<1> QED BY <1>8

(* How long the first i of a list of lists are together.                    *)
End(seqs, i) == Len(FlattenSeq(SubSeq(seqs, 1, i)))
Between(list, from, to) == SubSeq(list, from + 1, to)

(* A joined list is over the set of its parts, and no part ends after it.   *)
LEMMA EndsOfParts ==
    ASSUME NEW S, NEW seqs \in Seq(Seq(S)), NEW n, n = Len(seqs)
    PROVE  /\ FlattenSeq(seqs) \in Seq(S)
           /\ End(seqs, 0) = 0 /\ End(seqs, n) = Len(FlattenSeq(seqs))
           /\ \A i \in 0 .. n : End(seqs, i) \in Nat /\ End(seqs, i) <= End(seqs, n)
<1>1. n \in Nat
  OBVIOUS
<1>2. PICK it : Joining(seqs, n, it)
  BY <1>1, JoinsExist
<1>3. it \in [0 .. n -> Seq(S)] /\ it[0] = <<>>
  BY <1>1, <1>2, JoinTyped, JoinSteps
<1>4. ASSUME NEW i \in 0 .. n PROVE End(seqs, i) = Len(Nth(it, i)) /\ Nth(it, i) \in Seq(S)
  BY <1>2, <1>3, FlattenPrefix DEF End, Nth
<1>5. FlattenSeq(seqs) = Nth(it, n)
  BY <1>2, FlattenIsJoin DEF Nth
<1>6. 0 \in 0 .. n /\ n \in 0 .. n
  BY <1>1
<1>7. Nth(it, 0) = <<>>
  BY <1>3 DEF Nth
<1>8. End(seqs, 0) = 0
  BY <1>4, <1>6, <1>7
<1>9. End(seqs, n) = Len(FlattenSeq(seqs)) /\ FlattenSeq(seqs) \in Seq(S)
  BY <1>4, <1>5, <1>6
<1>10. ASSUME NEW i \in 0 .. n PROVE End(seqs, i) \in Nat /\ End(seqs, i) <= End(seqs, n)
  <2>1. Len(Nth(it, i)) <= Len(Nth(it, n))
    BY <1>2, JoinGrows
  <2>2. End(seqs, i) = Len(Nth(it, i)) /\ Len(Nth(it, i)) \in Nat
    BY <1>4
  <2>3. End(seqs, n) = Len(Nth(it, n))
    BY <1>4, <1>6
  <2> QED BY <2>1, <2>2, <2>3
<1> QED BY <1>8, <1>9, <1>10

(* Each of them is where those before it end.                               *)
LEMMA PartBetweenEnds ==
    ASSUME NEW S, NEW seqs \in Seq(Seq(S)), NEW n, n = Len(seqs),
           NEW k \in Nat, NEW m, m = k + 1, m <= n
    PROVE  /\ Nth(seqs, m) \in Seq(S)
           /\ End(seqs, m) = End(seqs, k) + Len(Nth(seqs, m))
           /\ Between(FlattenSeq(seqs), End(seqs, k), End(seqs, m)) = Nth(seqs, m)
<1>1. n \in Nat /\ k \in 0 .. n /\ m \in 0 .. n
  OBVIOUS
<1>2. PICK it : Joining(seqs, n, it)
  BY <1>1, JoinsExist
<1>3. End(seqs, k) = Len(Nth(it, k)) /\ End(seqs, m) = Len(Nth(it, m))
  BY <1>1, <1>2, FlattenPrefix DEF End, Nth
<1> DEFINE all == FlattenSeq(seqs)
           a == Nth(it, k)
           b == Nth(seqs, m)
           c == Nth(it, m)
<1>4. all = Nth(it, n) /\ all \in Seq(S)
  BY <1>2, FlattenIsJoin, EndsOfParts DEF Nth
<1>5. /\ a \in Seq(S) /\ b \in Seq(S) /\ c \in Seq(S) /\ Len(c) = Len(a) + Len(b)
      /\ \A j \in 1 .. Len(b) : c[Len(a) + j] = b[j]
  <2>1. a \in Seq(S) /\ b \in Seq(S) /\ c \in Seq(S)
    BY <1>2, JoinStep
  <2>2. Len(c) = Len(a) + Len(b)
    BY <1>2, JoinStep
  <2>3. \A j \in 1 .. Len(b) : c[Len(a) + j] = b[j]
    BY <1>2, JoinStep
  <2> QED BY <2>1, <2>2, <2>3
<1>6. Len(c) <= Len(all) /\ \A j \in 1 .. Len(c) : all[j] = c[j]
  <2>1. Len(Nth(it, m)) <= Len(Nth(it, n))
    BY <1>1, <1>2, JoinGrows
  <2>2. \A j \in 1 .. Len(Nth(it, m)) : Nth(it, n)[j] = Nth(it, m)[j]
    BY <1>1, <1>2, JoinGrows
  <2> QED BY <1>4, <2>1, <2>2
<1>7. SubSeq(all, Len(a) + 1, Len(c)) = b
  <2> HIDE DEF all, a, b, c
  <2>1. Len(a) \in Nat /\ Len(b) \in Nat /\ Len(c) \in Nat /\ Len(all) \in Nat
    BY <1>4, <1>5
  <2> DEFINE lo == Len(a) + 1
             hi == Len(c)
             part == SubSeq(all, lo, hi)
  <2>2. lo \in Int /\ hi \in Int /\ \A i \in lo .. hi : all[i] \in S
    BY <1>4, <1>6, <2>1
  <2>3. /\ part \in Seq(S)
        /\ Len(part) = IF lo <= hi THEN hi - lo + 1 ELSE 0
        /\ \A i \in 1 .. hi - lo + 1 : part[i] = all[lo + i - 1]
    <3> HIDE DEF lo, hi
    <3> QED BY <2>2, SubSeqProperties
  <2>4. hi - lo + 1 = Len(b)
    BY <1>5, <2>1
  <2>5. Len(part) = Len(b)
    BY <1>5, <2>1, <2>3, <2>4
  <2>6. ASSUME NEW i \in 1 .. Len(b) PROVE part[i] = b[i]
    <3>1. part[i] = all[lo + i - 1]
      BY <2>3, <2>4
    <3>2. lo + i - 1 = Len(a) + i /\ Len(a) + i \in 1 .. Len(c)
      BY <1>5, <2>1
    <3>3. all[Len(a) + i] = c[Len(a) + i]
      BY <1>6, <3>2
    <3> QED BY <1>5, <3>1, <3>2, <3>3
  <2> HIDE DEF part
  <2>7. part = b
    BY <1>5, <2>3, <2>5, <2>6, SeqEqual
  <2> QED BY <2>7 DEF part, lo, hi
<1> QED BY <1>3, <1>5, <1>7 DEF Between

-----------------------------------------------------------------------------
(* A list of words that was laid out is read back as it was, and the shim   *)
(* never refuses it, if no word is empty: WordListBuffer and nested_tokens. *)
LEMMA WordBufferOf ==
    ASSUME NEW S, NEW words \in Seq(Seq(S)), NEW n, n = Len(words), n # 0,
           WordsValid(words)
    PROVE  /\ WordBuffer(words).tokens = FlattenSeq(words)
           /\ Len(WordBuffer(words).offsets) = n + 1
           /\ \A k \in 0 .. n : \A m : m = k + 1 => WordBuffer(words).offsets[m] = End(words, k)
           /\ WordView(WordBuffer(words)) = [tokens |-> End(words, n), offsets |-> n + 1]
<1> DEFINE offsets == [i \in 1 .. n + 1 |-> End(words, i - 1)]
<1>1. n \in Nat /\ words # <<>> /\ words[1] \in Seq(S) /\ words[1] # <<>>
  BY DEF WordsValid
<1>2. WordBuffer(words) = [tokens |-> FlattenSeq(words), offsets |-> offsets]
  BY <1>1 DEF WordBuffer, End
<1>3. \A i \in 0 .. n : End(words, i) \in Nat /\ End(words, i) <= End(words, n)
  BY EndsOfParts
<1>4. Len(offsets) = n + 1
  <2>1. \A i \in 1 .. n + 1 : i - 1 \in 0 .. n
    BY <1>1
  <2>2. offsets \in [1 .. n + 1 -> Nat]
    BY <1>3, <2>1
  <2>3. n + 1 \in Nat
    BY <1>1
  <2> HIDE DEF offsets
  <2> QED BY <2>2, <2>3, SeqDef, LenProperties
<1>5. ASSUME NEW k \in 0 .. n, NEW m, m = k + 1 PROVE offsets[m] = End(words, k)
  <2>1. m \in 1 .. n + 1 /\ m - 1 = k
    BY <1>1, <1>5
  <2> QED BY <2>1
<1>6. FlattenSeq(words) # <<>>
  <2>1. 0 \in Nat /\ 1 = 0 + 1 /\ 1 <= n
    BY <1>1
  <2>2. End(words, 1) = End(words, 0) + Len(Nth(words, 1))
    BY <2>1, PartBetweenEnds
  <2>3. End(words, 0) = 0 /\ End(words, n) = Len(FlattenSeq(words))
    BY EndsOfParts
  <2>4. Nth(words, 1) \in Seq(S) /\ Nth(words, 1) # <<>>
    BY <1>1 DEF Nth
  <2>5. Len(Nth(words, 1)) \in Nat \ {0}
    BY <2>4, EmptySeq
  <2>6. End(words, 1) <= End(words, n) /\ End(words, n) \in Nat
    BY <1>1, <1>3
  <2>7. Len(FlattenSeq(words)) # 0
    BY <2>2, <2>3, <2>5, <2>6
  <2> QED BY <2>7, EmptySeq
<1>7. WordView(WordBuffer(words)) = [tokens |-> End(words, n), offsets |-> n + 1]
  <2>1. End(words, n) = Len(FlattenSeq(words))
    BY EndsOfParts
  <2> HIDE DEF offsets
  <2> QED BY <1>2, <1>4, <1>6, <2>1 DEF WordView
<1> HIDE DEF offsets
<1> QED BY <1>2, <1>4, <1>5, <1>7

(* A list of words that WordListBuffer laid out is what nested_tokens of    *)
(* the shim reads, and is never refused by it, if validate_words accepts    *)
(* it.                                                                      *)
THEOREM WordsReadBack ==
    ASSUME NEW S, NEW words \in Seq(Seq(S)), WordsValid(words)
    PROVE  LET buffer == WordBuffer(words)
           IN  /\ WordsReadable(WordView(buffer), buffer)
               /\ ReadWords(WordView(buffer), buffer) = words
               /\ WordView(buffer).offsets = IF words = <<>> THEN 0 ELSE Len(words) + 1
<1> DEFINE buffer == WordBuffer(words)
           view == WordView(buffer)
           n == Len(words)
<1>1. CASE words = <<>>
  <2>1. FlattenSeq(words) = <<>>
    <3>1. Len(words) = 0
      BY <1>1
    <3> QED BY <1>1, <3>1 DEF FlattenSeq
  <2>2. view = [tokens |-> 0, offsets |-> 0]
    BY <1>1, <2>1 DEF WordBuffer, WordView
  <2> HIDE DEF view, buffer
  <2> QED BY <1>1, <2>2 DEF WordsReadable, ReadWords, view, buffer
<1>2. CASE words # <<>>
  <2>1. n \in Nat /\ n # 0 /\ n = Len(words)
    BY <1>2, EmptySeq
  <2> HIDE DEF n
  <2>2. /\ buffer.tokens = FlattenSeq(words)
        /\ view = [tokens |-> End(words, n), offsets |-> n + 1]
    BY <2>1, WordBufferOf
  <2>3. ASSUME NEW k \in 0 .. n, NEW m, m = k + 1 PROVE buffer.offsets[m] = End(words, k)
    BY <2>1, <2>3, WordBufferOf
  <2> HIDE DEF buffer, view
  <2>4. ASSUME NEW i \in 1 .. n
        PROVE  /\ buffer.offsets[i] = End(words, i - 1)
               /\ buffer.offsets[i + 1] = End(words, i)
    <3>1. i - 1 \in 0 .. n /\ i = i - 1 + 1 /\ i \in 0 .. n
      BY <2>1
    <3> QED BY <2>3, <3>1
  <2>5. \A i \in 0 .. n : End(words, i) \in Nat /\ End(words, i) <= End(words, n)
    BY <2>1, EndsOfParts
  <2>6. ASSUME NEW i \in 1 .. n
        PROVE  /\ End(words, i - 1) < End(words, i)
               /\ Between(FlattenSeq(words), End(words, i - 1), End(words, i)) = words[i]
    <3>1. PICK k \in Nat : k = i - 1
      BY <2>1
    <3>2. i = k + 1 /\ i <= n /\ k \in 0 .. n
      BY <2>1, <3>1
    <3>3. End(words, i) = End(words, k) + Len(Nth(words, i)) /\ Nth(words, i) \in Seq(S)
      BY <2>1, <3>2, PartBetweenEnds
    <3>4. Between(FlattenSeq(words), End(words, k), End(words, i)) = Nth(words, i)
      BY <2>1, <3>2, PartBetweenEnds
    <3>5. Nth(words, i) # <<>>
      BY <2>1 DEF WordsValid, Nth
    <3>6. Len(Nth(words, i)) \in Nat \ {0}
      BY <3>3, <3>5, EmptySeq
    <3>7. End(words, k) \in Nat
      BY <2>5, <3>2
    <3>8. End(words, k) < End(words, i)
      BY <3>3, <3>6, <3>7
    <3> QED BY <3>1, <3>4, <3>8 DEF Nth
  <2>7. WordsReadable(view, buffer)
    <3>1. view.offsets = n + 1 /\ view.tokens = End(words, n) /\ n + 1 - 1 = n
      BY <2>1, <2>2
    <3>2. n + 1 >= 2
      BY <2>1
    <3>3. buffer.offsets[1] = 0
      <4>1. 0 \in 0 .. n /\ 1 = 0 + 1
        BY <2>1
      <4>2. End(words, 0) = 0
        BY <2>1, EndsOfParts
      <4> QED BY <2>3, <4>1, <4>2
    <3>4. buffer.offsets[n + 1] = End(words, n)
      <4>1. n \in 0 .. n
        BY <2>1
      <4> QED BY <2>3, <4>1
    <3>5. ASSUME NEW i \in 1 .. n
          PROVE  /\ buffer.offsets[i] < buffer.offsets[i + 1]
                 /\ buffer.offsets[i + 1] <= End(words, n)
      <4>1. i \in 0 .. n
        BY <2>1
      <4> QED BY <2>4, <2>5, <2>6, <4>1
    <3>6. view.offsets >= 2 /\ buffer.offsets[view.offsets] = view.tokens
      BY <3>1, <3>2, <3>4
    <3>7. \A i \in 1 .. view.offsets - 1 :
              /\ buffer.offsets[i] < buffer.offsets[i + 1]
              /\ buffer.offsets[i + 1] <= view.tokens
      <4>1. view.offsets - 1 = n
        BY <2>1, <3>1
      <4>2. 1 .. view.offsets - 1 = 1 .. n /\ view.tokens = End(words, n)
        BY <3>1, <4>1
      <4> QED BY <3>5, <4>2, Zenon
    <3> QED BY <3>3, <3>6, <3>7 DEF WordsReadable
  <2>8. ReadWords(view, buffer) = words
    <3> DEFINE Slot(i) == SubSeq(buffer.tokens, buffer.offsets[i] + 1, buffer.offsets[i + 1])
               got == [i \in 1 .. n |-> Slot(i)]
    <3>1. view.offsets = n + 1 /\ n + 1 - 1 = n /\ n + 1 # 0
      BY <2>1, <2>2
    <3>2. ReadWords(view, buffer) = got
      <4>1. ReadWords(view, buffer) = IF view.offsets = 0 THEN <<>>
                                      ELSE [i \in 1 .. view.offsets - 1 |-> Slot(i)]
        BY DEF ReadWords
      <4>2. 1 .. view.offsets - 1 = 1 .. n /\ view.offsets # 0
        BY <2>1, <3>1
      <4> HIDE DEF Slot
      <4> QED BY <4>1, <4>2, Zenon
    <3>3. ASSUME NEW i \in 1 .. n PROVE got[i] = words[i]
      <4>1. Slot(i) = words[i]
        BY <2>2, <2>4, <2>6 DEF Between
      <4> HIDE DEF Slot
      <4> QED BY <4>1
    <3>4. words = [i \in 1 .. n |-> words[i]]
      BY <2>1
    <3> HIDE DEF got
    <3>5. got = [i \in 1 .. n |-> got[i]]
      BY DEF got
    <3> QED BY <3>2, <3>3, <3>4, <3>5
  <2>9. view.offsets = n + 1
    BY <2>2
  <2> QED BY <1>2, <2>7, <2>8, <2>9 DEF view, buffer, n
<1> QED BY <1>1, <1>2

-----------------------------------------------------------------------------
(* Options, lists and tensors on their way to the shim and back.            *)

(* An option that is not empty has one value.                               *)
LEMMA OptionIs ==
    ASSUME NEW option, IsOption(option), option # {}
    PROVE  option = {The(option)}
BY DEF IsOption, The

(* An option of a number comes back through its flag.                       *)
LEMMA GivenBackOption ==
    ASSUME NEW option, IsOption(option)
    PROVE  Given(Flagged(option)) = option
BY OptionIs DEF Given, Flagged

(* An optional list comes back, but for one without elements.               *)
LEMMA ListReadBack ==
    ASSUME NEW option, IsOption(option)
    PROVE  NonEmpty(Slice(option)) = option \ {<<>>}
BY OptionIs DEF NonEmpty, Slice

(* So do the optional numbers of a structure.                               *)
LEMMA FlagsReadBack ==
    ASSUME NEW D, NEW numbers, numbers = [f \in D |-> numbers[f]],
           \A f \in D : IsOption(numbers[f])
    PROVE  GivenAll(Flags(numbers)) = numbers
<1>1. DOMAIN numbers = D
  OBVIOUS
<1>2. GivenAll(Flags(numbers)) = [f \in D |-> Given(Flagged(numbers[f]))]
  BY <1>1 DEF GivenAll, Flags
<1>3. \A f \in D : Given(Flagged(numbers[f])) = numbers[f]
  BY GivenBackOption
<1> QED BY <1>2, <1>3

(* The bytes of a valid tensor are those of its elements: none exactly if   *)
(* it has no elements.                                                      *)
LEMMA EmptyTensor ==
    ASSUME NEW t, t.dims \in Seq(Nat), TensorValid(t)
    PROVE  /\ Product(t.dims) \in Int
           /\ DtypeBytes[t.dtype] \in Nat \ {0}
           /\ ByteLen(t) = Product(t.dims) * DtypeBytes[t.dtype]
           /\ ByteLen(t) = 0 <=> Product(t.dims) = 0
<1>1. t.dims \in Seq(Int)
  OBVIOUS
<1>2. Product(t.dims) \in Int
  BY <1>1, ProductOfNumbers
<1>3. DtypeBytes[t.dtype] \in Nat \ {0}
  BY DEF TensorValid, TypeCodes, DtypeBytes
<1>4. ByteLen(t) = Product(t.dims) * DtypeBytes[t.dtype]
  BY DEF ByteLen
<1>5. \A p \in Int, n \in Nat \ {0} : p * n = 0 <=> p = 0
  OBVIOUS
<1> QED BY <1>2, <1>3, <1>4, <1>5

(* A valid tensor comes back with the shape that the shim is told, unless   *)
(* it has no elements: validate_tensor_view, tensor_from_view.              *)
LEMMA TensorReadBack ==
    ASSUME NEW option, IsTensor(option), \A t \in option : TensorValid(t),
           NEW shape, \A t \in option : t.dims = shape
    PROVE  ReadTensor(View(option), shape) = Passed(option)
<1>1. CASE option = {}
  BY <1>1 DEF View, NullView, ReadTensor, Passed
<1>2. CASE option # {}
  <2>1. PICK t : option = {t} /\ The(option) = t
    BY <1>2, OptionIs DEF IsTensor
  <2>2. t.dims \in Seq(Nat) /\ TensorValid(t) /\ t.dims = shape
    BY <2>1 DEF IsTensor
  <2>3. ByteLen(t) = 0 <=> Product(t.dims) = 0
    BY <2>2, EmptyTensor
  <2>4. View(option) = [data |-> {t.value}, bytes |-> ByteLen(t), code |-> TypeCodes[t.dtype],
                        shape |-> t.dims, gpu |-> t.gpu]
    BY <1>2, <2>1 DEF View
  <2>5. CASE ByteLen(t) = 0
    <3>1. Passed(option) = {}
      BY <2>1, <2>3, <2>5 DEF Passed
    <3> QED BY <2>4, <2>5, <3>1 DEF ReadTensor
  <2>6. CASE ByteLen(t) # 0
    <3>1. Passed(option) = {Received(t.value, TypeCodes[t.dtype], t.dims, t.gpu)}
      BY <2>1, <2>3, <2>6 DEF Passed
    <3> QED BY <2>2, <2>4, <2>6, <3>1 DEF ReadTensor
  <2> QED BY <2>5, <2>6
<1> QED BY <1>1, <1>2

(* A valid tensor that travels with its own shape comes back.               *)
LEMMA ViewReadBack ==
    ASSUME NEW option, IsTensor(option), \A t \in option : TensorValid(t)
    PROVE  ReadView(View(option)) = Passed(option)
<1>1. CASE option = {}
  BY <1>1 DEF View, NullView, ReadView, ReadTensor, Passed
<1>2. CASE option # {}
  <2>1. PICK t : option = {t} /\ The(option) = t
    BY <1>2, OptionIs DEF IsTensor
  <2>2. View(option).shape = t.dims
    BY <1>2, <2>1 DEF View
  <2>3. \A u \in option : u.dims = t.dims
    BY <2>1
  <2>4. ReadTensor(View(option), t.dims) = Passed(option)
    BY <2>3, TensorReadBack
  <2> QED BY <2>2, <2>4 DEF ReadView
<1> QED BY <1>1, <1>2

(* A list that is taken from its first element to its last.                 *)
LEMMA WholeList ==
    ASSUME NEW list, IsList(list)
    PROVE  SubSeq(list, 1, Len(list)) = list /\ <<>> \o list = list
<1>1. PICK S : list \in Seq(S)
  BY DEF IsList
<1> QED BY <1>1

-----------------------------------------------------------------------------
(* The structures of a request.                                             *)

(* The external draft tokens come back, with their logits.                  *)
LEMMA DraftReadBack ==
    ASSUME NEW option, IsOption(option), \A d \in option : DraftTyped(d),
           \A d \in option : \A t \in d.logits : TensorValid(t)
    PROVE  SectionOf(Section(option, DraftFields, {}), LAMBDA d :
               [tokens |-> d.tokens, logits |-> ReadView(d.logits),
                threshold |-> Given(d.threshold), fast_logits |-> Given(d.fast_logits)])
           = {[d EXCEPT !.logits = Passed(@)] : d \in option}
<1>1. CASE option = {}
  BY <1>1 DEF Section, SectionOf
<1>2. CASE option # {}
  <2>1. PICK d : option = {d} /\ The(option) = d
    BY <1>2, OptionIs
  <2>2. DraftTyped(d) /\ \A t \in d.logits : TensorValid(t)
    BY <2>1
  <2>3. /\ ReadView(View(d.logits)) = Passed(d.logits)
        /\ Given(Flagged(d.threshold)) = d.threshold
        /\ Given(Flagged(d.fast_logits)) = d.fast_logits
    BY <2>2, ViewReadBack, GivenBackOption DEF DraftTyped
  <2>4. d = [f \in {"tokens", "logits", "threshold", "fast_logits"} |-> d[f]]
    BY <2>2 DEF DraftTyped, LikeNew, NewDraft
  <2> DEFINE got == [tokens |-> d.tokens, logits |-> Passed(d.logits),
                     threshold |-> d.threshold, fast_logits |-> d.fast_logits]
  <2>5. {[u EXCEPT !.logits = Passed(@)] : u \in option} = {got}
    <3>1. \A x : [d EXCEPT !.logits = x]
                    = [tokens |-> d.tokens, logits |-> x,
                       threshold |-> d.threshold, fast_logits |-> d.fast_logits]
      BY <2>4
    <3> QED BY <2>1, <3>1
  <2>6. SectionOf(Section(option, DraftFields, {}), LAMBDA x :
            [tokens |-> x.tokens, logits |-> ReadView(x.logits),
             threshold |-> Given(x.threshold), fast_logits |-> Given(x.fast_logits)]) = {got}
    BY <1>2, <2>1, <2>3 DEF Section, SectionOf, DraftFields
  <2> QED BY <2>5, <2>6
<1> QED BY <1>1, <1>2

(* The LoRA config comes back, with its tensors.                            *)
LEMMA LoraReadBack ==
    ASSUME NEW option, IsOption(option), \A l \in option : LoraTyped(l),
           \A l \in option : \A t \in l.weights \cup l.config : TensorValid(t)
    PROVE  SectionOf(Section(option, LAMBDA l : [weights |-> View(l.weights),
                                                 config |-> View(l.config)], {}),
                     LAMBDA l : [weights |-> ReadView(l.weights), config |-> ReadView(l.config)])
           = {[l EXCEPT !.weights = Passed(@), !.config = Passed(@)] : l \in option}
<1>1. CASE option = {}
  BY <1>1 DEF Section, SectionOf
<1>2. CASE option # {}
  <2>1. PICK l : option = {l} /\ The(option) = l
    BY <1>2, OptionIs
  <2>2. LoraTyped(l) /\ \A t \in l.weights \cup l.config : TensorValid(t)
    BY <2>1
  <2>3. /\ ReadView(View(l.weights)) = Passed(l.weights)
        /\ ReadView(View(l.config)) = Passed(l.config)
    BY <2>2, ViewReadBack DEF LoraTyped
  <2>4. l = [f \in {"weights", "config"} |-> l[f]]
    BY <2>2 DEF LoraTyped, LikeNew, NewLora
  <2>5. [l EXCEPT !.weights = Passed(@), !.config = Passed(@)]
           = [weights |-> Passed(l.weights), config |-> Passed(l.config)]
    <3> DEFINE got == [l EXCEPT !.weights = Passed(@), !.config = Passed(@)]
    <3>1. got = [f \in {"weights", "config"} |-> got[f]]
      BY <2>4
    <3>2. got.weights = Passed(l.weights)
      BY <2>4
    <3>3. got.config = Passed(l.config)
      BY <2>4
    <3> HIDE DEF got
    <3>4. got = [weights |-> got.weights, config |-> got.config]
      BY <3>1
    <3> QED BY <3>2, <3>3, <3>4 DEF got
  <2> QED BY <1>2, <2>1, <2>3, <2>5 DEF Section, SectionOf
<1> QED BY <1>1, <1>2

(* The parameters of the context phase come back.                           *)
LEMMA ContextReadBack ==
    ASSUME NEW option, IsOption(option), \A c \in option : ContextTyped(c)
    PROVE  SectionOf(Section(option, ContextFields, {}), LAMBDA c :
               [first_tokens |-> c.first_tokens, draft_tokens |-> NonEmpty(c.draft_tokens),
                dp_rank |-> Given(c.dp_rank)])
           = {[c EXCEPT !.draft_tokens = @ \ {<<>>}] : c \in option}
<1>1. CASE option = {}
  BY <1>1 DEF Section, SectionOf
<1>2. CASE option # {}
  <2>1. PICK c : option = {c} /\ The(option) = c
    BY <1>2, OptionIs
  <2>2. ContextTyped(c)
    BY <2>1
  <2>3. /\ NonEmpty(Slice(c.draft_tokens)) = c.draft_tokens \ {<<>>}
        /\ Given(Flagged(c.dp_rank)) = c.dp_rank
    BY <2>2, ListReadBack, GivenBackOption DEF ContextTyped
  <2>4. c = [f \in {"first_tokens", "draft_tokens", "dp_rank"} |-> c[f]]
    BY <2>2 DEF ContextTyped, LikeNew, NewContextPhase
  <2> DEFINE got == [first_tokens |-> c.first_tokens,
                     draft_tokens |-> c.draft_tokens \ {<<>>}, dp_rank |-> c.dp_rank]
  <2>5. {[u EXCEPT !.draft_tokens = @ \ {<<>>}] : u \in option} = {got}
    <3>1. \A x : [c EXCEPT !.draft_tokens = x]
                    = [first_tokens |-> c.first_tokens, draft_tokens |-> x,
                       dp_rank |-> c.dp_rank]
      BY <2>4
    <3> QED BY <2>1, <3>1
  <2>6. SectionOf(Section(option, ContextFields, {}), LAMBDA x :
            [first_tokens |-> x.first_tokens, draft_tokens |-> NonEmpty(x.draft_tokens),
             dp_rank |-> Given(x.dp_rank)]) = {got}
    BY <1>2, <2>1, <2>3 DEF Section, SectionOf, ContextFields
  <2> QED BY <2>5, <2>6
<1> QED BY <1>1, <1>2

(* A structure of numbers alone comes back.                                 *)
LEMMA PlainReadBack ==
    ASSUME NEW option, IsOption(option)
    PROVE  SectionOf(Section(option, LAMBDA v : v, {}), LAMBDA v : v) = option
BY OptionIs DEF Section, SectionOf

(* The mrope config comes back if its tensor has elements.                  *)
LEMMA MropeReadBack ==
    ASSUME NEW option, IsTensor(option), \A t \in option : TensorValid(t)
    PROVE  LET section == Section(option, LAMBDA t : View({t}), NullView)
           IN  (IF section.has THEN ReadView(section.fields) ELSE {}) = Passed(option)
<1>1. CASE option = {}
  BY <1>1 DEF Section, Passed
<1>2. CASE option # {}
  <2>1. option = {The(option)}
    BY <1>2, OptionIs DEF IsTensor
  <2>2. ReadView(View(option)) = Passed(option)
    BY ViewReadBack
  <2> QED BY <1>2, <2>1, <2>2 DEF Section
<1> QED BY <1>1, <1>2

(* What the shim makes of a structure with lists in the buffers.            *)
MultimodalRead(m, buffers) ==
    [hashes |-> ReadWords(WordView(buffers.hashes), buffers.hashes), positions |-> m.positions,
     lengths |-> m.lengths, uuids |-> SubSeq(buffers.uuids, 1, Len(buffers.uuids))]

RetentionRead(k, buffers) ==
    [ranges |-> SubSeq(buffers.ranges, 1, Len(buffers.ranges)),
     decode_priority |-> k.decode_priority,
     decode_duration |-> Given(Flagged(k.decode_duration))]

EagleRead(e, buffers) ==
    [choices |-> ReadWords(WordView(buffers.choices), buffers.choices), flags |-> e.flags,
     threshold |-> Given(Flagged(e.threshold)), top_k |-> Given(Flagged(e.top_k))]

(* The hashes and UUIDs of a multimodal input come back.                    *)
LEMMA MultimodalReadBack ==
    ASSUME NEW r, NEW m, r.multimodal = {m}, MultimodalTyped(m), MultimodalValid(m)
    PROVE  MultimodalRead(m, Laid(r)) = m
<1> DEFINE buffers == Laid(r)
<1>1. The(r.multimodal) = m /\ r.multimodal # {}
  BY DEF The
<1>2. buffers.hashes = WordBuffer(m.hashes) /\ buffers.uuids = m.uuids
  BY <1>1 DEF Laid, Filled, EmptyBuffers
<1> HIDE DEF buffers
<1>3. ReadWords(WordView(buffers.hashes), buffers.hashes) = m.hashes
  <2>1. m.hashes \in Seq(Seq(Int)) /\ WordsValid(m.hashes)
    BY DEF MultimodalTyped, MultimodalValid, IsWords
  <2> QED BY <1>2, <2>1, WordsReadBack
<1>4. SubSeq(buffers.uuids, 1, Len(buffers.uuids)) = m.uuids
  BY <1>2, WholeList DEF MultimodalTyped
<1>5. m = [f \in {"hashes", "positions", "lengths", "uuids"} |-> m[f]]
  BY DEF MultimodalTyped, LikeNew, NewMultimodal
<1>6. m = [hashes |-> m.hashes, positions |-> m.positions, lengths |-> m.lengths,
           uuids |-> m.uuids]
  BY <1>5
<1> QED BY <1>3, <1>4, <1>6 DEF MultimodalRead, buffers

(* The ranges of a retention config come back, added to none.               *)
LEMMA RetentionReadBack ==
    ASSUME NEW r, NEW k, r.retention = {k}, RetentionTyped(k)
    PROVE  RetentionRead(k, Laid(r)) = k
<1> DEFINE buffers == Laid(r)
<1>1. The(r.retention) = k /\ r.retention # {}
  BY DEF The
<1>2. buffers.ranges = <<>> \o k.ranges
  BY <1>1 DEF Laid, Filled, EmptyBuffers
<1> HIDE DEF buffers
<1>3. SubSeq(buffers.ranges, 1, Len(buffers.ranges)) = k.ranges
  BY <1>2, WholeList DEF RetentionTyped
<1>4. Given(Flagged(k.decode_duration)) = k.decode_duration
  BY GivenBackOption DEF RetentionTyped
<1>5. k = [f \in {"ranges", "decode_priority", "decode_duration"} |-> k[f]]
  BY DEF RetentionTyped, LikeNew, NewRetention
<1>6. k = [ranges |-> k.ranges, decode_priority |-> k.decode_priority,
           decode_duration |-> k.decode_duration]
  BY <1>5
<1> QED BY <1>3, <1>4, <1>6 DEF RetentionRead, buffers

(* The choices of an eagle config come back.                                *)
LEMMA EagleReadBack ==
    ASSUME NEW r, NEW e, r.eagle = {e}, EagleTyped(e), EagleValid(e)
    PROVE  EagleRead(e, Laid(r)) = e
<1> DEFINE buffers == Laid(r)
<1>1. The(r.eagle) = e /\ r.eagle # {}
  BY DEF The
<1>2. buffers.choices = WordBuffer(e.choices)
  BY <1>1 DEF Laid, Filled, EmptyBuffers
<1> HIDE DEF buffers
<1>3. ReadWords(WordView(buffers.choices), buffers.choices) = e.choices
  <2>1. e.choices \in Seq(Seq(Int)) /\ WordsValid(e.choices)
    BY DEF EagleTyped, EagleValid, IsWords
  <2> QED BY <1>2, <2>1, WordsReadBack
<1>4. Given(Flagged(e.threshold)) = e.threshold /\ Given(Flagged(e.top_k)) = e.top_k
  BY GivenBackOption DEF EagleTyped
<1>5. e = [f \in {"choices", "flags", "threshold", "top_k"} |-> e[f]]
  BY DEF EagleTyped, LikeNew, NewEagle
<1>6. e = [choices |-> e.choices, flags |-> e.flags, threshold |-> e.threshold,
           top_k |-> e.top_k]
  BY <1>5
<1> QED BY <1>3, <1>4, <1>6 DEF EagleRead, buffers

(* The tensors of an accepted request are valid, each where it is.          *)
LEMMA TensorsValid ==
    ASSUME NEW r, Accepted(r, Profile)
    PROVE  /\ \A t \in r.prompt : TensorValid(t)
           /\ \A t \in r.bias : TensorValid(t)
           /\ \A t \in r.mrope : TensorValid(t)
           /\ \A f \in TensorFields : \A t \in r.tensors[f] : TensorValid(t)
           /\ \A d \in r.draft : \A t \in d.logits : TensorValid(t)
           /\ \A l \in r.lora : \A t \in l.weights \cup l.config : TensorValid(t)
<1>1. \A t \in TensorsOf(r) : TensorValid(t)
  BY DEF Accepted
<1>2. \A t : t \in TensorsOf(r) <=> \/ t \in r.prompt \/ t \in r.bias \/ t \in r.mrope
                                   \/ t \in UNION {r.tensors[f] : f \in TensorFields}
                                   \/ t \in UNION {d.logits : d \in r.draft}
                                   \/ t \in UNION {l.weights \cup l.config : l \in r.lora}
  BY Zenon DEF TensorsOf
<1>3. \A f \in TensorFields : \A t \in r.tensors[f] : t \in TensorsOf(r)
  BY <1>2
<1>4. \A d \in r.draft : \A t \in d.logits : t \in TensorsOf(r)
  BY <1>2
<1>5. \A l \in r.lora : \A t \in l.weights \cup l.config : t \in TensorsOf(r)
  BY <1>2
<1> QED BY <1>1, <1>2, <1>3, <1>4, <1>5

(* The prompt table has the shape that the shim is told, and the bias too.  *)
LEMMA PromptReadBack ==
    ASSUME NEW r, RequestTyped(r), Accepted(r, Profile)
    PROVE  LET w == Wired(r)
           IN  /\ ReadTensor(w.prompt, <<w.rows, w.hidden>>) = Passed(r.prompt)
               /\ ReadTensor(w.bias, <<w.bias_len>>) = Passed(r.bias)
               /\ \A t \in r.prompt : t.dims = <<w.rows, w.hidden>>
               /\ \A t \in r.bias : t.dims = <<w.bias_len>>
<1> DEFINE w == Wired(r)
<1>1. /\ w.prompt = View(r.prompt)
      /\ w.rows = IF r.prompt = {} THEN 0 ELSE The(r.prompt).dims[1]
      /\ w.hidden = IF r.prompt = {} THEN 0 ELSE Profile.hidden_size
      /\ w.bias = View(r.bias)
      /\ w.bias_len = IF r.bias = {} THEN 0 ELSE The(r.bias).dims[1]
  BY DEF Wired, Encoded
<1> HIDE DEF w
<1>2. IsTensor(r.prompt) /\ IsTensor(r.bias)
  BY DEF RequestTyped
<1>3. ASSUME NEW t \in r.prompt PROVE t.dims = <<w.rows, w.hidden>>
  <2>1. r.prompt = {t} /\ The(r.prompt) = t
    BY <1>2, OptionIs DEF IsTensor
  <2>2. Len(t.dims) = 2 /\ t.dims[2] = Profile.hidden_size /\ t.dims \in Seq(Nat)
    BY <1>2 DEF Accepted, PromptValid, IsTensor
  <2>3. w.rows = t.dims[1] /\ w.hidden = t.dims[2]
    BY <1>1, <2>1, <2>2
  <2> QED BY <2>2, <2>3
<1>4. ASSUME NEW t \in r.bias PROVE t.dims = <<w.bias_len>>
  <2>1. r.bias = {t} /\ The(r.bias) = t
    BY <1>2, OptionIs DEF IsTensor
  <2>2. t.dims = <<Profile.vocab_size>>
    BY DEF Accepted, BiasValid
  <2> QED BY <1>1, <2>1, <2>2
<1>5. ReadTensor(w.prompt, <<w.rows, w.hidden>>) = Passed(r.prompt)
  BY <1>1, <1>2, <1>3, TensorsValid, TensorReadBack
<1>6. ReadTensor(w.bias, <<w.bias_len>>) = Passed(r.bias)
  BY <1>1, <1>2, <1>4, TensorsValid, TensorReadBack
<1> QED BY <1>3, <1>4, <1>5, <1>6 DEF w

(* What the shim reads of an accepted request that was laid out in empty    *)
(* buffers is the request as it was meant.                                  *)
THEOREM RequestReadBack ==
    ASSUME NEW r, RequestTyped(r), Accepted(r, Profile)
    PROVE  ReadAlone(r) = Meant(r)
<1> DEFINE w == Wired(r)
           buffers == Laid(r)
           got == ReadAlone(r)
           meant == Meant(r)
           fields == {"tokens", "max_new_tokens", "numbers", "tensors", "flags", "sampling",
                      "prompt", "extra_ids", "position_ids", "bias", "bad_words", "stop_words",
                      "encoder_tokens", "draft", "multimodal", "mrope", "lora", "lookahead",
                      "retention", "context", "eagle", "guided", "outputs"}
<1>1. r = [f \in fields |-> r[f]]
  BY DEF RequestTyped, LikeNew, NewRequest
<1>2. meant = [f \in fields |-> meant[f]]
  BY <1>1 DEF Meant
<1>3. got = [f \in fields |-> got[f]]
  BY DEF ReadAlone, RequestRead
<1>4. buffers = Filled(EmptyBuffers, r) /\ w = Encoded(r, Profile, buffers)
  BY DEF Wired, Laid
<1>5. \A t \in TensorsOf(r) : TensorValid(t)
  BY DEF Accepted
<1>6. got.tokens = meant.tokens /\ got.max_new_tokens = meant.max_new_tokens
  <2>1. got.tokens = r.tokens /\ got.max_new_tokens = r.max_new_tokens
    BY DEF ReadAlone, RequestRead, Wired, Encoded
  <2>2. meant.tokens = r.tokens /\ meant.max_new_tokens = r.max_new_tokens
    BY <1>1 DEF Meant
  <2> QED BY <2>1, <2>2
<1>7. got.numbers = meant.numbers /\ got.flags = meant.flags
  <2>1. got.numbers = GivenAll(Flags(r.numbers)) /\ got.flags = r.flags
    BY DEF ReadAlone, RequestRead, Wired, Encoded
  <2>2. meant.numbers = r.numbers /\ meant.flags = r.flags
    BY <1>1 DEF Meant
  <2>3. GivenAll(Flags(r.numbers)) = r.numbers
    <3>1. r.numbers = [f \in NumberFields |-> r.numbers[f]]
      BY DEF RequestTyped, LikeNew, NewRequest
    <3>2. \A f \in NumberFields : IsOption(r.numbers[f])
      BY DEF RequestTyped
    <3> QED BY <3>1, <3>2, FlagsReadBack
  <2> QED BY <2>1, <2>2, <2>3
<1>8. got.tensors = meant.tensors
  <2>1. got.tensors = [f \in TensorFields |-> ReadView(View(r.tensors[f]))]
    BY DEF ReadAlone, RequestRead, Wired, Encoded
  <2>2. meant.tensors = [f \in TensorFields |-> Passed(r.tensors[f])]
    BY <1>1 DEF Meant
  <2>3. ASSUME NEW f \in TensorFields PROVE ReadView(View(r.tensors[f])) = Passed(r.tensors[f])
    BY TensorsValid, ViewReadBack DEF RequestTyped
  <2> QED BY <2>1, <2>2, <2>3
<1>9. got.sampling = meant.sampling
  <2> DEFINE s == r.sampling
  <2>1. got.sampling = [beam_width |-> s.beam_width, numbers |-> GivenAll(Flags(s.numbers)),
                        beam_width_array |-> NonEmpty(Slice(s.beam_width_array))]
    BY DEF ReadAlone, RequestRead, Wired, Encoded
  <2>2. meant.sampling = [s EXCEPT !.beam_width_array = @ \ {<<>>}]
    BY <1>1 DEF Meant
  <2>3. SamplingTyped(s)
    BY DEF RequestTyped
  <2> HIDE DEF s
  <2>4. s = [f \in {"beam_width", "numbers", "beam_width_array"} |-> s[f]]
    BY <2>3 DEF SamplingTyped, LikeNew, NewRequest
  <2>5. s.numbers = [f \in SamplingFields |-> s.numbers[f]]
    BY <2>3 DEF SamplingTyped, LikeNew, NewRequest
  <2>6. \A f \in SamplingFields : IsOption(s.numbers[f])
    BY <2>3 DEF SamplingTyped
  <2>7. GivenAll(Flags(s.numbers)) = s.numbers
    BY <2>5, <2>6, FlagsReadBack
  <2>8. NonEmpty(Slice(s.beam_width_array)) = s.beam_width_array \ {<<>>}
    BY <2>3, ListReadBack DEF SamplingTyped
  <2>9. \A x : [s EXCEPT !.beam_width_array = x]
                  = [beam_width |-> s.beam_width, numbers |-> s.numbers, beam_width_array |-> x]
    BY <2>4
  <2> QED BY <2>1, <2>2, <2>7, <2>8, <2>9
<1>10. got.prompt = meant.prompt /\ got.bias = meant.bias
  <2>1. /\ got.prompt = ReadTensor(w.prompt, <<w.rows, w.hidden>>)
        /\ got.bias = ReadTensor(w.bias, <<w.bias_len>>)
    BY DEF ReadAlone, RequestRead
  <2>2. meant.prompt = Passed(r.prompt) /\ meant.bias = Passed(r.bias)
    BY <1>1 DEF Meant
  <2> QED BY <2>1, <2>2, PromptReadBack
<1>11. got.extra_ids = meant.extra_ids
  <2>1. got.extra_ids = IF r.prompt = {} THEN <<>> ELSE TokenExtraIds(r, Profile)
    BY DEF ReadAlone, RequestRead, Wired, Encoded
  <2>2. meant.extra_ids = IF r.prompt = {} THEN <<>> ELSE TokenExtraIds(r, Profile)
    BY <1>1 DEF Meant
  <2> QED BY <2>1, <2>2
<1>12. got.position_ids = meant.position_ids /\ got.encoder_tokens = meant.encoder_tokens
  <2>1. /\ got.position_ids = NonEmpty(Slice(r.position_ids))
        /\ got.encoder_tokens = NonEmpty(Slice(r.encoder_tokens))
    BY DEF ReadAlone, RequestRead, Wired, Encoded
  <2>2. /\ meant.position_ids = r.position_ids \ {<<>>}
        /\ meant.encoder_tokens = r.encoder_tokens \ {<<>>}
    BY <1>1 DEF Meant
  <2>3. IsOption(r.position_ids) /\ IsOption(r.encoder_tokens)
    BY DEF RequestTyped
  <2> QED BY <2>1, <2>2, <2>3, ListReadBack
<1>13. got.bad_words = meant.bad_words /\ got.stop_words = meant.stop_words
  <2>1. /\ got.bad_words = ReadWords(WordView(buffers.bad), buffers.bad)
        /\ got.stop_words = ReadWords(WordView(buffers.stop), buffers.stop)
    BY DEF ReadAlone, RequestRead, Wired, Encoded
  <2>2. buffers.bad = WordBuffer(r.bad_words) /\ buffers.stop = WordBuffer(r.stop_words)
    BY DEF Laid, Filled, EmptyBuffers
  <2>3. r.bad_words \in Seq(Seq(Int)) /\ r.stop_words \in Seq(Seq(Int))
    BY DEF RequestTyped, IsWords
  <2>4. WordsValid(r.bad_words) /\ WordsValid(r.stop_words)
    BY DEF Accepted, RequestValid
  <2>5. /\ ReadWords(WordView(buffers.bad), buffers.bad) = r.bad_words
        /\ ReadWords(WordView(buffers.stop), buffers.stop) = r.stop_words
    BY <2>2, <2>3, <2>4, WordsReadBack
  <2>6. meant.bad_words = r.bad_words /\ meant.stop_words = r.stop_words
    BY <1>1 DEF Meant
  <2> QED BY <2>1, <2>5, <2>6
<1>14. got.draft = meant.draft
  <2>1. got.draft = SectionOf(Section(r.draft, DraftFields, {}), LAMBDA d :
               [tokens |-> d.tokens, logits |-> ReadView(d.logits),
                threshold |-> Given(d.threshold), fast_logits |-> Given(d.fast_logits)])
    BY DEF ReadAlone, RequestRead, Wired, Encoded
  <2>2. meant.draft = {[d EXCEPT !.logits = Passed(@)] : d \in r.draft}
    BY <1>1 DEF Meant
  <2>3. IsOption(r.draft) /\ \A d \in r.draft : DraftTyped(d)
    BY DEF RequestTyped
  <2>4. \A d \in r.draft : \A t \in d.logits : TensorValid(t)
    BY TensorsValid
  <2> QED BY <2>1, <2>2, <2>3, <2>4, DraftReadBack
<1>15. got.multimodal = meant.multimodal
  <2>1. got.multimodal = IF r.multimodal = {} THEN {} ELSE {MultimodalRead(The(r.multimodal), buffers)}
    BY DEF ReadAlone, RequestRead, Wired, Encoded, Section, SectionOf, MultimodalRead, MultimodalFields
  <2>2. meant.multimodal = r.multimodal
    BY <1>1 DEF Meant
  <2> HIDE DEF got, meant
  <2>3. CASE r.multimodal = {}
    BY <2>1, <2>2, <2>3
  <2>4. CASE r.multimodal # {}
    <3>1. PICK m : r.multimodal = {m} /\ The(r.multimodal) = m
      BY <2>4, OptionIs DEF RequestTyped
    <3>2. MultimodalTyped(m) /\ MultimodalValid(m)
      BY <3>1 DEF RequestTyped, Accepted, RequestValid
    <3>3. MultimodalRead(m, buffers) = m
      BY <3>1, <3>2, MultimodalReadBack
    <3> QED BY <2>1, <2>2, <2>4, <3>1, <3>3
  <2> QED BY <2>3, <2>4
<1>16. got.mrope = meant.mrope
  <2>1. got.mrope = LET section == Section(r.mrope, LAMBDA t : View({t}), NullView)
                    IN  IF section.has THEN ReadView(section.fields) ELSE {}
    BY DEF ReadAlone, RequestRead, Wired, Encoded
  <2>2. meant.mrope = Passed(r.mrope)
    BY <1>1 DEF Meant
  <2>3. IsTensor(r.mrope)
    BY DEF RequestTyped
  <2>4. \A t \in r.mrope : TensorValid(t)
    BY TensorsValid
  <2> QED BY <2>1, <2>2, <2>3, <2>4, MropeReadBack
<1>17. got.lora = meant.lora
  <2>1. got.lora = SectionOf(Section(r.lora, LAMBDA l : [weights |-> View(l.weights),
                                                         config |-> View(l.config)], {}),
                     LAMBDA l : [weights |-> ReadView(l.weights), config |-> ReadView(l.config)])
    BY DEF ReadAlone, RequestRead, Wired, Encoded
  <2>2. meant.lora = {[l EXCEPT !.weights = Passed(@), !.config = Passed(@)] : l \in r.lora}
    BY <1>1 DEF Meant
  <2>3. IsOption(r.lora) /\ \A l \in r.lora : LoraTyped(l)
    BY DEF RequestTyped
  <2>4. \A l \in r.lora : \A t \in l.weights \cup l.config : TensorValid(t)
    BY TensorsValid
  <2> QED BY <2>1, <2>2, <2>3, <2>4, LoraReadBack
<1>18. got.lookahead = meant.lookahead /\ got.guided = meant.guided
  <2>1. /\ got.lookahead = SectionOf(Section(r.lookahead, LAMBDA v : v, {}), LAMBDA v : v)
        /\ got.guided = SectionOf(Section(r.guided, LAMBDA v : v, {}), LAMBDA v : v)
    BY DEF ReadAlone, RequestRead, Wired, Encoded
  <2>2. meant.lookahead = r.lookahead /\ meant.guided = r.guided
    BY <1>1 DEF Meant
  <2>3. IsOption(r.lookahead) /\ IsOption(r.guided)
    BY DEF RequestTyped
  <2> QED BY <2>1, <2>2, <2>3, PlainReadBack
<1>19. got.retention = meant.retention
  <2>1. got.retention = IF r.retention = {} THEN {} ELSE {RetentionRead(The(r.retention), buffers)}
    BY DEF ReadAlone, RequestRead, Wired, Encoded, Section, SectionOf, RetentionRead, RetentionFields
  <2>2. meant.retention = r.retention
    BY <1>1 DEF Meant
  <2> HIDE DEF got, meant
  <2>3. CASE r.retention = {}
    BY <2>1, <2>2, <2>3
  <2>4. CASE r.retention # {}
    <3>1. PICK k : r.retention = {k} /\ The(r.retention) = k
      BY <2>4, OptionIs DEF RequestTyped
    <3>2. RetentionTyped(k)
      BY <3>1 DEF RequestTyped
    <3>3. RetentionRead(k, buffers) = k
      BY <3>1, <3>2, RetentionReadBack
    <3> QED BY <2>1, <2>2, <2>4, <3>1, <3>3
  <2> QED BY <2>3, <2>4
<1>20. got.context = meant.context
  <2>1. got.context = SectionOf(Section(r.context, ContextFields, {}), LAMBDA c :
               [first_tokens |-> c.first_tokens, draft_tokens |-> NonEmpty(c.draft_tokens),
                dp_rank |-> Given(c.dp_rank)])
    BY DEF ReadAlone, RequestRead, Wired, Encoded
  <2>2. meant.context = {[c EXCEPT !.draft_tokens = @ \ {<<>>}] : c \in r.context}
    BY <1>1 DEF Meant
  <2>3. IsOption(r.context) /\ \A c \in r.context : ContextTyped(c)
    BY DEF RequestTyped
  <2> QED BY <2>1, <2>2, <2>3, ContextReadBack
<1>21. got.eagle = meant.eagle
  <2>1. got.eagle = IF r.eagle = {} THEN {} ELSE {EagleRead(The(r.eagle), buffers)}
    BY DEF ReadAlone, RequestRead, Wired, Encoded, Section, SectionOf, EagleRead, EagleFields
  <2>2. meant.eagle = r.eagle
    BY <1>1 DEF Meant
  <2> HIDE DEF got, meant
  <2>3. CASE r.eagle = {}
    BY <2>1, <2>2, <2>3
  <2>4. CASE r.eagle # {}
    <3>1. PICK e : r.eagle = {e} /\ The(r.eagle) = e
      BY <2>4, OptionIs DEF RequestTyped
    <3>2. EagleTyped(e) /\ EagleValid(e)
      BY <3>1 DEF RequestTyped, Accepted, RequestValid
    <3>3. EagleRead(e, buffers) = e
      BY <3>1, <3>2, EagleReadBack
    <3> QED BY <2>1, <2>2, <2>4, <3>1, <3>3
  <2> QED BY <2>3, <2>4
<1>22. got.outputs = meant.outputs
  <2>1. got.outputs = SubSeq(buffers.outputs, 1, Len(buffers.outputs))
    BY DEF ReadAlone, RequestRead, Wired, Encoded
  <2>2. buffers.outputs = r.outputs
    BY DEF Laid, Filled, EmptyBuffers
  <2>3. IsList(r.outputs)
    BY DEF RequestTyped
  <2>4. meant.outputs = r.outputs
    BY <1>1 DEF Meant
  <2> QED BY <2>1, <2>2, <2>3, <2>4, WholeList
<1> HIDE DEF got, meant
<1>23. \A f \in fields : got[f] = meant[f]
  BY <1>6, <1>7, <1>8, <1>9, <1>10, <1>11, <1>12, <1>13, <1>14, <1>15, <1>16, <1>17, <1>18,
     <1>19, <1>20, <1>21, <1>22
<1> HIDE DEF fields
<1> QED BY <1>2, <1>3, <1>23 DEF got, meant

-----------------------------------------------------------------------------
(* What a sink adds to a request.                                           *)

(* The request with what the names at positions up to k add to it.          *)
Inferring(r, names, k, it) ==
    it = [s \in SUBSET (1 .. k) |->
             IF s = {} THEN r ELSE Inferred(it[s \ {Max(s)}], names[Max(s)])]

(* There is such a request for every list of names.                         *)
LEMMA InferencesExist ==
    ASSUME NEW r, NEW names
    PROVE  \A k \in Nat : \E it : Inferring(r, names, k, it)
<1> DEFINE Has == {k \in Nat : \E it : Inferring(r, names, k, it)}
<1>1. 0 \in Has
  <2> DEFINE it == [s \in SUBSET (1 .. 0) |-> r]
  <2>1. \A s \in SUBSET (1 .. 0) : s = {}
    OBVIOUS
  <2>2. Inferring(r, names, 0, it)
    BY <2>1 DEF Inferring
  <2> QED BY <2>2
<1>2. ASSUME NEW k \in Nat, k \in Has PROVE k + 1 \in Has
  <2>1. PICK it : Inferring(r, names, k, it)
    BY <1>2
  <2> DEFINE next == [s \in SUBSET (1 .. k + 1) |->
                         IF k + 1 \in s THEN Inferred(it[s \ {k + 1}], names[k + 1]) ELSE it[s]]
  <2>2. ASSUME NEW s \in SUBSET (1 .. k + 1)
        PROVE  next[s] = IF s = {} THEN r ELSE Inferred(next[s \ {Max(s)}], names[Max(s)])
    <3>1. CASE k + 1 \in s
      <4>1. Max(s) = k + 1
        BY <3>1, LargestPosition
      <4>2. s \ {k + 1} \in SUBSET (1 .. k + 1) /\ k + 1 \notin s \ {k + 1}
        OBVIOUS
      <4>3. next[s \ {k + 1}] = it[s \ {k + 1}]
        BY <4>2
      <4> QED BY <3>1, <4>1, <4>3
    <3>2. CASE s = {}
      <4>1. s \in SUBSET (1 .. k)
        BY <3>2
      <4>2. it[s] = r
        BY <2>1, <3>2, <4>1 DEF Inferring
      <4> QED BY <3>2, <4>2
    <3>3. CASE k + 1 \notin s /\ s # {}
      <4>1. s \in SUBSET (1 .. k)
        BY <3>3
      <4>2. it[s] = Inferred(it[s \ {Max(s)}], names[Max(s)])
        BY <2>1, <3>3, <4>1 DEF Inferring
      <4>3. s \ {Max(s)} \in SUBSET (1 .. k + 1) /\ k + 1 \notin s \ {Max(s)}
        BY <3>3
      <4> QED BY <3>3, <4>2, <4>3
    <3> QED BY <3>1, <3>2, <3>3
  <2>3. Inferring(r, names, k + 1, next)
    BY <2>2 DEF Inferring
  <2> HIDE DEF next
  <2> QED BY <2>3
<1> HIDE DEF Has
<1>3. Nat \subseteq Has
  BY <1>1, <1>2, SetInduction
<1> QED BY <1>3 DEF Has

(* WithSink folds the names of the sink in that order.                      *)
LEMMA InferenceIsFold ==
    ASSUME NEW r, NEW names, NEW n \in Nat, DOMAIN names = 1 .. n
    PROVE  \E it : Inferring(r, names, n, it)
                   /\ FoldLeft(Inferred, r, names) = it[1 .. n]
<1>1. \E it : Inferring(r, names, n, it)
  BY InferencesExist
<1> QED BY <1>1 DEF FoldLeft, MapThenFoldSet, Inferring

(* An output that is asked for leaves the types of a request alone.         *)
LEMMA InferredTyped ==
    ASSUME NEW r, RequestTyped(r), NEW name
    PROVE  RequestTyped(Inferred(r, name))
<1> DEFINE new == NewRequest(<<>>)
<1>1. ASSUME NEW flags, NEW q, q = [r EXCEPT !.flags = flags] PROVE RequestTyped(q)
  <2>1. LikeNew(q, new) /\ \A f \in DOMAIN new \ {"flags"} : q[f] = r[f]
    BY <1>1 DEF RequestTyped, LikeNew, NewRequest
  <2> HIDE DEF new
  <2> QED BY <2>1 DEF RequestTyped, new, NewRequest
<1>2. ASSUME NEW outputs, IsList(outputs), NEW q, q = [r EXCEPT !.outputs = outputs]
      PROVE  RequestTyped(q)
  <2>1. /\ LikeNew(q, new) /\ q.outputs = outputs
        /\ \A f \in DOMAIN new \ {"outputs"} : q[f] = r[f]
    BY <1>2 DEF RequestTyped, LikeNew, NewRequest
  <2> HIDE DEF new
  <2> QED BY <1>2, <2>1 DEF RequestTyped, new, NewRequest
<1>3. IsList(Append(r.outputs, name))
  <2>1. IsList(r.outputs)
    BY DEF RequestTyped
  <2> DEFINE grown == Append(r.outputs, name)
             S == {grown[i] : i \in DOMAIN grown}
             n == Len(r.outputs)
  <2>2. n \in Nat /\ DOMAIN r.outputs = 1 .. n /\ DOMAIN grown = 1 .. n + 1
    BY <2>1 DEF IsList
  <2>3. grown[n + 1] = name /\ \A i \in 1 .. n : grown[i] = r.outputs[i]
    BY <2>1 DEF IsList
  <2>4. \A i \in 1 .. n + 1 : grown[i] \in S
    BY <2>2
  <2>5. grown = [i \in 1 .. n + 1 |-> grown[i]]
    BY <2>1, <2>2 DEF IsList
  <2> HIDE DEF grown, S, n
  <2>6. grown \in Seq(S)
    BY <2>2, <2>4, <2>5
  <2> QED BY <2>6 DEF IsList, grown, S
<1>4. IsList(r.outputs)
  BY DEF RequestTyped
<1> HIDE DEF new
<1> QED BY <1>1, <1>2, <1>3, <1>4 DEF Inferred

(* The types of a call are those of the request it hands over.              *)
LEMMA WithSinkTyped ==
    ASSUME NEW call, CallTyped(call)
    PROVE  RequestTyped(WithSink(call))
<1>1. RequestTyped(call.request)
  BY DEF CallTyped
<1>2. CASE call.sink = {}
  BY <1>1, <1>2 DEF WithSink
<1>3. CASE call.sink # {}
  <2> DEFINE tensors == The(call.sink)
             names == NamesOf(tensors)
             n == Len(tensors)
  <2>1. tensors \in Seq(SinkTensor)
    BY <1>3, OptionIs DEF CallTyped
  <2>2. n \in Nat /\ DOMAIN names = 1 .. n
    BY <2>1 DEF NamesOf
  <2>3. WithSink(call) = FoldLeft(Inferred, call.request, names)
    BY <1>3 DEF WithSink
  <2> HIDE DEF names, n
  <2>4. PICK it : /\ Inferring(call.request, names, n, it)
                  /\ FoldLeft(Inferred, call.request, names) = it[1 .. n]
    BY <2>2, InferenceIsFold
  <2> DEFINE Has == {k \in Nat : k <= n => \A s \in SUBSET (1 .. k) : RequestTyped(it[s])}
  <2>5. 0 \in Has
    <3>1. ASSUME NEW s \in SUBSET (1 .. 0) PROVE RequestTyped(it[s])
      <4>1. s = {} /\ s \in SUBSET (1 .. n)
        OBVIOUS
      <4>2. it[s] = call.request
        BY <2>4, <4>1 DEF Inferring
      <4> QED BY <1>1, <4>2
    <3> QED BY <3>1
  <2>6. ASSUME NEW k \in Nat, k \in Has PROVE k + 1 \in Has
    <3> SUFFICES ASSUME k + 1 <= n, NEW s \in SUBSET (1 .. k + 1) PROVE RequestTyped(it[s])
      OBVIOUS
    <3>1. k <= n
      BY <2>2
    <3>2. CASE k + 1 \in s
      <4>1. Max(s) = k + 1
        BY <3>2, LargestPosition
      <4>2. s \in SUBSET (1 .. n) /\ s # {}
        BY <2>2, <3>2
      <4>3. it[s] = Inferred(it[s \ {k + 1}], names[k + 1])
        BY <2>4, <4>1, <4>2 DEF Inferring
      <4>4. s \ {k + 1} \in SUBSET (1 .. k)
        OBVIOUS
      <4>5. RequestTyped(it[s \ {k + 1}])
        BY <2>6, <3>1, <4>4
      <4> QED BY <4>3, <4>5, InferredTyped
    <3>3. CASE k + 1 \notin s
      <4>1. s \in SUBSET (1 .. k)
        BY <3>3
      <4> QED BY <2>6, <3>1, <4>1
    <3> QED BY <3>2, <3>3
  <2>7. n \in Has
    <3> HIDE DEF Has
    <3>1. Nat \subseteq Has
      BY <2>5, <2>6, SetInduction
    <3> QED BY <2>2, <3>1
  <2>8. RequestTyped(it[1 .. n])
    BY <2>2, <2>7
  <2> QED BY <2>3, <2>4, <2>8
<1> QED BY <1>2, <1>3

(* Every request that run accepts is read as it was meant, when its buffers *)
(* were empty.                                                              *)
LEMMA CallReadBack ==
    ASSUME NEW call \in Calls, CallAccepted(call)
    PROVE  ReadAlone(WithSink(call)) = Meant(WithSink(call))
<1>1. RequestTyped(WithSink(call))
  BY CallsAssumption, WithSinkTyped
<1>2. Accepted(WithSink(call), Profile)
  BY DEF CallAccepted
<1> QED BY <1>1, <1>2, RequestReadBack

-----------------------------------------------------------------------------
(* The shim refuses nothing that was accepted.                              *)

(* The codes of the types have the sizes of the types.                      *)
LEMMA CodesSized ==
    ASSUME NEW dtype \in DOMAIN TypeCodes
    PROVE  /\ TypeCodes[dtype] \in DOMAIN CodeBytes
           /\ CodeBytes[TypeCodes[dtype]] = DtypeBytes[dtype]
<1>1. dtype \in {"u8", "i32", "i64", "bf16", "f16", "f32"}
  BY DEF TypeCodes
<1>2. TypeCodes[dtype] = CASE dtype = "u8" -> 1 [] dtype = "i32" -> 3 [] dtype = "i64" -> 4
                           [] dtype = "bf16" -> 5 [] dtype = "f16" -> 7 [] OTHER -> 8
  BY <1>1 DEF TypeCodes
<1>3. DtypeBytes[dtype] = CASE dtype = "u8" -> 1 [] dtype = "i32" -> 4 [] dtype = "i64" -> 8
                            [] dtype = "bf16" -> 2 [] dtype = "f16" -> 2 [] OTHER -> 4
  BY <1>1 DEF DtypeBytes
<1>4. /\ CodeBytes[1] = 1 /\ CodeBytes[3] = 4 /\ CodeBytes[4] = 8
      /\ CodeBytes[5] = 2 /\ CodeBytes[7] = 2 /\ CodeBytes[8] = 4
      /\ {1, 3, 4, 5, 7, 8} \subseteq DOMAIN CodeBytes
  BY DEF CodeBytes
<1>5. TypeCodes[dtype] \in {1, 3, 4, 5, 7, 8}
  BY <1>1, <1>2
<1> QED BY <1>1, <1>2, <1>3, <1>4, <1>5

(* The shim does not refuse a valid tensor of the shape it is told.         *)
LEMMA TensorsReadable ==
    ASSUME NEW option, IsTensor(option), \A t \in option : TensorValid(t),
           NEW shape, \A t \in option : t.dims = shape
    PROVE  TensorReadable(View(option), shape)
<1>1. CASE option = {}
  BY <1>1 DEF View, NullView, TensorReadable
<1>2. CASE option # {}
  <2>1. PICK t : option = {t} /\ The(option) = t
    BY <1>2, OptionIs DEF IsTensor
  <2>2. t.dims \in Seq(Nat) /\ TensorValid(t) /\ t.dims = shape
    BY <2>1 DEF IsTensor
  <2>3. View(option).code = TypeCodes[t.dtype] /\ View(option).bytes = ByteLen(t)
    BY <1>2, <2>1 DEF View
  <2>4. ByteLen(t) = Product(t.dims) * DtypeBytes[t.dtype]
    BY <2>2, EmptyTensor
  <2>5. t.dtype \in DOMAIN TypeCodes
    BY <2>2 DEF TensorValid
  <2> QED BY <2>2, <2>3, <2>4, <2>5, CodesSized DEF TensorReadable
<1> QED BY <1>1, <1>2

(* Nor a valid tensor that travels with its own shape.                      *)
LEMMA ViewsReadable ==
    ASSUME NEW option, IsTensor(option), \A t \in option : TensorValid(t)
    PROVE  ViewReadable(View(option))
<1>1. CASE option = {}
  BY <1>1 DEF View, NullView, ViewReadable, TensorReadable
<1>2. CASE option # {}
  <2>1. PICK t : option = {t} /\ The(option) = t
    BY <1>2, OptionIs DEF IsTensor
  <2>2. View(option).shape = t.dims
    BY <1>2, <2>1 DEF View
  <2>3. \A u \in option : u.dims = t.dims
    BY <2>1
  <2>4. TensorReadable(View(option), t.dims)
    BY <2>3, TensorsReadable
  <2> QED BY <2>2, <2>4 DEF ViewReadable
<1> QED BY <1>1, <1>2

(* An accepted request is readable, but for a tensor of mrope without       *)
(* elements and an output without a name.                                   *)
THEOREM RequestIsReadable ==
    ASSUME NEW r, RequestTyped(r), Accepted(r, Profile),
           \A t \in r.mrope : Product(t.dims) # 0,
           ~Contains(r.outputs, <<>>)
    PROVE  RequestReadable(Wired(r), Laid(r))
<1> DEFINE w == Wired(r)
           buffers == Laid(r)
<1>1. RequestValid(r, Profile)
  BY DEF Accepted
<1>2. w.tokens = r.tokens /\ w.max_new_tokens = r.max_new_tokens /\ r.tokens \in Seq(Int)
  BY DEF Wired, Encoded, RequestTyped
<1>3. w.tokens # <<>> /\ w.max_new_tokens >= 0
  BY <1>1, <1>2 DEF RequestValid
<1>4. w.rows > 0 => Len(w.extra_ids) = Len(w.tokens)
  <2>1. /\ w.rows = IF r.prompt = {} THEN 0 ELSE The(r.prompt).dims[1]
        /\ w.extra_ids = IF r.prompt = {} THEN <<>> ELSE TokenExtraIds(r, Profile)
    BY DEF Wired, Encoded
  <2>2. Len(TokenExtraIds(r, Profile)) = Len(r.tokens)
    <3>1. CASE r.extra_ids = {}
      <4> DEFINE Id(i) == IF r.tokens[i] >= Profile.vocab_size
                          THEN r.tokens[i] - Profile.vocab_size ELSE 0
      <4>1. TokenExtraIds(r, Profile) = [i \in DOMAIN r.tokens |-> Id(i)]
        BY <3>1 DEF TokenExtraIds
      <4>2. DOMAIN r.tokens = 1 .. Len(r.tokens) /\ Len(r.tokens) \in Nat
        BY <1>2
      <4> HIDE DEF Id
      <4> QED BY <4>1, <4>2
    <3>2. CASE r.extra_ids # {}
      <4>1. The(r.extra_ids) \in r.extra_ids
        BY <3>2 DEF The
      <4> QED BY <1>1, <3>2, <4>1 DEF RequestValid, TokenExtraIds
    <3> QED BY <3>1, <3>2
  <2> HIDE DEF w
  <2> QED BY <1>2, <2>1, <2>2
<1>5. Len(w.position_ids) \in {0, Len(w.tokens)}
  <2>1. w.position_ids = Slice(r.position_ids)
    BY DEF Wired, Encoded
  <2>2. CASE r.position_ids = {}
    BY <2>1, <2>2 DEF Slice
  <2>3. CASE r.position_ids # {}
    <3>1. The(r.position_ids) \in r.position_ids
      BY <2>3 DEF The
    <3> QED BY <1>1, <1>2, <2>1, <2>3, <3>1 DEF RequestValid, Slice
  <2> QED BY <2>2, <2>3
<1>6. TensorReadable(w.prompt, <<w.rows, w.hidden>>) /\ TensorReadable(w.bias, <<w.bias_len>>)
  <2>1. w.prompt = View(r.prompt) /\ w.bias = View(r.bias)
    BY DEF Wired, Encoded
  <2>2. IsTensor(r.prompt) /\ IsTensor(r.bias)
    BY DEF RequestTyped
  <2>3. /\ \A t \in r.prompt : t.dims = <<w.rows, w.hidden>>
        /\ \A t \in r.bias : t.dims = <<w.bias_len>>
    BY PromptReadBack
  <2>4. (\A t \in r.prompt : TensorValid(t)) /\ (\A t \in r.bias : TensorValid(t))
    BY TensorsValid
  <2> HIDE DEF w
  <2> QED BY <2>1, <2>2, <2>3, <2>4, TensorsReadable
<1>7. WordsReadable(w.bad, buffers.bad) /\ WordsReadable(w.stop, buffers.stop)
  <2>1. /\ w.bad = WordView(buffers.bad) /\ w.stop = WordView(buffers.stop)
        /\ buffers.bad = WordBuffer(r.bad_words) /\ buffers.stop = WordBuffer(r.stop_words)
    BY DEF Wired, Encoded, Laid, Filled, EmptyBuffers
  <2>2. r.bad_words \in Seq(Seq(Int)) /\ r.stop_words \in Seq(Seq(Int))
    BY DEF RequestTyped, IsWords
  <2>3. WordsValid(r.bad_words) /\ WordsValid(r.stop_words)
    BY <1>1 DEF RequestValid
  <2> HIDE DEF w, buffers
  <2> QED BY <2>1, <2>2, <2>3, WordsReadBack
<1>8. ASSUME NEW f \in TensorFields PROVE ViewReadable(w.tensors[f])
  <2>1. w.tensors[f] = View(r.tensors[f])
    BY DEF Wired, Encoded
  <2>2. IsTensor(r.tensors[f])
    BY DEF RequestTyped
  <2>3. \A t \in r.tensors[f] : TensorValid(t)
    BY TensorsValid
  <2> QED BY <2>1, <2>2, <2>3, ViewsReadable
<1>9. w.draft.has => w.draft.fields.tokens # <<>> /\ ViewReadable(w.draft.fields.logits)
  <2>1. /\ w.draft.has = (r.draft # {})
        /\ r.draft # {} => w.draft.fields = DraftFields(The(r.draft))
    BY DEF Wired, Encoded, Section
  <2>2. CASE r.draft = {}
    BY <2>1, <2>2
  <2>3. CASE r.draft # {}
    <3>1. PICK d : r.draft = {d} /\ The(r.draft) = d
      BY <2>3, OptionIs DEF RequestTyped
    <3>2. DraftTyped(d) /\ DraftValid(d) /\ \A t \in d.logits : TensorValid(t)
      BY <1>1, <3>1, TensorsValid DEF RequestTyped, RequestValid
    <3>3. w.draft.fields.tokens = d.tokens /\ w.draft.fields.logits = View(d.logits)
      BY <2>1, <2>3, <3>1 DEF DraftFields
    <3>4. ViewReadable(View(d.logits))
      BY <3>2, ViewsReadable DEF DraftTyped
    <3> QED BY <3>2, <3>3, <3>4 DEF DraftValid
  <2> QED BY <2>2, <2>3
<1>10. w.multimodal.has => MultimodalReadable(w.multimodal.fields, buffers)
  <2>1. /\ w.multimodal.has = (r.multimodal # {})
        /\ r.multimodal # {} => w.multimodal.fields = MultimodalFields(The(r.multimodal), buffers)
    BY DEF Wired, Encoded, Section
  <2>2. CASE r.multimodal = {}
    BY <2>1, <2>2
  <2>3. CASE r.multimodal # {}
    <3>1. PICK m : r.multimodal = {m} /\ The(r.multimodal) = m
      BY <2>3, OptionIs DEF RequestTyped
    <3>2. MultimodalTyped(m) /\ MultimodalValid(m)
      BY <1>1, <3>1 DEF RequestTyped, RequestValid
    <3>3. w.multimodal.fields = MultimodalFields(m, buffers)
      BY <2>1, <2>3, <3>1
    <3>4. buffers.hashes = WordBuffer(m.hashes) /\ buffers.uuids = m.uuids
      BY <2>3, <3>1 DEF Laid, Filled, EmptyBuffers
    <3> DEFINE v == MultimodalFields(m, buffers)
    <3>5. /\ v.hashes = WordView(WordBuffer(m.hashes)) /\ v.positions = m.positions
          /\ v.lengths = m.lengths /\ v.uuids = Len(m.uuids)
      BY <3>4 DEF MultimodalFields
    <3> HIDE DEF v, buffers
    <3>6. m.hashes \in Seq(Seq(Int)) /\ WordsValid(m.hashes)
      BY <3>2 DEF MultimodalTyped, MultimodalValid, IsWords
    <3>7. /\ WordsReadable(v.hashes, buffers.hashes)
          /\ v.hashes.offsets = IF m.hashes = <<>> THEN 0 ELSE Len(m.hashes) + 1
      BY <3>4, <3>5, <3>6, WordsReadBack
    <3>8. (IF v.hashes.offsets = 0 THEN 0 ELSE v.hashes.offsets - 1) = Len(m.hashes)
      <4>1. Len(m.hashes) \in Nat /\ (m.hashes = <<>> => Len(m.hashes) = 0)
        BY <3>6
      <4> QED BY <3>7, <4>1
    <3>9. MultimodalReadable(v, buffers)
      BY <3>2, <3>5, <3>7, <3>8 DEF MultimodalReadable, MultimodalValid
    <3> QED BY <3>3, <3>9 DEF v
  <2> QED BY <2>2, <2>3
<1>11. w.mrope.has => w.mrope.fields.bytes # 0 /\ ViewReadable(w.mrope.fields)
  <2>1. /\ w.mrope.has = (r.mrope # {})
        /\ r.mrope # {} => w.mrope.fields = View({The(r.mrope)})
    BY DEF Wired, Encoded, Section
  <2>2. CASE r.mrope = {}
    BY <2>1, <2>2
  <2>3. CASE r.mrope # {}
    <3>1. PICK t : r.mrope = {t} /\ The(r.mrope) = t
      BY <2>3, OptionIs DEF RequestTyped, IsTensor
    <3>2. IsTensor(r.mrope) /\ t.dims \in Seq(Nat) /\ TensorValid(t)
      BY <3>1, TensorsValid DEF RequestTyped, IsTensor
    <3>3. w.mrope.fields = View(r.mrope)
      BY <2>1, <2>3, <3>1
    <3>4. View(r.mrope).bytes = ByteLen(t)
      BY <2>3, <3>1 DEF View
    <3>5. ByteLen(t) # 0
      BY <3>1, <3>2, EmptyTensor
    <3>6. ViewReadable(View(r.mrope))
      BY <3>1, <3>2, ViewsReadable
    <3> QED BY <3>3, <3>4, <3>5, <3>6
  <2> QED BY <2>2, <2>3
<1>12. w.lora.has => ViewReadable(w.lora.fields.weights) /\ ViewReadable(w.lora.fields.config)
  <2>1. /\ w.lora.has = (r.lora # {})
        /\ r.lora # {} => w.lora.fields = [weights |-> View(The(r.lora).weights), config |-> View(The(r.lora).config)]
    BY DEF Wired, Encoded, Section
  <2>2. CASE r.lora = {}
    BY <2>1, <2>2
  <2>3. CASE r.lora # {}
    <3>1. PICK l : r.lora = {l} /\ The(r.lora) = l
      BY <2>3, OptionIs DEF RequestTyped
    <3>2. LoraTyped(l) /\ \A t \in l.weights \cup l.config : TensorValid(t)
      BY <3>1, TensorsValid DEF RequestTyped
    <3>3. w.lora.fields.weights = View(l.weights) /\ w.lora.fields.config = View(l.config)
      BY <2>1, <2>3, <3>1
    <3>4. ViewReadable(View(l.weights)) /\ ViewReadable(View(l.config))
      BY <3>2, ViewsReadable DEF LoraTyped
    <3> QED BY <3>3, <3>4
  <2> QED BY <2>2, <2>3
<1>13. w.context.has => w.context.fields.first_tokens # <<>>
  <2>1. /\ w.context.has = (r.context # {})
        /\ r.context # {} => w.context.fields = ContextFields(The(r.context))
    BY DEF Wired, Encoded, Section
  <2>2. CASE r.context # {}
    <3>1. The(r.context) \in r.context
      BY <2>2 DEF The
    <3> QED BY <1>1, <2>1, <2>2, <3>1 DEF ContextFields, RequestValid
  <2> QED BY <2>1, <2>2
<1>14. w.eagle.has => WordsReadable(w.eagle.fields.choices, buffers.choices)
  <2>1. /\ w.eagle.has = (r.eagle # {})
        /\ r.eagle # {} => w.eagle.fields = EagleFields(The(r.eagle), buffers)
    BY DEF Wired, Encoded, Section
  <2>2. CASE r.eagle = {}
    BY <2>1, <2>2
  <2>3. CASE r.eagle # {}
    <3>1. PICK e : r.eagle = {e} /\ The(r.eagle) = e
      BY <2>3, OptionIs DEF RequestTyped
    <3>2. EagleTyped(e) /\ EagleValid(e)
      BY <1>1, <3>1 DEF RequestTyped, RequestValid
    <3>3. buffers.choices = WordBuffer(e.choices)
      BY <2>3, <3>1 DEF Laid, Filled, EmptyBuffers
    <3>4. w.eagle.fields.choices = WordView(buffers.choices)
      BY <2>1, <2>3, <3>1 DEF EagleFields
    <3> HIDE DEF buffers, w
    <3>5. e.choices \in Seq(Seq(Int)) /\ WordsValid(e.choices)
      BY <3>2 DEF EagleTyped, EagleValid, IsWords
    <3> QED BY <3>3, <3>4, <3>5, WordsReadBack
  <2> QED BY <2>2, <2>3
<1>15. OutputsReadable(w.outputs, buffers.outputs)
  <2>1. buffers.outputs = r.outputs /\ w.outputs = Len(buffers.outputs)
    BY DEF Wired, Encoded, Laid, Filled, EmptyBuffers
  <2> QED BY <2>1 DEF OutputsReadable, Contains
<1> HIDE DEF w, buffers
<1>16. RequestReadable(w, buffers)
  BY <1>3, <1>4, <1>5, <1>6, <1>7, <1>8, <1>9, <1>10, <1>11, <1>12, <1>13, <1>14, <1>15
     DEF RequestReadable
<1> QED BY <1>16 DEF w, buffers

-----------------------------------------------------------------------------
(* The tensors of a sink that are laid out in a scratch that was cleared    *)
(* are what the shim finds there.                                           *)
THEOREM SinkReadBack ==
    ASSUME NEW tensors \in Seq(SinkTensor)
    PROVE  SinkSeen(LaidOut(EmptyScratch, tensors)) = tensors
<1> DEFINE laid == LaidOut(EmptyScratch, tensors)
           dims == DimsOf(tensors)
           n == Len(tensors)
<1>1. n \in Nat /\ DOMAIN tensors = 1 .. n /\ \A i \in 1 .. n : tensors[i] \in SinkTensor
  OBVIOUS
<1>2. DOMAIN laid.views = 1 .. n
  BY <1>1 DEF LaidOut
<1>3. CASE n = 0
  <2>1. tensors = <<>>
    BY <1>3
  <2>2. SinkSeen(laid) = [i \in 1 .. 0 |-> tensors[i]]
    BY <1>2, <1>3 DEF SinkSeen
  <2> HIDE DEF laid
  <2>3. SinkSeen(laid) = tensors
    BY <1>1, <1>3, <2>2
  <2> QED BY <2>3 DEF laid
<1>4. CASE n # 0
  <2>1. ~LayoutMatches(EmptyScratch, tensors)
    BY <1>1, <1>4 DEF LayoutMatches, EmptyScratch
  <2>2. /\ laid.names = NamesOf(tensors)
        /\ laid.values = FlattenSeq(dims)
        /\ laid.ranges = [i \in 1 .. n |-> [start |-> Len(FlattenSeq(SubSeq(dims, 1, i - 1))),
                                            length |-> Len(tensors[i].dims)]]
        /\ laid.views = [i \in 1 .. n |-> [code |-> tensors[i].code, data |-> tensors[i].start,
                                           bytes |-> SinkBytes(tensors[i])]]
    BY <1>1, <2>1 DEF LaidOut, Layout
  <2>3. dims = [i \in 1 .. n |-> tensors[i].dims]
    BY <1>1 DEF DimsOf
  <2>4. \A i \in 1 .. n : tensors[i].dims \in Seq(Nat)
    BY <1>1 DEF SinkTensor
  <2> HIDE DEF laid, dims, n
  <2>5. dims \in Seq(Seq(Nat)) /\ n = Len(dims)
    <3> DEFINE S == Seq(Nat)
    <3>1. \A i \in 1 .. n : tensors[i].dims \in S
      BY <2>4
    <3> HIDE DEF S
    <3>2. dims \in Seq(S) /\ n = Len(dims)
      BY <1>1, <2>3, <3>1
    <3> QED BY <3>2 DEF S
  <2>6. ASSUME NEW i \in 1 .. n PROVE ShapeSlice(laid, i) = tensors[i].dims
    <3>1. PICK k \in Nat : k = i - 1
      BY <1>1
    <3>2. i = k + 1 /\ i <= n /\ k \in 0 .. n
      BY <1>1, <3>1
    <3>3. /\ Nth(dims, i) \in Seq(Nat)
          /\ End(dims, i) = End(dims, k) + Len(Nth(dims, i))
          /\ Between(FlattenSeq(dims), End(dims, k), End(dims, i)) = Nth(dims, i)
      BY <2>5, <3>2, PartBetweenEnds
    <3>4. Nth(dims, i) = tensors[i].dims
      BY <2>3 DEF Nth
    <3>5. laid.ranges[i].start = End(dims, k) /\ laid.ranges[i].length = Len(Nth(dims, i))
      BY <2>2, <3>1, <3>4 DEF End
    <3> QED BY <2>2, <3>3, <3>4, <3>5 DEF ShapeSlice, Between
  <2>7. ASSUME NEW i \in 1 .. n PROVE SinkSeen(laid)[i] = tensors[i]
    <3>1. tensors[i] \in SinkTensor
      BY <1>1
    <3>2. SinkSeen(laid)[i] = [name |-> laid.names[i], code |-> laid.views[i].code,
                               dims |-> ShapeSlice(laid, i), start |-> laid.views[i].data]
      BY <1>2 DEF SinkSeen
    <3>3. laid.names[i] = tensors[i].name
      BY <1>1, <2>2 DEF NamesOf
    <3>4. laid.views[i].code = tensors[i].code /\ laid.views[i].data = tensors[i].start
      BY <2>2
    <3>5. tensors[i] = [name |-> tensors[i].name, code |-> tensors[i].code,
                        dims |-> tensors[i].dims, start |-> tensors[i].start]
      BY <3>1 DEF SinkTensor
    <3> QED BY <2>6, <3>2, <3>3, <3>4, <3>5
  <2>8. SinkSeen(laid) = [i \in 1 .. n |-> SinkSeen(laid)[i]]
    BY <1>2 DEF SinkSeen
  <2>9. tensors = [i \in 1 .. n |-> tensors[i]]
    BY <1>1
  <2>10. SinkSeen(laid) = tensors
    BY <2>7, <2>8, <2>9
  <2> QED BY <2>10 DEF laid
<1> QED BY <1>3, <1>4
===============================================================================
