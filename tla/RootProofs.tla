------------------------------- MODULE RootProofs -------------------------------
(***************************************************************************)
(* Theorems about the two roots of run_stateless_guest, for all values of  *)
(* the constants: new_payload_request_root is the hash_tree_root of SSZ,   *)
(* and the post-state root that of the state after the block.              *)
(*                                                                         *)
(* Induction over numbers is made from the least element of a set; it      *)
(* gives Merkle's recursive functions, the tree as the hash of its halves, *)
(* and from there merkleize_power_of_two with a table that is valid as far *)
(* as it is filled, merkleize, and the htr_* functions one by one.  The    *)
(* same functions are then read backwards, from the collision-free hash to *)
(* the request: equal roots are roots of equal values.                     *)
(***************************************************************************)
EXTENDS RequestRoot, StateDelta, WellFoundedInduction, TLAPS

-----------------------------------------------------------------------------
\* A set of numbers that is not empty has a least one.
LEMMA Least ==
    ASSUME NEW T \in SUBSET Nat, T # {}
    PROVE  \E x \in T : \A y \in T : x <= y
  <1> DEFINE R == OpToRel(<, Nat)
  <1>1. IsWellFoundedOn(R, Nat)
    BY NatLessThanWellFounded
  <1>2. PICK x \in T : \A y \in T : ~ (<<y, x>> \in R)
    <2> HIDE DEF R
    <2> QED BY <1>1, WFMin
  <1>3. \A y \in T : ~ (<<y, x>> \in {ss \in Nat \X Nat : ss[1] < ss[2]})
    BY <1>2 DEF OpToRel
  <1>4. \A y \in T : ~ (y < x)
    BY <1>3
  <1> QED BY <1>4

\* Induction on a set of numbers, from the least one that is not in it.
LEMMA Induction ==
    ASSUME NEW S \in SUBSET Nat, 0 \in S, \A k \in S : k + 1 \in S
    PROVE  S = Nat
  <1> SUFFICES ASSUME S # Nat PROVE FALSE
    OBVIOUS
  <1>1. PICK x \in Nat \ S : \A y \in Nat \ S : x <= y
    BY Least
  <1>2. x # 0 /\ x - 1 \in Nat
    BY <1>1
  <1>3. x - 1 \in S
    BY <1>1, <1>2
  <1>4. x \in S
    BY <1>2, <1>3
  <1> QED BY <1>1, <1>4

\* A function on the numbers is determined by its first value and a step.
Iterates(T, a, G) ==
    {f \in [Nat -> T] : f[0] = a /\ \A k \in Nat : f[k + 1] = G[k][f[k]]}

\* Such a function exists: that is what the recursive functions of Merkle are.
LEMMA Recursion ==
    ASSUME NEW T, NEW a \in T, NEW G \in [Nat -> [T -> T]]
    PROVE  Iterates(T, a, G) # {}
  <1> DEFINE Upto(n) == {g \in [0..n -> T] :
                             g[0] = a /\ \A k \in 0..(n - 1) : g[k + 1] = G[k][g[k]]}
  <1>1. \A n \in Nat : Upto(n) # {}
    <2> DEFINE S == {n \in Nat : Upto(n) # {}}
    <2>1. 0 \in S
      <3>1. [i \in 0..0 |-> a] \in Upto(0)
        OBVIOUS
      <3> QED BY <3>1
    <2>2. ASSUME NEW n \in S PROVE n + 1 \in S
      <3>1. PICK g \in Upto(n) : TRUE
        OBVIOUS
      <3> DEFINE h == [i \in 0..(n + 1) |-> IF i = n + 1 THEN G[n][g[n]] ELSE g[i]]
      <3>2. g \in [0..n -> T] /\ g[0] = a /\ \A k \in 0..(n - 1) : g[k + 1] = G[k][g[k]]
        BY <3>1
      <3>3. G[n][g[n]] \in T
        BY <3>2
      <3>4. h \in [0..(n + 1) -> T]
        BY <3>2, <3>3
      <3>5. h[0] = a
        BY <3>2
      <3>6. ASSUME NEW k \in 0..n PROVE h[k + 1] = G[k][h[k]]
        <4>1. CASE k = n
          <5>1. h[n + 1] = G[n][g[n]] /\ h[n] = g[n]
            OBVIOUS
          <5> QED BY <4>1, <5>1
        <4>2. CASE k # n
          BY <3>2, <4>2
        <4> QED BY <4>1, <4>2
      <3>7. (n + 1) - 1 = n
        OBVIOUS
      <3> HIDE DEF h
      <3>8. h \in Upto(n + 1)
        BY <3>4, <3>5, <3>6, <3>7
      <3>9. n + 1 \in Nat
        OBVIOUS
      <3> HIDE DEF Upto
      <3> QED BY <3>8, <3>9
    <2> HIDE DEF S
    <2>3. S = Nat
      <3>1. S \in SUBSET Nat
        BY DEF S
      <3> QED BY <2>1, <2>2, <3>1, Induction
    <2> QED BY <2>3 DEF S
  <1>2. ASSUME NEW n \in Nat, NEW m \in Nat, n <= m, NEW g \in Upto(n), NEW h \in Upto(m)
        PROVE  g[n] = h[n]
    <2> DEFINE S == {i \in Nat : i <= n => g[i] = h[i]}
    <2>1. /\ g[0] = a /\ \A k \in 0..(n - 1) : g[k + 1] = G[k][g[k]]
          /\ h[0] = a /\ \A k \in 0..(m - 1) : h[k + 1] = G[k][h[k]]
      OBVIOUS
    <2>4. 0 \in S
      BY <2>1
    <2>2. ASSUME NEW i \in S PROVE i + 1 \in S
      <3>1. CASE i + 1 <= n
        <4>0. i \in Nat /\ i <= n
          BY <3>1
        <4>1. i \in 0..(n - 1) /\ i \in 0..(m - 1)
          <5> HIDE DEF Upto, S
          <5> QED BY <3>1, <4>0, <1>2
        <4>3. g[i] = h[i]
          BY <4>0
        <4>2. g[i + 1] = h[i + 1]
          BY <2>1, <4>1, <4>3
        <4> QED BY <4>2
      <3> QED BY <3>1
    <2>3. S = Nat
      BY <2>4, <2>2, Induction
    <2> QED BY <2>3
  <1> DEFINE F == [n \in Nat |-> (CHOOSE g \in Upto(n) : TRUE)[n]]
  <1>3. ASSUME NEW n \in Nat PROVE \E g \in Upto(n) : F[n] = g[n]
    BY <1>1
  <1> HIDE DEF F
  <1>4. F[0] = a
    BY <1>3
  <1>5. F \in [Nat -> T]
    <2>1. \A n \in Nat : F[n] \in T
      BY <1>3
    <2> QED BY <2>1 DEF F
  <1>6. ASSUME NEW k \in Nat PROVE F[k + 1] = G[k][F[k]]
    <2>1. PICK h \in Upto(k + 1) : F[k + 1] = h[k + 1]
      <3>1. k + 1 \in Nat
        OBVIOUS
      <3> HIDE DEF Upto
      <3> QED BY <1>3, <3>1
    <2>2. PICK g \in Upto(k) : F[k] = g[k]
      BY <1>3
    <2>3. g[k] = h[k]
      <3>1. k \in Nat /\ k + 1 \in Nat /\ k <= k + 1
        OBVIOUS
      <3> HIDE DEF Upto
      <3> QED BY <1>2, <3>1
    <2>4. h[k + 1] = G[k][h[k]]
      <3>1. k \in 0..((k + 1) - 1)
        OBVIOUS
      <3>2. \A i \in 0..((k + 1) - 1) : h[i + 1] = G[i][h[i]]
        OBVIOUS
      <3> QED BY <3>1, <3>2
    <2> QED BY <2>1, <2>2, <2>3, <2>4
  <1> QED BY <1>4, <1>5, <1>6 DEF Iterates

-----------------------------------------------------------------------------
\* The powers of two.
LEMMA Pow2Type ==
    Pow2 \in [Nat -> Nat] /\ Pow2[0] = 1 /\ \A e \in Nat : Pow2[e + 1] = 2 * Pow2[e]
  <1> DEFINE G == [k \in Nat |-> [p \in Nat |-> 2 * p]]
             Step(f) == [e \in Nat |-> IF e = 0 THEN 1 ELSE 2 * f[e - 1]]
  <1>1. PICK f \in [Nat -> Nat] : f[0] = 1 /\ \A k \in Nat : f[k + 1] = G[k][f[k]]
    <2>1. G \in [Nat -> [Nat -> Nat]]
      OBVIOUS
    <2> HIDE DEF G
    <2>2. Iterates(Nat, 1, G) # {}
      BY <2>1, Recursion
    <2> QED BY <2>2 DEF Iterates
  <1>2. ASSUME NEW e \in Nat PROVE f[e] = IF e = 0 THEN 1 ELSE 2 * f[e - 1]
    <2>1. CASE e = 0
      BY <1>1, <2>1
    <2>2. CASE e # 0
      <3>1. e - 1 \in Nat /\ (e - 1) + 1 = e
        BY <2>2
      <3>2. f[(e - 1) + 1] = G[e - 1][f[e - 1]]
        BY <1>1, <3>1
      <3>3. f[e - 1] \in Nat
        BY <1>1, <3>1
      <3> QED BY <3>1, <3>2, <3>3, <2>2
    <2> QED BY <2>1, <2>2
  <1>3. f = Step(f)
    BY <1>1, <1>2
  <1>4. Pow2 = CHOOSE g : g = Step(g)
    BY DEF Pow2
  <1> HIDE DEF Step
  <1>5. Pow2 = Step(Pow2)
    BY <1>3, <1>4
  <1>6. \A e \in Nat : Pow2[e] = IF e = 0 THEN 1 ELSE 2 * Pow2[e - 1]
    BY <1>5 DEF Step
  <1>7. Pow2[0] = 1
    BY <1>6
  <1>8. \A e \in Nat : Pow2[e + 1] = 2 * Pow2[e]
    BY <1>6
  <1>9. \A e \in Nat : Pow2[e] \in Nat
    <2> DEFINE S == {e \in Nat : Pow2[e] \in Nat}
    <2>1. 0 \in S
      BY <1>7
    <2>2. ASSUME NEW e \in S PROVE e + 1 \in S
      BY <1>8
    <2> HIDE DEF S
    <2>3. S = Nat
      <3>1. S \subseteq Nat
        BY DEF S
      <3> QED BY <2>1, <2>2, <3>1, Induction
    <2> QED BY <2>3 DEF S
  <1>10. Pow2 = [e \in Nat |-> Pow2[e]]
    BY <1>5 DEF Step
  <1> QED BY <1>7, <1>8, <1>9, <1>10

\* A tree of that height has more leaves than levels.
LEMMA Pow2Grows ==
    \A e \in Nat : Pow2[e] > e /\ Pow2[e] >= 1
  <1> DEFINE S == {e \in Nat : Pow2[e] > e /\ Pow2[e] >= 1}
  <1>1. 0 \in S
    BY Pow2Type
  <1>2. ASSUME NEW e \in S PROVE e + 1 \in S
    <2>1. Pow2[e + 1] = 2 * Pow2[e] /\ Pow2[e] \in Nat /\ Pow2[e] > e
      BY Pow2Type
    <2> QED BY <2>1
  <1> HIDE DEF S
  <1>3. S = Nat
    <2>1. S \subseteq Nat
      BY DEF S
    <2> QED BY <1>1, <1>2, <2>1, Induction
  <1> QED BY <1>3 DEF S

\* A tree that is not lower has no fewer leaves.
LEMMA Pow2Monotone ==
    ASSUME NEW d \in Nat, NEW e \in Nat, d <= e
    PROVE  Pow2[d] <= Pow2[e]
  <1> DEFINE S == {k \in Nat : Pow2[d] <= Pow2[d + k]}
  <1>1. 0 \in S
    BY Pow2Type
  <1>2. ASSUME NEW k \in S PROVE k + 1 \in S
    <2>1. /\ d + k \in Nat /\ d + (k + 1) = (d + k) + 1 /\ Pow2[d + k] \in Nat
          /\ Pow2[d] \in Nat /\ Pow2[d] <= Pow2[d + k] /\ k + 1 \in Nat
      BY Pow2Type
    <2>2. Pow2[(d + k) + 1] = 2 * Pow2[d + k]
      BY <2>1, Pow2Type
    <2> QED BY <2>1, <2>2
  <1> HIDE DEF S
  <1>3. S = Nat
    <2>1. S \subseteq Nat
      BY DEF S
    <2> QED BY <1>1, <1>2, <2>1, Induction
  <1>4. e - d \in S
    BY <1>3
  <1>5. d + (e - d) = e
    OBVIOUS
  <1> QED BY <1>4, <1>5 DEF S

\* A higher tree has at least twice the leaves.
LEMMA Pow2Strict ==
    ASSUME NEW d \in Nat, NEW e \in Nat, d < e
    PROVE  2 * Pow2[d] <= Pow2[e] /\ Pow2[d] < Pow2[e]
  <1>1. d + 1 \in Nat /\ d + 1 <= e
    OBVIOUS
  <1>2. Pow2[d + 1] <= Pow2[e]
    BY <1>1, Pow2Monotone
  <1>3. Pow2[d + 1] = 2 * Pow2[d] /\ Pow2[d] \in Nat /\ Pow2[d] >= 1 /\ Pow2[e] \in Nat
    BY Pow2Type, Pow2Grows
  <1> QED BY <1>2, <1>3

\* Depth is the height of the smallest tree that many leaves fit in.
LEMMA DepthIs ==
    ASSUME NEW x \in Nat
    PROVE  /\ Depth(x) \in 0..x
           /\ Pow2[Depth(x)] >= x
           /\ Depth(x) = 0 \/ Pow2[Depth(x) - 1] < x
  <1> DEFINE S == {d \in Nat : Pow2[d] >= x}
  <1>1. x \in S
    BY Pow2Grows, Pow2Type
  <1>2. PICK d \in S : \A y \in S : d <= y
    <2>1. S \in SUBSET Nat /\ S # {}
      BY <1>1
    <2> HIDE DEF S
    <2> QED BY <2>1, Least
  <1>3. d \in 0..x /\ Pow2[d] >= x
    BY <1>1, <1>2
  <1>4. d = 0 \/ Pow2[d - 1] < x
    <2> SUFFICES ASSUME d # 0 PROVE Pow2[d - 1] < x
      OBVIOUS
    <2>1. d - 1 \in Nat /\ ~ (d <= d - 1)
      BY <1>2
    <2>2. d - 1 \notin S
      BY <1>2, <2>1
    <2>3. Pow2[d - 1] \in Nat
      BY <2>1, Pow2Type
    <2> QED BY <2>1, <2>2, <2>3
  <1> QED BY <1>3, <1>4 DEF Depth

\* No lower tree has room for that many leaves.
LEMMA DepthLeast ==
    ASSUME NEW x \in Nat, NEW e \in Nat, Pow2[e] >= x
    PROVE  Depth(x) <= e
  <1> SUFFICES ASSUME e < Depth(x) PROVE FALSE
    BY DepthIs
  <1>1. Depth(x) \in Nat /\ Depth(x) # 0
    BY DepthIs
  <1>2. Depth(x) - 1 \in Nat /\ e <= Depth(x) - 1
    BY <1>1
  <1>3. Pow2[e] <= Pow2[Depth(x) - 1]
    BY <1>2, Pow2Monotone
  <1>4. Pow2[Depth(x) - 1] < x
    BY <1>1, DepthIs
  <1>5. Pow2[e] \in Nat /\ Pow2[Depth(x) - 1] \in Nat
    BY <1>2, Pow2Type
  <1> QED BY <1>3, <1>4, <1>5

\* The tree of a power of two is full.
LEMMA DepthOfPow2 ==
    ASSUME NEW e \in Nat
    PROVE  Depth(Pow2[e]) = e
  <1>1. Pow2[e] \in Nat
    BY Pow2Type
  <1>2. Depth(Pow2[e]) <= e /\ Depth(Pow2[e]) \in Nat
    BY <1>1, DepthLeast, DepthIs
  <1>3. Pow2[Depth(Pow2[e])] >= Pow2[e]
    BY <1>1, DepthIs
  <1>4. ASSUME Depth(Pow2[e]) < e PROVE FALSE
    <2>1. Pow2[Depth(Pow2[e])] < Pow2[e]
      BY <1>2, <1>4, Pow2Strict
    <2>2. Pow2[Depth(Pow2[e])] \in Nat
      BY <1>2, Pow2Type
    <2> QED BY <1>1, <1>3, <2>1, <2>2
  <1> QED BY <1>2, <1>4

\* The sizes merkleize_power_of_two is called with.
LEMMA PowersAre ==
    /\ \A e \in Nat : Pow2[e] \in PowersOfTwo
    /\ \A k \in PowersOfTwo : Depth(k) \in Nat /\ Pow2[Depth(k)] = k
  <1>1. \A e \in Nat : Pow2[e] \in PowersOfTwo
    BY Pow2Type, Pow2Grows DEF PowersOfTwo
  <1>2. ASSUME NEW k \in PowersOfTwo PROVE Depth(k) \in Nat /\ Pow2[Depth(k)] = k
    <2>1. PICK e \in Nat : Pow2[e] = k
      BY DEF PowersOfTwo
    <2> QED BY <2>1, DepthOfPow2
  <1> QED BY <1>1, <1>2

\* A tree has the leaves of its two halves.
LEMMA Pow2Twice ==
    ASSUME NEW e \in Nat
    PROVE  Pow2[e] \in Nat /\ e + 1 \in Nat /\ Pow2[e + 1] \in Nat
           /\ Pow2[e + 1] = Pow2[e] + Pow2[e] /\ Pow2[e + 1] = 2 * Pow2[e]
  <1>1. Pow2[e] \in Nat /\ e + 1 \in Nat
    BY Pow2Type
  <1>2. Pow2[e + 1] = 2 * Pow2[e]
    BY Pow2Type
  <1> QED BY <1>1, <1>2

-----------------------------------------------------------------------------
\* sha256 yields a node.
LEMMA HashType ==
    ASSUME NEW l \in Node, NEW r \in Node
    PROVE  Hash(l, r) \in Node
  <1>1. <<Open>> \in Seq(Int) /\ <<Close>> \in Seq(Int)
    BY DEF Open, Close
  <1>2. l \in Seq(Int) /\ r \in Seq(Int)
    BY DEF Node
  <1> QED BY <1>1, <1>2 DEF Hash, Node

\* The zero chunk is a node.
LEMMA ZeroHashType == ZeroHash \in Node
  <1>1. BYTES_PER_CHUNK \in Nat
    BY LimitsAssumption
  <1> QED BY <1>1 DEF ZeroHash, Node

\* The level above a level of a tree.
LEMMA ParentsType ==
    ASSUME NEW nodes \in Nodes
    PROVE  /\ Parents(nodes) \in Nodes
           /\ Len(Parents(nodes)) = Len(nodes) \div 2
           /\ \A i \in 1..(Len(nodes) \div 2) :
                Parents(nodes)[i] = Hash(nodes[2 * i - 1], nodes[2 * i])
  <1>1. Len(nodes) \in Nat /\ Len(nodes) \div 2 \in Nat /\ \A j \in 1..Len(nodes) : nodes[j] \in Node
    BY DEF Nodes
  <1>2. ASSUME NEW i \in 1..(Len(nodes) \div 2)
        PROVE  Hash(nodes[2 * i - 1], nodes[2 * i]) \in Node
    <2>1. 2 * i - 1 \in 1..Len(nodes) /\ 2 * i \in 1..Len(nodes)
      BY <1>1
    <2>2. nodes[2 * i - 1] \in Node /\ nodes[2 * i] \in Node
      BY <1>1, <2>1
    <2> QED BY <2>2, HashType
  <1> QED BY <1>1, <1>2 DEF Parents, Nodes

\* Padding yields as many leaves as asked for.
LEMMA PaddedType ==
    ASSUME NEW nodes \in Nodes, NEW n \in Nat
    PROVE  /\ Padded(nodes, n) \in Nodes
           /\ Len(Padded(nodes, n)) = n
           /\ \A i \in 1..n : Padded(nodes, n)[i] = IF i <= Len(nodes) THEN nodes[i] ELSE ZeroHash
  <1>1. \A i \in 1..n : (IF i <= Len(nodes) THEN nodes[i] ELSE ZeroHash) \in Node
    BY ZeroHashType DEF Nodes
  <1> QED BY <1>1 DEF Padded, Nodes

\* The root is that of the level above the leaves.
LEMMA RootOfType ==
    /\ RootOf \in [Nat -> [Nodes -> Node]]
    /\ \A nodes \in Nodes : RootOf[0][nodes] = IF 1 <= Len(nodes) THEN nodes[1] ELSE ZeroHash
    /\ \A k \in Nat : \A nodes \in Nodes : RootOf[k + 1][nodes] = RootOf[k][Parents(nodes)]
  <1> DEFINE T == [Nodes -> Node]
             first == [nodes \in Nodes |-> Padded(nodes, 1)[1]]
             G == [k \in Nat |-> [f \in T |-> [nodes \in Nodes |-> f[Parents(nodes)]]]]
             Step(f) == [height \in Nat |->
                            [nodes \in Nodes |-> IF height = 0 THEN Padded(nodes, 1)[1]
                                                 ELSE f[height - 1][Parents(nodes)]]]
  <1>1. first \in T
    <2>1. \A nodes \in Nodes : Padded(nodes, 1)[1] \in Node
      BY PaddedType DEF Nodes
    <2> QED BY <2>1
  <1>2. G \in [Nat -> [T -> T]]
    BY ParentsType
  <1>3. PICK f \in [Nat -> T] : f[0] = first /\ \A k \in Nat : f[k + 1] = G[k][f[k]]
    <2> HIDE DEF G, T, first
    <2>1. Iterates(T, first, G) # {}
      BY <1>1, <1>2, Recursion
    <2> QED BY <2>1 DEF Iterates
  <1>4. ASSUME NEW k \in Nat PROVE f[k + 1] = [nodes \in Nodes |-> f[k][Parents(nodes)]]
    <2>1. f[k] \in T /\ f[k + 1] = G[k][f[k]]
      BY <1>3
    <2> HIDE DEF T
    <2> QED BY <2>1
  <1>5. ASSUME NEW e \in Nat
        PROVE  f[e] = [nodes \in Nodes |-> IF e = 0 THEN Padded(nodes, 1)[1]
                                           ELSE f[e - 1][Parents(nodes)]]
    <2>1. CASE e = 0
      BY <1>3, <2>1
    <2>2. CASE e # 0
      <3>1. e - 1 \in Nat /\ (e - 1) + 1 = e
        BY <2>2
      <3>2. f[(e - 1) + 1] = [nodes \in Nodes |-> f[e - 1][Parents(nodes)]]
        BY <1>4, <3>1
      <3> QED BY <3>1, <3>2, <2>2
    <2> QED BY <2>1, <2>2
  <1>6. f = Step(f)
    <2>1. f = [e \in Nat |-> f[e]]
      BY <1>3
    <2>2. [e \in Nat |-> f[e]] = Step(f)
      BY <1>5
    <2> QED BY <2>1, <2>2
  <1>7. RootOf = CHOOSE g : g = Step(g)
    BY DEF RootOf
  <1>8. RootOf = Step(RootOf)
    <2> HIDE DEF Step
    <2> QED BY <1>6, <1>7
  <1>9. \A e \in Nat : RootOf[e] = [nodes \in Nodes |-> IF e = 0 THEN Padded(nodes, 1)[1]
                                                       ELSE RootOf[e - 1][Parents(nodes)]]
    BY <1>8
  <1>10. RootOf[0] = first
    BY <1>9
  <1>11. ASSUME NEW k \in Nat
         PROVE  RootOf[k + 1] = [nodes \in Nodes |-> RootOf[k][Parents(nodes)]]
    <2>1. k + 1 \in Nat /\ k + 1 # 0 /\ (k + 1) - 1 = k
      OBVIOUS
    <2> QED BY <1>9, <2>1
  <1>12. \A e \in Nat : RootOf[e] \in T
    <2> DEFINE S == {e \in Nat : RootOf[e] \in T}
    <2>1. 0 \in S
      BY <1>1, <1>10
    <2>2. ASSUME NEW e \in S PROVE e + 1 \in S
      <3>1. RootOf[e] \in [Nodes -> Node] /\ e \in Nat
        OBVIOUS
      <3>2. RootOf[e + 1] = [nodes \in Nodes |-> RootOf[e][Parents(nodes)]]
        BY <3>1, <1>11
      <3>3. \A nodes \in Nodes : RootOf[e][Parents(nodes)] \in Node
        BY <3>1, ParentsType
      <3> QED BY <3>1, <3>2, <3>3
    <2> HIDE DEF S
    <2>3. S = Nat
      <3>1. S \subseteq Nat
        BY DEF S
      <3> QED BY <2>1, <2>2, <3>1, Induction
    <2> QED BY <2>3 DEF S
  <1>13. RootOf \in [Nat -> T]
    <2>1. RootOf = [e \in Nat |-> RootOf[e]]
      BY <1>8
    <2> HIDE DEF T
    <2> QED BY <2>1, <1>12
  <1>14. ASSUME NEW nodes \in Nodes
         PROVE  RootOf[0][nodes] = IF 1 <= Len(nodes) THEN nodes[1] ELSE ZeroHash
    <2>1. RootOf[0][nodes] = Padded(nodes, 1)[1]
      BY <1>10
    <2>2. 1 \in Nat /\ 1 \in 1..1
      OBVIOUS
    <2> QED BY <2>1, <2>2, PaddedType
  <1>15. RootOf \in [Nat -> [Nodes -> Node]]
    BY <1>13
  <1>16. ASSUME NEW k \in Nat, NEW nodes \in Nodes
         PROVE  RootOf[k + 1][nodes] = RootOf[k][Parents(nodes)]
    BY <1>11
  <1> HIDE DEF T
  <1> QED BY <1>14, <1>15, <1>16

-----------------------------------------------------------------------------
\* A span of nodes: the subspans of ssz.hpp:215-220.
LEMMA SliceType ==
    ASSUME NEW nodes \in Nodes, NEW a \in Nat, NEW w \in Nat, a + w <= Len(nodes)
    PROVE  /\ SubSeq(nodes, a + 1, a + w) \in Nodes
           /\ Len(SubSeq(nodes, a + 1, a + w)) = w
           /\ \A i \in 1..w : SubSeq(nodes, a + 1, a + w)[i] = nodes[a + i]
  <1>1. nodes \in Seq(Node) /\ Len(nodes) \in Nat /\ \A j \in 1..Len(nodes) : nodes[j] \in Node
    BY DEF Nodes
  <1>2. \A i \in 1..w : a + i \in 1..Len(nodes) /\ (a + 1) + i - 1 = a + i
    BY <1>1
  <1>3. SubSeq(nodes, a + 1, a + w) = [i \in 1..w |-> nodes[a + i]]
    <2>1. (a + w) - (a + 1) + 1 = w
      OBVIOUS
    <2>2. SubSeq(nodes, a + 1, a + w) = [i \in 1..((a + w) - (a + 1) + 1) |-> nodes[i + (a + 1) - 1]]
      BY <1>1
    <2>3. \A i \in 1..w : i + (a + 1) - 1 = a + i
      OBVIOUS
    <2> QED BY <2>1, <2>2, <2>3
  <1>4. \A i \in 1..w : nodes[a + i] \in Node
    BY <1>1, <1>2
  <1> QED BY <1>3, <1>4 DEF Nodes

\* Levels are equal node by node.
LEMMA SameNodes ==
    ASSUME NEW x \in Nodes, NEW y \in Nodes, Len(x) = Len(y),
           \A i \in 1..Len(x) : x[i] = y[i]
    PROVE  x = y
  BY DEF Nodes

\* The parents of some neighbours are neighbours among the parents.
LEMMA ParentsOfSlice ==
    ASSUME NEW nodes \in Nodes, NEW a \in Nat, NEW w \in Nat, 2 * (a + w) <= Len(nodes)
    PROVE  SubSeq(Parents(nodes), a + 1, a + w)
             = Parents(SubSeq(nodes, 2 * a + 1, 2 * a + 2 * w))
  <1> DEFINE half  == SubSeq(nodes, 2 * a + 1, 2 * a + 2 * w)
             above == SubSeq(Parents(nodes), a + 1, a + w)
  <1>0. Len(nodes) \in Nat
    BY DEF Nodes
  <1>1. 2 * a \in Nat /\ 2 * w \in Nat /\ 2 * a + 2 * w <= Len(nodes) /\ (2 * w) \div 2 = w
        /\ a + w <= Len(nodes) \div 2
    BY <1>0
  <1>2. half \in Nodes /\ Len(half) = 2 * w /\ \A i \in 1..(2 * w) : half[i] = nodes[2 * a + i]
    BY <1>1, SliceType
  <1>3. /\ Parents(nodes) \in Nodes /\ Len(Parents(nodes)) = Len(nodes) \div 2
        /\ \A i \in 1..(Len(nodes) \div 2) :
              Parents(nodes)[i] = Hash(nodes[2 * i - 1], nodes[2 * i])
    BY ParentsType
  <1>4. above \in Nodes /\ Len(above) = w /\ \A i \in 1..w : above[i] = Parents(nodes)[a + i]
    <2>1. a + w <= Len(Parents(nodes))
      BY <1>1, <1>3
    <2> QED BY <1>3, <2>1, SliceType
  <1> HIDE DEF half, above
  <1>5. /\ Parents(half) \in Nodes /\ Len(Parents(half)) = w
        /\ \A i \in 1..w : Parents(half)[i] = Hash(half[2 * i - 1], half[2 * i])
    BY <1>1, <1>2, ParentsType
  <1>6. ASSUME NEW i \in 1..w PROVE above[i] = Parents(half)[i]
    <2>1. /\ a + i \in 1..(Len(nodes) \div 2) /\ 2 * i - 1 \in 1..(2 * w) /\ 2 * i \in 1..(2 * w)
          /\ 2 * a + (2 * i - 1) = 2 * (a + i) - 1 /\ 2 * a + 2 * i = 2 * (a + i)
      BY <1>1
    <2>2. half[2 * i - 1] = nodes[2 * (a + i) - 1] /\ half[2 * i] = nodes[2 * (a + i)]
      BY <1>2, <2>1
    <2>3. above[i] = Hash(nodes[2 * (a + i) - 1], nodes[2 * (a + i)])
      BY <1>3, <1>4, <2>1
    <2> QED BY <1>5, <2>2, <2>3
  <1>7. above = Parents(half)
    BY <1>4, <1>5, <1>6, SameNodes
  <1> QED BY <1>7 DEF half, above

LeftHalf(e, nodes)  == SubSeq(nodes, 1, Pow2[e])
RightHalf(e, nodes) == SubSeq(nodes, Pow2[e] + 1, Pow2[e] + Pow2[e])

\* The halves of a level.
LEMMA HalvesAre ==
    ASSUME NEW e \in Nat, NEW nodes \in Nodes, Len(nodes) = Pow2[e + 1]
    PROVE  /\ LeftHalf(e, nodes) \in Nodes /\ RightHalf(e, nodes) \in Nodes
           /\ Len(LeftHalf(e, nodes)) = Pow2[e] /\ Len(RightHalf(e, nodes)) = Pow2[e]
           /\ \A i \in 1..Pow2[e] : LeftHalf(e, nodes)[i] = nodes[i]
           /\ \A i \in 1..Pow2[e] : RightHalf(e, nodes)[i] = nodes[Pow2[e] + i]
  <1>1. Pow2[e] \in Nat /\ Pow2[e + 1] = Pow2[e] + Pow2[e]
    BY Pow2Twice
  <1>2. /\ SubSeq(nodes, Pow2[e] + 1, Pow2[e] + Pow2[e]) \in Nodes
        /\ Len(SubSeq(nodes, Pow2[e] + 1, Pow2[e] + Pow2[e])) = Pow2[e]
        /\ \A i \in 1..Pow2[e] : SubSeq(nodes, Pow2[e] + 1, Pow2[e] + Pow2[e])[i] = nodes[Pow2[e] + i]
    <2>1. Pow2[e] + Pow2[e] <= Len(nodes)
      BY <1>1
    <2> QED BY <1>1, <2>1, SliceType
  <1>3. /\ SubSeq(nodes, 0 + 1, 0 + Pow2[e]) \in Nodes
        /\ Len(SubSeq(nodes, 0 + 1, 0 + Pow2[e])) = Pow2[e]
        /\ \A i \in 1..Pow2[e] : SubSeq(nodes, 0 + 1, 0 + Pow2[e])[i] = nodes[0 + i]
    <2>1. 0 + Pow2[e] <= Len(nodes) /\ 0 \in Nat
      BY <1>1
    <2> QED BY <1>1, <2>1, SliceType
  <1>4. 0 + 1 = 1 /\ 0 + Pow2[e] = Pow2[e] /\ \A i \in 1..Pow2[e] : 0 + i = i
    BY <1>1
  <1>5. SubSeq(nodes, 0 + 1, 0 + Pow2[e]) = LeftHalf(e, nodes)
    BY <1>4 DEF LeftHalf
  <1> QED BY <1>2, <1>3, <1>4, <1>5 DEF RightHalf

Splits(e, nodes) ==
    RootOf[e + 1][nodes] = Hash(RootOf[e][LeftHalf(e, nodes)], RootOf[e][RightHalf(e, nodes)])

\* A tree of two leaves has one leaf in each half.
LEMMA HalvesOfPair ==
    ASSUME NEW nodes \in Nodes, Len(nodes) = Pow2[0 + 1]
    PROVE  Splits(0, nodes)
  <1>1. Pow2[0] = 1 /\ Len(nodes) = 2 /\ 2 \div 2 = 1
    BY Pow2Type
  <1>2. Parents(nodes) \in Nodes /\ Len(Parents(nodes)) = 1
        /\ Parents(nodes)[1] = Hash(nodes[1], nodes[2])
    <2>1. Len(nodes) \div 2 = 1 /\ 1 \in 1..1 /\ 2 * 1 - 1 = 1 /\ 2 * 1 = 2
      BY <1>1
    <2>2. /\ Parents(nodes) \in Nodes /\ Len(Parents(nodes)) = Len(nodes) \div 2
          /\ \A i \in 1..(Len(nodes) \div 2) :
                Parents(nodes)[i] = Hash(nodes[2 * i - 1], nodes[2 * i])
      BY ParentsType
    <2>3. Parents(nodes)[1] = Hash(nodes[2 * 1 - 1], nodes[2 * 1])
      BY <2>1, <2>2
    <2> QED BY <2>1, <2>2, <2>3
  <1>3. RootOf[0 + 1][nodes] = RootOf[0][Parents(nodes)]
    BY RootOfType
  <1>4. RootOf[0][Parents(nodes)] = Hash(nodes[1], nodes[2])
    BY <1>2, RootOfType
  <1>5. RootOf[0][LeftHalf(0, nodes)] = nodes[1] /\ RootOf[0][RightHalf(0, nodes)] = nodes[2]
    <2>1. /\ LeftHalf(0, nodes) \in Nodes /\ RightHalf(0, nodes) \in Nodes
          /\ Len(LeftHalf(0, nodes)) = Pow2[0] /\ Len(RightHalf(0, nodes)) = Pow2[0]
          /\ \A i \in 1..Pow2[0] : LeftHalf(0, nodes)[i] = nodes[i]
          /\ \A i \in 1..Pow2[0] : RightHalf(0, nodes)[i] = nodes[Pow2[0] + i]
      BY HalvesAre
    <2>2. 1 \in 1..Pow2[0] /\ Pow2[0] + 1 = 2
      BY <1>1
    <2>3. LeftHalf(0, nodes)[1] = nodes[1] /\ RightHalf(0, nodes)[1] = nodes[2]
      BY <2>1, <2>2
    <2> QED BY <1>1, <2>1, <2>3, RootOfType
  <1> QED BY <1>3, <1>4, <1>5 DEF Splits

\* The step from a tree to one twice as large: its halves have the halves of
\* the level above as parents.
LEMMA HalvesOfHigher ==
    ASSUME NEW k \in Nat,
           \A x \in Nodes : Len(x) = Pow2[k + 1] => Splits(k, x),
           NEW nodes \in Nodes, Len(nodes) = Pow2[(k + 1) + 1]
    PROVE  Splits(k + 1, nodes)
  <1> DEFINE y == Parents(nodes)
             a == LeftHalf(k + 1, nodes)
             b == RightHalf(k + 1, nodes)
  <1>2. /\ Pow2[k] \in Nat /\ Pow2[k + 1] = Pow2[k] + Pow2[k] /\ k + 1 \in Nat
        /\ Pow2[(k + 1) + 1] = Pow2[k + 1] + Pow2[k + 1]
    <2>1. Pow2[k] \in Nat /\ Pow2[k + 1] = Pow2[k] + Pow2[k] /\ k + 1 \in Nat
      BY Pow2Twice
    <2>2. Pow2[(k + 1) + 1] = Pow2[k + 1] + Pow2[k + 1]
      BY <2>1, Pow2Twice
    <2> QED BY <2>1, <2>2
  <1>3. y \in Nodes /\ Len(y) = Pow2[k + 1]
    <2>1. Len(nodes) \div 2 = Pow2[k + 1]
      BY <1>2
    <2> QED BY <2>1, ParentsType
  <1>4. RootOf[(k + 1) + 1][nodes] = RootOf[k + 1][y]
    BY <1>2, RootOfType
  <1>5. RootOf[k + 1][y] = Hash(RootOf[k][LeftHalf(k, y)], RootOf[k][RightHalf(k, y)])
    BY <1>3 DEF Splits
  <1>6. a \in Nodes /\ b \in Nodes
    BY <1>2, HalvesAre
  <1>7. LeftHalf(k, y) = Parents(a)
    <2>1. 2 * (0 + Pow2[k]) <= Len(nodes) /\ 2 * 0 + 1 = 1 /\ 2 * 0 + 2 * Pow2[k] = Pow2[k + 1]
          /\ 0 + Pow2[k] = Pow2[k] /\ 0 \in Nat
      BY <1>2
    <2>2. SubSeq(y, 0 + 1, 0 + Pow2[k]) = Parents(SubSeq(nodes, 2 * 0 + 1, 2 * 0 + 2 * Pow2[k]))
      BY <1>2, <2>1, ParentsOfSlice
    <2> QED BY <2>1, <2>2 DEF LeftHalf
  <1>8. RightHalf(k, y) = Parents(b)
    <2>1. 2 * (Pow2[k] + Pow2[k]) <= Len(nodes) /\ 2 * Pow2[k] + 1 = Pow2[k + 1] + 1
          /\ 2 * Pow2[k] + 2 * Pow2[k] = Pow2[k + 1] + Pow2[k + 1]
      BY <1>2
    <2>2. SubSeq(y, Pow2[k] + 1, Pow2[k] + Pow2[k])
            = Parents(SubSeq(nodes, 2 * Pow2[k] + 1, 2 * Pow2[k] + 2 * Pow2[k]))
      BY <1>2, <2>1, ParentsOfSlice
    <2> QED BY <2>1, <2>2 DEF RightHalf
  <1> HIDE DEF a, b, y
  <1>9. RootOf[k + 1][a] = RootOf[k][Parents(a)] /\ RootOf[k + 1][b] = RootOf[k][Parents(b)]
    BY <1>6, RootOfType
  <1>10. RootOf[(k + 1) + 1][nodes] = Hash(RootOf[k + 1][a], RootOf[k + 1][b])
    BY <1>4, <1>5, <1>7, <1>8, <1>9
  <1> QED BY <1>10 DEF a, b, Splits

\* A tree is the hash of its halves.
LEMMA Halves ==
    ASSUME NEW e \in Nat, NEW nodes \in Nodes, Len(nodes) = Pow2[e + 1]
    PROVE  RootOf[e + 1][nodes] =
             Hash(RootOf[e][LeftHalf(e, nodes)], RootOf[e][RightHalf(e, nodes)])
  <1> DEFINE S == {k \in Nat : \A x \in Nodes : Len(x) = Pow2[k + 1] => Splits(k, x)}
  <1>1. 0 \in S
    BY HalvesOfPair
  <1>2. ASSUME NEW k \in S PROVE k + 1 \in S
    <2>1. k + 1 \in Nat /\ k \in Nat /\ \A x \in Nodes : Len(x) = Pow2[k + 1] => Splits(k, x)
      OBVIOUS
    <2>2. \A x \in Nodes : Len(x) = Pow2[(k + 1) + 1] => Splits(k + 1, x)
      <3> HIDE DEF S
      <3> QED BY <2>1, HalvesOfHigher
    <2> QED BY <2>1, <2>2
  <1>3. S = Nat
    <2>1. S \subseteq Nat
      OBVIOUS
    <2> HIDE DEF S
    <2> QED BY <1>1, <1>2, <2>1, Induction
  <1>4. Splits(e, nodes)
    BY <1>3
  <1> QED BY <1>4 DEF Splits

-----------------------------------------------------------------------------
\* The data is split after as many chunks as half the tree has leaves.
IsSplit(data, left, right, half) ==
    /\ Len(left) = IF Len(data) > half THEN half ELSE Len(data)
    /\ Len(right) = Len(data) - Len(left)
    /\ \A i \in 1..Len(left) : left[i] = data[i]
    /\ \A i \in 1..Len(right) : right[i] = data[Len(left) + i]

\* Padding what is split in two is splitting what is padded.
LEMMA PaddedSplits ==
    ASSUME NEW e \in Nat, NEW data \in Nodes, NEW left \in Nodes, NEW right \in Nodes,
           IsSplit(data, left, right, Pow2[e])
    PROVE  /\ LeftHalf(e, Padded(data, Pow2[e + 1])) = Padded(left, Pow2[e])
           /\ RightHalf(e, Padded(data, Pow2[e + 1])) = Padded(right, Pow2[e])
  <1> DEFINE n == Pow2[e]
             p == Padded(data, Pow2[e + 1])
             a == Padded(left, n)
             b == Padded(right, n)
  <1>1. n \in Nat /\ Pow2[e + 1] = n + n /\ Pow2[e + 1] \in Nat
    BY Pow2Twice
  <1>0. /\ Len(left) = IF Len(data) > n THEN n ELSE Len(data)
        /\ Len(right) = Len(data) - Len(left)
        /\ \A i \in 1..Len(left) : left[i] = data[i]
        /\ \A i \in 1..Len(right) : right[i] = data[Len(left) + i]
    BY DEF IsSplit
  <1>2. Len(data) \in Nat /\ Len(left) \in Nat /\ Len(right) \in Nat
    BY DEF Nodes
  <1>3. /\ p \in Nodes /\ Len(p) = Pow2[e + 1]
        /\ \A i \in 1..Pow2[e + 1] : p[i] = IF i <= Len(data) THEN data[i] ELSE ZeroHash
    BY <1>1, PaddedType
  <1>4. /\ a \in Nodes /\ Len(a) = n
        /\ \A i \in 1..n : a[i] = IF i <= Len(left) THEN left[i] ELSE ZeroHash
    BY <1>1, PaddedType
  <1>5. /\ b \in Nodes /\ Len(b) = n
        /\ \A i \in 1..n : b[i] = IF i <= Len(right) THEN right[i] ELSE ZeroHash
    BY <1>1, PaddedType
  <1>6. /\ LeftHalf(e, p) \in Nodes /\ RightHalf(e, p) \in Nodes
        /\ Len(LeftHalf(e, p)) = n /\ Len(RightHalf(e, p)) = n
        /\ \A i \in 1..n : LeftHalf(e, p)[i] = p[i]
        /\ \A i \in 1..n : RightHalf(e, p)[i] = p[n + i]
    BY <1>3, HalvesAre
  <1> HIDE DEF n, p, a, b
  <1>7. ASSUME NEW i \in 1..n PROVE LeftHalf(e, p)[i] = a[i]
    <2>1. i \in 1..Pow2[e + 1] /\ (i <= Len(left) <=> i <= Len(data))
          /\ (i <= Len(left) => i \in 1..Len(left))
      BY <1>0, <1>1, <1>2
    <2>2. p[i] = IF i <= Len(data) THEN data[i] ELSE ZeroHash
      BY <1>3, <2>1
    <2>3. LeftHalf(e, p)[i] = p[i] /\ a[i] = IF i <= Len(left) THEN left[i] ELSE ZeroHash
      BY <1>4, <1>6
    <2> QED BY <1>0, <2>1, <2>2, <2>3
  <1>8. ASSUME NEW i \in 1..n PROVE RightHalf(e, p)[i] = b[i]
    <2>1. n + i \in 1..Pow2[e + 1] /\ (i <= Len(right) <=> n + i <= Len(data))
          /\ (i <= Len(right) => i \in 1..Len(right) /\ Len(left) + i = n + i)
      BY <1>0, <1>1, <1>2
    <2>2. p[n + i] = IF n + i <= Len(data) THEN data[n + i] ELSE ZeroHash
      BY <1>3, <2>1
    <2>3. RightHalf(e, p)[i] = p[n + i] /\ b[i] = IF i <= Len(right) THEN right[i] ELSE ZeroHash
      BY <1>5, <1>6
    <2> QED BY <1>0, <2>1, <2>2, <2>3
  <1>9. LeftHalf(e, p) = a
    BY <1>4, <1>6, <1>7, SameNodes
  <1>10. RightHalf(e, p) = b
    BY <1>5, <1>6, <1>8, SameNodes
  <1> QED BY <1>9, <1>10 DEF n, p, a, b

\* The root of a subtree of zero chunks.
ZeroSubtree(d) == RootOf[d][Padded(<< >>, Pow2[d])]

\* No chunks at all.
LEMMA NoNodes == << >> \in Nodes /\ Len(<< >>) = 0
  BY DEF Nodes

\* A subtree of zeros is the hash of the next smaller one with itself, as rows
\* are filled (ssz.hpp:183).
LEMMA ZeroSubtrees ==
    /\ ZeroSubtree(0) = ZeroHash
    /\ \A d \in Nat : ZeroSubtree(d) \in Node /\ ZeroSubtree(d + 1) = Hash(ZeroSubtree(d), ZeroSubtree(d))
  <1>1. ZeroSubtree(0) = ZeroHash
    <2>1. Pow2[0] = 1 /\ 1 \in Nat
      BY Pow2Type
    <2>2. /\ Padded(<< >>, 1) \in Nodes /\ Len(Padded(<< >>, 1)) = 1
          /\ \A i \in 1..1 : Padded(<< >>, 1)[i] = IF i <= Len(<< >>) THEN << >>[i] ELSE ZeroHash
      BY <2>1, NoNodes, PaddedType
    <2>3. Padded(<< >>, 1)[1] = ZeroHash
      <3>1. 1 \in 1..1 /\ ~ (1 <= Len(<< >>))
        BY NoNodes
      <3> QED BY <2>2, <3>1
    <2> QED BY <2>1, <2>2, <2>3, RootOfType DEF ZeroSubtree
  <1>2. ASSUME NEW d \in Nat PROVE ZeroSubtree(d) \in Node
    <2>1. Padded(<< >>, Pow2[d]) \in Nodes
      BY NoNodes, PaddedType, Pow2Twice
    <2> QED BY <2>1, RootOfType DEF ZeroSubtree
  <1>3. ASSUME NEW d \in Nat PROVE ZeroSubtree(d + 1) = Hash(ZeroSubtree(d), ZeroSubtree(d))
    <2> DEFINE p == Padded(<< >>, Pow2[d + 1])
    <2>1. p \in Nodes /\ Len(p) = Pow2[d + 1]
      BY NoNodes, PaddedType, Pow2Twice
    <2>2. LeftHalf(d, p) = Padded(<< >>, Pow2[d]) /\ RightHalf(d, p) = Padded(<< >>, Pow2[d])
      <3>1. IsSplit(<< >>, << >>, << >>, Pow2[d])
        BY NoNodes, Pow2Twice DEF IsSplit
      <3> QED BY <3>1, NoNodes, PaddedSplits
    <2>3. RootOf[d + 1][p] = Hash(RootOf[d][LeftHalf(d, p)], RootOf[d][RightHalf(d, p)])
      BY <2>1, Halves
    <2> QED BY <2>2, <2>3 DEF ZeroSubtree
  <1> QED BY <1>1, <1>2, <1>3

\* The rows of the table are the roots of the subtrees of zeros, row by row.
ValidTable(t) == t \in Nodes /\ \A i \in 1..Len(t) : t[i] = ZeroSubtree(i - 1)

\* A table with all the rows another has.
Extends(t, s) == Len(s) <= Len(t) /\ \A i \in 1..Len(s) : t[i] = s[i]

\* Rows once there stay through several fillings.
LEMMA ExtendsTransitive ==
    ASSUME NEW r \in Nodes, NEW s \in Nodes, NEW t \in Nodes, Extends(s, r), Extends(t, s)
    PROVE  Extends(t, r)
  <1>1. Len(r) \in Nat /\ Len(s) \in Nat /\ Len(t) \in Nat
    BY DEF Nodes
  <1> QED BY <1>1 DEF Extends

\* One turn of the loop (ssz.hpp:179-185) adds a row, and the right one.
LEMMA FillRowType ==
    ASSUME NEW t \in Nodes
    PROVE  /\ FillRow(t) \in Nodes
           /\ Len(FillRow(t)) = Len(t) + 1
           /\ Extends(FillRow(t), t)
           /\ ValidTable(t) => ValidTable(FillRow(t))
  <1> DEFINE row == IF t = << >> THEN ZeroHash ELSE Hash(t[Len(t)], t[Len(t)])
  <1>1. t \in Seq(Node) /\ Len(t) \in Nat /\ (t # << >> => Len(t) \in 1..Len(t))
        /\ (t = << >> <=> Len(t) = 0)
    BY DEF Nodes
  <1>2. row \in Node
    <2>1. CASE t = << >>
      BY <2>1, ZeroHashType
    <2>2. CASE t # << >>
      <3>1. t[Len(t)] \in Node
        BY <1>1, <2>2
      <3> QED BY <2>2, <3>1, HashType
    <2> QED BY <2>1, <2>2
  <1>3. FillRow(t) = Append(t, row)
    BY DEF FillRow
  <1>4. ASSUME ValidTable(t) PROVE row = ZeroSubtree(Len(t))
    <2>1. CASE t = << >>
      BY <1>1, <2>1, ZeroSubtrees
    <2>2. CASE t # << >>
      <3>1. Len(t) - 1 \in Nat /\ (Len(t) - 1) + 1 = Len(t)
        BY <1>1, <2>2
      <3>2. t[Len(t)] = ZeroSubtree(Len(t) - 1)
        BY <1>1, <1>4, <2>2 DEF ValidTable
      <3>3. ZeroSubtree((Len(t) - 1) + 1) = Hash(ZeroSubtree(Len(t) - 1), ZeroSubtree(Len(t) - 1))
        BY <3>1, ZeroSubtrees
      <3> QED BY <2>2, <3>1, <3>2, <3>3
    <2> QED BY <2>1, <2>2
  <1> HIDE DEF row
  <1>5. /\ Append(t, row) \in Seq(Node) /\ Len(Append(t, row)) = Len(t) + 1
        /\ \A i \in 1..Len(t) : Append(t, row)[i] = t[i]
        /\ Append(t, row)[Len(t) + 1] = row
    BY <1>1, <1>2
  <1>6. FillRow(t) \in Nodes /\ Len(FillRow(t)) = Len(t) + 1 /\ Extends(FillRow(t), t)
    BY <1>1, <1>3, <1>5 DEF Extends, Nodes
  <1>7. ASSUME ValidTable(t), NEW i \in 1..(Len(t) + 1)
        PROVE  FillRow(t)[i] = ZeroSubtree(i - 1)
    <2>1. CASE i = Len(t) + 1
      <3>1. (Len(t) + 1) - 1 = Len(t)
        BY <1>1
      <3> QED BY <1>3, <1>4, <1>5, <1>7, <2>1, <3>1
    <2>2. CASE i # Len(t) + 1
      <3>1. i \in 1..Len(t)
        BY <1>1, <2>2
      <3> QED BY <1>3, <1>5, <1>7, <3>1 DEF ValidTable
    <2> QED BY <2>1, <2>2
  <1> QED BY <1>6, <1>7 DEF ValidTable

-----------------------------------------------------------------------------
\* The tables the loop goes through, by the number of rows they must have.
Fillings(t) ==
    {f \in [Nat -> Nodes] :
        \A rows \in Nat : f[rows] = IF rows <= Len(t) THEN t ELSE FillRow(f[rows - 1])}

\* The table the loop leaves is one of a sequence of tables, each a row longer.
LEMMA FillIs ==
    ASSUME NEW t \in Nodes
    PROVE  \E f \in Fillings(t) : \A d \in Nat : Fill(t, d) = f[d + 1]
  <1> DEFINE G == [k \in Nat |-> [s \in Nodes |-> IF k + 1 <= Len(t) THEN t ELSE FillRow(s)]]
             Step(f) == [rows \in Nat |-> IF rows <= Len(t) THEN t ELSE FillRow(f[rows - 1])]
             fill == CHOOSE g : g = Step(g)
  <1>0. Len(t) \in Nat
    BY DEF Nodes
  <1>1. G \in [Nat -> [Nodes -> Nodes]]
    BY FillRowType
  <1>2. PICK f \in [Nat -> Nodes] : f[0] = t /\ \A k \in Nat : f[k + 1] = G[k][f[k]]
    <2> HIDE DEF G
    <2>1. Iterates(Nodes, t, G) # {}
      BY <1>1, Recursion
    <2> QED BY <2>1 DEF Iterates
  <1>3. ASSUME NEW rows \in Nat
        PROVE  f[rows] = IF rows <= Len(t) THEN t ELSE FillRow(f[rows - 1])
    <2>1. CASE rows = 0
      BY <1>0, <1>2, <2>1
    <2>2. CASE rows # 0
      <3>1. rows - 1 \in Nat /\ (rows - 1) + 1 = rows
        BY <2>2
      <3>2. f[rows - 1] \in Nodes
        BY <1>2, <3>1
      <3>3. f[(rows - 1) + 1] = G[rows - 1][f[rows - 1]]
        BY <1>2, <3>1
      <3>4. G[rows - 1][f[rows - 1]]
              = IF (rows - 1) + 1 <= Len(t) THEN t ELSE FillRow(f[rows - 1])
        BY <3>1, <3>2
      <3> HIDE DEF G
      <3> QED BY <3>1, <3>3, <3>4
    <2> QED BY <2>1, <2>2
  <1>4. f = Step(f)
    <2>1. f = [rows \in Nat |-> f[rows]]
      BY <1>2
    <2>2. [rows \in Nat |-> f[rows]] = Step(f)
      BY <1>3
    <2> QED BY <2>1, <2>2
  <1>5. fill = Step(fill)
    <2> HIDE DEF Step
    <2> QED BY <1>4
  <1>6. ASSUME NEW d \in Nat PROVE Fill(t, d) = fill[d + 1]
    BY DEF Fill
  <1>7. \A rows \in Nat : fill[rows] = IF rows <= Len(t) THEN t ELSE FillRow(fill[rows - 1])
    <2> HIDE DEF fill
    <2> QED BY <1>5
  <1> HIDE DEF fill
  <1>8. \A rows \in Nat : fill[rows] \in Nodes
    <2> DEFINE S == {rows \in Nat : fill[rows] \in Nodes}
    <2>1. 0 \in S
      BY <1>0, <1>7
    <2>2. ASSUME NEW k \in S PROVE k + 1 \in S
      <3>1. k \in Nat /\ k + 1 \in Nat /\ (k + 1) - 1 = k /\ fill[k] \in Nodes
        OBVIOUS
      <3>2. fill[k + 1] = IF k + 1 <= Len(t) THEN t ELSE FillRow(fill[(k + 1) - 1])
        BY <1>7, <3>1
      <3>3. fill[k + 1] \in Nodes
        BY <3>1, <3>2, FillRowType
      <3> QED BY <3>1, <3>3
    <2>3. S = Nat
      <3>1. S \subseteq Nat
        OBVIOUS
      <3> HIDE DEF S
      <3> QED BY <2>1, <2>2, <3>1, Induction
    <2> QED BY <2>3
  <1>9. fill \in [Nat -> Nodes]
    <2>1. fill = [rows \in Nat |-> fill[rows]]
      BY <1>5
    <2> QED BY <1>8, <2>1
  <1>10. fill \in Fillings(t)
    BY <1>7, <1>9 DEF Fillings
  <1> QED BY <1>6, <1>10

\* The table has row d then, and the rows it had; no row of it is wrong.
LEMMA FillType ==
    ASSUME NEW t \in Nodes, NEW d \in Nat
    PROVE  /\ Fill(t, d) \in Nodes
           /\ Len(Fill(t, d)) >= d + 1
           /\ Extends(Fill(t, d), t)
           /\ ValidTable(t) => ValidTable(Fill(t, d))
  <1>1. PICK f \in Fillings(t) : \A k \in Nat : Fill(t, k) = f[k + 1]
    BY FillIs
  <1>2. /\ f \in [Nat -> Nodes]
        /\ \A rows \in Nat : f[rows] = IF rows <= Len(t) THEN t ELSE FillRow(f[rows - 1])
    BY DEF Fillings
  <1> DEFINE Good(rows, s) == /\ s \in Nodes /\ Len(s) >= rows /\ Extends(s, t)
                              /\ ValidTable(t) => ValidTable(s)
             S == {rows \in Nat : Good(rows, f[rows])}
  <1>0. Len(t) \in Nat
    BY DEF Nodes
  <1>3. Extends(t, t)
    BY <1>0 DEF Extends
  <1>4. 0 \in S
    BY <1>0, <1>2, <1>3
  <1>5. ASSUME NEW k \in S PROVE k + 1 \in S
    <2>1. k \in Nat /\ k + 1 \in Nat /\ (k + 1) - 1 = k /\ Good(k, f[k])
      OBVIOUS
    <2>2. f[k + 1] = IF k + 1 <= Len(t) THEN t ELSE FillRow(f[k])
      BY <1>2, <2>1
    <2>3. CASE k + 1 <= Len(t)
      BY <1>0, <1>3, <2>1, <2>2, <2>3
    <2>4. CASE ~ (k + 1 <= Len(t))
      <3>1. f[k + 1] = FillRow(f[k])
        BY <2>2, <2>4
      <3>2. /\ FillRow(f[k]) \in Nodes /\ Len(FillRow(f[k])) = Len(f[k]) + 1
            /\ Extends(FillRow(f[k]), f[k])
            /\ ValidTable(f[k]) => ValidTable(FillRow(f[k]))
        BY <2>1, FillRowType
      <3>3. Extends(FillRow(f[k]), t)
        BY <2>1, <3>2, ExtendsTransitive
      <3>4. Len(f[k]) \in Nat /\ Len(f[k]) >= k
        BY <2>1 DEF Nodes
      <3>5. Good(k + 1, FillRow(f[k]))
        BY <2>1, <3>2, <3>3, <3>4
      <3> QED BY <2>1, <3>1, <3>5
    <2> QED BY <2>3, <2>4
  <1>6. S = Nat
    <2>1. S \subseteq Nat
      OBVIOUS
    <2> HIDE DEF S
    <2> QED BY <1>4, <1>5, <2>1, Induction
  <1>7. d + 1 \in S
    <2>1. d + 1 \in Nat
      OBVIOUS
    <2> HIDE DEF S
    <2> QED BY <1>6, <2>1
  <1>8. Good(d + 1, Fill(t, d))
    BY <1>1, <1>7
  <1> QED BY <1>8

\* zero_subtree_root returns the root of the subtree, for a depth that has a
\* row.
LEMMA ZeroSubtreeRootType ==
    ASSUME NEW t \in Nodes, NEW d \in Nat
    PROVE  /\ ZeroSubtreeRoot(t, d) \in Results
           /\ Extends(ZeroSubtreeRoot(t, d).table, t)
           /\ ValidTable(t) => ValidTable(ZeroSubtreeRoot(t, d).table)
           /\ ValidTable(t) /\ d < LEVELS => ZeroSubtreeRoot(t, d).root = ZeroSubtree(d)
  <1> DEFINE c == IF d >= LEVELS THEN LEVELS - 1 ELSE d
             s == Fill(t, c)
  <1>1. c \in Nat /\ (d < LEVELS => c = d)
    BY LimitsAssumption
  <1> HIDE DEF c
  <1>2. /\ s \in Nodes /\ Len(s) >= c + 1 /\ Extends(s, t)
        /\ ValidTable(t) => ValidTable(s)
    BY <1>1, FillType
  <1>3. ZeroSubtreeRoot(t, d) = [root |-> s[c + 1], table |-> s]
    BY DEF ZeroSubtreeRoot, c
  <1> HIDE DEF s
  <1>4. c + 1 \in 1..Len(s) /\ (c + 1) - 1 = c
    BY <1>1, <1>2 DEF Nodes
  <1>5. s[c + 1] \in Node
    BY <1>2, <1>4 DEF Nodes
  <1>6. ValidTable(s) => s[c + 1] = ZeroSubtree(c)
    BY <1>4 DEF ValidTable
  <1> QED BY <1>1, <1>2, <1>3, <1>5, <1>6 DEF Results

-----------------------------------------------------------------------------
LeftLen(data, half)   == IF Len(data) > half THEN half ELSE Len(data)
LeftPart(data, half)  == SubSeq(data, 1, LeftLen(data, half))
RightPart(data, half) == SubSeq(data, LeftLen(data, half) + 1, Len(data))

\* The left part of the data is no longer than half the tree, and the right
\* part is the rest.
LEMMA PartsType ==
    ASSUME NEW data \in Nodes, NEW half \in Nat
    PROVE  /\ LeftPart(data, half) \in Nodes /\ RightPart(data, half) \in Nodes
           /\ LeftLen(data, half) \in Nat
           /\ Len(LeftPart(data, half)) = LeftLen(data, half)
           /\ Len(RightPart(data, half)) = Len(data) - LeftLen(data, half)
           /\ \A i \in 1..Len(LeftPart(data, half)) : LeftPart(data, half)[i] = data[i]
           /\ \A i \in 1..Len(RightPart(data, half)) :
                RightPart(data, half)[i] = data[LeftLen(data, half) + i]
  <1> DEFINE n == LeftLen(data, half)
             m == Len(data) - n
  <1>1. n \in Nat /\ m \in Nat /\ n <= Len(data) /\ n + m = Len(data) /\ Len(data) \in Nat
    <2>1. Len(data) \in Nat
      BY DEF Nodes
    <2> QED BY <2>1 DEF LeftLen
  <1> HIDE DEF n, m
  <1>2. /\ SubSeq(data, 0 + 1, 0 + n) \in Nodes /\ Len(SubSeq(data, 0 + 1, 0 + n)) = n
        /\ \A i \in 1..n : SubSeq(data, 0 + 1, 0 + n)[i] = data[0 + i]
    <2>1. 0 \in Nat /\ 0 + n <= Len(data)
      BY <1>1
    <2> QED BY <1>1, <2>1, SliceType
  <1>3. 0 + 1 = 1 /\ 0 + n = n /\ \A i \in 1..n : 0 + i = i
    BY <1>1
  <1>4. SubSeq(data, 0 + 1, 0 + n) = LeftPart(data, half)
    BY <1>3 DEF LeftPart, n
  <1>5. /\ SubSeq(data, n + 1, n + m) \in Nodes /\ Len(SubSeq(data, n + 1, n + m)) = m
        /\ \A i \in 1..m : SubSeq(data, n + 1, n + m)[i] = data[n + i]
    <2>1. n + m <= Len(data)
      BY <1>1
    <2> QED BY <1>1, <2>1, SliceType
  <1>6. SubSeq(data, n + 1, n + m) = RightPart(data, half)
    BY <1>1 DEF RightPart, n
  <1>7. /\ LeftPart(data, half) \in Nodes /\ Len(LeftPart(data, half)) = n
        /\ \A i \in 1..n : LeftPart(data, half)[i] = data[i]
    BY <1>2, <1>3, <1>4
  <1>8. /\ RightPart(data, half) \in Nodes /\ Len(RightPart(data, half)) = m
        /\ \A i \in 1..m : RightPart(data, half)[i] = data[n + i]
    BY <1>5, <1>6
  <1> QED BY <1>1, <1>7, <1>8 DEF n, m

\* What a call for a tree of many leaves does, with the calls for half of them.
Turn(total, sub, call) ==
    IF call.data = << >> THEN ZeroSubtreeRoot(call.table, Depth(total))
    ELSE IF total = 1 THEN [root |-> call.data[1], table |-> call.table]
    ELSE LET half    == total \div 2
             leftLen == IF Len(call.data) > half THEN half ELSE Len(call.data)
             left    == sub[[data |-> SubSeq(call.data, 1, leftLen), table |-> call.table]]
             right   == sub[[data |-> SubSeq(call.data, leftLen + 1, Len(call.data)),
                             table |-> left.table]]
         IN  [root |-> Hash(left.root, right.root), table |-> right.table]

LeftCall(call, half)        == [data |-> LeftPart(call.data, half), table |-> call.table]
RightCall(call, half, left) == [data |-> RightPart(call.data, half), table |-> left.table]

Joined(left, right) == [root |-> Hash(left.root, right.root), table |-> right.table]

\* Such a call is two calls, the second with the table of the first.
LEMMA TurnIs ==
    ASSUME NEW total, NEW sub, NEW call, call.data # << >>, total # 1, NEW half, half = total \div 2
    PROVE  Turn(total, sub, call)
             = Joined(sub[LeftCall(call, half)],
                      sub[RightCall(call, half, sub[LeftCall(call, half)])])
  BY DEF Turn, Joined, LeftCall, RightCall, LeftPart, RightPart, LeftLen

Calls == [Arguments -> Results]

\* A call yields a node and a table if those for half the tree do.
LEMMA TurnType ==
    ASSUME NEW e \in Nat, NEW sub, e = 0 \/ sub \in Calls, NEW call \in Arguments
    PROVE  Turn(Pow2[e], sub, call) \in Results
  <1>1. call.data \in Nodes /\ call.table \in Nodes
    BY DEF Arguments
  <1>2. Pow2[e] \in Nat /\ Depth(Pow2[e]) = e
    BY Pow2Twice, DepthOfPow2
  <1>3. CASE call.data = << >>
    <2>1. Turn(Pow2[e], sub, call) = ZeroSubtreeRoot(call.table, e)
      BY <1>2, <1>3 DEF Turn
    <2> QED BY <1>1, <2>1, ZeroSubtreeRootType
  <1>4. CASE call.data # << >> /\ Pow2[e] = 1
    <2>1. Turn(Pow2[e], sub, call) = [root |-> call.data[1], table |-> call.table]
      BY <1>4 DEF Turn
    <2>2. call.data[1] \in Node
      BY <1>1, <1>4 DEF Nodes
    <2> QED BY <1>1, <2>1, <2>2 DEF Results
  <1>5. CASE call.data # << >> /\ Pow2[e] # 1
    <2>1. sub \in Calls
      BY <1>5, Pow2Type
    <2> DEFINE half  == Pow2[e] \div 2
               left  == sub[LeftCall(call, half)]
               right == sub[RightCall(call, half, left)]
    <2>2. half \in Nat
      BY <1>2
    <2>3. LeftCall(call, half) \in Arguments
      BY <1>1, <2>2, PartsType DEF LeftCall, Arguments
    <2>4. left \in Results
      BY <2>1, <2>3 DEF Calls
    <2>5. left.root \in Node /\ left.table \in Nodes
      BY <2>4 DEF Results
    <2>6. RightCall(call, half, left) \in Arguments
      <3> HIDE DEF left, half
      <3> QED BY <1>1, <2>2, <2>5, PartsType DEF RightCall, Arguments
    <2>7. right \in Results
      BY <2>1, <2>6 DEF Calls
    <2>8. right.root \in Node /\ right.table \in Nodes
      BY <2>7 DEF Results
    <2>9. Turn(Pow2[e], sub, call) = [root |-> Hash(left.root, right.root), table |-> right.table]
      BY <1>5, TurnIs DEF Joined
    <2> HIDE DEF left, right
    <2>10. Hash(left.root, right.root) \in Node
      BY <2>5, <2>8, HashType
    <2> QED BY <2>8, <2>9, <2>10 DEF Results
  <1> QED BY <1>3, <1>4, <1>5

\* A tree of one leaf needs no further call.
LEMMA TurnOfOne ==
    ASSUME NEW a, NEW b, NEW call
    PROVE  Turn(Pow2[0], a, call) = Turn(Pow2[0], b, call)
  <1>1. Pow2[0] = 1
    BY Pow2Type
  <1> QED BY <1>1 DEF Turn

\* merkleize_power_of_two is a call that makes calls for half the tree.
LEMMA MerkleizePowerOfTwoIs ==
    /\ \A e \in Nat : MerkleizePowerOfTwo[Pow2[e]] \in Calls
    /\ \A sub : \A call \in Arguments :
            MerkleizePowerOfTwo[Pow2[0]][call] = Turn(Pow2[0], sub, call)
    /\ \A e \in Nat : \A call \in Arguments :
            MerkleizePowerOfTwo[Pow2[e + 1]][call]
              = Turn(Pow2[e + 1], MerkleizePowerOfTwo[Pow2[e]], call)
  <1> DEFINE first == [call \in Arguments |-> Turn(Pow2[0], 0, call)]
             G == [k \in Nat |-> [sub \in Calls |->
                      [call \in Arguments |-> Turn(Pow2[k + 1], sub, call)]]]
             Step(f) == [total \in PowersOfTwo |->
                            [call \in Arguments |-> Turn(total, f[total \div 2], call)]]
  <1>1. first \in Calls
    <2>1. 0 \in Nat
      OBVIOUS
    <2> QED BY <2>1, TurnType DEF Calls
  <1>2. G \in [Nat -> [Calls -> Calls]]
    <2>1. ASSUME NEW k \in Nat, NEW sub \in Calls
          PROVE  [call \in Arguments |-> Turn(Pow2[k + 1], sub, call)] \in Calls
      <3>1. k + 1 \in Nat
        OBVIOUS
      <3> QED BY <3>1, TurnType DEF Calls
    <2> QED BY <2>1
  <1>3. PICK E \in [Nat -> Calls] : E[0] = first /\ \A k \in Nat : E[k + 1] = G[k][E[k]]
    <2> HIDE DEF G, first
    <2>1. Iterates(Calls, first, G) # {}
      BY <1>1, <1>2, Recursion
    <2> QED BY <2>1 DEF Iterates
  <1>4. ASSUME NEW k \in Nat
        PROVE  E[k + 1] = [call \in Arguments |-> Turn(Pow2[k + 1], E[k], call)]
    <2>1. E[k] \in Calls /\ E[k + 1] = G[k][E[k]]
      BY <1>3
    <2> QED BY <2>1
  <1> HIDE DEF G
  <1> DEFINE F == [total \in PowersOfTwo |-> E[Depth(total)]]
  <1>5. \A e \in Nat : F[Pow2[e]] = E[e]
    BY PowersAre, DepthOfPow2
  <1>6. ASSUME NEW total \in PowersOfTwo
        PROVE  F[total] = [call \in Arguments |-> Turn(total, F[total \div 2], call)]
    <2> DEFINE e == Depth(total)
    <2>1. e \in Nat /\ Pow2[e] = total
      BY PowersAre
    <2> HIDE DEF F, e
    <2>2. CASE e = 0
      <3>1. F[total] = first /\ total = Pow2[0]
        BY <1>3, <1>5, <2>1, <2>2
      <3>2. \A call \in Arguments : Turn(Pow2[0], 0, call) = Turn(Pow2[0], F[total \div 2], call)
        BY TurnOfOne
      <3> QED BY <3>1, <3>2
    <2>3. CASE e # 0
      <3>1. e - 1 \in Nat /\ (e - 1) + 1 = e
        BY <2>1, <2>3
      <3>2. total \div 2 = Pow2[e - 1]
        <4>1. Pow2[(e - 1) + 1] = Pow2[e - 1] + Pow2[e - 1] /\ Pow2[e - 1] \in Nat
          BY <3>1, Pow2Twice
        <4> QED BY <2>1, <3>1, <4>1
      <3>3. E[(e - 1) + 1] = [call \in Arguments |-> Turn(Pow2[(e - 1) + 1], E[e - 1], call)]
        BY <1>4, <3>1
      <3>4. F[total] = E[e] /\ F[total \div 2] = E[e - 1]
        BY <1>5, <2>1, <3>1, <3>2
      <3> QED BY <2>1, <3>1, <3>3, <3>4
    <2> QED BY <2>2, <2>3
  <1>7. F = Step(F)
    <2>1. F = [total \in PowersOfTwo |-> F[total]]
      OBVIOUS
    <2> HIDE DEF F
    <2>2. [total \in PowersOfTwo |-> F[total]] = Step(F)
      BY <1>6
    <2> QED BY <2>1, <2>2
  <1> DEFINE M == MerkleizePowerOfTwo
  <1>8. M = CHOOSE g : g = Step(g)
    BY DEF MerkleizePowerOfTwo, Turn
  <1>9. M = Step(M)
    <2> HIDE DEF Step, M, F
    <2> QED BY <1>7, <1>8
  <1> HIDE DEF M, F
  <1>10. \A total \in PowersOfTwo :
            M[total] = [call \in Arguments |-> Turn(total, M[total \div 2], call)]
    BY <1>9
  <1> HIDE DEF Step
  <1>11. ASSUME NEW e \in Nat
         PROVE  M[Pow2[e + 1]] = [call \in Arguments |-> Turn(Pow2[e + 1], M[Pow2[e]], call)]
    <2>1. Pow2[e + 1] \in PowersOfTwo
      BY PowersAre, Pow2Twice
    <2>2. Pow2[e + 1] \div 2 = Pow2[e]
      <3>1. Pow2[e + 1] = Pow2[e] + Pow2[e] /\ Pow2[e] \in Nat
        BY Pow2Twice
      <3> QED BY <3>1
    <2> QED BY <1>10, <2>1, <2>2
  <1>12. ASSUME NEW sub
         PROVE  M[Pow2[0]] = [call \in Arguments |-> Turn(Pow2[0], sub, call)]
    <2>1. Pow2[0] \in PowersOfTwo
      BY PowersAre
    <2>2. M[Pow2[0]] = [call \in Arguments |-> Turn(Pow2[0], M[Pow2[0] \div 2], call)]
      BY <1>10, <2>1
    <2>3. \A call \in Arguments :
              Turn(Pow2[0], M[Pow2[0] \div 2], call) = Turn(Pow2[0], sub, call)
      BY TurnOfOne
    <2> QED BY <2>2, <2>3
  <1>13. \A e \in Nat : M[Pow2[e]] \in Calls
    <2> DEFINE S == {e \in Nat : M[Pow2[e]] \in Calls}
    <2>1. 0 \in S
      BY <1>1, <1>12
    <2>2. ASSUME NEW e \in S PROVE e + 1 \in S
      <3>1. e \in Nat /\ e + 1 \in Nat /\ M[Pow2[e]] \in Calls
        OBVIOUS
      <3>2. \A call \in Arguments : Turn(Pow2[e + 1], M[Pow2[e]], call) \in Results
        BY <3>1, TurnType
      <3>3. M[Pow2[e + 1]] \in Calls
        BY <1>11, <3>1, <3>2 DEF Calls
      <3> QED BY <3>1, <3>3
    <2>3. S = Nat
      <3>1. S \subseteq Nat
        OBVIOUS
      <3> HIDE DEF S
      <3> QED BY <2>1, <2>2, <3>1, Induction
    <2> QED BY <2>3
  <1>14. ASSUME NEW sub, NEW call \in Arguments
         PROVE  M[Pow2[0]][call] = Turn(Pow2[0], sub, call)
    <2>1. M[Pow2[0]] = [c \in Arguments |-> Turn(Pow2[0], sub, c)]
      BY <1>12
    <2> QED BY <2>1
  <1>15. \A e \in Nat : \A call \in Arguments :
            M[Pow2[e + 1]][call] = Turn(Pow2[e + 1], M[Pow2[e]], call)
    BY <1>11
  <1> QED BY <1>13, <1>14, <1>15 DEF M

\* Data that is not empty has a chunk.
LEMMA LengthZero ==
    ASSUME NEW nodes \in Nodes
    PROVE  Len(nodes) \in Nat /\ (nodes # << >> => Len(nodes) >= 1)
  BY DEF Nodes

-----------------------------------------------------------------------------
Fits(e, call) ==
    call \in Arguments /\ ValidTable(call.table) /\ Len(call.data) <= Pow2[e]

Right(e, call) ==
    LET result == MerkleizePowerOfTwo[Pow2[e]][call]
    IN  /\ result.root = RootOf[e][Padded(call.data, Pow2[e])]
        /\ ValidTable(result.table)
        /\ Extends(result.table, call.table)

\* Without data, the row of the table is the root.
LEMMA RightWithoutData ==
    ASSUME NEW e \in Nat, e < LEVELS, NEW call, Fits(e, call), call.data = << >>
    PROVE  Right(e, call)
  <1>1. call \in Arguments /\ call.table \in Nodes /\ ValidTable(call.table)
    BY DEF Fits, Arguments
  <1>2. \A sub : Turn(Pow2[e], sub, call) = ZeroSubtreeRoot(call.table, e)
    BY DepthOfPow2 DEF Turn
  <1>3. MerkleizePowerOfTwo[Pow2[e]][call] = ZeroSubtreeRoot(call.table, e)
    <2>1. CASE e = 0
      BY <1>1, <1>2, <2>1, MerkleizePowerOfTwoIs
    <2>2. CASE e # 0
      <3>1. e - 1 \in Nat /\ (e - 1) + 1 = e
        BY <2>2
      <3>2. MerkleizePowerOfTwo[Pow2[(e - 1) + 1]][call]
              = Turn(Pow2[(e - 1) + 1], MerkleizePowerOfTwo[Pow2[e - 1]], call)
        BY <1>1, <3>1, MerkleizePowerOfTwoIs
      <3> QED BY <1>2, <3>1, <3>2
    <2> QED BY <2>1, <2>2
  <1>4. /\ Extends(ZeroSubtreeRoot(call.table, e).table, call.table)
        /\ ValidTable(ZeroSubtreeRoot(call.table, e).table)
        /\ ZeroSubtreeRoot(call.table, e).root = ZeroSubtree(e)
    BY <1>1, ZeroSubtreeRootType
  <1> QED BY <1>3, <1>4 DEF Right, ZeroSubtree

\* One chunk is its own root.
LEMMA RightForOne ==
    ASSUME NEW call, Fits(0, call), call.data # << >>
    PROVE  Right(0, call)
  <1>1. /\ call \in Arguments /\ call.table \in Nodes /\ call.data \in Nodes
        /\ ValidTable(call.table) /\ Pow2[0] = 1 /\ Len(call.data) <= 1
    BY Pow2Type DEF Fits, Arguments
  <1>2. Len(call.data) = 1
    <2> DEFINE n == Len(call.data)
    <2>1. n \in Nat /\ n >= 1 /\ n <= 1
      BY <1>1, LengthZero
    <2> HIDE DEF n
    <2>2. n = 1
      BY <2>1
    <2> QED BY <2>2 DEF n
  <1>3. MerkleizePowerOfTwo[Pow2[0]][call] = [root |-> call.data[1], table |-> call.table]
    <2>1. Turn(Pow2[0], 0, call) = [root |-> call.data[1], table |-> call.table]
      BY <1>1 DEF Turn
    <2> QED BY <1>1, <2>1, MerkleizePowerOfTwoIs
  <1>4. RootOf[0][Padded(call.data, 1)] = call.data[1]
    <2>1. /\ Padded(call.data, 1) \in Nodes /\ Len(Padded(call.data, 1)) = 1
          /\ \A i \in 1..1 : Padded(call.data, 1)[i] = IF i <= Len(call.data) THEN call.data[i] ELSE ZeroHash
      <3>1. 1 \in Nat
        OBVIOUS
      <3> QED BY <1>1, <3>1, PaddedType
    <2>2. Padded(call.data, 1)[1] = call.data[1]
      BY <1>2, <2>1
    <2> QED BY <2>1, <2>2, RootOfType
  <1>5. Extends(call.table, call.table)
    BY <1>1 DEF Extends, Nodes
  <1> QED BY <1>1, <1>3, <1>4, <1>5 DEF Right

\* With the right roots of both halves the hash is right; an empty half needs a
\* row of the table.
LEMMA RightForHalves ==
    ASSUME NEW k \in Nat, \A c : Fits(k, c) /\ c.data # << >> => Right(k, c),
           NEW call, Fits(k + 1, call), call.data # << >>,
           k < LEVELS \/ Len(call.data) > Pow2[k]
    PROVE  Right(k + 1, call)
  <1> DEFINE half  == Pow2[k]
             total == Pow2[k + 1]
             a     == LeftCall(call, half)
             left  == MerkleizePowerOfTwo[half][a]
             b     == RightCall(call, half, left)
             right == MerkleizePowerOfTwo[half][b]
             data  == call.data
  <1>1. /\ half \in Nat /\ total = half + half /\ total \in Nat /\ total \div 2 = half /\ total # 1
        /\ k + 1 \in Nat
    <2>1. half \in Nat /\ total = half + half /\ total \in Nat /\ k + 1 \in Nat
      BY Pow2Twice
    <2> HIDE DEF half, total
    <2> QED BY <2>1
  <1>2. /\ call \in Arguments /\ call.table \in Nodes /\ data \in Nodes
        /\ ValidTable(call.table) /\ Len(data) <= total /\ Len(data) \in Nat
    BY DEF Fits, Arguments, Nodes
  <1>3. /\ LeftPart(data, half) \in Nodes /\ RightPart(data, half) \in Nodes
        /\ Len(LeftPart(data, half)) = LeftLen(data, half)
        /\ Len(RightPart(data, half)) = Len(data) - LeftLen(data, half)
        /\ \A i \in 1..Len(LeftPart(data, half)) : LeftPart(data, half)[i] = data[i]
        /\ \A i \in 1..Len(RightPart(data, half)) :
             RightPart(data, half)[i] = data[LeftLen(data, half) + i]
    BY <1>1, <1>2, PartsType
  <1> HIDE DEF half, total, data
  <1>4. LeftLen(data, half) <= half /\ Len(data) - LeftLen(data, half) <= half
    <2>1. half \in Nat /\ Len(data) \in Nat /\ Len(data) <= half + half
      BY <1>1, <1>2
    <2> QED BY <2>1 DEF LeftLen
  <1>5. a = [data |-> LeftPart(data, half), table |-> call.table]
    BY DEF LeftCall, data
  <1>6. Fits(k, a)
    BY <1>2, <1>3, <1>4, <1>5 DEF Fits, Arguments, half
  <1>7. Right(k, a)
    <2>1. Len(data) >= 1 /\ half >= 1
      BY <1>2, LengthZero, Pow2Grows DEF data, half
    <2>2. LeftLen(data, half) # 0
      BY <1>1, <1>2, <2>1 DEF LeftLen
    <2>3. a.data # << >>
      BY <1>3, <1>5, <2>2, NoNodes
    <2> QED BY <1>6, <2>3
  <1>8. left \in Results
    <2>1. MerkleizePowerOfTwo[half] \in Calls /\ a \in Arguments
      BY <1>6, MerkleizePowerOfTwoIs DEF Fits, half
    <2> QED BY <2>1 DEF Calls
  <1>9. /\ left.table \in Nodes /\ left.root = RootOf[k][Padded(LeftPart(data, half), half)]
        /\ ValidTable(left.table) /\ Extends(left.table, call.table)
    <2>1. left = MerkleizePowerOfTwo[Pow2[k]][a]
      BY DEF half
    <2> HIDE DEF left
    <2>2. left.table \in Nodes
      BY <1>8 DEF Results
    <2>3. /\ left.root = RootOf[k][Padded(a.data, Pow2[k])] /\ ValidTable(left.table)
          /\ Extends(left.table, a.table)
      BY <1>7, <2>1 DEF Right
    <2> QED BY <1>5, <2>2, <2>3 DEF half
  <1> HIDE DEF left
  <1>10. b = [data |-> RightPart(data, half), table |-> left.table]
    BY DEF RightCall, data
  <1>11. Fits(k, b)
    BY <1>3, <1>4, <1>9, <1>10 DEF Fits, Arguments, half
  <1>12. Right(k, b)
    <2>1. CASE b.data = << >>
      <3>1. Len(data) - LeftLen(data, half) = 0
        BY <1>3, <1>10, <2>1, NoNodes
      <3>2. ~ (Len(data) > half)
        BY <1>1, <1>2, <3>1 DEF LeftLen
      <3>3. k < LEVELS
        BY <3>2 DEF data, half
      <3> QED BY <1>11, <2>1, <3>3, RightWithoutData
    <2>2. CASE b.data # << >>
      BY <1>11, <2>2
    <2> QED BY <2>1, <2>2
  <1>13. right \in Results
    <2>1. MerkleizePowerOfTwo[half] \in Calls /\ b \in Arguments
      BY <1>11, MerkleizePowerOfTwoIs DEF Fits, half
    <2> QED BY <2>1 DEF Calls
  <1>14. /\ right.table \in Nodes /\ right.root = RootOf[k][Padded(RightPart(data, half), half)]
         /\ ValidTable(right.table) /\ Extends(right.table, left.table)
    <2>1. right = MerkleizePowerOfTwo[Pow2[k]][b]
      BY DEF half
    <2> HIDE DEF right
    <2>2. right.table \in Nodes
      BY <1>13 DEF Results
    <2>3. /\ right.root = RootOf[k][Padded(b.data, Pow2[k])] /\ ValidTable(right.table)
          /\ Extends(right.table, b.table)
      BY <1>12, <2>1 DEF Right
    <2> QED BY <1>10, <2>2, <2>3 DEF half
  <1>15. Extends(right.table, call.table)
    BY <1>2, <1>9, <1>14, ExtendsTransitive
  <1>16. MerkleizePowerOfTwo[total][call]
           = [root |-> Hash(left.root, right.root), table |-> right.table]
    <2>1. MerkleizePowerOfTwo[total][call] = Turn(total, MerkleizePowerOfTwo[half], call)
      BY <1>2, MerkleizePowerOfTwoIs DEF total, half
    <2>2. Turn(total, MerkleizePowerOfTwo[half], call)
            = [root |-> Hash(left.root, right.root), table |-> right.table]
      <3>1. call.data # << >> /\ total # 1 /\ half = total \div 2
        BY <1>1
      <3>2. Turn(total, MerkleizePowerOfTwo[half], call) = Joined(left, right)
        BY <3>1, TurnIs DEF left
      <3> QED BY <3>2 DEF Joined
    <2> QED BY <2>1, <2>2
  <1> HIDE DEF right
  <1>17. RootOf[k + 1][Padded(data, total)] = Hash(left.root, right.root)
    <2> DEFINE p == Padded(data, total)
    <2>1. p \in Nodes /\ Len(p) = total
      BY <1>1, <1>2, PaddedType
    <2>2. RootOf[k + 1][p] = Hash(RootOf[k][LeftHalf(k, p)], RootOf[k][RightHalf(k, p)])
      BY <2>1, Halves DEF total
    <2>3. LeftHalf(k, p) = Padded(LeftPart(data, half), half)
          /\ RightHalf(k, p) = Padded(RightPart(data, half), half)
      <3>1. LeftLen(data, half) = IF Len(data) > half THEN half ELSE Len(data)
        BY DEF LeftLen
      <3>2. /\ Len(LeftPart(data, half)) = IF Len(data) > half THEN half ELSE Len(data)
            /\ Len(RightPart(data, half)) = Len(data) - Len(LeftPart(data, half))
            /\ \A i \in 1..Len(RightPart(data, half)) :
                 RightPart(data, half)[i] = data[Len(LeftPart(data, half)) + i]
        BY <1>3, <3>1
      <3>3. /\ data \in Nodes /\ LeftPart(data, half) \in Nodes /\ RightPart(data, half) \in Nodes
            /\ \A i \in 1..Len(LeftPart(data, half)) : LeftPart(data, half)[i] = data[i]
        BY <1>2, <1>3
      <3>4. half = Pow2[k] /\ total = Pow2[k + 1]
        BY DEF half, total
      <3> DEFINE l == LeftPart(data, half)
                 q == RightPart(data, half)
      <3>5. l \in Nodes /\ q \in Nodes /\ IsSplit(data, l, q, Pow2[k])
        BY <3>2, <3>3, <3>4 DEF IsSplit
      <3> HIDE DEF l, q, p
      <3>6. /\ LeftHalf(k, Padded(data, Pow2[k + 1])) = Padded(l, Pow2[k])
            /\ RightHalf(k, Padded(data, Pow2[k + 1])) = Padded(q, Pow2[k])
        BY <3>3, <3>5, PaddedSplits
      <3> QED BY <3>4, <3>6 DEF l, q, p
    <2> QED BY <1>9, <1>14, <2>2, <2>3
  <1>18. Right(k + 1, call)
    BY <1>14, <1>15, <1>16, <1>17 DEF Right, total, data
  <1> QED BY <1>18

\* Trees that hold data are right up to one level above the last row.
LEMMA RightForData ==
    ASSUME NEW e \in Nat, e <= LEVELS, NEW call, Fits(e, call), call.data # << >>
    PROVE  Right(e, call)
  <1> DEFINE AllRight(k) == \A c : Fits(k, c) /\ c.data # << >> => Right(k, c)
             S == {k \in Nat : k <= LEVELS => AllRight(k)}
  <1>0. LEVELS \in Nat
    BY LimitsAssumption
  <1>1. 0 \in S
    BY RightForOne
  <1>2. ASSUME NEW k \in S PROVE k + 1 \in S
    <2>1. k \in Nat /\ k + 1 \in Nat /\ (k <= LEVELS => AllRight(k))
      OBVIOUS
    <2>2. ASSUME k + 1 <= LEVELS, NEW c, Fits(k + 1, c), c.data # << >> PROVE Right(k + 1, c)
      <3>1. k < LEVELS /\ AllRight(k)
        BY <1>0, <2>1, <2>2
      <3> HIDE DEF S
      <3> QED BY <2>1, <2>2, <3>1, RightForHalves
    <2> QED BY <2>1, <2>2
  <1>3. S = Nat
    <2>1. S \subseteq Nat
      OBVIOUS
    <2> HIDE DEF S
    <2> QED BY <1>1, <1>2, <2>1, Induction
  <1>4. AllRight(e)
    <2>1. e \in S
      BY <1>3
    <2> QED BY <2>1
  <1> QED BY <1>4

\* A tree is one too high for the table as long as it is half full.
HasRows(e, call) ==
    \/ e < LEVELS
    \/ e <= LEVELS /\ call.data # << >>
    \/ e = LEVELS + 1 /\ Len(call.data) > Pow2[LEVELS]

\* merkleize_power_of_two returns the root SSZ defines (ssz.hpp:195-224).
LEMMA MerkleizePowerOfTwoRight ==
    ASSUME NEW e \in Nat, NEW call, Fits(e, call), HasRows(e, call)
    PROVE  Right(e, call)
  <1>0. LEVELS \in Nat
    BY LimitsAssumption
  <1>1. CASE e < LEVELS /\ call.data = << >>
    BY <1>1, RightWithoutData
  <1>2. CASE e <= LEVELS /\ call.data # << >>
    BY <1>2, RightForData
  <1>3. CASE e = LEVELS + 1 /\ Len(call.data) > Pow2[LEVELS]
    <2>1. call.data # << >>
      <3> SUFFICES ASSUME call.data = << >> PROVE FALSE
        OBVIOUS
      <3>1. 0 > Pow2[LEVELS]
        BY <1>3, NoNodes
      <3>2. Pow2[LEVELS] \in Nat
        BY <1>0, Pow2Twice
      <3> QED BY <3>1, <3>2
    <2>2. \A c : Fits(LEVELS, c) /\ c.data # << >> => Right(LEVELS, c)
      <3>1. LEVELS <= LEVELS
        BY <1>0
      <3> QED BY <1>0, <3>1, RightForData
    <2>3. Right(LEVELS + 1, call)
      BY <1>0, <1>3, <2>1, <2>2, RightForHalves
    <2> QED BY <1>3, <2>3
  <1>4. CASE e < LEVELS
    <2>1. e <= LEVELS
      BY <1>0, <1>4
    <2> QED BY <1>1, <1>2, <1>4, <2>1
  <1> QED BY <1>2, <1>3, <1>4 DEF HasRows

-----------------------------------------------------------------------------
\* What merkleize yields for a list: the root SSZ defines, and a valid table.
IsRootOf(result, t, data, max) ==
    /\ result.root = SszMerkleize(data, max)
    /\ result.root \in Node
    /\ ValidTable(result.table)
    /\ Extends(result.table, t)

\* The same for the data and the table apart.
LEMMA TreeRight ==
    ASSUME NEW t, ValidTable(t), NEW data \in Nodes, NEW e \in Nat, Len(data) <= Pow2[e],
           HasRows(e, [data |-> data, table |-> t])
    PROVE  LET result == MerkleizePowerOfTwo[Pow2[e]][[data |-> data, table |-> t]]
           IN  /\ result.root = RootOf[e][Padded(data, Pow2[e])]
               /\ result.root \in Node
               /\ ValidTable(result.table)
               /\ Extends(result.table, t)
  <1> DEFINE call   == [data |-> data, table |-> t]
             result == MerkleizePowerOfTwo[Pow2[e]][call]
  <1>1. t \in Nodes
    BY DEF ValidTable
  <1>2. call.data = data /\ call.table = t /\ call \in Arguments
    BY <1>1 DEF Arguments
  <1>3. HasRows(e, call)
    OBVIOUS
  <1> HIDE DEF call
  <1>4. Fits(e, call)
    BY <1>2 DEF Fits
  <1>5. Right(e, call)
    BY <1>3, <1>4, MerkleizePowerOfTwoRight
  <1>6. result \in Results
    <2>1. MerkleizePowerOfTwo[Pow2[e]] \in Calls
      BY MerkleizePowerOfTwoIs
    <2> QED BY <1>2, <2>1 DEF Calls
  <1>7. result.root \in Node
    BY <1>6 DEF Results
  <1>8. /\ result.root = RootOf[e][Padded(data, Pow2[e])]
        /\ ValidTable(result.table)
        /\ Extends(result.table, t)
    BY <1>2, <1>5 DEF Right
  <1> QED BY <1>7, <1>8 DEF call

\* merkleize returns the root SSZ defines for a list within its limit
\* (ssz.hpp:239-246).
LEMMA MerkleizeRight ==
    ASSUME NEW t, ValidTable(t), NEW data \in Nodes, NEW max, Limit(max), Len(data) <= max
    PROVE  IsRootOf(Merkleize(t, data, max), t, data, max)
  <1>1. max \in Nat /\ Depth(max) < LEVELS /\ Len(data) \in Nat
    BY LengthZero DEF Limit
  <1>2. CASE max = 0
    <2>1. Len(data) = 0
      BY <1>1, <1>2
    <2>2. data = << >>
      BY <2>1, LengthZero
    <2>3. Merkleize(t, data, max) = [root |-> ZeroHash, table |-> t]
      BY <1>2 DEF Merkleize
    <2>4. Depth(1) = 0
      <3>1. Pow2[0] = 1 /\ 0 \in Nat
        BY Pow2Type
      <3> QED BY <3>1, DepthOfPow2
    <2>5. SszMerkleize(data, max) = ZeroSubtree(0)
      BY <1>2, <2>2, <2>4 DEF SszMerkleize, ZeroSubtree
    <2>6. Extends(t, t) /\ ValidTable(t)
      BY DEF Extends, ValidTable, Nodes
    <2> QED BY <2>3, <2>5, <2>6, ZeroSubtrees, ZeroHashType DEF IsRootOf
  <1>3. CASE max # 0
    <2> DEFINE e == Depth(max)
    <2>1. e \in Nat /\ Pow2[e] >= max /\ Pow2[e] \in Nat
      <3>1. e \in Nat /\ Pow2[e] >= max
        BY <1>1, DepthIs
      <3> QED BY <3>1, Pow2Twice
    <2>2. Len(data) <= Pow2[e] /\ e < LEVELS
      BY <1>1, <2>1
    <2>3. Merkleize(t, data, max) = MerkleizePowerOfTwo[Pow2[e]][[data |-> data, table |-> t]]
      BY <1>3 DEF Merkleize, BitCeil
    <2>4. SszMerkleize(data, max) = RootOf[e][Padded(data, Pow2[e])]
      BY <1>3 DEF SszMerkleize
    <2> HIDE DEF e
    <2>5. HasRows(e, [data |-> data, table |-> t])
      BY <2>2 DEF HasRows
    <2> QED BY <2>1, <2>2, <2>3, <2>4, <2>5, TreeRight DEF IsRootOf
  <1> QED BY <1>2, <1>3

\* A container has at least one field, and no more than two for each leaf of the
\* tree that the last row stands for.
LEMMA MerkleizeChunksRight ==
    ASSUME NEW t, ValidTable(t), NEW data \in Nodes, data # << >>,
           Len(data) <= Pow2[LEVELS + 1]
    PROVE  IsRootOf(MerkleizeChunks(t, data), t, data, Len(data))
  <1> DEFINE n == Len(data)
             e == Depth(n)
  <1>0. LEVELS \in Nat /\ LEVELS + 1 \in Nat
    BY LimitsAssumption
  <1>1. n \in Nat /\ n # 0
    BY LengthZero
  <1>2. e \in Nat /\ Pow2[e] >= n /\ e <= LEVELS + 1 /\ (e = 0 \/ Pow2[e - 1] < n)
    BY <1>0, <1>1, DepthIs, DepthLeast
  <1>3. MerkleizeChunks(t, data) = MerkleizePowerOfTwo[Pow2[e]][[data |-> data, table |-> t]]
    BY DEF MerkleizeChunks, BitCeil
  <1>4. SszMerkleize(data, n) = RootOf[e][Padded(data, Pow2[e])]
    BY <1>1 DEF SszMerkleize
  <1> HIDE DEF e
  <1>5. HasRows(e, [data |-> data, table |-> t])
    <2>1. CASE e <= LEVELS
      BY <2>1 DEF HasRows
    <2>2. CASE ~ (e <= LEVELS)
      <3>1. e = LEVELS + 1 /\ e - 1 = LEVELS
        BY <1>0, <1>2, <2>2
      <3>2. Pow2[LEVELS] < n
        <4>1. e # 0
          BY <1>0, <3>1
        <4> QED BY <1>2, <3>1, <4>1
      <3>3. n > Pow2[LEVELS]
        BY <1>0, <1>1, <3>2, Pow2Twice
      <3> QED BY <3>1, <3>3 DEF HasRows
    <2> QED BY <2>1, <2>2
  <1>6. n <= Pow2[e]
    BY <1>1, <1>2, Pow2Twice
  <1> QED BY <1>2, <1>3, <1>4, <1>5, <1>6, TreeRight DEF IsRootOf

-----------------------------------------------------------------------------
\* The lists of the first calls are lists of nodes.
LEMMA ChunksAreNodes ==
    ASSUME NEW l \in Nat, NEW d \in SeqOf(Chunks, l)
    PROVE  d \in Nodes /\ Len(d) <= l
  <1>1. BYTES_PER_CHUNK \in Nat /\ Chunks \subseteq [1..BYTES_PER_CHUNK -> 0..255]
    BY LimitsAssumption
  <1>2. Chunks \subseteq Node
    <2> SUFFICES ASSUME NEW c \in Chunks PROVE c \in Node
      OBVIOUS
    <2>1. c \in [1..BYTES_PER_CHUNK -> 0..255]
      BY <1>1
    <2>2. \A i \in 1..BYTES_PER_CHUNK : c[i] \in Int
      <3>1. \A i \in 1..BYTES_PER_CHUNK : c[i] \in 0..255
        BY <2>1
      <3>2. \A x \in 0..255 : x \in Int
        OBVIOUS
      <3> QED BY <3>1, <3>2
    <2>3. c \in [1..BYTES_PER_CHUNK -> Int]
      BY <2>1, <2>2
    <2> QED BY <1>1, <2>3 DEF Node
  <1>3. PICK m \in 0..l : d \in [1..m -> Chunks]
    BY DEF SeqOf
  <1> QED BY <1>2, <1>3 DEF Nodes

\* A call returns the right root and leaves a valid table with the rows there
\* were.
LEMMA CallRight ==
    ASSUME ValidTable(table), MerkleizeAny
    PROVE  ValidTable(table') /\ Extends(table', table) /\ ListsMatchSsz'
  <1>1. PICK l \in Limits : \E d \in SeqOf(Chunks, l) : Call(d, l)
    BY DEF MerkleizeAny
  <1>2. PICK d \in SeqOf(Chunks, l) : Call(d, l)
    BY <1>1
  <1>3. Limit(l) /\ l \in Nat
    BY LimitsAssumption DEF Limit
  <1>4. d \in Nodes /\ Len(d) <= l
    BY <1>3, ChunksAreNodes
  <1>5. IsRootOf(Merkleize(table, d, l), table, d, l)
    BY <1>3, <1>4, MerkleizeRight
  <1>6. table' = Merkleize(table, d, l).table
        /\ merkleized' = [data |-> d, limit |-> l, root |-> Merkleize(table, d, l).root]
    BY <1>2 DEF Call
  <1> QED BY <1>5, <1>6 DEF IsRootOf, ListsMatchSsz

\* A process starts with a valid table.
LEMMA EmptyTable ==
    ValidTable(<< >>) /\ NoCall.root = SszMerkleize(NoCall.data, NoCall.limit)
  <1>1. ValidTable(<< >>)
    BY NoNodes DEF ValidTable
  <1>2. Limit(0)
    <2>1. Depth(0) = 0
      BY DepthIs
    <2> QED BY <2>1, LimitsAssumption DEF Limit
  <1>3. IsRootOf(Merkleize(<< >>, << >>, 0), << >>, << >>, 0)
    BY <1>1, <1>2, NoNodes, MerkleizeRight
  <1>4. Merkleize(<< >>, << >>, 0).root = ZeroHash
    BY DEF Merkleize
  <1> QED BY <1>1, <1>3, <1>4 DEF IsRootOf, NoCall

\* The rows of the table are right whatever has been called, which is why the
\* next call is.
LadderInv == ValidTable(table) /\ ListsMatchSsz

\* So it is at first.
LEMMA LadderInit == RequestInit => LadderInv
  BY EmptyTable DEF RequestInit, InitTable, LadderInv, ListsMatchSsz

\* Calls and new processes keep it so.
LEMMA LadderStep == LadderInv /\ [RequestNext]_requestVars => LadderInv'
  <1> SUFFICES ASSUME LadderInv, [RequestNext]_requestVars PROVE LadderInv'
    OBVIOUS
  <1>1. CASE MerkleizeList
    BY <1>1, CallRight DEF MerkleizeList, LadderInv
  <1>2. ASSUME NEW r \in Requests, Commit(r) PROVE LadderInv'
    BY <1>2, EmptyTable DEF Commit, NewProcess, LadderInv, ListsMatchSsz
  <1>3. CASE UNCHANGED requestVars
    BY <1>3 DEF requestVars, ladder, LadderInv, ListsMatchSsz
  <1> QED BY <1>1, <1>2, <1>3 DEF RequestNext, AllRun

\* Whatever the calls before it have left in the table of zero subtrees, a list
\* gets the root SSZ defines (ssz.hpp:204-246), for all sizes of chunks, limits
\* and tables.
THEOREM ListRoots == RequestSpec => []ListsMatchSsz
  <1>1. LadderInv => ListsMatchSsz
    BY DEF LadderInv
  <1> QED BY <1>1, LadderInit, LadderStep, PTL DEF RequestSpec

\* A table with the rows of another has it as a prefix.
LEMMA ExtendsIsPrefix ==
    ASSUME NEW s \in Nodes, NEW t \in Nodes, Extends(t, s)
    PROVE  IsPrefix(s, t)
  <1>1. Len(s) \in Nat /\ Len(t) \in Nat /\ Len(s) <= Len(t) /\ 0 \in Nat /\ 0 + Len(s) = Len(s)
        /\ 0 + 1 = 1
    BY LengthZero DEF Extends
  <1>2. /\ SubSeq(s, 0 + 1, 0 + Len(s)) \in Nodes
        /\ Len(SubSeq(s, 0 + 1, 0 + Len(s))) = Len(s)
        /\ \A i \in 1..Len(s) : SubSeq(s, 0 + 1, 0 + Len(s))[i] = s[0 + i]
    <2>1. 0 + Len(s) <= Len(s)
      BY <1>1
    <2> QED BY <1>1, <2>1, SliceType
  <1>3. /\ SubSeq(t, 0 + 1, 0 + Len(s)) \in Nodes
        /\ Len(SubSeq(t, 0 + 1, 0 + Len(s))) = Len(s)
        /\ \A i \in 1..Len(s) : SubSeq(t, 0 + 1, 0 + Len(s))[i] = t[0 + i]
    <2>1. 0 + Len(s) <= Len(t)
      BY <1>1
    <2> QED BY <1>1, <2>1, SliceType
  <1>4. ASSUME NEW i \in 1..Len(s)
        PROVE  SubSeq(s, 0 + 1, 0 + Len(s))[i] = SubSeq(t, 0 + 1, 0 + Len(s))[i]
    <2>1. 0 + i = i
      OBVIOUS
    <2> QED BY <1>2, <1>3, <2>1 DEF Extends
  <1>5. SubSeq(s, 0 + 1, 0 + Len(s)) = SubSeq(t, 0 + 1, 0 + Len(s))
    BY <1>2, <1>3, <1>4, SameNodes
  <1> QED BY <1>1, <1>5 DEF IsPrefix

\* A row that zero_subtree_root has filled is never written again while the
\* process lives (ssz.hpp:187), for any list and any limit.
THEOREM RowsKept == RequestSpec => RowsAreKept
  <1>1. LadderInv /\ [RequestNext]_requestVars
          => [IsPrefix(table, table') \/ NewProcess]_ladder
    <2> SUFFICES ASSUME LadderInv, [RequestNext]_requestVars
                 PROVE  [IsPrefix(table, table') \/ NewProcess]_ladder
      OBVIOUS
    <2>1. CASE MerkleizeList
      <3>1. table \in Nodes /\ table' \in Nodes /\ Extends(table', table)
        BY <2>1, CallRight DEF MerkleizeList, LadderInv, ValidTable
      <3> QED BY <3>1, ExtendsIsPrefix
    <2>2. ASSUME NEW r \in Requests, Commit(r)
          PROVE  [IsPrefix(table, table') \/ NewProcess]_ladder
      BY <2>2 DEF Commit
    <2>3. CASE UNCHANGED requestVars
      BY <2>3 DEF requestVars, ladder
    <2> QED BY <2>1, <2>2, <2>3 DEF RequestNext, AllRun
  <1> QED BY <1>1, LadderInit, LadderStep, PTL DEF RequestSpec, RowsAreKept

-----------------------------------------------------------------------------
\* Division with remainder.
LEMMA DivTimes ==
    ASSUME NEW a \in Nat, NEW b \in Nat \ {0}
    PROVE  a \div b \in Nat /\ b * (a \div b) <= a /\ a < b * (a \div b) + b
  OBVIOUS

\* A larger factor gives a product larger by a whole term.
LEMMA TimesGrows ==
    ASSUME NEW b \in Nat \ {0}, NEW x \in Nat, NEW y \in Nat, x + 1 <= y
    PROVE  b * x + b <= b * y
  OBVIOUS

\* What a quotient is bounded by.
LEMMA DivBelow ==
    ASSUME NEW a \in Nat, NEW b \in Nat \ {0}, NEW q \in Nat, a < b * q + b
    PROVE  a \div b <= q
  <1>1. a \div b \in Nat /\ b * (a \div b) <= a
    BY DivTimes
  <1>2. ASSUME q + 1 <= a \div b PROVE FALSE
    <2>1. b * q + b <= b * (a \div b)
      BY <1>1, <1>2, TimesGrows
    <2>2. b * q \in Nat /\ b * (a \div b) \in Nat
      BY <1>1
    <2> QED BY <1>1, <2>1, <2>2
  <1> QED BY <1>1, <1>2

\* More bytes take no fewer chunks.
LEMMA DivMonotone ==
    ASSUME NEW a \in Nat, NEW c \in Nat, NEW b \in Nat \ {0}, a <= c
    PROVE  a \div b <= c \div b
  <1>1. c \div b \in Nat /\ c < b * (c \div b) + b
    BY DivTimes
  <1>2. a < b * (c \div b) + b
    <2>1. b * (c \div b) \in Nat
      BY <1>1
    <2> QED BY <1>1, <2>1
  <1> QED BY <1>1, <1>2, DivBelow

\* Chunks of bytes, which may be any numbers here: a length is packed as one.
Chunk == [1..BYTES_PER_CHUNK -> Nat]

\* Chunks are nodes, and the zero chunk is one.
LEMMA ChunksOfNumbers ==
    /\ BYTES_PER_CHUNK \in Nat \ {0}
    /\ \A c \in Chunk : c \in Node
    /\ ZeroHash \in Chunk
  <1>1. BYTES_PER_CHUNK \in Nat \ {0}
    BY LimitsAssumption
  <1>2. ASSUME NEW c \in Chunk PROVE c \in Node
    <2>1. c \in [1..BYTES_PER_CHUNK -> Nat]
      BY DEF Chunk
    <2>2. \A i \in 1..BYTES_PER_CHUNK : c[i] \in Int
      BY <2>1
    <2>3. c \in [1..BYTES_PER_CHUNK -> Int]
      BY <2>1, <2>2
    <2> QED BY <1>1, <2>3 DEF Node
  <1>3. ZeroHash \in Chunk
    BY DEF ZeroHash, Chunk
  <1> QED BY <1>1, <1>2, <1>3

CountOf(n) == CeilDiv(n, BYTES_PER_CHUNK)

\* The chunks that many bytes take (ssz.hpp:147).
LEMMA CountIs ==
    ASSUME NEW n \in Nat
    PROVE  /\ CountOf(n) \in Nat
           /\ n >= 1 => CountOf(n) >= 1
           /\ \A k \in Nat : n <= k * BYTES_PER_CHUNK => CountOf(n) <= k
           /\ \A k \in Nat : n <= k => CountOf(n) <= CountOf(k)
  <1> DEFINE b == BYTES_PER_CHUNK
  <1>0. b \in Nat \ {0}
    BY LimitsAssumption
  <1>1. CountOf(n) = (n + b - 1) \div b /\ n + b - 1 \in Nat
    BY <1>0 DEF CountOf, CeilDiv
  <1>2. CountOf(n) \in Nat
    BY <1>0, <1>1, DivTimes
  <1>3. ASSUME n >= 1 PROVE CountOf(n) >= 1
    <2>1. n + b - 1 >= b
      BY <1>0, <1>3
    <2>2. b \in Nat /\ b \div b = 1
      BY <1>0
    <2>3. b \div b <= (n + b - 1) \div b
      BY <1>0, <1>1, <2>1, <2>2, DivMonotone
    <2> QED BY <1>1, <1>2, <2>2, <2>3
  <1>4. ASSUME NEW k \in Nat, n <= k * b PROVE CountOf(n) <= k
    <2>1. k * b \in Nat /\ k * b = b * k
      BY <1>0
    <2>2. n + b - 1 < b * k + b
      BY <1>0, <1>4, <2>1
    <2> QED BY <1>0, <1>1, <2>2, DivBelow
  <1>5. ASSUME NEW k \in Nat, n <= k PROVE CountOf(n) <= CountOf(k)
    <2>1. CountOf(k) = (k + b - 1) \div b /\ k + b - 1 \in Nat /\ n + b - 1 <= k + b - 1
      BY <1>0, <1>5 DEF CountOf, CeilDiv
    <2> QED BY <1>0, <1>1, <2>1, DivMonotone
  <1> QED BY <1>2, <1>3, <1>4, <1>5

Bytewise == Seq(Nat)

\* The chunks of a byte string and the bytes in them (ssz.hpp:129-140).
LEMMA PackType ==
    ASSUME NEW v \in Bytewise
    PROVE  /\ Len(v) \in Nat
           /\ Pack(v) \in Seq(Chunk) /\ Pack(v) \in Nodes
           /\ Len(Pack(v)) = CountOf(Len(v))
           /\ \A c \in 1..CountOf(Len(v)) : \A i \in 1..BYTES_PER_CHUNK :
                Pack(v)[c][i] = LET k == (c - 1) * BYTES_PER_CHUNK + i
                                IN  IF k <= Len(v) THEN v[k] ELSE 0
  <1>1. Len(v) \in Nat /\ \A k \in 1..Len(v) : v[k] \in Nat
    BY DEF Bytewise
  <1>2. CountOf(Len(v)) \in Nat
    BY <1>1, CountIs
  <1> DEFINE At(c, i) == LET k == (c - 1) * BYTES_PER_CHUNK + i
                         IN  IF k <= Len(v) THEN v[k] ELSE 0
  <1>3. ASSUME NEW c \in 1..CountOf(Len(v)), NEW i \in 1..BYTES_PER_CHUNK
        PROVE  At(c, i) \in Nat
    <2> DEFINE k == (c - 1) * BYTES_PER_CHUNK + i
    <2>1. k \in Nat \ {0}
      <3>1. c - 1 \in Nat /\ BYTES_PER_CHUNK \in Nat /\ i \in Nat \ {0}
        BY <1>2, ChunksOfNumbers
      <3>2. (c - 1) * BYTES_PER_CHUNK \in Nat
        BY <3>1
      <3> QED BY <3>1, <3>2
    <2> HIDE DEF k
    <2>2. k <= Len(v) => v[k] \in Nat
      BY <1>1, <2>1
    <2> QED BY <2>2 DEF k
  <1>4. Pack(v) = [c \in 1..CountOf(Len(v)) |-> [i \in 1..BYTES_PER_CHUNK |-> At(c, i)]]
    BY DEF Pack, CountOf
  <1> HIDE DEF At
  <1>5. \A c \in 1..CountOf(Len(v)) : [i \in 1..BYTES_PER_CHUNK |-> At(c, i)] \in Chunk
    BY <1>3 DEF Chunk
  <1>6. Pack(v) \in [1..CountOf(Len(v)) -> Chunk]
    BY <1>4, <1>5
  <1>7. Pack(v) \in Seq(Chunk) /\ Len(Pack(v)) = CountOf(Len(v))
    BY <1>2, <1>6
  <1>8. Pack(v) \in Nodes
    <2>1. Pack(v) \in [1..CountOf(Len(v)) -> Node]
      BY <1>6, ChunksOfNumbers
    <2> QED BY <1>2, <2>1 DEF Nodes
  <1>9. \A c \in 1..CountOf(Len(v)) : \A i \in 1..BYTES_PER_CHUNK : Pack(v)[c][i] = At(c, i)
    BY <1>4
  <1> QED BY <1>1, <1>7, <1>8, <1>9 DEF At

\* One chunk.
LEMMA PackOne ==
    ASSUME NEW v \in Bytewise, Len(v) \in 1..BYTES_PER_CHUNK
    PROVE  /\ Pack(v) \in Nodes /\ Len(Pack(v)) = 1 /\ Pack(v)[1] \in Chunk
           /\ \A i \in 1..BYTES_PER_CHUNK :
                Pack(v)[1][i] = IF i <= Len(v) THEN v[i] ELSE 0
  <1> DEFINE n == Len(v)
  <1>0. BYTES_PER_CHUNK \in Nat /\ n \in Nat /\ n >= 1 /\ n <= 1 * BYTES_PER_CHUNK
    BY ChunksOfNumbers
  <1>1. CountOf(n) = 1
    <2>1. CountOf(n) \in Nat /\ CountOf(n) >= 1 /\ CountOf(n) <= 1
      BY <1>0, CountIs
    <2> HIDE DEF n
    <2> QED BY <2>1
  <1>2. /\ Pack(v) \in Nodes /\ Pack(v) \in Seq(Chunk) /\ Len(Pack(v)) = 1
        /\ \A c \in 1..CountOf(n) : \A i \in 1..BYTES_PER_CHUNK :
                Pack(v)[c][i] = LET k == (c - 1) * BYTES_PER_CHUNK + i
                                IN  IF k <= n THEN v[k] ELSE 0
    BY <1>1, PackType
  <1>3. ASSUME NEW i \in 1..BYTES_PER_CHUNK
        PROVE  Pack(v)[1][i] = IF i <= Len(v) THEN v[i] ELSE 0
    <2>1. 1 \in 1..CountOf(n)
      BY <1>1
    <2>2. (1 - 1) * BYTES_PER_CHUNK + i = i
      BY <1>0
    <2> QED BY <1>2, <2>1, <2>2
  <1> QED BY <1>2, <1>3

\* The root of a single chunk is the chunk.
LEMMA OneLeaf ==
    ASSUME NEW nodes \in Nodes, Len(nodes) = 1
    PROVE  SszMerkleize(nodes, 1) = nodes[1]
  <1>1. Pow2[0] = 1 /\ 0 \in Nat /\ 1 \in Nat
    BY Pow2Type
  <1>2. Depth(1) = 0
    BY <1>1, DepthOfPow2
  <1>3. SszMerkleize(nodes, 1) = RootOf[0][Padded(nodes, 1)]
    BY <1>1, <1>2 DEF SszMerkleize
  <1>4. /\ Padded(nodes, 1) \in Nodes /\ Len(Padded(nodes, 1)) = 1
        /\ \A i \in 1..1 : Padded(nodes, 1)[i] = IF i <= Len(nodes) THEN nodes[i] ELSE ZeroHash
    BY <1>1, PaddedType
  <1>5. Padded(nodes, 1)[1] = nodes[1]
    BY <1>4
  <1> QED BY <1>3, <1>4, <1>5, RootOfType

-----------------------------------------------------------------------------
\* The root of a byte vector.
VectorRootOf(v) == SszMerkleize(Pack(v), Len(Pack(v)))

ByteListRootOf(v, max) == MixInLength(SszMerkleize(Pack(v), CountOf(max)), Len(v))

ListRootOf(roots, max) == MixInLength(SszMerkleize(roots, max), Len(roots))

\* htr_uint64 is a chunk.
LEMMA UIntRoot ==
    ASSUME NEW n \in Nat
    PROVE  htr_uint64(n) \in Node /\ Pack(<<n>>)[1] \in Node /\ Pack(<<n>>)[1] \in Chunk
  <1>1. <<n>> \in Bytewise /\ Len(<<n>>) \in 1..BYTES_PER_CHUNK
    BY ChunksOfNumbers DEF Bytewise
  <1>2. Pack(<<n>>)[1] \in Chunk
    BY <1>1, PackOne
  <1> QED BY <1>2, ChunksOfNumbers DEF htr_uint64

\* Byte lists and byte vectors are sequences of numbers.
LEMMA BytesAreNumbers ==
    /\ \A v \in Seq(Byte) : v \in Bytewise
    /\ \A n \in Nat : \A v \in Vector(n) : v \in Seq(Byte) /\ v \in Bytewise /\ Len(v) = n
  <1>1. ASSUME NEW v \in Seq(Byte) PROVE v \in Bytewise
    <2>1. Len(v) \in Nat /\ \A i \in 1..Len(v) : v[i] \in Byte
      OBVIOUS
    <2>2. \A i \in 1..Len(v) : v[i] \in Nat
      <3>1. \A b \in Byte : b \in Nat
        BY DEF Byte
      <3> QED BY <2>1, <3>1
    <2>3. v = [i \in 1..Len(v) |-> v[i]]
      OBVIOUS
    <2>4. v \in [1..Len(v) -> Nat]
      BY <2>2, <2>3
    <2> QED BY <2>1, <2>4 DEF Bytewise
  <1>2. ASSUME NEW n \in Nat, NEW v \in Vector(n) PROVE v \in Seq(Byte) /\ Len(v) = n
    <2>1. v \in [1..n -> Byte]
      BY DEF Vector
    <2> QED BY <2>1
  <1> QED BY <1>1, <1>2

\* htr_uint256 of 32 bytes is the root of that vector.
LEMMA HashRoot ==
    ASSUME NEW v \in Hash32
    PROVE  htr_uint256(v) \in Node /\ htr_uint256(v) = VectorRootOf(v)
  <1>1. v \in Bytewise /\ Len(v) = BYTES_PER_CHUNK
    BY ChunksOfNumbers, BytesAreNumbers DEF Hash32
  <1>2. Len(v) \in 1..BYTES_PER_CHUNK
    BY <1>1, ChunksOfNumbers
  <1>3. Pack(v) \in Nodes /\ Len(Pack(v)) = 1 /\ Pack(v)[1] \in Chunk
    BY <1>1, <1>2, PackOne
  <1>4. SszMerkleize(Pack(v), 1) = Pack(v)[1]
    BY <1>3, OneLeaf
  <1> QED BY <1>3, <1>4, ChunksOfNumbers DEF htr_uint256, VectorRootOf

\* htr_container of up to 32 fields: no struct of a request has more than 19.
LEMMA ContainerRoot ==
    ASSUME ValidTable(table), NEW fields \in Nodes, Len(fields) \in 1..32
    PROVE  htr_container(fields) \in Node /\ htr_container(fields) = SszMerkleize(fields, Len(fields))
  <1> DEFINE n == Len(fields)
  <1>0. n \in Nat /\ n >= 1 /\ n <= 32
    <2>1. n \in 1..32
      OBVIOUS
    <2> HIDE DEF n
    <2> QED BY <2>1
  <1>1. fields # << >>
    <2> SUFFICES ASSUME fields = << >> PROVE FALSE
      OBVIOUS
    <2>1. n = 0
      BY NoNodes
    <2> HIDE DEF n
    <2> QED BY <1>0, <2>1
  <1>2. Len(fields) <= Pow2[LEVELS + 1]
    <2>1. LEVELS \in Nat /\ LEVELS >= 4
      BY LimitsAssumption, RequestsAssumption
    <2>2. LEVELS + 1 \in Nat /\ 5 <= LEVELS + 1
      BY <2>1
    <2>3. Pow2[5] <= Pow2[LEVELS + 1]
      BY <2>2, Pow2Monotone
    <2>4. Pow2[5] = 32
      <3>1. Pow2[0] = 1
        BY Pow2Type
      <3>2. Pow2[0 + 1] = 2 * Pow2[0] /\ Pow2[1 + 1] = 2 * Pow2[1] /\ Pow2[2 + 1] = 2 * Pow2[2]
            /\ Pow2[3 + 1] = 2 * Pow2[3] /\ Pow2[4 + 1] = 2 * Pow2[4]
        BY Pow2Type
      <3> QED BY <3>1, <3>2
    <2>5. Pow2[LEVELS + 1] \in Nat
      BY <2>2, Pow2Twice
    <2> HIDE DEF n
    <2>6. n <= Pow2[LEVELS + 1]
      BY <1>0, <2>3, <2>4, <2>5
    <2> QED BY <2>6 DEF n
  <1>3. IsRootOf(MerkleizeChunks(table, fields), table, fields, Len(fields))
    BY <1>1, <1>2, MerkleizeChunksRight
  <1> QED BY <1>3 DEF IsRootOf, htr_container

\* htr_byte_vector is the root of a vector of up to eight chunks.
LEMMA VectorRoot ==
    ASSUME ValidTable(table), NEW size \in 1..(8 * BYTES_PER_CHUNK), NEW v \in Vector(size)
    PROVE  htr_byte_vector(v) \in Node /\ htr_byte_vector(v) = VectorRootOf(v)
  <1>0. BYTES_PER_CHUNK \in Nat /\ size \in Nat /\ size >= 1 /\ size <= 8 * BYTES_PER_CHUNK
    BY ChunksOfNumbers
  <1>1. v \in Bytewise /\ Len(v) = size
    BY <1>0, BytesAreNumbers
  <1>2. CASE Len(v) <= BYTES_PER_CHUNK
    <2>1. Len(v) \in 1..BYTES_PER_CHUNK
      BY <1>0, <1>1, <1>2
    <2>2. Pack(v) \in Nodes /\ Len(Pack(v)) = 1 /\ Pack(v)[1] \in Chunk
      BY <1>1, <2>1, PackOne
    <2>3. SszMerkleize(Pack(v), 1) = Pack(v)[1]
      BY <2>2, OneLeaf
    <2> QED BY <1>2, <2>2, <2>3, ChunksOfNumbers DEF htr_byte_vector, VectorRootOf
  <1>3. CASE ~ (Len(v) <= BYTES_PER_CHUNK)
    <2>1. Pack(v) \in Nodes /\ Len(Pack(v)) = CountOf(size)
      BY <1>1, PackType
    <2>2. CountOf(size) \in 1..32
      <3>1. CountOf(size) \in Nat /\ CountOf(size) >= 1 /\ CountOf(size) <= 8
        BY <1>0, CountIs
      <3> QED BY <3>1
    <2>3. htr_container(Pack(v)) \in Node
          /\ htr_container(Pack(v)) = SszMerkleize(Pack(v), Len(Pack(v)))
      BY <2>1, <2>2, ContainerRoot
    <2> QED BY <1>3, <2>3 DEF htr_byte_vector, htr_container, VectorRootOf
  <1> QED BY <1>2, <1>3

\* mix_in_length yields a node.
LEMMA MixInLengthType ==
    ASSUME NEW node \in Node, NEW n \in Nat
    PROVE  MixInLength(node, n) \in Node
  BY UIntRoot, HashType DEF MixInLength

\* htr_container_list is the root of the list, for items within the limit.
LEMMA ListRootIs ==
    ASSUME ValidTable(table), NEW roots \in Nodes, NEW max, Limit(max), Len(roots) <= max
    PROVE  ListRoot(roots, max) \in Node /\ ListRoot(roots, max) = ListRootOf(roots, max)
  <1>1. IsRootOf(Merkleize(table, roots, max), table, roots, max)
    BY MerkleizeRight
  <1>2. MerkleRoot(roots, max) = SszMerkleize(roots, max) /\ MerkleRoot(roots, max) \in Node
    BY <1>1 DEF IsRootOf, MerkleRoot
  <1>3. MixInLength(MerkleRoot(roots, max), Len(roots)) \in Node
    BY <1>2, LengthZero, MixInLengthType
  <1> QED BY <1>2, <1>3 DEF ListRoot, ListRootOf

\* htr_byte_list is the root of the byte list, for bytes within the limit.
LEMMA ByteListRoot ==
    ASSUME ValidTable(table), NEW v \in Seq(Byte), NEW max \in Nat, Limit(CountOf(max)),
           Len(v) <= max
    PROVE  htr_byte_list(v, max) \in Node /\ htr_byte_list(v, max) = ByteListRootOf(v, max)
  <1>1. v \in Bytewise
    BY BytesAreNumbers
  <1>2. Len(v) \in Nat /\ Pack(v) \in Nodes /\ Len(Pack(v)) = CountOf(Len(v))
    BY <1>1, PackType
  <1>3. CountOf(Len(v)) <= CountOf(max)
    BY <1>2, CountIs
  <1>4. IsRootOf(Merkleize(table, Pack(v), CountOf(max)), table, Pack(v), CountOf(max))
    BY <1>2, <1>3, MerkleizeRight
  <1>5. /\ MerkleRoot(Pack(v), CountOf(max)) = SszMerkleize(Pack(v), CountOf(max))
        /\ MerkleRoot(Pack(v), CountOf(max)) \in Node
    BY <1>4 DEF IsRootOf, MerkleRoot
  <1>6. MixInLength(MerkleRoot(Pack(v), CountOf(max)), Len(v)) \in Node
    BY <1>2, <1>5, MixInLengthType
  <1> QED BY <1>5, <1>6 DEF htr_byte_list, ByteListRootOf, CountOf

-----------------------------------------------------------------------------
(***************************************************************************)
(* The definition of hash_tree_root, kind by kind and level by level.      *)
(***************************************************************************)
LEMMA BasicKinds ==
    ASSUME NEW v
    PROVE  /\ SszRootOfBasic(UInt, v) = Pack(<<v>>)[1]
           /\ SszRootOfBasic(Bytes, v) = VectorRootOf(v)
  BY DEF SszRootOfBasic, SszRootOf, UInt, Bytes, VectorRootOf

\* Items of lists.
LEMMA ItemKinds ==
    ASSUME NEW v
    PROVE  /\ SszRootOfItem(Bytes, v) = VectorRootOf(v)
           /\ \A max : SszRootOfItem(ByteList(max), v) = ByteListRootOf(v, max)
           /\ \A fields : SszRootOfItem(Container(fields), v) =
                SszMerkleize([i \in DOMAIN fields |->
                                SszRootOfBasic(fields[i][2], v[fields[i][1]])], Len(fields))
  <1>1. SszRootOfItem(Bytes, v) = VectorRootOf(v)
    BY DEF SszRootOfItem, SszRootOf, Bytes, VectorRootOf
  <1>2. \A max : SszRootOfItem(ByteList(max), v) = ByteListRootOf(v, max)
    BY DEF SszRootOfItem, SszRootOf, ByteList, ByteListRootOf, CountOf
  <1>3. \A fields : SszRootOfItem(Container(fields), v) =
                SszMerkleize([i \in DOMAIN fields |->
                                SszRootOfBasic(fields[i][2], v[fields[i][1]])], Len(fields))
    BY DEF SszRootOfItem, SszRootOf, Container
  <1> QED BY <1>1, <1>2, <1>3

\* Fields of payloads and of execution requests.
LEMMA ListKinds ==
    ASSUME NEW v
    PROVE  /\ SszRootOfList(UInt, v) = Pack(<<v>>)[1]
           /\ SszRootOfList(Bytes, v) = VectorRootOf(v)
           /\ \A max : SszRootOfList(ByteList(max), v) = ByteListRootOf(v, max)
           /\ \A of, max : SszRootOfList(List(of, max), v) =
                MixInLength(SszMerkleize([i \in DOMAIN v |-> SszRootOfItem(of, v[i])], max), Len(v))
  <1>1. SszRootOfList(UInt, v) = Pack(<<v>>)[1] /\ SszRootOfList(Bytes, v) = VectorRootOf(v)
    BY DEF SszRootOfList, SszRootOf, UInt, Bytes, VectorRootOf
  <1>2. \A max : SszRootOfList(ByteList(max), v) = ByteListRootOf(v, max)
    BY DEF SszRootOfList, SszRootOf, ByteList, ByteListRootOf, CountOf
  <1>3. \A of, max : SszRootOfList(List(of, max), v) =
          MixInLength(SszMerkleize([i \in DOMAIN v |-> SszRootOfItem(of, v[i])], max), Len(v))
    BY DEF SszRootOfList, SszRootOf, List
  <1> QED BY <1>1, <1>2, <1>3

\* Fields of a request.
LEMMA PartKinds ==
    ASSUME NEW v
    PROVE  /\ SszRootOfPart(Bytes, v) = VectorRootOf(v)
           /\ \A of, max : SszRootOfPart(List(of, max), v) =
                MixInLength(SszMerkleize([i \in DOMAIN v |-> SszRootOfList(of, v[i])], max), Len(v))
           /\ \A fields : SszRootOfPart(Container(fields), v) =
                SszMerkleize([i \in DOMAIN fields |->
                                SszRootOfList(fields[i][2], v[fields[i][1]])], Len(fields))
  <1>1. SszRootOfPart(Bytes, v) = VectorRootOf(v)
    BY DEF SszRootOfPart, SszRootOf, Bytes, VectorRootOf
  <1>2. \A of, max : SszRootOfPart(List(of, max), v) =
          MixInLength(SszMerkleize([i \in DOMAIN v |-> SszRootOfList(of, v[i])], max), Len(v))
    BY DEF SszRootOfPart, SszRootOf, List
  <1>3. \A fields : SszRootOfPart(Container(fields), v) =
          SszMerkleize([i \in DOMAIN fields |->
                          SszRootOfList(fields[i][2], v[fields[i][1]])], Len(fields))
    BY DEF SszRootOfPart, SszRootOf, Container
  <1> QED BY <1>1, <1>2, <1>3

\* The request.
LEMMA RequestKind ==
    ASSUME NEW fields, NEW v
    PROVE  SszRoot(Container(fields), v) =
             SszMerkleize([i \in DOMAIN fields |->
                             SszRootOfPart(fields[i][2], v[fields[i][1]])], Len(fields))
  BY DEF SszRoot, SszRootOf, Container

\* The roots of the fields of an item.
FieldRoots(fields, v) ==
    [i \in DOMAIN fields |-> SszRootOfBasic(fields[i][2], v[fields[i][1]])]

\* The root of an item is that of its fields' roots.
LEMMA ItemRoot ==
    ASSUME ValidTable(table), NEW fields, NEW v, NEW n \in 1..32, NEW roots \in Nodes,
           Len(roots) = n, Len(fields) = n, FieldRoots(fields, v) = roots
    PROVE  htr_container(roots) \in Node
           /\ htr_container(roots) = SszRootOfItem(Container(fields), v)
  <1>1. htr_container(roots) \in Node /\ htr_container(roots) = SszMerkleize(roots, n)
    BY ContainerRoot
  <1>2. SszRootOfItem(Container(fields), v) = SszMerkleize(FieldRoots(fields, v), Len(fields))
    BY ItemKinds DEF FieldRoots
  <1> QED BY <1>1, <1>2

\* The sizes of the byte vectors.
LEMMA SizesAre ==
    /\ AddressSize \in 1..(8 * BYTES_PER_CHUNK) /\ PubkeySize \in 1..(8 * BYTES_PER_CHUNK)
    /\ SignatureSize \in 1..(8 * BYTES_PER_CHUNK) /\ BloomSize \in 1..(8 * BYTES_PER_CHUNK)
  BY RequestsAssumption

\* htr_uint64 of a field.
LEMMA ByteRoot ==
    ASSUME NEW n \in Byte
    PROVE  htr_uint64(n) \in Node /\ htr_uint64(n) = Pack(<<n>>)[1]
  <1>1. n \in Nat
    BY DEF Byte
  <1> QED BY <1>1, UIntRoot DEF htr_uint64

\* htr_withdrawal (stateless.cpp:470).
LEMMA WithdrawalRoot ==
    ASSUME ValidTable(table), NEW w \in Withdrawals
    PROVE  htr_withdrawal(w) \in Node /\ htr_withdrawal(w) = SszRootOfItem(Withdrawal, w)
  <1> DEFINE fields == <<<<"index", UInt>>, <<"validator_index", UInt>>,
                         <<"address", Bytes>>, <<"amount", UInt>>>>
             roots  == <<htr_uint64(w.index), htr_uint64(w.validator_index),
                         htr_byte_vector(w.address), htr_uint64(w.amount)>>
  <1>1. /\ w.index \in Byte /\ w.validator_index \in Byte /\ w.address \in Vector(AddressSize)
        /\ w.amount \in Byte
    BY DEF Withdrawals, Address20
  <1>2. /\ htr_uint64(w.index) \in Node /\ htr_uint64(w.index) = SszRootOfBasic(UInt, w.index)
        /\ htr_uint64(w.validator_index) \in Node
        /\ htr_uint64(w.validator_index) = SszRootOfBasic(UInt, w.validator_index)
        /\ htr_byte_vector(w.address) \in Node
        /\ htr_byte_vector(w.address) = SszRootOfBasic(Bytes, w.address)
        /\ htr_uint64(w.amount) \in Node /\ htr_uint64(w.amount) = SszRootOfBasic(UInt, w.amount)
    BY <1>1, ByteRoot, VectorRoot, SizesAre, BasicKinds
  <1>3. roots \in Nodes /\ Len(roots) = 4 /\ Len(fields) = 4
    BY <1>2 DEF Nodes
  <1>4. FieldRoots(fields, w) = roots
    BY <1>2 DEF FieldRoots
  <1> HIDE DEF fields, roots
  <1>5. htr_container(roots) \in Node /\ htr_container(roots) = SszRootOfItem(Container(fields), w)
    BY <1>3, <1>4, ItemRoot
  <1> QED BY <1>5 DEF htr_withdrawal, Withdrawal, fields, roots

\* htr_deposit_request (stateless.cpp:479).
LEMMA DepositRequestRoot ==
    ASSUME ValidTable(table), NEW d \in DepositRequests
    PROVE  htr_deposit_request(d) \in Node
           /\ htr_deposit_request(d) = SszRootOfItem(DepositRequest, d)
  <1> DEFINE fields == <<<<"pubkey", Bytes>>,
                         <<"withdrawal_credentials", Bytes>>,
                         <<"amount", UInt>>,
                         <<"signature", Bytes>>,
                         <<"index", UInt>>>>
             roots  == <<htr_byte_vector(d.pubkey),
                         htr_uint256(d.withdrawal_credentials),
                         htr_uint64(d.amount),
                         htr_byte_vector(d.signature),
                         htr_uint64(d.index)>>
  <1>1. /\ d.pubkey \in Vector(PubkeySize)
        /\ d.withdrawal_credentials \in Hash32
        /\ d.amount \in Byte
        /\ d.signature \in Vector(SignatureSize)
        /\ d.index \in Byte
    BY DEF DepositRequests, Pubkey, Signature
  <1>2. /\ htr_byte_vector(d.pubkey) \in Node
        /\ htr_byte_vector(d.pubkey) = SszRootOfBasic(Bytes, d.pubkey)
        /\ htr_uint256(d.withdrawal_credentials) \in Node
        /\ htr_uint256(d.withdrawal_credentials) = SszRootOfBasic(Bytes, d.withdrawal_credentials)
        /\ htr_uint64(d.amount) \in Node
        /\ htr_uint64(d.amount) = SszRootOfBasic(UInt, d.amount)
        /\ htr_byte_vector(d.signature) \in Node
        /\ htr_byte_vector(d.signature) = SszRootOfBasic(Bytes, d.signature)
        /\ htr_uint64(d.index) \in Node
        /\ htr_uint64(d.index) = SszRootOfBasic(UInt, d.index)
    BY <1>1, ByteRoot, HashRoot, VectorRoot, SizesAre, BasicKinds
  <1>3. roots \in Nodes /\ Len(roots) = 5 /\ Len(fields) = 5
    BY <1>2 DEF Nodes
  <1>4. FieldRoots(fields, d) = roots
    BY <1>2 DEF FieldRoots
  <1> HIDE DEF fields, roots
  <1>5. htr_container(roots) \in Node /\ htr_container(roots) = SszRootOfItem(Container(fields), d)
    BY <1>3, <1>4, ItemRoot
  <1> QED BY <1>5 DEF htr_deposit_request, DepositRequest, fields, roots

\* htr_withdrawal_request (stateless.cpp:489).
LEMMA WithdrawalRequestRoot ==
    ASSUME ValidTable(table), NEW w \in WithdrawalRequests
    PROVE  htr_withdrawal_request(w) \in Node
           /\ htr_withdrawal_request(w) = SszRootOfItem(WithdrawalRequest, w)
  <1> DEFINE fields == <<<<"source_address", Bytes>>,
                         <<"validator_pubkey", Bytes>>,
                         <<"amount", UInt>>>>
             roots  == <<htr_byte_vector(w.source_address),
                         htr_byte_vector(w.validator_pubkey),
                         htr_uint64(w.amount)>>
  <1>1. /\ w.source_address \in Vector(AddressSize)
        /\ w.validator_pubkey \in Vector(PubkeySize)
        /\ w.amount \in Byte
    BY DEF WithdrawalRequests, Address20, Pubkey
  <1>2. /\ htr_byte_vector(w.source_address) \in Node
        /\ htr_byte_vector(w.source_address) = SszRootOfBasic(Bytes, w.source_address)
        /\ htr_byte_vector(w.validator_pubkey) \in Node
        /\ htr_byte_vector(w.validator_pubkey) = SszRootOfBasic(Bytes, w.validator_pubkey)
        /\ htr_uint64(w.amount) \in Node
        /\ htr_uint64(w.amount) = SszRootOfBasic(UInt, w.amount)
    BY <1>1, ByteRoot, VectorRoot, SizesAre, BasicKinds
  <1>3. roots \in Nodes /\ Len(roots) = 3 /\ Len(fields) = 3
    BY <1>2 DEF Nodes
  <1>4. FieldRoots(fields, w) = roots
    BY <1>2 DEF FieldRoots
  <1> HIDE DEF fields, roots
  <1>5. htr_container(roots) \in Node /\ htr_container(roots) = SszRootOfItem(Container(fields), w)
    BY <1>3, <1>4, ItemRoot
  <1> QED BY <1>5 DEF htr_withdrawal_request, WithdrawalRequest, fields, roots

\* htr_consolidation_request (stateless.cpp:497).
LEMMA ConsolidationRequestRoot ==
    ASSUME ValidTable(table), NEW c \in ConsolidationRequests
    PROVE  htr_consolidation_request(c) \in Node
           /\ htr_consolidation_request(c) = SszRootOfItem(ConsolidationRequest, c)
  <1> DEFINE fields == <<<<"source_address", Bytes>>,
                         <<"source_pubkey", Bytes>>,
                         <<"target_pubkey", Bytes>>>>
             roots  == <<htr_byte_vector(c.source_address),
                         htr_byte_vector(c.source_pubkey),
                         htr_byte_vector(c.target_pubkey)>>
  <1>1. /\ c.source_address \in Vector(AddressSize)
        /\ c.source_pubkey \in Vector(PubkeySize)
        /\ c.target_pubkey \in Vector(PubkeySize)
    BY DEF ConsolidationRequests, Address20, Pubkey
  <1>2. /\ htr_byte_vector(c.source_address) \in Node
        /\ htr_byte_vector(c.source_address) = SszRootOfBasic(Bytes, c.source_address)
        /\ htr_byte_vector(c.source_pubkey) \in Node
        /\ htr_byte_vector(c.source_pubkey) = SszRootOfBasic(Bytes, c.source_pubkey)
        /\ htr_byte_vector(c.target_pubkey) \in Node
        /\ htr_byte_vector(c.target_pubkey) = SszRootOfBasic(Bytes, c.target_pubkey)
    BY <1>1, VectorRoot, SizesAre, BasicKinds
  <1>3. roots \in Nodes /\ Len(roots) = 3 /\ Len(fields) = 3
    BY <1>2 DEF Nodes
  <1>4. FieldRoots(fields, c) = roots
    BY <1>2 DEF FieldRoots
  <1> HIDE DEF fields, roots
  <1>5. htr_container(roots) \in Node /\ htr_container(roots) = SszRootOfItem(Container(fields), c)
    BY <1>3, <1>4, ItemRoot
  <1> QED BY <1>5 DEF htr_consolidation_request, ConsolidationRequest, fields, roots

\* htr_builder_deposit_request (stateless.cpp:517).
LEMMA BuilderDepositRequestRoot ==
    ASSUME ValidTable(table), NEW d \in BuilderDepositRequests
    PROVE  htr_builder_deposit_request(d) \in Node
           /\ htr_builder_deposit_request(d) = SszRootOfItem(BuilderDepositRequest, d)
  <1> DEFINE fields == <<<<"pubkey", Bytes>>,
                         <<"withdrawal_credentials", Bytes>>,
                         <<"amount", UInt>>,
                         <<"signature", Bytes>>>>
             roots  == <<htr_byte_vector(d.pubkey),
                         htr_uint256(d.withdrawal_credentials),
                         htr_uint64(d.amount),
                         htr_byte_vector(d.signature)>>
  <1>1. /\ d.pubkey \in Vector(PubkeySize)
        /\ d.withdrawal_credentials \in Hash32
        /\ d.amount \in Byte
        /\ d.signature \in Vector(SignatureSize)
    BY DEF BuilderDepositRequests, Pubkey, Signature
  <1>2. /\ htr_byte_vector(d.pubkey) \in Node
        /\ htr_byte_vector(d.pubkey) = SszRootOfBasic(Bytes, d.pubkey)
        /\ htr_uint256(d.withdrawal_credentials) \in Node
        /\ htr_uint256(d.withdrawal_credentials) = SszRootOfBasic(Bytes, d.withdrawal_credentials)
        /\ htr_uint64(d.amount) \in Node
        /\ htr_uint64(d.amount) = SszRootOfBasic(UInt, d.amount)
        /\ htr_byte_vector(d.signature) \in Node
        /\ htr_byte_vector(d.signature) = SszRootOfBasic(Bytes, d.signature)
    BY <1>1, ByteRoot, HashRoot, VectorRoot, SizesAre, BasicKinds
  <1>3. roots \in Nodes /\ Len(roots) = 4 /\ Len(fields) = 4
    BY <1>2 DEF Nodes
  <1>4. FieldRoots(fields, d) = roots
    BY <1>2 DEF FieldRoots
  <1> HIDE DEF fields, roots
  <1>5. htr_container(roots) \in Node /\ htr_container(roots) = SszRootOfItem(Container(fields), d)
    BY <1>3, <1>4, ItemRoot
  <1> QED BY <1>5 DEF htr_builder_deposit_request, BuilderDepositRequest, fields, roots

\* htr_builder_exit_request (stateless.cpp:526).
LEMMA BuilderExitRequestRoot ==
    ASSUME ValidTable(table), NEW e \in BuilderExitRequests
    PROVE  htr_builder_exit_request(e) \in Node
           /\ htr_builder_exit_request(e) = SszRootOfItem(BuilderExitRequest, e)
  <1> DEFINE fields == <<<<"source_address", Bytes>>,
                         <<"pubkey", Bytes>>>>
             roots  == <<htr_byte_vector(e.source_address),
                         htr_byte_vector(e.pubkey)>>
  <1>1. /\ e.source_address \in Vector(AddressSize)
        /\ e.pubkey \in Vector(PubkeySize)
    BY DEF BuilderExitRequests, Address20, Pubkey
  <1>2. /\ htr_byte_vector(e.source_address) \in Node
        /\ htr_byte_vector(e.source_address) = SszRootOfBasic(Bytes, e.source_address)
        /\ htr_byte_vector(e.pubkey) \in Node
        /\ htr_byte_vector(e.pubkey) = SszRootOfBasic(Bytes, e.pubkey)
    BY <1>1, VectorRoot, SizesAre, BasicKinds
  <1>3. roots \in Nodes /\ Len(roots) = 2 /\ Len(fields) = 2
    BY <1>2 DEF Nodes
  <1>4. FieldRoots(fields, e) = roots
    BY <1>2 DEF FieldRoots
  <1> HIDE DEF fields, roots
  <1>5. htr_container(roots) \in Node /\ htr_container(roots) = SszRootOfItem(Container(fields), e)
    BY <1>3, <1>4, ItemRoot
  <1> QED BY <1>5 DEF htr_builder_exit_request, BuilderExitRequest, fields, roots

-----------------------------------------------------------------------------
\* A list of items each of which has the root of its type.
LEMMA ItemsRoot ==
    ASSUME ValidTable(table), NEW T, NEW items \in Seq(T), NEW of, NEW max, Limit(max),
           Len(items) <= max, NEW roots \in [DOMAIN items -> Node],
           roots = [i \in DOMAIN items |-> SszRootOfItem(of, items[i])]
    PROVE  ListRoot(roots, max) \in Node
           /\ ListRoot(roots, max) = SszRootOfList(List(of, max), items)
  <1>1. DOMAIN items = 1..Len(items) /\ Len(items) \in Nat
    OBVIOUS
  <1>2. roots \in Nodes /\ Len(roots) = Len(items)
    <2>1. roots \in [1..Len(items) -> Node]
      BY <1>1
    <2> QED BY <1>1, <2>1 DEF Nodes
  <1>3. ListRoot(roots, max) \in Node /\ ListRoot(roots, max) = ListRootOf(roots, max)
    BY <1>2, ListRootIs
  <1>4. SszRootOfList(List(of, max), items) = MixInLength(SszMerkleize(roots, max), Len(items))
    BY ListKinds
  <1> QED BY <1>2, <1>3, <1>4 DEF ListRootOf

\* The limits of the lists.
LEMMA LimitsAre ==
    /\ Limit(MAX_TRANSACTIONS_PER_PAYLOAD) /\ Limit(MAX_WITHDRAWALS_PER_PAYLOAD)
    /\ Limit(MAX_BLOB_COMMITMENTS_PER_BLOCK) /\ Limit(MAX_DEPOSIT_REQUESTS_PER_PAYLOAD)
    /\ Limit(MAX_WITHDRAWAL_REQUESTS_PER_PAYLOAD)
    /\ Limit(MAX_CONSOLIDATION_REQUESTS_PER_PAYLOAD)
    /\ Limit(MAX_BUILDER_DEPOSIT_REQUESTS_PER_PAYLOAD)
    /\ Limit(MAX_BUILDER_EXIT_REQUESTS_PER_PAYLOAD)
    /\ MAX_EXTRA_DATA_BYTES \in Nat /\ Limit(CountOf(MAX_EXTRA_DATA_BYTES))
    /\ MAX_BYTES_PER_TRANSACTION \in Nat /\ Limit(CountOf(MAX_BYTES_PER_TRANSACTION))
    /\ MAX_BLOCK_ACCESS_LIST_BYTES \in Nat /\ Limit(CountOf(MAX_BLOCK_ACCESS_LIST_BYTES))
    /\ BAL_HTR_LIMIT_AMSTERDAM01 \in Nat /\ Limit(CountOf(BAL_HTR_LIMIT_AMSTERDAM01))
  BY RequestsAssumption DEF CountOf

\* The withdrawals of a payload.
LEMMA WithdrawalsRoot ==
    ASSUME ValidTable(table), NEW items \in Seq(Withdrawals),
           Len(items) <= MAX_WITHDRAWALS_PER_PAYLOAD
    PROVE  LET listRoot == ListRoot([i \in DOMAIN items |-> htr_withdrawal(items[i])],
                                    MAX_WITHDRAWALS_PER_PAYLOAD)
           IN  /\ listRoot \in Node
               /\ listRoot = SszRootOfList(List(Withdrawal, MAX_WITHDRAWALS_PER_PAYLOAD),
                                           items)
  <1> DEFINE roots == [i \in DOMAIN items |-> htr_withdrawal(items[i])]
  <1>1. \A i \in DOMAIN items : items[i] \in Withdrawals
    OBVIOUS
  <1>2. \A i \in DOMAIN items :
            /\ htr_withdrawal(items[i]) \in Node
            /\ htr_withdrawal(items[i]) = SszRootOfItem(Withdrawal, items[i])
    BY <1>1, WithdrawalRoot
  <1>3. roots \in [DOMAIN items -> Node]
    BY <1>2
  <1>4. roots = [i \in DOMAIN items |-> SszRootOfItem(Withdrawal, items[i])]
    BY <1>2
  <1> HIDE DEF roots
  <1>5. ListRoot(roots, MAX_WITHDRAWALS_PER_PAYLOAD) \in Node
        /\ ListRoot(roots, MAX_WITHDRAWALS_PER_PAYLOAD)
             = SszRootOfList(List(Withdrawal, MAX_WITHDRAWALS_PER_PAYLOAD), items)
    BY <1>3, <1>4, LimitsAre, ItemsRoot
  <1> QED BY <1>5 DEF roots

\* The deposit requests.
LEMMA DepositsRoot ==
    ASSUME ValidTable(table), NEW items \in Seq(DepositRequests),
           Len(items) <= MAX_DEPOSIT_REQUESTS_PER_PAYLOAD
    PROVE  LET listRoot == ListRoot([i \in DOMAIN items |-> htr_deposit_request(items[i])],
                                    MAX_DEPOSIT_REQUESTS_PER_PAYLOAD)
           IN  /\ listRoot \in Node
               /\ listRoot = SszRootOfList(List(DepositRequest, MAX_DEPOSIT_REQUESTS_PER_PAYLOAD),
                                           items)
  <1> DEFINE roots == [i \in DOMAIN items |-> htr_deposit_request(items[i])]
  <1>1. \A i \in DOMAIN items : items[i] \in DepositRequests
    OBVIOUS
  <1>2. \A i \in DOMAIN items :
            /\ htr_deposit_request(items[i]) \in Node
            /\ htr_deposit_request(items[i]) = SszRootOfItem(DepositRequest, items[i])
    BY <1>1, DepositRequestRoot
  <1>3. roots \in [DOMAIN items -> Node]
    BY <1>2
  <1>4. roots = [i \in DOMAIN items |-> SszRootOfItem(DepositRequest, items[i])]
    BY <1>2
  <1> HIDE DEF roots
  <1>5. ListRoot(roots, MAX_DEPOSIT_REQUESTS_PER_PAYLOAD) \in Node
        /\ ListRoot(roots, MAX_DEPOSIT_REQUESTS_PER_PAYLOAD)
             = SszRootOfList(List(DepositRequest, MAX_DEPOSIT_REQUESTS_PER_PAYLOAD), items)
    BY <1>3, <1>4, LimitsAre, ItemsRoot
  <1> QED BY <1>5 DEF roots

\* The withdrawal requests.
LEMMA WithdrawalRequestsRoot ==
    ASSUME ValidTable(table), NEW items \in Seq(WithdrawalRequests),
           Len(items) <= MAX_WITHDRAWAL_REQUESTS_PER_PAYLOAD
    PROVE  LET listRoot == ListRoot([i \in DOMAIN items |-> htr_withdrawal_request(items[i])],
                                    MAX_WITHDRAWAL_REQUESTS_PER_PAYLOAD)
           IN  /\ listRoot \in Node
               /\ listRoot = SszRootOfList(List(WithdrawalRequest, MAX_WITHDRAWAL_REQUESTS_PER_PAYLOAD),
                                           items)
  <1> DEFINE roots == [i \in DOMAIN items |-> htr_withdrawal_request(items[i])]
  <1>1. \A i \in DOMAIN items : items[i] \in WithdrawalRequests
    OBVIOUS
  <1>2. \A i \in DOMAIN items :
            /\ htr_withdrawal_request(items[i]) \in Node
            /\ htr_withdrawal_request(items[i]) = SszRootOfItem(WithdrawalRequest, items[i])
    BY <1>1, WithdrawalRequestRoot
  <1>3. roots \in [DOMAIN items -> Node]
    BY <1>2
  <1>4. roots = [i \in DOMAIN items |-> SszRootOfItem(WithdrawalRequest, items[i])]
    BY <1>2
  <1> HIDE DEF roots
  <1>5. ListRoot(roots, MAX_WITHDRAWAL_REQUESTS_PER_PAYLOAD) \in Node
        /\ ListRoot(roots, MAX_WITHDRAWAL_REQUESTS_PER_PAYLOAD)
             = SszRootOfList(List(WithdrawalRequest, MAX_WITHDRAWAL_REQUESTS_PER_PAYLOAD), items)
    BY <1>3, <1>4, LimitsAre, ItemsRoot
  <1> QED BY <1>5 DEF roots

\* The consolidation requests.
LEMMA ConsolidationsRoot ==
    ASSUME ValidTable(table), NEW items \in Seq(ConsolidationRequests),
           Len(items) <= MAX_CONSOLIDATION_REQUESTS_PER_PAYLOAD
    PROVE  LET listRoot == ListRoot([i \in DOMAIN items |-> htr_consolidation_request(items[i])],
                                    MAX_CONSOLIDATION_REQUESTS_PER_PAYLOAD)
           IN  /\ listRoot \in Node
               /\ listRoot = SszRootOfList(List(ConsolidationRequest, MAX_CONSOLIDATION_REQUESTS_PER_PAYLOAD),
                                           items)
  <1> DEFINE roots == [i \in DOMAIN items |-> htr_consolidation_request(items[i])]
  <1>1. \A i \in DOMAIN items : items[i] \in ConsolidationRequests
    OBVIOUS
  <1>2. \A i \in DOMAIN items :
            /\ htr_consolidation_request(items[i]) \in Node
            /\ htr_consolidation_request(items[i]) = SszRootOfItem(ConsolidationRequest, items[i])
    BY <1>1, ConsolidationRequestRoot
  <1>3. roots \in [DOMAIN items -> Node]
    BY <1>2
  <1>4. roots = [i \in DOMAIN items |-> SszRootOfItem(ConsolidationRequest, items[i])]
    BY <1>2
  <1> HIDE DEF roots
  <1>5. ListRoot(roots, MAX_CONSOLIDATION_REQUESTS_PER_PAYLOAD) \in Node
        /\ ListRoot(roots, MAX_CONSOLIDATION_REQUESTS_PER_PAYLOAD)
             = SszRootOfList(List(ConsolidationRequest, MAX_CONSOLIDATION_REQUESTS_PER_PAYLOAD), items)
    BY <1>3, <1>4, LimitsAre, ItemsRoot
  <1> QED BY <1>5 DEF roots

\* The builder deposit requests.
LEMMA BuilderDepositsRoot ==
    ASSUME ValidTable(table), NEW items \in Seq(BuilderDepositRequests),
           Len(items) <= MAX_BUILDER_DEPOSIT_REQUESTS_PER_PAYLOAD
    PROVE  LET listRoot == ListRoot([i \in DOMAIN items |-> htr_builder_deposit_request(items[i])],
                                    MAX_BUILDER_DEPOSIT_REQUESTS_PER_PAYLOAD)
           IN  /\ listRoot \in Node
               /\ listRoot = SszRootOfList(List(BuilderDepositRequest, MAX_BUILDER_DEPOSIT_REQUESTS_PER_PAYLOAD),
                                           items)
  <1> DEFINE roots == [i \in DOMAIN items |-> htr_builder_deposit_request(items[i])]
  <1>1. \A i \in DOMAIN items : items[i] \in BuilderDepositRequests
    OBVIOUS
  <1>2. \A i \in DOMAIN items :
            /\ htr_builder_deposit_request(items[i]) \in Node
            /\ htr_builder_deposit_request(items[i]) = SszRootOfItem(BuilderDepositRequest, items[i])
    BY <1>1, BuilderDepositRequestRoot
  <1>3. roots \in [DOMAIN items -> Node]
    BY <1>2
  <1>4. roots = [i \in DOMAIN items |-> SszRootOfItem(BuilderDepositRequest, items[i])]
    BY <1>2
  <1> HIDE DEF roots
  <1>5. ListRoot(roots, MAX_BUILDER_DEPOSIT_REQUESTS_PER_PAYLOAD) \in Node
        /\ ListRoot(roots, MAX_BUILDER_DEPOSIT_REQUESTS_PER_PAYLOAD)
             = SszRootOfList(List(BuilderDepositRequest, MAX_BUILDER_DEPOSIT_REQUESTS_PER_PAYLOAD), items)
    BY <1>3, <1>4, LimitsAre, ItemsRoot
  <1> QED BY <1>5 DEF roots

\* The builder exit requests.
LEMMA BuilderExitsRoot ==
    ASSUME ValidTable(table), NEW items \in Seq(BuilderExitRequests),
           Len(items) <= MAX_BUILDER_EXIT_REQUESTS_PER_PAYLOAD
    PROVE  LET listRoot == ListRoot([i \in DOMAIN items |-> htr_builder_exit_request(items[i])],
                                    MAX_BUILDER_EXIT_REQUESTS_PER_PAYLOAD)
           IN  /\ listRoot \in Node
               /\ listRoot = SszRootOfList(List(BuilderExitRequest, MAX_BUILDER_EXIT_REQUESTS_PER_PAYLOAD),
                                           items)
  <1> DEFINE roots == [i \in DOMAIN items |-> htr_builder_exit_request(items[i])]
  <1>1. \A i \in DOMAIN items : items[i] \in BuilderExitRequests
    OBVIOUS
  <1>2. \A i \in DOMAIN items :
            /\ htr_builder_exit_request(items[i]) \in Node
            /\ htr_builder_exit_request(items[i]) = SszRootOfItem(BuilderExitRequest, items[i])
    BY <1>1, BuilderExitRequestRoot
  <1>3. roots \in [DOMAIN items -> Node]
    BY <1>2
  <1>4. roots = [i \in DOMAIN items |-> SszRootOfItem(BuilderExitRequest, items[i])]
    BY <1>2
  <1> HIDE DEF roots
  <1>5. ListRoot(roots, MAX_BUILDER_EXIT_REQUESTS_PER_PAYLOAD) \in Node
        /\ ListRoot(roots, MAX_BUILDER_EXIT_REQUESTS_PER_PAYLOAD)
             = SszRootOfList(List(BuilderExitRequest, MAX_BUILDER_EXIT_REQUESTS_PER_PAYLOAD), items)
    BY <1>3, <1>4, LimitsAre, ItemsRoot
  <1> QED BY <1>5 DEF roots

\* The transactions, a list of byte lists.
LEMMA TransactionsRoot ==
    ASSUME ValidTable(table), NEW items \in Seq(Seq(Byte)),
           Len(items) <= MAX_TRANSACTIONS_PER_PAYLOAD,
           \A i \in DOMAIN items : Len(items[i]) <= MAX_BYTES_PER_TRANSACTION
    PROVE  LET listRoot == ListRoot([i \in DOMAIN items |->
                                        htr_byte_list(items[i], MAX_BYTES_PER_TRANSACTION)],
                                    MAX_TRANSACTIONS_PER_PAYLOAD)
           IN  /\ listRoot \in Node
               /\ listRoot = SszRootOfList(List(ByteList(MAX_BYTES_PER_TRANSACTION),
                                                MAX_TRANSACTIONS_PER_PAYLOAD), items)
  <1> DEFINE roots == [i \in DOMAIN items |-> htr_byte_list(items[i], MAX_BYTES_PER_TRANSACTION)]
  <1>1. \A i \in DOMAIN items : items[i] \in Seq(Byte)
    OBVIOUS
  <1>2. ASSUME NEW i \in DOMAIN items
        PROVE  /\ htr_byte_list(items[i], MAX_BYTES_PER_TRANSACTION) \in Node
               /\ htr_byte_list(items[i], MAX_BYTES_PER_TRANSACTION)
                    = SszRootOfItem(ByteList(MAX_BYTES_PER_TRANSACTION), items[i])
    <2>1. items[i] \in Seq(Byte) /\ Len(items[i]) <= MAX_BYTES_PER_TRANSACTION
      BY <1>1
    <2> QED BY <2>1, LimitsAre, ByteListRoot, ItemKinds
  <1>3. roots \in [DOMAIN items -> Node]
    BY <1>2
  <1>4. roots = [i \in DOMAIN items |->
                    SszRootOfItem(ByteList(MAX_BYTES_PER_TRANSACTION), items[i])]
    BY <1>2
  <1> HIDE DEF roots
  <1>5. ListRoot(roots, MAX_TRANSACTIONS_PER_PAYLOAD) \in Node
        /\ ListRoot(roots, MAX_TRANSACTIONS_PER_PAYLOAD)
             = SszRootOfList(List(ByteList(MAX_BYTES_PER_TRANSACTION),
                                  MAX_TRANSACTIONS_PER_PAYLOAD), items)
    BY <1>3, <1>4, LimitsAre, ItemsRoot
  <1> QED BY <1>5 DEF roots

\* The versioned hashes, a list of byte vectors.
LEMMA VersionedHashesRoot ==
    ASSUME ValidTable(table), NEW items \in Seq(Hash32),
           Len(items) <= MAX_BLOB_COMMITMENTS_PER_BLOCK
    PROVE  LET listRoot == ListRoot([i \in DOMAIN items |-> htr_uint256(items[i])],
                                    MAX_BLOB_COMMITMENTS_PER_BLOCK)
           IN  /\ listRoot \in Node
               /\ listRoot = SszRootOfPart(List(Bytes, MAX_BLOB_COMMITMENTS_PER_BLOCK), items)
  <1> DEFINE roots == [i \in DOMAIN items |-> htr_uint256(items[i])]
  <1>1. \A i \in DOMAIN items : items[i] \in Hash32
    OBVIOUS
  <1>2. \A i \in DOMAIN items :
            /\ htr_uint256(items[i]) \in Node
            /\ htr_uint256(items[i]) = SszRootOfItem(Bytes, items[i])
            /\ htr_uint256(items[i]) = SszRootOfList(Bytes, items[i])
    BY <1>1, HashRoot, ItemKinds, ListKinds
  <1>3. roots \in [DOMAIN items -> Node]
    BY <1>2
  <1>4. roots = [i \in DOMAIN items |-> SszRootOfItem(Bytes, items[i])]
        /\ roots = [i \in DOMAIN items |-> SszRootOfList(Bytes, items[i])]
    BY <1>2
  <1> HIDE DEF roots
  <1>5. ListRoot(roots, MAX_BLOB_COMMITMENTS_PER_BLOCK) \in Node
        /\ ListRoot(roots, MAX_BLOB_COMMITMENTS_PER_BLOCK)
             = SszRootOfList(List(Bytes, MAX_BLOB_COMMITMENTS_PER_BLOCK), items)
    BY <1>3, <1>4, LimitsAre, ItemsRoot
  <1>6. SszRootOfList(List(Bytes, MAX_BLOB_COMMITMENTS_PER_BLOCK), items)
          = MixInLength(SszMerkleize(roots, MAX_BLOB_COMMITMENTS_PER_BLOCK), Len(items))
    <2>1. \A of, max : SszRootOfList(List(of, max), items)
              = MixInLength(SszMerkleize([i \in DOMAIN items |-> SszRootOfItem(of, items[i])], max),
                            Len(items))
      BY ListKinds, Zenon
    <2>2. SszRootOfList(List(Bytes, MAX_BLOB_COMMITMENTS_PER_BLOCK), items)
              = MixInLength(SszMerkleize([i \in DOMAIN items |-> SszRootOfItem(Bytes, items[i])],
                                         MAX_BLOB_COMMITMENTS_PER_BLOCK), Len(items))
      BY <2>1
    <2> QED BY <1>4, <2>2
  <1>7. SszRootOfPart(List(Bytes, MAX_BLOB_COMMITMENTS_PER_BLOCK), items)
          = MixInLength(SszMerkleize(roots, MAX_BLOB_COMMITMENTS_PER_BLOCK), Len(items))
    <2>1. \A of, max : SszRootOfPart(List(of, max), items)
              = MixInLength(SszMerkleize([i \in DOMAIN items |-> SszRootOfList(of, items[i])], max),
                            Len(items))
      BY PartKinds, Zenon
    <2>2. SszRootOfPart(List(Bytes, MAX_BLOB_COMMITMENTS_PER_BLOCK), items)
              = MixInLength(SszMerkleize([i \in DOMAIN items |-> SszRootOfList(Bytes, items[i])],
                                         MAX_BLOB_COMMITMENTS_PER_BLOCK), Len(items))
      BY <2>1
    <2> QED BY <1>4, <2>2
  <1> QED BY <1>5, <1>6, <1>7 DEF roots

\* The roots of the fields of a part of the request.
IsParts(fields) == fields \in Seq({fields[i] : i \in DOMAIN fields})

PartRoots(fields, v) ==
    [i \in DOMAIN fields |-> SszRootOfList(fields[i][2], v[fields[i][1]])]

\* The root of a part is that of its fields' roots.
LEMMA PartRoot ==
    ASSUME ValidTable(table), NEW fields, NEW v, NEW n \in 1..32, NEW roots \in Nodes,
           Len(roots) = n, Len(fields) = n, PartRoots(fields, v) = roots
    PROVE  htr_container(roots) \in Node
           /\ htr_container(roots) = SszRootOfPart(Container(fields), v)
  <1>1. htr_container(roots) \in Node /\ htr_container(roots) = SszMerkleize(roots, n)
    BY ContainerRoot
  <1>2. SszRootOfPart(Container(fields), v) = SszMerkleize(PartRoots(fields, v), Len(fields))
    BY PartKinds DEF PartRoots
  <1> QED BY <1>1, <1>2

\* The fields of two types one after the other, as Gloas and builder requests
\* add theirs.
LEMMA ConcatenatedParts ==
    ASSUME NEW a, NEW b, NEW v, IsParts(a), IsParts(b),
           PartRoots(a, v) \in Nodes, PartRoots(b, v) \in Nodes
    PROVE  /\ PartRoots(a \o b, v) \in Nodes
           /\ PartRoots(a \o b, v) = PartRoots(a, v) \o PartRoots(b, v)
           /\ Len(PartRoots(a \o b, v)) = Len(a \o b)
           /\ Len(a \o b) = Len(a) + Len(b)
  <1> DEFINE x == PartRoots(a, v)
             y == PartRoots(b, v)
  <1>0. x \in Nodes /\ y \in Nodes /\ PartRoots(a, v) = x /\ PartRoots(b, v) = y
    OBVIOUS
  <1> HIDE DEF x, y
  <1>1. /\ Len(a) \in Nat /\ DOMAIN a = 1..Len(a) /\ Len(b) \in Nat /\ DOMAIN b = 1..Len(b)
        /\ Len(a \o b) = Len(a) + Len(b) /\ DOMAIN (a \o b) = 1..(Len(a) + Len(b))
        /\ \A i \in 1..(Len(a) + Len(b)) :
              (a \o b)[i] = IF i <= Len(a) THEN a[i] ELSE b[i - Len(a)]
    <2> DEFINE P == {a[i] : i \in DOMAIN a} \cup {b[i] : i \in DOMAIN b}
    <2>1. a \in Seq(P) /\ b \in Seq(P)
      BY DEF IsParts
    <2> HIDE DEF P
    <2> QED BY <2>1
  <1>2. /\ x \o y \in Nodes /\ Len(x \o y) = Len(x) + Len(y) /\ Len(x) \in Nat /\ Len(y) \in Nat
        /\ DOMAIN x = 1..Len(x) /\ DOMAIN y = 1..Len(y) /\ DOMAIN (x \o y) = 1..(Len(x) + Len(y))
        /\ \A i \in 1..(Len(x) + Len(y)) :
              (x \o y)[i] = IF i <= Len(x) THEN x[i] ELSE y[i - Len(x)]
        /\ x \o y = [i \in 1..(Len(x) + Len(y)) |-> (x \o y)[i]]
    <2>1. x \in Seq(Node) /\ y \in Seq(Node)
      BY <1>0 DEF Nodes
    <2>2. x \o y \in Seq(Node)
      BY <2>1
    <2>3. /\ Len(x) \in Nat /\ Len(y) \in Nat /\ DOMAIN x = 1..Len(x) /\ DOMAIN y = 1..Len(y)
          /\ Len(x \o y) = Len(x) + Len(y) /\ DOMAIN (x \o y) = 1..(Len(x) + Len(y))
      BY <2>1
    <2>4. \A i \in 1..(Len(x) + Len(y)) :
              (x \o y)[i] = IF i <= Len(x) THEN x[i] ELSE y[i - Len(x)]
      BY <2>1
    <2>5. x \o y = [i \in 1..(Len(x) + Len(y)) |-> (x \o y)[i]]
      <3>1. DOMAIN (x \o y) = 1..(Len(x) + Len(y))
        BY <2>3
      <3>2. \A s \in Seq(Node) : s = [i \in DOMAIN s |-> s[i]]
        OBVIOUS
      <3> QED BY <2>2, <3>1, <3>2
    <2> QED BY <2>2, <2>3, <2>4, <2>5 DEF Nodes
  <1>3. DOMAIN x = DOMAIN a /\ DOMAIN y = DOMAIN b
    <2>1. DOMAIN PartRoots(a, v) = DOMAIN a /\ DOMAIN PartRoots(b, v) = DOMAIN b
      BY DEF PartRoots
    <2> QED BY <1>0, <2>1
  <1>4. Len(x) = Len(a) /\ Len(y) = Len(b)
    <2>1. \A m, n \in Nat : 1..m = 1..n => m = n
      OBVIOUS
    <2> DEFINE lx == Len(x)
               la == Len(a)
               ly == Len(y)
               lb == Len(b)
    <2>2. lx \in Nat /\ la \in Nat /\ ly \in Nat /\ lb \in Nat
      BY <1>1, <1>2
    <2>3. 1..lx = 1..la /\ 1..ly = 1..lb
      BY <1>1, <1>2, <1>3
    <2> HIDE DEF lx, la, ly, lb
    <2>4. lx = la /\ ly = lb
      BY <2>1, <2>2, <2>3
    <2> QED BY <2>4 DEF lx, la, ly, lb
  <1>5. ASSUME NEW i \in 1..(Len(a) + Len(b))
        PROVE  SszRootOfList((a \o b)[i][2], v[(a \o b)[i][1]]) = (x \o y)[i]
    <2>1. CASE i <= Len(a)
      <3>1. i \in DOMAIN a /\ (a \o b)[i] = a[i] /\ (x \o y)[i] = x[i]
        BY <1>1, <1>2, <1>4, <2>1
      <3>2. x[i] = SszRootOfList(a[i][2], v[a[i][1]])
        BY <1>0, <3>1 DEF PartRoots
      <3> QED BY <3>1, <3>2
    <2>2. CASE ~ (i <= Len(a))
      <3> DEFINE j == i - Len(a)
      <3>1. j \in DOMAIN b /\ (a \o b)[i] = b[j] /\ (x \o y)[i] = y[j]
        BY <1>1, <1>2, <1>4, <2>2
      <3> HIDE DEF j
      <3>2. y[j] = SszRootOfList(b[j][2], v[b[j][1]])
        BY <1>0, <3>1 DEF PartRoots
      <3> QED BY <3>1, <3>2
    <2> QED BY <2>1, <2>2
  <1>6. PartRoots(a \o b, v) = [i \in 1..(Len(a) + Len(b)) |-> (x \o y)[i]]
    BY <1>1, <1>5 DEF PartRoots
  <1>7. x \o y = [i \in 1..(Len(a) + Len(b)) |-> (x \o y)[i]]
    BY <1>2, <1>4
  <1> QED BY <1>0, <1>1, <1>2, <1>4, <1>6, <1>7

-----------------------------------------------------------------------------
(***************************************************************************)
(* The root of a request, part by part.                                    *)
(***************************************************************************)
\* The roots of the basic fields of a part, whatever the part is.
LEMMA BasicFields ==
    ASSUME ValidTable(table)
    PROVE  /\ \A v \in Hash32 :
                htr_uint256(v) \in Node /\ htr_uint256(v) = SszRootOfList(Bytes, v)
                /\ htr_uint256(v) = SszRootOfPart(Bytes, v)
           /\ \A n \in Byte : htr_uint64(n) \in Node /\ htr_uint64(n) = SszRootOfList(UInt, n)
           /\ \A size \in 1..(8 * BYTES_PER_CHUNK) : \A v \in Vector(size) :
                htr_byte_vector(v) \in Node /\ htr_byte_vector(v) = SszRootOfList(Bytes, v)
  <1>1. ASSUME NEW v \in Hash32
        PROVE  htr_uint256(v) \in Node /\ htr_uint256(v) = SszRootOfList(Bytes, v)
               /\ htr_uint256(v) = SszRootOfPart(Bytes, v)
    BY HashRoot, ListKinds, PartKinds, Zenon
  <1>2. ASSUME NEW n \in Byte
        PROVE  htr_uint64(n) \in Node /\ htr_uint64(n) = SszRootOfList(UInt, n)
    BY ByteRoot, ListKinds, Zenon
  <1>3. ASSUME NEW size \in 1..(8 * BYTES_PER_CHUNK), NEW v \in Vector(size)
        PROVE  htr_byte_vector(v) \in Node /\ htr_byte_vector(v) = SszRootOfList(Bytes, v)
    BY VectorRoot, ListKinds, Zenon
  <1> QED BY <1>1, <1>2, <1>3

\* What the structs and the limits say of the fields of a payload.
LEMMA PayloadFields ==
    ASSUME NEW r \in AllRequests, WithinLimits(r), OfSchema(r)
    PROVE  LET p == r.execution_payload
           IN  /\ p \in Payloads
               /\ p.extra_data \in Seq(Byte) /\ Len(p.extra_data) <= MAX_EXTRA_DATA_BYTES
               /\ p.transactions \in Seq(Seq(Byte))
               /\ Len(p.transactions) <= MAX_TRANSACTIONS_PER_PAYLOAD
               /\ \A i \in DOMAIN p.transactions :
                       Len(p.transactions[i]) <= MAX_BYTES_PER_TRANSACTION
               /\ p.withdrawals \in Seq(Withdrawals)
               /\ Len(p.withdrawals) <= MAX_WITHDRAWALS_PER_PAYLOAD
               /\ p.block_access_list \in Seq(Byte)
               /\ Len(p.block_access_list) <= p.bal_htr_limit
               /\ p.bal_htr_limit \in Nat /\ Limit(CountOf(p.bal_htr_limit))
               /\ p.slot_number \in Byte
  <1> DEFINE p == r.execution_payload
  <1>1. p \in Payloads
    BY DEF AllRequests
  <1>2. p.bal_htr_limit \in {MAX_BLOCK_ACCESS_LIST_BYTES, BAL_HTR_LIMIT_AMSTERDAM01}
    BY DEF OfSchema
  <1>3. p.bal_htr_limit \in Nat /\ Limit(CountOf(p.bal_htr_limit))
    BY <1>2, LimitsAre
  <1> HIDE DEF p
  <1>4. /\ p.extra_data \in Seq(Byte) /\ p.transactions \in Seq(Seq(Byte))
        /\ p.withdrawals \in Seq(Withdrawals) /\ p.block_access_list \in Seq(Byte)
        /\ p.slot_number \in Byte
    BY <1>1 DEF Payloads
  <1> QED BY <1>1, <1>3, <1>4 DEF p, WithinLimits

\* The fields every payload has (stateless.cpp:549-578).
LEMMA CommonFieldRoots ==
    ASSUME ValidTable(table), NEW r \in AllRequests, WithinLimits(r), OfSchema(r)
    PROVE  LET p == r.execution_payload
           IN  /\ CommonFields(p) \in Nodes /\ Len(CommonFields(p)) = 17
               /\ PartRoots(CommonFieldTypes, p) = CommonFields(p)
  <1> DEFINE p    == r.execution_payload
             data == htr_byte_list(p.extra_data, MAX_EXTRA_DATA_BYTES)
             txs  == ListRoot([i \in DOMAIN p.transactions |->
                                  htr_byte_list(p.transactions[i], MAX_BYTES_PER_TRANSACTION)],
                              MAX_TRANSACTIONS_PER_PAYLOAD)
             wds  == ListRoot([i \in DOMAIN p.withdrawals |-> htr_withdrawal(p.withdrawals[i])],
                              MAX_WITHDRAWALS_PER_PAYLOAD)
  <1>1. /\ p \in Payloads
        /\ p.extra_data \in Seq(Byte) /\ Len(p.extra_data) <= MAX_EXTRA_DATA_BYTES
        /\ p.transactions \in Seq(Seq(Byte))
        /\ Len(p.transactions) <= MAX_TRANSACTIONS_PER_PAYLOAD
        /\ \A i \in DOMAIN p.transactions : Len(p.transactions[i]) <= MAX_BYTES_PER_TRANSACTION
        /\ p.withdrawals \in Seq(Withdrawals) /\ Len(p.withdrawals) <= MAX_WITHDRAWALS_PER_PAYLOAD
    BY PayloadFields
  <1> HIDE DEF p
  <1>2. data \in Node /\ data = SszRootOfList(ByteList(MAX_EXTRA_DATA_BYTES), p.extra_data)
    <2>1. data \in Node /\ data = ByteListRootOf(p.extra_data, MAX_EXTRA_DATA_BYTES)
      BY <1>1, LimitsAre, ByteListRoot
    <2>2. SszRootOfList(ByteList(MAX_EXTRA_DATA_BYTES), p.extra_data)
            = ByteListRootOf(p.extra_data, MAX_EXTRA_DATA_BYTES)
      BY ListKinds
    <2> QED BY <2>1, <2>2
  <1>3. txs \in Node /\ txs = SszRootOfList(List(ByteList(MAX_BYTES_PER_TRANSACTION),
                                                MAX_TRANSACTIONS_PER_PAYLOAD), p.transactions)
    BY <1>1, TransactionsRoot
  <1>4. wds \in Node
        /\ wds = SszRootOfList(List(Withdrawal, MAX_WITHDRAWALS_PER_PAYLOAD), p.withdrawals)
    BY <1>1, WithdrawalsRoot
  <1>5. /\ p.parent_hash \in Hash32 /\ p.fee_recipient \in Vector(AddressSize)
        /\ p.state_root \in Hash32 /\ p.receipts_root \in Hash32
        /\ p.logs_bloom \in Vector(BloomSize) /\ p.prev_randao \in Hash32
        /\ p.block_number \in Byte /\ p.gas_limit \in Byte /\ p.gas_used \in Byte
        /\ p.timestamp \in Byte /\ p.base_fee_per_gas \in Hash32 /\ p.block_hash \in Hash32
        /\ p.blob_gas_used \in Byte /\ p.excess_blob_gas \in Byte
    BY <1>1 DEF Payloads, Address20

  <1>6. /\ htr_uint256(p.parent_hash) \in Node
        /\ htr_uint256(p.parent_hash) = SszRootOfList(Bytes, p.parent_hash)
        /\ htr_byte_vector(p.fee_recipient) \in Node
        /\ htr_byte_vector(p.fee_recipient) = SszRootOfList(Bytes, p.fee_recipient)
        /\ htr_uint256(p.state_root) \in Node
        /\ htr_uint256(p.state_root) = SszRootOfList(Bytes, p.state_root)
        /\ htr_uint256(p.receipts_root) \in Node
        /\ htr_uint256(p.receipts_root) = SszRootOfList(Bytes, p.receipts_root)
        /\ htr_byte_vector(p.logs_bloom) \in Node
        /\ htr_byte_vector(p.logs_bloom) = SszRootOfList(Bytes, p.logs_bloom)
        /\ htr_uint256(p.prev_randao) \in Node
        /\ htr_uint256(p.prev_randao) = SszRootOfList(Bytes, p.prev_randao)
        /\ htr_uint64(p.block_number) \in Node
        /\ htr_uint64(p.block_number) = SszRootOfList(UInt, p.block_number)
        /\ htr_uint64(p.gas_limit) \in Node
        /\ htr_uint64(p.gas_limit) = SszRootOfList(UInt, p.gas_limit)
        /\ htr_uint64(p.gas_used) \in Node
        /\ htr_uint64(p.gas_used) = SszRootOfList(UInt, p.gas_used)
        /\ htr_uint64(p.timestamp) \in Node
        /\ htr_uint64(p.timestamp) = SszRootOfList(UInt, p.timestamp)
        /\ htr_uint256(p.base_fee_per_gas) \in Node
        /\ htr_uint256(p.base_fee_per_gas) = SszRootOfList(Bytes, p.base_fee_per_gas)
        /\ htr_uint256(p.block_hash) \in Node
        /\ htr_uint256(p.block_hash) = SszRootOfList(Bytes, p.block_hash)
        /\ htr_uint64(p.blob_gas_used) \in Node
        /\ htr_uint64(p.blob_gas_used) = SszRootOfList(UInt, p.blob_gas_used)
        /\ htr_uint64(p.excess_blob_gas) \in Node
        /\ htr_uint64(p.excess_blob_gas) = SszRootOfList(UInt, p.excess_blob_gas)
    BY <1>5, SizesAre, BasicFields

  <1> HIDE DEF data, txs, wds
  <1> DEFINE roots ==
               <<htr_uint256(p.parent_hash), htr_byte_vector(p.fee_recipient),
                 htr_uint256(p.state_root), htr_uint256(p.receipts_root),
                 htr_byte_vector(p.logs_bloom), htr_uint256(p.prev_randao),
                 htr_uint64(p.block_number), htr_uint64(p.gas_limit), htr_uint64(p.gas_used),
                 htr_uint64(p.timestamp), data, htr_uint256(p.base_fee_per_gas),
                 htr_uint256(p.block_hash), txs, wds, htr_uint64(p.blob_gas_used),
                 htr_uint64(p.excess_blob_gas)>>
  <1>7. roots \in Nodes /\ Len(roots) = 17
    BY <1>2, <1>3, <1>4, <1>6 DEF Nodes
  <1>8. PartRoots(CommonFieldTypes, p) = roots
    BY <1>2, <1>3, <1>4, <1>6 DEF PartRoots, CommonFieldTypes
  <1>9. roots = CommonFields(p)
    BY DEF CommonFields, data, txs, wds
  <1> HIDE DEF roots
  <1>10. CommonFields(p) \in Nodes /\ Len(CommonFields(p)) = 17
         /\ PartRoots(CommonFieldTypes, p) = CommonFields(p)
    BY <1>7, <1>8, <1>9
  <1> QED BY <1>10 DEF p

\* The two fields of a Gloas payload (stateless.cpp:579-584).
LEMMA GloasFieldRoots ==
    ASSUME ValidTable(table), NEW r \in AllRequests, WithinLimits(r), OfSchema(r)
    PROVE  LET p == r.execution_payload
           IN  /\ GloasFields(p) \in Nodes /\ Len(GloasFields(p)) = 2
               /\ PartRoots(GloasFieldTypes(p.bal_htr_limit), p) = GloasFields(p)
  <1> DEFINE p    == r.execution_payload
             list == htr_byte_list(p.block_access_list, p.bal_htr_limit)
  <1>1. /\ p.block_access_list \in Seq(Byte) /\ Len(p.block_access_list) <= p.bal_htr_limit
        /\ p.bal_htr_limit \in Nat /\ Limit(CountOf(p.bal_htr_limit)) /\ p.slot_number \in Byte
    BY PayloadFields
  <1> HIDE DEF p
  <1>2. list \in Node /\ list = SszRootOfList(ByteList(p.bal_htr_limit), p.block_access_list)
    <2>1. list \in Node /\ list = ByteListRootOf(p.block_access_list, p.bal_htr_limit)
      BY <1>1, ByteListRoot
    <2>2. SszRootOfList(ByteList(p.bal_htr_limit), p.block_access_list)
            = ByteListRootOf(p.block_access_list, p.bal_htr_limit)
      BY ListKinds
    <2> QED BY <2>1, <2>2
  <1>3. htr_uint64(p.slot_number) \in Node
        /\ htr_uint64(p.slot_number) = SszRootOfList(UInt, p.slot_number)
    BY <1>1, BasicFields
  <1> HIDE DEF list
  <1>4. <<list, htr_uint64(p.slot_number)>> \in Nodes /\ Len(<<list, htr_uint64(p.slot_number)>>) = 2
    BY <1>2, <1>3 DEF Nodes
  <1>5. PartRoots(GloasFieldTypes(p.bal_htr_limit), p) = <<list, htr_uint64(p.slot_number)>>
    BY <1>2, <1>3 DEF PartRoots, GloasFieldTypes
  <1>6. GloasFields(p) = <<list, htr_uint64(p.slot_number)>>
    BY DEF GloasFields, list
  <1>7. GloasFields(p) \in Nodes /\ Len(GloasFields(p)) = 2
        /\ PartRoots(GloasFieldTypes(p.bal_htr_limit), p) = GloasFields(p)
    BY <1>4, <1>5, <1>6
  <1> QED BY <1>7 DEF p

\* The fields all payloads have are a list of 17.
LEMMA CommonFieldsAreParts == IsParts(CommonFieldTypes) /\ Len(CommonFieldTypes) = 17
  <1>1. Len(CommonFieldTypes) = 17
    BY DEF CommonFieldTypes
  <1>2. IsParts(CommonFieldTypes)
    BY SMTT(60) DEF IsParts, CommonFieldTypes
  <1> QED BY <1>1, <1>2

\* htr_execution_payload, of 17 or of 19 fields.
LEMMA PayloadRoot ==
    ASSUME ValidTable(table), NEW r \in AllRequests, WithinLimits(r), OfSchema(r)
    PROVE  LET p == r.execution_payload
           IN  /\ htr_execution_payload(p) \in Node
               /\ htr_execution_payload(p)
                    = SszRootOfPart(ExecutionPayload(p.shape, p.bal_htr_limit), p)
  <1> DEFINE p == r.execution_payload
             a == CommonFieldTypes
             b == GloasFieldTypes(p.bal_htr_limit)
             x == CommonFields(p)
             y == GloasFields(p)
  <1>1. x \in Nodes /\ Len(x) = 17 /\ PartRoots(a, p) = x
    BY CommonFieldRoots
  <1>2. y \in Nodes /\ Len(y) = 2 /\ PartRoots(b, p) = y
    BY GloasFieldRoots
  <1> HIDE DEF p, x, y
  <1>3. IsParts(a) /\ Len(a) = 17
    BY CommonFieldsAreParts
  <1>4. IsParts(b) /\ Len(b) = 2
    BY DEF IsParts, GloasFieldTypes
  <1> HIDE DEF a, b
  <1>5. x \o y \in Nodes /\ Len(x \o y) = 19 /\ Len(a \o b) = 19 /\ PartRoots(a \o b, p) = x \o y
    <2>1. PartRoots(a, p) \in Nodes /\ PartRoots(b, p) \in Nodes /\ IsParts(a) /\ IsParts(b)
      BY <1>1, <1>2, <1>3, <1>4
    <2>2. /\ PartRoots(a \o b, p) \in Nodes
          /\ PartRoots(a \o b, p) = PartRoots(a, p) \o PartRoots(b, p)
          /\ Len(PartRoots(a \o b, p)) = Len(a \o b) /\ Len(a \o b) = Len(a) + Len(b)
      BY <2>1, ConcatenatedParts
    <2>3. 17 + 2 = 19
      OBVIOUS
    <2> QED BY <1>1, <1>2, <1>3, <1>4, <2>2, <2>3
  <1>6. htr_container(x) \in Node /\ htr_container(x) = SszRootOfPart(Container(a), p)
    BY <1>1, <1>3, PartRoot
  <1>7. htr_container(x \o y) \in Node /\ htr_container(x \o y) = SszRootOfPart(Container(a \o b), p)
    <2>1. 19 \in 1..32
      OBVIOUS
    <2> QED BY <1>5, <2>1, PartRoot
  <1>8. CASE p.shape = "Gloas"
    BY <1>7, <1>8 DEF htr_execution_payload, ExecutionPayload, p, a, b, x, y
  <1>9. CASE p.shape # "Gloas"
    BY <1>6, <1>9 DEF htr_execution_payload, ExecutionPayload, p, a, b, x, y
  <1> QED BY <1>8, <1>9

\* What the structs and the limits say of the execution requests.
LEMMA ExecutionRequestFields ==
    ASSUME NEW r \in AllRequests, WithinLimits(r)
    PROVE  LET er == r.execution_requests
           IN  /\ er.deposits \in Seq(DepositRequests)
               /\ Len(er.deposits) <= MAX_DEPOSIT_REQUESTS_PER_PAYLOAD
               /\ er.withdrawals \in Seq(WithdrawalRequests)
               /\ Len(er.withdrawals) <= MAX_WITHDRAWAL_REQUESTS_PER_PAYLOAD
               /\ er.consolidations \in Seq(ConsolidationRequests)
               /\ Len(er.consolidations) <= MAX_CONSOLIDATION_REQUESTS_PER_PAYLOAD
               /\ er.builder_deposits \in Seq(BuilderDepositRequests)
               /\ Len(er.builder_deposits) <= MAX_BUILDER_DEPOSIT_REQUESTS_PER_PAYLOAD
               /\ er.builder_exits \in Seq(BuilderExitRequests)
               /\ Len(er.builder_exits) <= MAX_BUILDER_EXIT_REQUESTS_PER_PAYLOAD
               /\ er.has_builder_requests \in BOOLEAN
  <1> DEFINE er == r.execution_requests
  <1>1. er \in AllExecutionRequests
    BY DEF AllRequests
  <1> HIDE DEF er
  <1>2. /\ er.deposits \in Seq(DepositRequests) /\ er.withdrawals \in Seq(WithdrawalRequests)
        /\ er.consolidations \in Seq(ConsolidationRequests)
        /\ er.builder_deposits \in Seq(BuilderDepositRequests)
        /\ er.builder_exits \in Seq(BuilderExitRequests)
        /\ er.has_builder_requests \in BOOLEAN
    BY <1>1 DEF AllExecutionRequests
  <1> QED BY <1>2 DEF er, WithinLimits

\* htr_execution_requests, of three or of five lists.
LEMMA ExecutionRequestsRoot ==
    ASSUME ValidTable(table), NEW r \in AllRequests, WithinLimits(r)
    PROVE  LET er == r.execution_requests
           IN  /\ htr_execution_requests(er) \in Node
               /\ htr_execution_requests(er)
                    = SszRootOfPart(ExecutionRequests(er.has_builder_requests), er)
  <1> DEFINE er == r.execution_requests
             a  == LegacyListTypes
             b  == BuilderListTypes
             x  == LegacyLists(er)
             y  == BuilderLists(er)
  <1>1. /\ er.deposits \in Seq(DepositRequests)
        /\ Len(er.deposits) <= MAX_DEPOSIT_REQUESTS_PER_PAYLOAD
        /\ er.withdrawals \in Seq(WithdrawalRequests)
        /\ Len(er.withdrawals) <= MAX_WITHDRAWAL_REQUESTS_PER_PAYLOAD
        /\ er.consolidations \in Seq(ConsolidationRequests)
        /\ Len(er.consolidations) <= MAX_CONSOLIDATION_REQUESTS_PER_PAYLOAD
        /\ er.builder_deposits \in Seq(BuilderDepositRequests)
        /\ Len(er.builder_deposits) <= MAX_BUILDER_DEPOSIT_REQUESTS_PER_PAYLOAD
        /\ er.builder_exits \in Seq(BuilderExitRequests)
        /\ Len(er.builder_exits) <= MAX_BUILDER_EXIT_REQUESTS_PER_PAYLOAD
        /\ er.has_builder_requests \in BOOLEAN
    BY ExecutionRequestFields
  <1> HIDE DEF er
  <1>2. x \in Nodes /\ Len(x) = 3 /\ PartRoots(a, er) = x
    <2> DEFINE d == ListRoot([i \in DOMAIN er.deposits |-> htr_deposit_request(er.deposits[i])],
                             MAX_DEPOSIT_REQUESTS_PER_PAYLOAD)
               w == ListRoot([i \in DOMAIN er.withdrawals |->
                                 htr_withdrawal_request(er.withdrawals[i])],
                             MAX_WITHDRAWAL_REQUESTS_PER_PAYLOAD)
               c == ListRoot([i \in DOMAIN er.consolidations |->
                                 htr_consolidation_request(er.consolidations[i])],
                             MAX_CONSOLIDATION_REQUESTS_PER_PAYLOAD)
    <2>1. d \in Node /\ d = SszRootOfList(List(DepositRequest, MAX_DEPOSIT_REQUESTS_PER_PAYLOAD),
                                          er.deposits)
      BY <1>1, DepositsRoot
    <2>2. w \in Node
          /\ w = SszRootOfList(List(WithdrawalRequest, MAX_WITHDRAWAL_REQUESTS_PER_PAYLOAD),
                               er.withdrawals)
      BY <1>1, WithdrawalRequestsRoot
    <2>3. c \in Node
          /\ c = SszRootOfList(List(ConsolidationRequest, MAX_CONSOLIDATION_REQUESTS_PER_PAYLOAD),
                               er.consolidations)
      BY <1>1, ConsolidationsRoot
    <2>4. x = <<d, w, c>>
      BY DEF LegacyLists
    <2> HIDE DEF d, w, c
    <2>5. <<d, w, c>> \in Nodes /\ Len(<<d, w, c>>) = 3
      BY <2>1, <2>2, <2>3 DEF Nodes
    <2>6. PartRoots(a, er) = <<d, w, c>>
      BY <2>1, <2>2, <2>3 DEF PartRoots, LegacyListTypes
    <2> HIDE DEF x, a
    <2> QED BY <2>4, <2>5, <2>6
  <1>3. y \in Nodes /\ Len(y) = 2 /\ PartRoots(b, er) = y
    <2> DEFINE d == ListRoot([i \in DOMAIN er.builder_deposits |->
                                 htr_builder_deposit_request(er.builder_deposits[i])],
                             MAX_BUILDER_DEPOSIT_REQUESTS_PER_PAYLOAD)
               e == ListRoot([i \in DOMAIN er.builder_exits |->
                                 htr_builder_exit_request(er.builder_exits[i])],
                             MAX_BUILDER_EXIT_REQUESTS_PER_PAYLOAD)
    <2>1. d \in Node
          /\ d = SszRootOfList(List(BuilderDepositRequest, MAX_BUILDER_DEPOSIT_REQUESTS_PER_PAYLOAD),
                               er.builder_deposits)
      BY <1>1, BuilderDepositsRoot
    <2>2. e \in Node
          /\ e = SszRootOfList(List(BuilderExitRequest, MAX_BUILDER_EXIT_REQUESTS_PER_PAYLOAD),
                               er.builder_exits)
      BY <1>1, BuilderExitsRoot
    <2>3. y = <<d, e>>
      BY DEF BuilderLists
    <2> HIDE DEF d, e
    <2>4. <<d, e>> \in Nodes /\ Len(<<d, e>>) = 2
      BY <2>1, <2>2 DEF Nodes
    <2>5. PartRoots(b, er) = <<d, e>>
      BY <2>1, <2>2 DEF PartRoots, BuilderListTypes
    <2> HIDE DEF y, b
    <2> QED BY <2>3, <2>4, <2>5
  <1>4. IsParts(a) /\ Len(a) = 3
    BY DEF IsParts, LegacyListTypes
  <1>5. IsParts(b) /\ Len(b) = 2
    BY DEF IsParts, BuilderListTypes
  <1> HIDE DEF a, b, x, y
  <1>6. x \o y \in Nodes /\ Len(x \o y) = 5 /\ Len(a \o b) = 5 /\ PartRoots(a \o b, er) = x \o y
    <2>1. PartRoots(a, er) \in Nodes /\ PartRoots(b, er) \in Nodes /\ IsParts(a) /\ IsParts(b)
      BY <1>2, <1>3, <1>4, <1>5
    <2>2. /\ PartRoots(a \o b, er) \in Nodes
          /\ PartRoots(a \o b, er) = PartRoots(a, er) \o PartRoots(b, er)
          /\ Len(PartRoots(a \o b, er)) = Len(a \o b) /\ Len(a \o b) = Len(a) + Len(b)
      BY <2>1, ConcatenatedParts
    <2>3. 3 + 2 = 5
      OBVIOUS
    <2> QED BY <1>2, <1>3, <1>4, <1>5, <2>2, <2>3
  <1>7. htr_container(x) \in Node /\ htr_container(x) = SszRootOfPart(Container(a), er)
    BY <1>2, <1>4, PartRoot
  <1>8. htr_container(x \o y) \in Node
        /\ htr_container(x \o y) = SszRootOfPart(Container(a \o b), er)
    <2>1. 5 \in 1..32
      OBVIOUS
    <2> QED BY <1>6, <2>1, PartRoot
  <1>9. CASE er.has_builder_requests
    BY <1>8, <1>9 DEF htr_execution_requests, ExecutionRequests, er, a, b, x, y
  <1>10. CASE ~ er.has_builder_requests
    BY <1>7, <1>10 DEF htr_execution_requests, ExecutionRequests, er, a, b, x, y
  <1> QED BY <1>1, <1>9, <1>10

\* The root of a request within its limits is the one SSZ defines.
LEMMA RequestRootIs ==
    ASSUME ValidTable(table), NEW r \in AllRequests, WithinLimits(r), OfSchema(r)
    PROVE  htr_new_payload_request(r) = SszRoot(NewPayloadRequest(r), r)
  <1> DEFINE p       == htr_execution_payload(r.execution_payload)
             h       == ListRoot([i \in DOMAIN r.versioned_hashes |->
                                     htr_uint256(r.versioned_hashes[i])],
                                 MAX_BLOB_COMMITMENTS_PER_BLOCK)
             b       == htr_uint256(r.parent_beacon_block_root)
             er      == htr_execution_requests(r.execution_requests)
             payload == ExecutionPayload(r.execution_payload.shape,
                                         r.execution_payload.bal_htr_limit)
             lists   == ExecutionRequests(r.execution_requests.has_builder_requests)
             hashes  == List(Bytes, MAX_BLOB_COMMITMENTS_PER_BLOCK)
             roots   == <<p, h, b, er>>
             fields  == <<<<"execution_payload", payload>>, <<"versioned_hashes", hashes>>,
                          <<"parent_beacon_block_root", Bytes>>, <<"execution_requests", lists>>>>
  <1>1. p \in Node /\ p = SszRootOfPart(payload, r.execution_payload)
    BY PayloadRoot
  <1>2. h \in Node /\ h = SszRootOfPart(hashes, r.versioned_hashes)
    <2>1. r.versioned_hashes \in Seq(Hash32)
      BY DEF AllRequests
    <2>2. Len(r.versioned_hashes) <= MAX_BLOB_COMMITMENTS_PER_BLOCK
      BY DEF WithinLimits
    <2> QED BY <2>1, <2>2, VersionedHashesRoot
  <1>3. b \in Node /\ b = SszRootOfPart(Bytes, r.parent_beacon_block_root)
    <2>1. r.parent_beacon_block_root \in Hash32
      BY DEF AllRequests
    <2> QED BY <2>1, BasicFields
  <1>4. er \in Node /\ er = SszRootOfPart(lists, r.execution_requests)
    BY ExecutionRequestsRoot
  <1>5. htr_new_payload_request(r) = htr_container(roots)
    BY DEF htr_new_payload_request
  <1>6. NewPayloadRequest(r) = Container(fields)
    BY DEF NewPayloadRequest
  <1> HIDE DEF p, h, b, er, payload, lists, hashes
  <1>7. roots \in Nodes /\ Len(roots) = 4 /\ Len(fields) = 4
    BY <1>1, <1>2, <1>3, <1>4 DEF Nodes
  <1>8. [i \in DOMAIN fields |-> SszRootOfPart(fields[i][2], r[fields[i][1]])] = roots
    BY <1>1, <1>2, <1>3, <1>4
  <1> HIDE DEF roots, fields
  <1>9. SszRoot(Container(fields), r) = SszMerkleize(roots, 4)
    <2>1. SszRoot(Container(fields), r) =
             SszMerkleize([i \in DOMAIN fields |->
                             SszRootOfPart(fields[i][2], r[fields[i][1]])], Len(fields))
      BY RequestKind
    <2> QED BY <1>7, <1>8, <2>1
  <1>10. htr_container(roots) = SszMerkleize(roots, 4)
    <2>1. 4 \in 1..32
      OBVIOUS
    <2> QED BY <1>7, <2>1, ContainerRoot
  <1> QED BY <1>5, <1>6, <1>9, <1>10

\* The table is valid whenever a guest computes its root, which is therefore the
\* root of SSZ.
IsSequence(s) == s \in Seq({s[i] : i \in DOMAIN s})

RootsInv == LadderInv /\ IsSequence(runs) /\ RootsMatchSsz

\* A guest that commits adds a run with the root of SSZ.
LEMMA CommitRoot ==
    ASSUME RootsInv, NEW r \in Requests, Commit(r)
    PROVE  IsSequence(runs') /\ RootsMatchSsz'
  <1> DEFINE run == [request |-> r, root |-> htr_new_payload_request(r)]
             n   == Len(runs)
  <1>1. runs' = Append(runs, run)
    BY DEF Commit
  <1>2. WithinLimits(r) => run.root = SszRoot(NewPayloadRequest(r), r)
    <2>1. r \in AllRequests /\ OfSchema(r)
      BY RequestsAssumption
    <2> QED BY <2>1, RequestRootIs DEF RootsInv, LadderInv
  <1>3. run.request = r
    OBVIOUS
  <1> HIDE DEF run
  <1>4. /\ n \in Nat /\ DOMAIN runs = 1..n /\ DOMAIN runs' = 1..(n + 1)
        /\ \A i \in 1..n : runs'[i] = runs[i]
        /\ runs'[n + 1] = run /\ IsSequence(runs')
    <2> DEFINE T == {runs[i] : i \in DOMAIN runs} \cup {run}
    <2>1. runs \in Seq(T) /\ run \in T
      BY DEF RootsInv, IsSequence
    <2> HIDE DEF T
    <2>2. runs' \in Seq(T)
      BY <1>1, <2>1
    <2>3. \A s \in Seq(T) : s \in Seq({s[i] : i \in DOMAIN s})
      OBVIOUS
    <2> QED BY <1>1, <2>1, <2>2, <2>3 DEF IsSequence
  <1> HIDE DEF n
  <1>5. ASSUME NEW i \in DOMAIN runs', WithinLimits(runs'[i].request)
        PROVE  runs'[i].root = SszRoot(NewPayloadRequest(runs'[i].request), runs'[i].request)
    <2>1. CASE i \in 1..n
      BY <1>4, <1>5, <2>1 DEF RootsInv, RootsMatchSsz
    <2>2. CASE i = n + 1
      BY <1>2, <1>3, <1>4, <1>5, <2>2
    <2> QED BY <1>4, <2>1, <2>2
  <1> QED BY <1>4, <1>5 DEF RootsMatchSsz

\* So it is at first.
LEMMA RootsInit == RequestInit => RootsInv
  BY LadderInit DEF RequestInit, RootsInv, IsSequence, RootsMatchSsz

\* No step undoes it: a new process starts with a valid table.
LEMMA RootsStep == RootsInv /\ [RequestNext]_requestVars => RootsInv'
  <1> SUFFICES ASSUME RootsInv, [RequestNext]_requestVars PROVE RootsInv'
    OBVIOUS
  <1>1. LadderInv'
    BY LadderStep DEF RootsInv
  <1>2. CASE MerkleizeList
    BY <1>1, <1>2 DEF MerkleizeList, RootsInv, IsSequence, RootsMatchSsz
  <1>3. ASSUME NEW r \in Requests, Commit(r) PROVE RootsInv'
    BY <1>1, <1>3, CommitRoot DEF RootsInv
  <1>4. CASE UNCHANGED requestVars
    BY <1>1, <1>4 DEF requestVars, RootsInv, IsSequence, RootsMatchSsz
  <1> QED BY <1>2, <1>3, <1>4 DEF RequestNext, AllRun

\* The root a guest commits to is the hash_tree_root of the SSZ type its request
\* has (stateless.cpp:467), for every size, limit and request, and whatever the
\* table of zero subtrees holds when it is computed.
THEOREM RequestRoots == RequestSpec => []RootsMatchSsz
  <1>1. RootsInv => RootsMatchSsz
    BY DEF RootsInv
  <1> QED BY <1>1, RootsInit, RootsStep, PTL DEF RequestSpec

-----------------------------------------------------------------------------
(***************************************************************************)
(* What a root says of its arguments: sha256 is free of collisions, that   *)
(* is, the brackets Hash writes can be read in one way only.               *)
(***************************************************************************)
\* The nodes made of chunks by hashing: those every set with the chunks has that
\* is closed under Hash.
Closed(S) == Chunk \subseteq S /\ \A l, r \in S : Hash(l, r) \in S
Word      == {x \in Node : \A S \in SUBSET Node : Closed(S) => x \in S}
Words     == Seq(Word)

\* Chunks are words, and so are the hashes of words.
LEMMA WordsAreClosed == Closed(Word) /\ Word \subseteq Node
  <1>1. Chunk \subseteq Word
    BY ChunksOfNumbers DEF Word, Closed
  <1>2. ASSUME NEW l \in Word, NEW r \in Word PROVE Hash(l, r) \in Word
    <2>1. Hash(l, r) \in Node
      BY HashType DEF Word
    <2>2. ASSUME NEW S \in SUBSET Node, Closed(S) PROVE Hash(l, r) \in S
      <3>1. l \in S /\ r \in S
        BY <2>2 DEF Word
      <3> QED BY <2>2, <3>1 DEF Closed
    <2> QED BY <2>1, <2>2 DEF Word
  <1> QED BY <1>1, <1>2 DEF Closed, Word

\* Induction over words.
LEMMA WordInduction ==
    ASSUME NEW S \in SUBSET Word, Closed(S)
    PROVE  S = Word
  <1>1. S \in SUBSET Node
    BY WordsAreClosed
  <1> QED BY <1>1 DEF Word

\* A word is a chunk or a hash of words.
LEMMA WordCases ==
    ASSUME NEW x \in Word
    PROVE  x \in Chunk \/ \E l, r \in Word : x = Hash(l, r)
  <1> DEFINE S == {y \in Word : y \in Chunk \/ \E l, r \in Word : y = Hash(l, r)}
  <1>1. Closed(S)
    BY WordsAreClosed DEF Closed
  <1>2. S \in SUBSET Word
    OBVIOUS
  <1> HIDE DEF S
  <1>3. S = Word
    BY <1>1, <1>2, WordInduction
  <1> QED BY <1>3 DEF S

\* z is x with y behind it.
IsJoin(z, x, y) ==
    /\ z \in Seq(Int) /\ Len(x) \in Nat /\ Len(y) \in Nat
    /\ Len(z) = Len(x) + Len(y)
    /\ \A i \in 1..Len(x) : z[i] = x[i]
    /\ \A i \in 1..Len(y) : z[Len(x) + i] = y[i]

\* What is used of the concatenation of two byte strings.
LEMMA Concatenated ==
    ASSUME NEW x \in Seq(Int), NEW y \in Seq(Int)
    PROVE  IsJoin(x \o y, x, y)
  <1>1. x \o y \in Seq(Int) /\ Len(x) \in Nat /\ Len(y) \in Nat
    OBVIOUS
  <1>2. Len(x \o y) = Len(x) + Len(y)
    OBVIOUS
  <1>3. \A i \in 1..Len(x) : (x \o y)[i] = x[i]
    OBVIOUS
  <1>4. \A i \in 1..Len(y) : (x \o y)[Len(x) + i] = y[i]
    OBVIOUS
  <1> QED BY <1>1, <1>2, <1>3, <1>4 DEF IsJoin

\* Where the parts of a hash are in it.
LEMMA HashIs ==
    ASSUME NEW l \in Node, NEW r \in Node
    PROVE  /\ Hash(l, r) \in Node /\ Len(l) \in Nat /\ Len(r) \in Nat
           /\ Len(Hash(l, r)) = Len(l) + Len(r) + 2
           /\ Hash(l, r)[1] = Open
           /\ \A i \in 1..Len(l) : Hash(l, r)[1 + i] = l[i]
           /\ \A i \in 1..Len(r) : Hash(l, r)[(1 + Len(l)) + i] = r[i]
  <1> DEFINE o == <<Open>>
             c == <<Close>>
             a == o \o l
             b == a \o r
             m == Len(l)
             n == Len(r)
  <1>1. o \in Seq(Int) /\ c \in Seq(Int) /\ l \in Seq(Int) /\ r \in Seq(Int)
        /\ Len(o) = 1 /\ Len(c) = 1 /\ o[1] = Open /\ m \in Nat /\ n \in Nat
    BY DEF Open, Close, Node
  <1>2. Hash(l, r) = b \o c
    BY DEF Hash
  <1> HIDE DEF o, c
  <1>3. /\ a \in Seq(Int) /\ Len(a) = 1 + m
        /\ \A i \in 1..1 : a[i] = o[i]
        /\ \A i \in 1..m : a[1 + i] = l[i]
    <2>1. IsJoin(a, o, l)
      BY <1>1, Concatenated
    <2> HIDE DEF a
    <2> QED BY <1>1, <2>1 DEF IsJoin
  <1> HIDE DEF a
  <1>4. /\ b \in Seq(Int) /\ Len(b) = (1 + m) + n
        /\ \A i \in 1..(1 + m) : b[i] = a[i]
        /\ \A i \in 1..n : b[(1 + m) + i] = r[i]
    <2>1. IsJoin(b, a, r)
      BY <1>1, <1>3, Concatenated
    <2> HIDE DEF b
    <2> QED BY <1>1, <1>3, <2>1 DEF IsJoin
  <1> HIDE DEF b
  <1> DEFINE h == b \o c
  <1>5. /\ h \in Seq(Int) /\ Len(h) = ((1 + m) + n) + 1
        /\ \A i \in 1..((1 + m) + n) : h[i] = b[i]
    <2>1. IsJoin(h, b, c)
      BY <1>1, <1>4, Concatenated
    <2> HIDE DEF h
    <2> QED BY <1>1, <1>4, <2>1 DEF IsJoin
  <1>6. Hash(l, r) = h
    BY <1>2
  <1> HIDE DEF m, n, h
  <1>7. Hash(l, r)[1] = Open
    <2>1. 1 \in 1..((1 + m) + n) /\ 1 \in 1..(1 + m) /\ 1 \in 1..1
      BY <1>1
    <2> QED BY <1>1, <1>3, <1>4, <1>5, <1>6, <2>1
  <1>8. ASSUME NEW i \in 1..m PROVE Hash(l, r)[1 + i] = l[i]
    <2>1. 1 + i \in 1..((1 + m) + n) /\ 1 + i \in 1..(1 + m)
      BY <1>1
    <2> QED BY <1>3, <1>4, <1>5, <1>6, <2>1
  <1>9. ASSUME NEW i \in 1..n PROVE Hash(l, r)[(1 + m) + i] = r[i]
    <2>1. (1 + m) + i \in 1..((1 + m) + n)
      BY <1>1
    <2> QED BY <1>4, <1>5, <1>6, <2>1
  <1>10. ((1 + m) + n) + 1 = m + n + 2
    BY <1>1
  <1> QED BY <1>1, <1>5, <1>6, <1>7, <1>8, <1>9, <1>10, HashType DEF m, n

\* No chunk looks like a hash.
LEMMA ChunkIsNoHash ==
    ASSUME NEW l \in Node, NEW r \in Node
    PROVE  Hash(l, r) \notin Chunk
  <1> SUFFICES ASSUME Hash(l, r) \in Chunk PROVE FALSE
    OBVIOUS
  <1>1. 1 \in 1..BYTES_PER_CHUNK
    BY ChunksOfNumbers
  <1>2. Hash(l, r)[1] \in Nat
    BY <1>1 DEF Chunk
  <1>3. Hash(l, r)[1] = -1
    BY HashIs DEF Open
  <1> QED BY <1>2, <1>3

\* x is read in s after the first p numbers.
Reads(x, s, p) == p \in Nat /\ \A i \in 1..Len(x) : s[p + i] = x[i]

\* Two words read at the same place are the same.
UniqueAt(x) == \A y \in Word, s \in Node, p \in Nat : Reads(x, s, p) /\ Reads(y, s, p) => x = y

\* The parts of a hash are read one after the other.
PartsRead(l, r, s, p) ==
    p + 1 \in Nat /\ Reads(l, s, p + 1) /\ Reads(r, s, (p + 1) + Len(l))

\* Where a string reads as a hash, it reads as the two parts inside its
\* brackets.
LEMMA ReadsParts ==
    ASSUME NEW l \in Node, NEW r \in Node, NEW s, NEW p \in Nat, Reads(Hash(l, r), s, p)
    PROVE  PartsRead(l, r, s, p)
  <1> DEFINE h == Hash(l, r)
             m == Len(l)
             n == Len(r)
  <1>1. /\ m \in Nat /\ n \in Nat /\ Len(h) = m + n + 2
        /\ \A i \in 1..m : h[1 + i] = l[i]
        /\ \A i \in 1..n : h[(1 + m) + i] = r[i]
    BY HashIs
  <1>2. \A i \in 1..Len(h) : s[p + i] = h[i]
    BY DEF Reads
  <1> HIDE DEF h, m, n
  <1>3. m \in Nat /\ n \in Nat /\ p \in Nat /\ Len(h) = m + n + 2
    BY <1>1
  <1>4. ASSUME NEW i \in 1..m PROVE s[(p + 1) + i] = l[i]
    <2>1. 1 + i \in 1..Len(h) /\ p + (1 + i) = (p + 1) + i
      BY <1>3
    <2> QED BY <1>1, <1>2, <2>1
  <1>5. ASSUME NEW i \in 1..n PROVE s[((p + 1) + m) + i] = r[i]
    <2>1. (1 + m) + i \in 1..Len(h) /\ p + ((1 + m) + i) = ((p + 1) + m) + i
      BY <1>3
    <2> QED BY <1>1, <1>2, <2>1
  <1>6. p + 1 \in Nat /\ (p + 1) + m \in Nat
    BY <1>3
  <1> QED BY <1>4, <1>5, <1>6 DEF PartsRead, Reads, m, n

\* A chunk is told from everything else that could be read at its place.
LEMMA ChunksAreUnique ==
    ASSUME NEW x \in Chunk
    PROVE  UniqueAt(x)
  <1> SUFFICES ASSUME NEW y \in Word, NEW s \in Node, NEW p \in Nat, Reads(x, s, p), Reads(y, s, p)
               PROVE  x = y
    BY DEF UniqueAt
  <1>1. BYTES_PER_CHUNK \in Nat \ {0} /\ Len(x) = BYTES_PER_CHUNK /\ 1 \in 1..BYTES_PER_CHUNK
        /\ x = [i \in 1..BYTES_PER_CHUNK |-> x[i]] /\ x[1] \in Nat
    BY ChunksOfNumbers DEF Chunk
  <1>2. CASE y \in Chunk
    <2>1. Len(y) = BYTES_PER_CHUNK /\ y = [i \in 1..BYTES_PER_CHUNK |-> y[i]]
      BY <1>1, <1>2 DEF Chunk
    <2>2. \A i \in 1..BYTES_PER_CHUNK : x[i] = y[i]
      BY <1>1, <2>1 DEF Reads
    <2> QED BY <1>1, <2>1, <2>2
  <1>3. ASSUME NEW l \in Word, NEW r \in Word, y = Hash(l, r) PROVE FALSE
    <2>1. l \in Node /\ r \in Node
      BY WordsAreClosed
    <2>2. Len(l) \in Nat /\ Len(r) \in Nat /\ Len(y) = Len(l) + Len(r) + 2 /\ y[1] = -1
      BY <1>3, <2>1, HashIs DEF Open
    <2>3. 1 \in 1..Len(y)
      BY <2>2
    <2>4. s[p + 1] = y[1] /\ s[p + 1] = x[1]
      BY <1>1, <2>3 DEF Reads
    <2> QED BY <1>1, <2>2, <2>4
  <1> QED BY <1>2, <1>3, WordCases

\* So is a hash of two words that are.
LEMMA HashesAreUnique ==
    ASSUME NEW l \in Word, NEW r \in Word, UniqueAt(l), UniqueAt(r)
    PROVE  UniqueAt(Hash(l, r))
  <1> DEFINE x == Hash(l, r)
  <1> SUFFICES ASSUME NEW y \in Word, NEW s \in Node, NEW p \in Nat, Reads(x, s, p), Reads(y, s, p)
               PROVE  x = y
    BY DEF UniqueAt
  <1>1. l \in Node /\ r \in Node /\ x \in Word
    BY WordsAreClosed DEF Closed
  <1>2. CASE y \in Chunk
    <2>1. UniqueAt(y)
      BY <1>2, ChunksAreUnique
    <2> HIDE DEF x
    <2> QED BY <1>1, <2>1 DEF UniqueAt
  <1>3. ASSUME NEW a \in Word, NEW b \in Word, y = Hash(a, b) PROVE x = y
    <2>1. a \in Node /\ b \in Node
      BY WordsAreClosed
    <2>2. PartsRead(l, r, s, p) /\ PartsRead(a, b, s, p)
      BY <1>1, <1>3, <2>1, ReadsParts
    <2>3. p + 1 \in Nat /\ Reads(l, s, p + 1) /\ Reads(a, s, p + 1)
      BY <2>2 DEF PartsRead
    <2>4. l = a
      BY <2>3 DEF UniqueAt
    <2>5. (p + 1) + Len(l) \in Nat /\ Reads(r, s, (p + 1) + Len(l)) /\ Reads(b, s, (p + 1) + Len(l))
      BY <2>2, <2>4 DEF PartsRead, Reads
    <2>6. r = b
      BY <2>5 DEF UniqueAt
    <2> QED BY <1>3, <2>4, <2>6
  <1> QED BY <1>2, <1>3, WordCases

\* Hash is injective on words.
LEMMA HashBinds ==
    ASSUME NEW l \in Word, NEW r \in Word, NEW a \in Word, NEW b \in Word, Hash(l, r) = Hash(a, b)
    PROVE  l = a /\ r = b
  <1>1. \A x \in Word : UniqueAt(x)
    <2> DEFINE S == {x \in Word : UniqueAt(x)}
    <2>1. Chunk \subseteq S
      BY WordsAreClosed, ChunksAreUnique DEF Closed
    <2>2. \A u, v \in S : Hash(u, v) \in S
      BY WordsAreClosed, HashesAreUnique DEF Closed
    <2>3. S \in SUBSET Word /\ Closed(S)
      BY <2>1, <2>2 DEF Closed
    <2> HIDE DEF S
    <2>4. S = Word
      BY <2>3, WordInduction
    <2> QED BY <2>4 DEF S
  <1> DEFINE s == Hash(l, r)
  <1>2. l \in Node /\ r \in Node /\ a \in Node /\ b \in Node /\ s \in Node
    BY WordsAreClosed, HashType
  <1>3. Reads(s, s, 0)
    <2>1. Len(s) \in Nat /\ \A i \in 1..Len(s) : 0 + i = i
      BY <1>2, HashIs
    <2> QED BY <2>1 DEF Reads
  <1>4. PartsRead(l, r, s, 0) /\ PartsRead(a, b, s, 0)
    BY <1>2, <1>3, ReadsParts
  <1> HIDE DEF s
  <1>5. 0 + 1 \in Nat /\ Reads(l, s, 0 + 1) /\ Reads(a, s, 0 + 1)
    BY <1>4 DEF PartsRead
  <1>6. l = a
    BY <1>1, <1>2, <1>5 DEF UniqueAt
  <1>7. (0 + 1) + Len(l) \in Nat /\ Reads(r, s, (0 + 1) + Len(l)) /\ Reads(b, s, (0 + 1) + Len(l))
    BY <1>4, <1>6 DEF PartsRead, Reads
  <1>8. r = b
    BY <1>1, <1>2, <1>7 DEF UniqueAt
  <1> QED BY <1>6, <1>8

-----------------------------------------------------------------------------
\* Lists of words are lists of nodes.
LEMMA WordsAreNodes ==
    ASSUME NEW a \in Words
    PROVE  a \in Nodes /\ Len(a) \in Nat /\ \A i \in 1..Len(a) : a[i] \in Word
  <1>1. a \in Seq(Word) /\ Word \subseteq Node
    BY WordsAreClosed DEF Words
  <1>2. Len(a) \in Nat /\ \A i \in 1..Len(a) : a[i] \in Word
    BY <1>1
  <1>3. a \in Seq(Node)
    BY <1>1
  <1> QED BY <1>2, <1>3 DEF Nodes

\* The level above a level of words.
LEMMA ParentsOfWords ==
    ASSUME NEW a \in Words
    PROVE  Parents(a) \in Words
  <1>1. /\ Parents(a) \in Nodes /\ Len(Parents(a)) = Len(a) \div 2
        /\ \A i \in 1..(Len(a) \div 2) : Parents(a)[i] = Hash(a[2 * i - 1], a[2 * i])
    BY WordsAreNodes, ParentsType
  <1>2. Len(a) \in Nat /\ \A j \in 1..Len(a) : a[j] \in Word
    BY WordsAreNodes
  <1>3. ASSUME NEW i \in 1..Len(Parents(a)) PROVE Parents(a)[i] \in Word
    <2>1. 2 * i - 1 \in 1..Len(a) /\ 2 * i \in 1..Len(a) /\ i \in 1..(Len(a) \div 2)
      BY <1>1, <1>2
    <2>2. a[2 * i - 1] \in Word /\ a[2 * i] \in Word
      BY <1>2, <2>1
    <2> QED BY <1>1, <2>1, <2>2, WordsAreClosed DEF Closed
  <1>4. Parents(a) \in Seq(Node)
    BY <1>1 DEF Nodes
  <1> HIDE DEF Parents
  <1> QED BY <1>3, <1>4 DEF Words

\* Padding adds zero chunks, which are words.
LEMMA PaddedWords ==
    ASSUME NEW a \in Words, NEW n \in Nat
    PROVE  Padded(a, n) \in Words
  <1>1. ZeroHash \in Word
    BY ChunksOfNumbers, WordsAreClosed DEF Closed
  <1>2. \A i \in 1..n : (IF i <= Len(a) THEN a[i] ELSE ZeroHash) \in Word
    BY <1>1, WordsAreNodes
  <1> QED BY <1>2 DEF Padded, Words

\* The root of a tree of words is a word.
LEMMA RootOfWords ==
    \A h \in Nat : \A a \in Words : RootOf[h][a] \in Word
  <1> DEFINE S == {h \in Nat : \A a \in Words : RootOf[h][a] \in Word}
  <1>1. 0 \in S
    <2> SUFFICES ASSUME NEW a \in Words PROVE RootOf[0][a] \in Word
      OBVIOUS
    <2>1. a \in Nodes /\ Len(a) \in Nat /\ \A i \in 1..Len(a) : a[i] \in Word
      BY WordsAreNodes
    <2>2. RootOf[0][a] = IF 1 <= Len(a) THEN a[1] ELSE ZeroHash
      BY <2>1, RootOfType
    <2>3. ZeroHash \in Word
      BY ChunksOfNumbers, WordsAreClosed DEF Closed
    <2> QED BY <2>1, <2>2, <2>3
  <1>2. ASSUME NEW h \in S PROVE h + 1 \in S
    <2> SUFFICES ASSUME NEW a \in Words PROVE RootOf[h + 1][a] \in Word
      OBVIOUS
    <2>1. a \in Nodes /\ h \in Nat
      BY WordsAreNodes
    <2>2. RootOf[h + 1][a] = RootOf[h][Parents(a)]
      BY <2>1, RootOfType
    <2> QED BY <2>2, ParentsOfWords
  <1> HIDE DEF S
  <1>3. S = Nat
    <2>1. S \subseteq Nat
      BY DEF S
    <2> QED BY <1>1, <1>2, <2>1, Induction
  <1> QED BY <1>3 DEF S

\* A level is determined by the level above it.
LEMMA ParentsBind ==
    ASSUME NEW a \in Words, NEW b \in Words, NEW n \in Nat,
           Len(a) = 2 * n, Len(b) = 2 * n, Parents(a) = Parents(b)
    PROVE  a = b
  <1>1. a \in Nodes /\ b \in Nodes
        /\ (\A i \in 1..Len(a) : a[i] \in Word) /\ (\A i \in 1..Len(b) : b[i] \in Word)
    BY WordsAreNodes
  <1>2. (2 * n) \div 2 = n
    OBVIOUS
  <1>3. /\ \A i \in 1..n : Parents(a)[i] = Hash(a[2 * i - 1], a[2 * i])
        /\ \A i \in 1..n : Parents(b)[i] = Hash(b[2 * i - 1], b[2 * i])
    BY <1>1, <1>2, ParentsType
  <1>4. ASSUME NEW i \in 1..n PROVE a[2 * i - 1] = b[2 * i - 1] /\ a[2 * i] = b[2 * i]
    <2> DEFINE j == 2 * i - 1
               k == 2 * i
    <2>1. j \in 1..(2 * n) /\ k \in 1..(2 * n)
      OBVIOUS
    <2>2. Hash(a[j], a[k]) = Hash(b[j], b[k])
      BY <1>3
    <2> HIDE DEF j, k
    <2>3. a[j] \in Word /\ a[k] \in Word /\ b[j] \in Word /\ b[k] \in Word
      BY <1>1, <2>1
    <2>4. a[j] = b[j] /\ a[k] = b[k]
      BY <2>2, <2>3, HashBinds
    <2> QED BY <2>4 DEF j, k
  <1>5. ASSUME NEW m \in 1..(2 * n) PROVE a[m] = b[m]
    <2>1. CASE \E i \in 1..n : m = 2 * i
      BY <1>4, <2>1
    <2>2. CASE \E i \in 1..n : m = 2 * i - 1
      BY <1>4, <2>2
    <2>3. (\E i \in 1..n : m = 2 * i) \/ (\E i \in 1..n : m = 2 * i - 1)
      <3> DEFINE q == (m + 1) \div 2
      <3>1. q \in 1..n /\ (m = 2 * q \/ m = 2 * q - 1)
        OBVIOUS
      <3> QED BY <3>1
    <2> QED BY <2>1, <2>2, <2>3
  <1> QED BY <1>1, <1>5, SameNodes

\* Two full trees of the same height and the same root have the same leaves.
RootsBindAt(h) ==
    \A a, b \in Words : Len(a) = Pow2[h] /\ Len(b) = Pow2[h] /\ RootOf[h][a] = RootOf[h][b] => a = b

\* Two full trees of a height with one root have the same leaves.
LEMMA RootOfBinds ==
    \A h \in Nat : RootsBindAt(h)
  <1> DEFINE S == {h \in Nat : RootsBindAt(h)}
  <1>1. 0 \in S
    <2>1. ASSUME NEW a \in Words, NEW b \in Words, Len(a) = Pow2[0], Len(b) = Pow2[0],
                 RootOf[0][a] = RootOf[0][b]
          PROVE  a = b
      <3>1. a \in Nodes /\ b \in Nodes /\ Len(a) = 1 /\ Len(b) = 1
        BY <2>1, WordsAreNodes, Pow2Type
      <3>2. RootOf[0][a] = a[1] /\ RootOf[0][b] = b[1]
        BY <3>1, RootOfType
      <3>3. a[1] = b[1]
        BY <2>1, <3>2
      <3>4. \A i \in 1..Len(a) : a[i] = b[i]
        BY <3>1, <3>3
      <3> QED BY <3>1, <3>4, SameNodes
    <2> QED BY <2>1 DEF RootsBindAt
  <1>2. ASSUME NEW h \in S PROVE h + 1 \in S
    <2>0. h \in Nat /\ RootsBindAt(h) /\ h + 1 \in Nat
      OBVIOUS
    <2> HIDE DEF S
    <2>1. ASSUME NEW a \in Words, NEW b \in Words, Len(a) = Pow2[h + 1], Len(b) = Pow2[h + 1],
                 RootOf[h + 1][a] = RootOf[h + 1][b]
          PROVE  a = b
      <3>1. Pow2[h] \in Nat /\ Pow2[h + 1] = 2 * Pow2[h] /\ (2 * Pow2[h]) \div 2 = Pow2[h]
        BY <2>0, Pow2Twice
      <3>2. a \in Nodes /\ b \in Nodes
        BY WordsAreNodes
      <3>3. Parents(a) \in Words /\ Parents(b) \in Words
        BY ParentsOfWords
      <3>4. Len(Parents(a)) = Pow2[h] /\ Len(Parents(b)) = Pow2[h]
        BY <2>1, <3>1, <3>2, ParentsType
      <3>5. RootOf[h][Parents(a)] = RootOf[h][Parents(b)]
        BY <2>0, <2>1, <3>2, RootOfType
      <3>6. Parents(a) = Parents(b)
        BY <2>0, <3>3, <3>4, <3>5 DEF RootsBindAt
      <3> QED BY <2>1, <3>1, <3>6, ParentsBind
    <2>2. RootsBindAt(h + 1)
      BY <2>1 DEF RootsBindAt
    <2> QED BY <2>0, <2>2 DEF S
  <1>3. S \subseteq Nat
    OBVIOUS
  <1> HIDE DEF S
  <1>4. S = Nat
    BY <1>1, <1>2, <1>3, Induction
  <1> QED BY <1>4 DEF S

\* The leaves a list of that limit is padded to.
LeavesOf(max) == Pow2[Depth(IF max = 0 THEN 1 ELSE max)]

\* A tree of some capacity has leaves enough for it.
LEMMA LeavesAre ==
    ASSUME NEW max \in Nat
    PROVE  LeavesOf(max) \in Nat /\ LeavesOf(max) >= max /\ LeavesOf(max) >= 1
           /\ Depth(IF max = 0 THEN 1 ELSE max) \in Nat
  <1> DEFINE m == IF max = 0 THEN 1 ELSE max
  <1>1. m \in Nat /\ m >= 1 /\ m >= max
    OBVIOUS
  <1> HIDE DEF m
  <1>2. Depth(m) \in Nat /\ Pow2[Depth(m)] >= m
    BY <1>1, DepthIs
  <1>3. Pow2[Depth(m)] \in Nat
    BY <1>2, Pow2Type
  <1> QED BY <1>1, <1>2, <1>3 DEF LeavesOf, m

\* The root of a list of words is a word.
LEMMA MerkleizeWords ==
    ASSUME NEW a \in Words, NEW max \in Nat
    PROVE  SszMerkleize(a, max) \in Word
  <1>1. Padded(a, LeavesOf(max)) \in Words
    BY LeavesAre, PaddedWords
  <1> QED BY <1>1, LeavesAre, RootOfWords DEF SszMerkleize, LeavesOf

\* The leaves of two lists that have the same root.
LEMMA LeavesBind ==
    ASSUME NEW a \in Words, NEW b \in Words, NEW max \in Nat,
           SszMerkleize(a, max) = SszMerkleize(b, max)
    PROVE  Padded(a, LeavesOf(max)) = Padded(b, LeavesOf(max))
  <1> DEFINE h == Depth(IF max = 0 THEN 1 ELSE max)
             n == Pow2[h]
  <1>1. h \in Nat /\ n \in Nat /\ LeavesOf(max) = n
    BY LeavesAre DEF LeavesOf
  <1>2. SszMerkleize(a, max) = RootOf[h][Padded(a, n)]
        /\ SszMerkleize(b, max) = RootOf[h][Padded(b, n)]
    BY DEF SszMerkleize
  <1> HIDE DEF h
  <1>3. /\ Padded(a, n) \in Words /\ Padded(b, n) \in Words
        /\ Len(Padded(a, n)) = n /\ Len(Padded(b, n)) = n
    BY <1>1, PaddedWords, PaddedType, WordsAreNodes
  <1>4. RootsBindAt(h)
    BY <1>1, RootOfBinds
  <1>5. Padded(a, n) = Padded(b, n)
    BY <1>2, <1>3, <1>4 DEF RootsBindAt
  <1> QED BY <1>1, <1>5

\* Two lists that are as long and have the same root are the same.
LEMMA MerkleizeBinds ==
    ASSUME NEW a \in Words, NEW b \in Words, NEW max \in Nat, Len(a) <= max, Len(a) = Len(b),
           SszMerkleize(a, max) = SszMerkleize(b, max)
    PROVE  a = b
  <1> DEFINE n == LeavesOf(max)
  <1>1. n \in Nat /\ n >= max
    BY LeavesAre
  <1>2. a \in Nodes /\ b \in Nodes /\ Len(a) \in Nat
    BY WordsAreNodes
  <1>3. Padded(a, n) = Padded(b, n)
    BY LeavesBind
  <1> HIDE DEF n
  <1>4. /\ \A i \in 1..n : Padded(a, n)[i] = IF i <= Len(a) THEN a[i] ELSE ZeroHash
        /\ \A i \in 1..n : Padded(b, n)[i] = IF i <= Len(b) THEN b[i] ELSE ZeroHash
    BY <1>1, <1>2, PaddedType
  <1>5. ASSUME NEW i \in 1..Len(a) PROVE a[i] = b[i]
    <2>1. i \in 1..n /\ i <= Len(a)
      BY <1>1, <1>2
    <2> QED BY <1>3, <1>4, <2>1
  <1> QED BY <1>2, <1>5, SameNodes

-----------------------------------------------------------------------------
(***************************************************************************)
(* What the root of a basic value, of a list and of a container says.      *)
(***************************************************************************)
\* The chunk of a number.
LEMMA UIntBinds ==
    ASSUME NEW m \in Nat, NEW n \in Nat
    PROVE  Pack(<<m>>)[1] \in Chunk /\ Pack(<<m>>)[1] \in Word
           /\ (Pack(<<m>>)[1] = Pack(<<n>>)[1] => m = n)
  <1>1. 1 \in 1..BYTES_PER_CHUNK
    BY ChunksOfNumbers
  <1>2. ASSUME NEW k \in Nat PROVE Pack(<<k>>)[1][1] = k
    <2>1. <<k>> \in Bytewise /\ Len(<<k>>) = 1 /\ Len(<<k>>) \in 1..BYTES_PER_CHUNK
      BY <1>1, ChunksOfNumbers DEF Bytewise
    <2>2. \A i \in 1..BYTES_PER_CHUNK : Pack(<<k>>)[1][i] = IF i <= Len(<<k>>) THEN <<k>>[i] ELSE 0
      BY <2>1, PackOne
    <2> QED BY <1>1, <2>1, <2>2
  <1>3. Pack(<<m>>)[1] \in Chunk
    BY UIntRoot
  <1> QED BY <1>2, <1>3, WordsAreClosed DEF Closed

\* The chunk and the place in it where a byte is packed.
LEMMA PlaceOf ==
    ASSUME NEW k \in Nat \ {0}
    PROVE  \E c \in Nat \ {0} : \E i \in 1..BYTES_PER_CHUNK :
                k = (c - 1) * BYTES_PER_CHUNK + i
                /\ \A n \in Nat : k <= n => c <= CountOf(n)
  <1> DEFINE b == BYTES_PER_CHUNK
             q == (k - 1) \div b
             c == q + 1
             i == (k - 1) - b * q + 1
  <1>1. b \in Nat \ {0} /\ k - 1 \in Nat
    BY ChunksOfNumbers
  <1>2. q \in Nat /\ b * q <= k - 1 /\ k - 1 < b * q + b /\ b * q \in Nat /\ b * q = (c - 1) * b
    <2>1. q \in Nat /\ b * q <= k - 1 /\ k - 1 < b * q + b
      BY <1>1, DivTimes
    <2> HIDE DEF q
    <2> QED BY <1>1, <2>1
  <1>3. ASSUME NEW n \in Nat, k <= n PROVE c <= CountOf(n)
    <2>1. CountOf(n) = (n + b - 1) \div b /\ n + b - 1 \in Nat /\ k - 1 <= n - 1 /\ n - 1 \in Nat
      BY <1>1, <1>3 DEF CountOf, CeilDiv
    <2>2. (n + b - 1) \div b \in Nat /\ n + b - 1 < b * ((n + b - 1) \div b) + b
      BY <1>1, <2>1, DivTimes
    <2> DEFINE d == (n + b - 1) \div b
    <2>3. d \in Nat /\ n + b - 1 < b * d + b /\ b * d \in Nat
      BY <1>1, <2>2
    <2> HIDE DEF d, q, b
    <2>4. ASSUME d + 0 <= q PROVE FALSE
      <3>1. b * d <= b * q
        BY <1>1, <1>2, <2>3, <2>4
      <3> QED BY <1>1, <1>2, <2>1, <2>3, <3>1
    <2>5. q + 1 <= d
      BY <1>2, <2>3, <2>4
    <2> QED BY <2>1, <2>5 DEF d, b
  <1>4. c \in Nat \ {0} /\ i \in 1..b /\ k = (c - 1) * b + i
    <2> HIDE DEF q
    <2>1. i \in Nat /\ i >= 1 /\ i <= b
      BY <1>1, <1>2
    <2>2. c \in Nat \ {0} /\ (c - 1) * b + i = k
      BY <1>1, <1>2
    <2> QED BY <1>1, <2>1, <2>2
  <1> HIDE DEF c, i
  <1> QED BY <1>3, <1>4

\* Packing keeps the bytes of strings of one length.
LEMMA PackBinds ==
    ASSUME NEW v \in Bytewise, NEW w \in Bytewise, Len(v) = Len(w), Pack(v) = Pack(w)
    PROVE  v = w
  <1>1. /\ Len(v) \in Nat
        /\ \A c \in 1..CountOf(Len(v)) : \A i \in 1..BYTES_PER_CHUNK :
                Pack(v)[c][i] = LET k == (c - 1) * BYTES_PER_CHUNK + i
                                IN  IF k <= Len(v) THEN v[k] ELSE 0
        /\ \A c \in 1..CountOf(Len(w)) : \A i \in 1..BYTES_PER_CHUNK :
                Pack(w)[c][i] = LET k == (c - 1) * BYTES_PER_CHUNK + i
                                IN  IF k <= Len(w) THEN w[k] ELSE 0
    BY PackType
  <1>2. ASSUME NEW k \in 1..Len(v) PROVE v[k] = w[k]
    <2>1. k \in Nat \ {0} /\ k <= Len(v) /\ k <= Len(w)
      BY <1>1
    <2>2. PICK c \in Nat \ {0}, i \in 1..BYTES_PER_CHUNK :
                k = (c - 1) * BYTES_PER_CHUNK + i /\ \A n \in Nat : k <= n => c <= CountOf(n)
      BY <2>1, PlaceOf
    <2>3. c <= CountOf(Len(v)) /\ CountOf(Len(v)) \in Nat
      BY <1>1, <2>1, <2>2, CountIs
    <2>4. c \in 1..CountOf(Len(v)) /\ c \in 1..CountOf(Len(w))
      BY <2>3
    <2>5. Pack(v)[c][i] = v[k] /\ Pack(w)[c][i] = w[k]
      BY <1>1, <2>1, <2>2, <2>4
    <2> QED BY <2>5
  <1> QED BY <1>1, <1>2 DEF Bytewise

\* The chunks of bytes are words.
LEMMA PackWords ==
    ASSUME NEW v \in Bytewise
    PROVE  Pack(v) \in Words /\ Len(v) \in Nat /\ Len(Pack(v)) = CountOf(Len(v))
  <1>1. Chunk \subseteq Word
    BY WordsAreClosed DEF Closed
  <1>2. Pack(v) \in Seq(Chunk) /\ Len(v) \in Nat /\ Len(Pack(v)) = CountOf(Len(v))
    BY PackType
  <1> HIDE DEF Pack
  <1> QED BY <1>1, <1>2 DEF Words

\* The root of a byte vector.
LEMMA VectorBinds ==
    ASSUME NEW v \in Bytewise, NEW w \in Bytewise, Len(v) = Len(w)
    PROVE  VectorRootOf(v) \in Word /\ (VectorRootOf(v) = VectorRootOf(w) => v = w)
  <1> DEFINE n == CountOf(Len(v))
  <1>1. /\ Pack(v) \in Words /\ Pack(w) \in Words /\ Len(v) \in Nat
        /\ Len(Pack(v)) = n /\ Len(Pack(w)) = n
    BY PackWords
  <1>2. n \in Nat /\ n <= n
    BY <1>1, CountIs
  <1>3. VectorRootOf(v) = SszMerkleize(Pack(v), n) /\ VectorRootOf(w) = SszMerkleize(Pack(w), n)
    BY <1>1 DEF VectorRootOf
  <1> HIDE DEF n
  <1>4. VectorRootOf(v) \in Word
    BY <1>1, <1>2, <1>3, MerkleizeWords
  <1>5. ASSUME VectorRootOf(v) = VectorRootOf(w) PROVE v = w
    <2>1. Pack(v) = Pack(w)
      BY <1>1, <1>2, <1>3, <1>5, MerkleizeBinds
    <2> QED BY <2>1, PackBinds
  <1> QED BY <1>4, <1>5

\* A root with a length mixed in says both.
LEMMA MixInLengthBinds ==
    ASSUME NEW x \in Word, NEW y \in Word, NEW m \in Nat, NEW n \in Nat
    PROVE  /\ MixInLength(x, m) \in Word
           /\ MixInLength(x, m) = MixInLength(y, n) => x = y /\ m = n
  <1>1. /\ Pack(<<m>>)[1] \in Word /\ Pack(<<n>>)[1] \in Word
        /\ (Pack(<<m>>)[1] = Pack(<<n>>)[1] => m = n)
    BY UIntBinds
  <1>2. MixInLength(x, m) = Hash(x, Pack(<<m>>)[1]) /\ MixInLength(y, n) = Hash(y, Pack(<<n>>)[1])
    BY DEF MixInLength
  <1>3. MixInLength(x, m) \in Word
    BY <1>1, <1>2, WordsAreClosed DEF Closed
  <1>4. ASSUME MixInLength(x, m) = MixInLength(y, n) PROVE x = y /\ m = n
    BY <1>1, <1>2, <1>4, HashBinds
  <1> QED BY <1>3, <1>4

\* The root of a list of up to max chunks or items, given by their roots.
LEMMA ListRootBinds ==
    ASSUME NEW a \in Words, NEW b \in Words, NEW max \in Nat, Len(a) <= max, Len(b) <= max,
           NEW m \in Nat, NEW n \in Nat, m = n => Len(a) = Len(b)
    PROVE  /\ MixInLength(SszMerkleize(a, max), m) \in Word
           /\ MixInLength(SszMerkleize(a, max), m) = MixInLength(SszMerkleize(b, max), n)
                => a = b /\ m = n
  <1>1. SszMerkleize(a, max) \in Word /\ SszMerkleize(b, max) \in Word
    BY MerkleizeWords
  <1>2. /\ MixInLength(SszMerkleize(a, max), m) \in Word
        /\ MixInLength(SszMerkleize(a, max), m) = MixInLength(SszMerkleize(b, max), n)
             => SszMerkleize(a, max) = SszMerkleize(b, max) /\ m = n
    BY <1>1, MixInLengthBinds
  <1>3. SszMerkleize(a, max) = SszMerkleize(b, max) /\ m = n => a = b
    BY MerkleizeBinds
  <1> QED BY <1>2, <1>3

\* The root of a byte list within its limit.
LEMMA ByteListBinds ==
    ASSUME NEW v \in Seq(Byte), NEW w \in Seq(Byte), NEW max \in Nat,
           Len(v) <= max, Len(w) <= max
    PROVE  ByteListRootOf(v, max) \in Word
           /\ (ByteListRootOf(v, max) = ByteListRootOf(w, max) => v = w)
  <1>1. v \in Bytewise /\ w \in Bytewise
    BY BytesAreNumbers
  <1>2. /\ Pack(v) \in Words /\ Pack(w) \in Words /\ Len(v) \in Nat /\ Len(w) \in Nat
        /\ Len(Pack(v)) = CountOf(Len(v)) /\ Len(Pack(w)) = CountOf(Len(w))
    BY <1>1, PackWords
  <1>3. /\ CountOf(Len(v)) <= CountOf(max) /\ CountOf(Len(w)) <= CountOf(max)
        /\ CountOf(max) \in Nat
    BY <1>2, CountIs
  <1>4. /\ ByteListRootOf(v, max) \in Word
        /\ ByteListRootOf(v, max) = ByteListRootOf(w, max) => Pack(v) = Pack(w) /\ Len(v) = Len(w)
    BY <1>2, <1>3, ListRootBinds DEF ByteListRootOf
  <1>5. Pack(v) = Pack(w) /\ Len(v) = Len(w) => v = w
    BY <1>1, PackBinds
  <1> QED BY <1>4, <1>5

-----------------------------------------------------------------------------
(***************************************************************************)
(* The roots of the values of a type, level by level.                      *)
(***************************************************************************)
\* The root x of v tells v from w, whose root is y.
Tells(x, y, v, w) == x \in Word /\ y \in Word /\ (x = y => v = w)

BasicRootTells(type, v, w) == Tells(SszRootOfBasic(type, v), SszRootOfBasic(type, w), v, w)
ItemRootTells(type, v, w)  == Tells(SszRootOfItem(type, v), SszRootOfItem(type, w), v, w)
ListRootTells(type, v, w)  == Tells(SszRootOfList(type, v), SszRootOfList(type, w), v, w)
PartRootTells(type, v, w)  == Tells(SszRootOfPart(type, v), SszRootOfPart(type, w), v, w)

\* The roots of numbers, of byte vectors and of byte lists within their limit.
LEMMA NumberTells ==
    ASSUME NEW m \in Byte, NEW n \in Byte
    PROVE  /\ BasicRootTells(UInt, m, n)
           /\ ListRootTells(UInt, m, n)
  <1>1. m \in Nat /\ n \in Nat
    BY DEF Byte
  <1>2. Tells(Pack(<<m>>)[1], Pack(<<n>>)[1], m, n)
    <2>1. /\ Pack(<<m>>)[1] \in Word /\ Pack(<<n>>)[1] \in Word
          /\ (Pack(<<m>>)[1] = Pack(<<n>>)[1] => m = n)
      BY <1>1, UIntBinds
    <2> QED BY <2>1, Zenon DEF Tells
  <1>3. /\ SszRootOfBasic(UInt, m) = Pack(<<m>>)[1] /\ SszRootOfList(UInt, m) = Pack(<<m>>)[1]
        /\ SszRootOfBasic(UInt, n) = Pack(<<n>>)[1] /\ SszRootOfList(UInt, n) = Pack(<<n>>)[1]
    BY BasicKinds, ListKinds, Zenon
  <1> QED BY <1>2, <1>3, Zenon DEF BasicRootTells, ListRootTells

\* A byte vector of fixed size is told by its root, whatever it is part of
\* (htr_byte_vector, ssz.hpp:123-139).
LEMMA VectorTells ==
    ASSUME NEW size \in Nat, NEW v \in Vector(size), NEW w \in Vector(size)
    PROVE  /\ BasicRootTells(Bytes, v, w)
           /\ ItemRootTells(Bytes, v, w)
           /\ ListRootTells(Bytes, v, w)
           /\ PartRootTells(Bytes, v, w)
  <1>1. v \in Bytewise /\ w \in Bytewise /\ Len(v) = Len(w)
    BY BytesAreNumbers
  <1>2. Tells(VectorRootOf(v), VectorRootOf(w), v, w)
    BY <1>1, VectorBinds DEF Tells
  <1>3. \A u : /\ SszRootOfBasic(Bytes, u) = VectorRootOf(u)
               /\ SszRootOfItem(Bytes, u) = VectorRootOf(u)
               /\ SszRootOfList(Bytes, u) = VectorRootOf(u)
               /\ SszRootOfPart(Bytes, u) = VectorRootOf(u)
    BY BasicKinds, ItemKinds, ListKinds, PartKinds, Zenon
  <1> QED BY <1>2, <1>3, Zenon
           DEF BasicRootTells, ItemRootTells, ListRootTells, PartRootTells

\* A byte list within its limit is told by its root (htr_byte_list,
\* ssz.hpp:145-166).
LEMMA ByteListTells ==
    ASSUME NEW max \in Nat, NEW v \in Seq(Byte), NEW w \in Seq(Byte), Len(v) <= max, Len(w) <= max
    PROVE  /\ ItemRootTells(ByteList(max), v, w)
           /\ ListRootTells(ByteList(max), v, w)
  <1>1. Tells(ByteListRootOf(v, max), ByteListRootOf(w, max), v, w)
    BY ByteListBinds DEF Tells
  <1>2. \A u : /\ SszRootOfItem(ByteList(max), u) = ByteListRootOf(u, max)
               /\ SszRootOfList(ByteList(max), u) = ByteListRootOf(u, max)
    BY ItemKinds, ListKinds, Zenon
  <1> QED BY <1>1, <1>2, Zenon DEF ItemRootTells, ListRootTells

\* The root of a container tells the roots of its fields.
LEMMA ContainerTells ==
    ASSUME NEW x \in Words, NEW y \in Words, NEW n \in Nat, Len(x) = n, Len(y) = n
    PROVE  Tells(SszMerkleize(x, n), SszMerkleize(y, n), x, y)
  <1>1. n <= n
    OBVIOUS
  <1>2. SszMerkleize(x, n) \in Word /\ SszMerkleize(y, n) \in Word
    BY MerkleizeWords
  <1>3. SszMerkleize(x, n) = SszMerkleize(y, n) => x = y
    BY <1>1, MerkleizeBinds
  <1> QED BY <1>2, <1>3 DEF Tells

\* The sizes of byte vectors are numbers.
LEMMA SizesAreNumbers ==
    AddressSize \in Nat /\ PubkeySize \in Nat /\ SignatureSize \in Nat /\ BloomSize \in Nat
    /\ BYTES_PER_CHUNK \in Nat
  <1>1. BYTES_PER_CHUNK \in Nat /\ \A size \in 1..(8 * BYTES_PER_CHUNK) : size \in Nat
    BY ChunksOfNumbers
  <1> QED BY <1>1, SizesAre

\* A withdrawal is told by its root (stateless.cpp:470-476).
LEMMA WithdrawalTells ==
    ASSUME NEW v \in Withdrawals, NEW w \in Withdrawals
    PROVE  ItemRootTells(Withdrawal, v, w)
  <1> DEFINE fields == <<<<"index", UInt>>,
                         <<"validator_index", UInt>>,
                         <<"address", Bytes>>,
                         <<"amount", UInt>>>>
             X(u)   == <<SszRootOfBasic(UInt, u.index),
                         SszRootOfBasic(UInt, u.validator_index),
                         SszRootOfBasic(Bytes, u.address),
                         SszRootOfBasic(UInt, u.amount)>>
  <1>1. \A u : SszRootOfItem(Withdrawal, u) = SszMerkleize(X(u), 4)
    <2> TAKE u
    <2>1. SszRootOfItem(Container(fields), u) = SszMerkleize(FieldRoots(fields, u), Len(fields))
      BY ItemKinds DEF FieldRoots
    <2>2. FieldRoots(fields, u) = X(u) /\ Len(fields) = 4
      BY DEF FieldRoots
    <2>3. Withdrawal = Container(fields)
      BY DEF Withdrawal
    <2> HIDE DEF fields, X
    <2> QED BY <2>1, <2>2, <2>3
  <1>2. /\ v.index \in Byte /\ w.index \in Byte
        /\ v.validator_index \in Byte /\ w.validator_index \in Byte
        /\ v.address \in Vector(AddressSize) /\ w.address \in Vector(AddressSize)
        /\ v.amount \in Byte /\ w.amount \in Byte
    BY DEF Withdrawals, Address20
  <1>3. /\ BasicRootTells(UInt, v.index, w.index)
        /\ BasicRootTells(UInt, v.validator_index, w.validator_index)
        /\ BasicRootTells(Bytes, v.address, w.address)
        /\ BasicRootTells(UInt, v.amount, w.amount)
    BY <1>2, NumberTells, VectorTells, SizesAreNumbers
  <1>4. X(v) \in Words /\ X(w) \in Words /\ Len(X(v)) = 4 /\ Len(X(w)) = 4
    BY <1>3 DEF BasicRootTells, Tells, Words
  <1>5. ASSUME X(v) = X(w) PROVE v = w
    <2>1. /\ SszRootOfBasic(UInt, v.index) = SszRootOfBasic(UInt, w.index)
          /\ SszRootOfBasic(UInt, v.validator_index) = SszRootOfBasic(UInt, w.validator_index)
          /\ SszRootOfBasic(Bytes, v.address) = SszRootOfBasic(Bytes, w.address)
          /\ SszRootOfBasic(UInt, v.amount) = SszRootOfBasic(UInt, w.amount)
      BY <1>5
    <2>2. v.index = w.index /\ v.validator_index = w.validator_index /\ v.address = w.address
          /\ v.amount = w.amount
      BY <1>3, <2>1 DEF BasicRootTells, Tells
    <2>3. v = [index |-> v.index, validator_index |-> v.validator_index, address |-> v.address,
               amount |-> v.amount]
          /\ w = [index |-> w.index, validator_index |-> w.validator_index,
                  address |-> w.address, amount |-> w.amount]
      BY DEF Withdrawals
    <2> QED BY <2>2, <2>3
  <1> HIDE DEF X
  <1>6. Tells(SszMerkleize(X(v), 4), SszMerkleize(X(w), 4), X(v), X(w))
    BY <1>4, ContainerTells
  <1> QED BY <1>1, <1>5, <1>6 DEF ItemRootTells, Tells

\* A deposit request is told by its root (stateless.cpp:479-487).
LEMMA DepositRequestTells ==
    ASSUME NEW v \in DepositRequests, NEW w \in DepositRequests
    PROVE  ItemRootTells(DepositRequest, v, w)
  <1> DEFINE fields == <<<<"pubkey", Bytes>>,
                         <<"withdrawal_credentials", Bytes>>,
                         <<"amount", UInt>>,
                         <<"signature", Bytes>>,
                         <<"index", UInt>>>>
             X(u)   == <<SszRootOfBasic(Bytes, u.pubkey),
                         SszRootOfBasic(Bytes, u.withdrawal_credentials),
                         SszRootOfBasic(UInt, u.amount),
                         SszRootOfBasic(Bytes, u.signature),
                         SszRootOfBasic(UInt, u.index)>>
  <1>1. \A u : SszRootOfItem(DepositRequest, u) = SszMerkleize(X(u), 5)
    <2> TAKE u
    <2>1. SszRootOfItem(Container(fields), u) = SszMerkleize(FieldRoots(fields, u), Len(fields))
      BY ItemKinds DEF FieldRoots
    <2>2. FieldRoots(fields, u) = X(u) /\ Len(fields) = 5
      BY DEF FieldRoots
    <2>3. DepositRequest = Container(fields)
      BY DEF DepositRequest
    <2> HIDE DEF fields, X
    <2> QED BY <2>1, <2>2, <2>3
  <1>2. /\ v.pubkey \in Vector(PubkeySize) /\ w.pubkey \in Vector(PubkeySize)
        /\ v.withdrawal_credentials \in Vector(BYTES_PER_CHUNK)
           /\ w.withdrawal_credentials \in Vector(BYTES_PER_CHUNK)
        /\ v.amount \in Byte /\ w.amount \in Byte
        /\ v.signature \in Vector(SignatureSize) /\ w.signature \in Vector(SignatureSize)
        /\ v.index \in Byte /\ w.index \in Byte
    BY DEF DepositRequests, Hash32, Pubkey, Signature
  <1>3. /\ BasicRootTells(Bytes, v.pubkey, w.pubkey)
        /\ BasicRootTells(Bytes, v.withdrawal_credentials, w.withdrawal_credentials)
        /\ BasicRootTells(UInt, v.amount, w.amount)
        /\ BasicRootTells(Bytes, v.signature, w.signature)
        /\ BasicRootTells(UInt, v.index, w.index)
    BY <1>2, NumberTells, VectorTells, SizesAreNumbers
  <1>4. X(v) \in Words /\ X(w) \in Words /\ Len(X(v)) = 5 /\ Len(X(w)) = 5
    BY <1>3 DEF BasicRootTells, Tells, Words
  <1>5. ASSUME X(v) = X(w) PROVE v = w
    <2>1. /\ SszRootOfBasic(Bytes, v.pubkey) = SszRootOfBasic(Bytes, w.pubkey)
          /\ SszRootOfBasic(Bytes, v.withdrawal_credentials) = SszRootOfBasic(Bytes, w.withdrawal_credentials)
          /\ SszRootOfBasic(UInt, v.amount) = SszRootOfBasic(UInt, w.amount)
          /\ SszRootOfBasic(Bytes, v.signature) = SszRootOfBasic(Bytes, w.signature)
          /\ SszRootOfBasic(UInt, v.index) = SszRootOfBasic(UInt, w.index)
      BY <1>5
    <2>2. v.pubkey = w.pubkey /\ v.withdrawal_credentials = w.withdrawal_credentials
          /\ v.amount = w.amount /\ v.signature = w.signature /\ v.index = w.index
      BY <1>3, <2>1 DEF BasicRootTells, Tells
    <2>3. v = [pubkey |-> v.pubkey, withdrawal_credentials |-> v.withdrawal_credentials,
               amount |-> v.amount, signature |-> v.signature, index |-> v.index]
          /\ w = [pubkey |-> w.pubkey, withdrawal_credentials |-> w.withdrawal_credentials,
                  amount |-> w.amount, signature |-> w.signature, index |-> w.index]
      BY DEF DepositRequests
    <2> QED BY <2>2, <2>3
  <1> HIDE DEF X
  <1>6. Tells(SszMerkleize(X(v), 5), SszMerkleize(X(w), 5), X(v), X(w))
    BY <1>4, ContainerTells
  <1> QED BY <1>1, <1>5, <1>6 DEF ItemRootTells, Tells

\* A withdrawal request is told by its root (stateless.cpp:489-495).
LEMMA WithdrawalRequestTells ==
    ASSUME NEW v \in WithdrawalRequests, NEW w \in WithdrawalRequests
    PROVE  ItemRootTells(WithdrawalRequest, v, w)
  <1> DEFINE fields == <<<<"source_address", Bytes>>,
                         <<"validator_pubkey", Bytes>>,
                         <<"amount", UInt>>>>
             X(u)   == <<SszRootOfBasic(Bytes, u.source_address),
                         SszRootOfBasic(Bytes, u.validator_pubkey),
                         SszRootOfBasic(UInt, u.amount)>>
  <1>1. \A u : SszRootOfItem(WithdrawalRequest, u) = SszMerkleize(X(u), 3)
    <2> TAKE u
    <2>1. SszRootOfItem(Container(fields), u) = SszMerkleize(FieldRoots(fields, u), Len(fields))
      BY ItemKinds DEF FieldRoots
    <2>2. FieldRoots(fields, u) = X(u) /\ Len(fields) = 3
      BY DEF FieldRoots
    <2>3. WithdrawalRequest = Container(fields)
      BY DEF WithdrawalRequest
    <2> HIDE DEF fields, X
    <2> QED BY <2>1, <2>2, <2>3
  <1>2. /\ v.source_address \in Vector(AddressSize) /\ w.source_address \in Vector(AddressSize)
        /\ v.validator_pubkey \in Vector(PubkeySize) /\ w.validator_pubkey \in Vector(PubkeySize)
        /\ v.amount \in Byte /\ w.amount \in Byte
    BY DEF WithdrawalRequests, Address20, Pubkey
  <1>3. /\ BasicRootTells(Bytes, v.source_address, w.source_address)
        /\ BasicRootTells(Bytes, v.validator_pubkey, w.validator_pubkey)
        /\ BasicRootTells(UInt, v.amount, w.amount)
    BY <1>2, NumberTells, VectorTells, SizesAreNumbers
  <1>4. X(v) \in Words /\ X(w) \in Words /\ Len(X(v)) = 3 /\ Len(X(w)) = 3
    BY <1>3 DEF BasicRootTells, Tells, Words
  <1>5. ASSUME X(v) = X(w) PROVE v = w
    <2>1. /\ SszRootOfBasic(Bytes, v.source_address) = SszRootOfBasic(Bytes, w.source_address)
          /\ SszRootOfBasic(Bytes, v.validator_pubkey) = SszRootOfBasic(Bytes, w.validator_pubkey)
          /\ SszRootOfBasic(UInt, v.amount) = SszRootOfBasic(UInt, w.amount)
      BY <1>5
    <2>2. v.source_address = w.source_address /\ v.validator_pubkey = w.validator_pubkey
          /\ v.amount = w.amount
      BY <1>3, <2>1 DEF BasicRootTells, Tells
    <2>3. v = [source_address |-> v.source_address, validator_pubkey |-> v.validator_pubkey,
               amount |-> v.amount]
          /\ w = [source_address |-> w.source_address, validator_pubkey |-> w.validator_pubkey,
                  amount |-> w.amount]
      BY DEF WithdrawalRequests
    <2> QED BY <2>2, <2>3
  <1> HIDE DEF X
  <1>6. Tells(SszMerkleize(X(v), 3), SszMerkleize(X(w), 3), X(v), X(w))
    BY <1>4, ContainerTells
  <1> QED BY <1>1, <1>5, <1>6 DEF ItemRootTells, Tells

\* A consolidation request is told by its root (stateless.cpp:497-503).
LEMMA ConsolidationRequestTells ==
    ASSUME NEW v \in ConsolidationRequests, NEW w \in ConsolidationRequests
    PROVE  ItemRootTells(ConsolidationRequest, v, w)
  <1> DEFINE fields == <<<<"source_address", Bytes>>,
                         <<"source_pubkey", Bytes>>,
                         <<"target_pubkey", Bytes>>>>
             X(u)   == <<SszRootOfBasic(Bytes, u.source_address),
                         SszRootOfBasic(Bytes, u.source_pubkey),
                         SszRootOfBasic(Bytes, u.target_pubkey)>>
  <1>1. \A u : SszRootOfItem(ConsolidationRequest, u) = SszMerkleize(X(u), 3)
    <2> TAKE u
    <2>1. SszRootOfItem(Container(fields), u) = SszMerkleize(FieldRoots(fields, u), Len(fields))
      BY ItemKinds DEF FieldRoots
    <2>2. FieldRoots(fields, u) = X(u) /\ Len(fields) = 3
      BY DEF FieldRoots
    <2>3. ConsolidationRequest = Container(fields)
      BY DEF ConsolidationRequest
    <2> HIDE DEF fields, X
    <2> QED BY <2>1, <2>2, <2>3
  <1>2. /\ v.source_address \in Vector(AddressSize) /\ w.source_address \in Vector(AddressSize)
        /\ v.source_pubkey \in Vector(PubkeySize) /\ w.source_pubkey \in Vector(PubkeySize)
        /\ v.target_pubkey \in Vector(PubkeySize) /\ w.target_pubkey \in Vector(PubkeySize)
    BY DEF ConsolidationRequests, Address20, Pubkey
  <1>3. /\ BasicRootTells(Bytes, v.source_address, w.source_address)
        /\ BasicRootTells(Bytes, v.source_pubkey, w.source_pubkey)
        /\ BasicRootTells(Bytes, v.target_pubkey, w.target_pubkey)
    BY <1>2, NumberTells, VectorTells, SizesAreNumbers
  <1>4. X(v) \in Words /\ X(w) \in Words /\ Len(X(v)) = 3 /\ Len(X(w)) = 3
    BY <1>3 DEF BasicRootTells, Tells, Words
  <1>5. ASSUME X(v) = X(w) PROVE v = w
    <2>1. /\ SszRootOfBasic(Bytes, v.source_address) = SszRootOfBasic(Bytes, w.source_address)
          /\ SszRootOfBasic(Bytes, v.source_pubkey) = SszRootOfBasic(Bytes, w.source_pubkey)
          /\ SszRootOfBasic(Bytes, v.target_pubkey) = SszRootOfBasic(Bytes, w.target_pubkey)
      BY <1>5
    <2>2. v.source_address = w.source_address /\ v.source_pubkey = w.source_pubkey
          /\ v.target_pubkey = w.target_pubkey
      BY <1>3, <2>1 DEF BasicRootTells, Tells
    <2>3. v = [source_address |-> v.source_address, source_pubkey |-> v.source_pubkey,
               target_pubkey |-> v.target_pubkey]
          /\ w = [source_address |-> w.source_address, source_pubkey |-> w.source_pubkey,
                  target_pubkey |-> w.target_pubkey]
      BY DEF ConsolidationRequests
    <2> QED BY <2>2, <2>3
  <1> HIDE DEF X
  <1>6. Tells(SszMerkleize(X(v), 3), SszMerkleize(X(w), 3), X(v), X(w))
    BY <1>4, ContainerTells
  <1> QED BY <1>1, <1>5, <1>6 DEF ItemRootTells, Tells

\* A builder's deposit request is told by its root (stateless.cpp:517-524).
LEMMA BuilderDepositRequestTells ==
    ASSUME NEW v \in BuilderDepositRequests, NEW w \in BuilderDepositRequests
    PROVE  ItemRootTells(BuilderDepositRequest, v, w)
  <1> DEFINE fields == <<<<"pubkey", Bytes>>,
                         <<"withdrawal_credentials", Bytes>>,
                         <<"amount", UInt>>,
                         <<"signature", Bytes>>>>
             X(u)   == <<SszRootOfBasic(Bytes, u.pubkey),
                         SszRootOfBasic(Bytes, u.withdrawal_credentials),
                         SszRootOfBasic(UInt, u.amount),
                         SszRootOfBasic(Bytes, u.signature)>>
  <1>1. \A u : SszRootOfItem(BuilderDepositRequest, u) = SszMerkleize(X(u), 4)
    <2> TAKE u
    <2>1. SszRootOfItem(Container(fields), u) = SszMerkleize(FieldRoots(fields, u), Len(fields))
      BY ItemKinds DEF FieldRoots
    <2>2. FieldRoots(fields, u) = X(u) /\ Len(fields) = 4
      BY DEF FieldRoots
    <2>3. BuilderDepositRequest = Container(fields)
      BY DEF BuilderDepositRequest
    <2> HIDE DEF fields, X
    <2> QED BY <2>1, <2>2, <2>3
  <1>2. /\ v.pubkey \in Vector(PubkeySize) /\ w.pubkey \in Vector(PubkeySize)
        /\ v.withdrawal_credentials \in Vector(BYTES_PER_CHUNK)
           /\ w.withdrawal_credentials \in Vector(BYTES_PER_CHUNK)
        /\ v.amount \in Byte /\ w.amount \in Byte
        /\ v.signature \in Vector(SignatureSize) /\ w.signature \in Vector(SignatureSize)
    BY DEF BuilderDepositRequests, Hash32, Pubkey, Signature
  <1>3. /\ BasicRootTells(Bytes, v.pubkey, w.pubkey)
        /\ BasicRootTells(Bytes, v.withdrawal_credentials, w.withdrawal_credentials)
        /\ BasicRootTells(UInt, v.amount, w.amount)
        /\ BasicRootTells(Bytes, v.signature, w.signature)
    BY <1>2, NumberTells, VectorTells, SizesAreNumbers
  <1>4. X(v) \in Words /\ X(w) \in Words /\ Len(X(v)) = 4 /\ Len(X(w)) = 4
    BY <1>3 DEF BasicRootTells, Tells, Words
  <1>5. ASSUME X(v) = X(w) PROVE v = w
    <2>1. /\ SszRootOfBasic(Bytes, v.pubkey) = SszRootOfBasic(Bytes, w.pubkey)
          /\ SszRootOfBasic(Bytes, v.withdrawal_credentials) = SszRootOfBasic(Bytes, w.withdrawal_credentials)
          /\ SszRootOfBasic(UInt, v.amount) = SszRootOfBasic(UInt, w.amount)
          /\ SszRootOfBasic(Bytes, v.signature) = SszRootOfBasic(Bytes, w.signature)
      BY <1>5
    <2>2. v.pubkey = w.pubkey /\ v.withdrawal_credentials = w.withdrawal_credentials
          /\ v.amount = w.amount /\ v.signature = w.signature
      BY <1>3, <2>1 DEF BasicRootTells, Tells
    <2>3. v = [pubkey |-> v.pubkey, withdrawal_credentials |-> v.withdrawal_credentials,
               amount |-> v.amount, signature |-> v.signature]
          /\ w = [pubkey |-> w.pubkey, withdrawal_credentials |-> w.withdrawal_credentials,
                  amount |-> w.amount, signature |-> w.signature]
      BY DEF BuilderDepositRequests
    <2> QED BY <2>2, <2>3
  <1> HIDE DEF X
  <1>6. Tells(SszMerkleize(X(v), 4), SszMerkleize(X(w), 4), X(v), X(w))
    BY <1>4, ContainerTells
  <1> QED BY <1>1, <1>5, <1>6 DEF ItemRootTells, Tells

\* A builder's exit request is told by its root (stateless.cpp:526-531).
LEMMA BuilderExitRequestTells ==
    ASSUME NEW v \in BuilderExitRequests, NEW w \in BuilderExitRequests
    PROVE  ItemRootTells(BuilderExitRequest, v, w)
  <1> DEFINE fields == <<<<"source_address", Bytes>>,
                         <<"pubkey", Bytes>>>>
             X(u)   == <<SszRootOfBasic(Bytes, u.source_address),
                         SszRootOfBasic(Bytes, u.pubkey)>>
  <1>1. \A u : SszRootOfItem(BuilderExitRequest, u) = SszMerkleize(X(u), 2)
    <2> TAKE u
    <2>1. SszRootOfItem(Container(fields), u) = SszMerkleize(FieldRoots(fields, u), Len(fields))
      BY ItemKinds DEF FieldRoots
    <2>2. FieldRoots(fields, u) = X(u) /\ Len(fields) = 2
      BY DEF FieldRoots
    <2>3. BuilderExitRequest = Container(fields)
      BY DEF BuilderExitRequest
    <2> HIDE DEF fields, X
    <2> QED BY <2>1, <2>2, <2>3
  <1>2. /\ v.source_address \in Vector(AddressSize) /\ w.source_address \in Vector(AddressSize)
        /\ v.pubkey \in Vector(PubkeySize) /\ w.pubkey \in Vector(PubkeySize)
    BY DEF BuilderExitRequests, Address20, Pubkey
  <1>3. /\ BasicRootTells(Bytes, v.source_address, w.source_address)
        /\ BasicRootTells(Bytes, v.pubkey, w.pubkey)
    BY <1>2, NumberTells, VectorTells, SizesAreNumbers
  <1>4. X(v) \in Words /\ X(w) \in Words /\ Len(X(v)) = 2 /\ Len(X(w)) = 2
    BY <1>3 DEF BasicRootTells, Tells, Words
  <1>5. ASSUME X(v) = X(w) PROVE v = w
    <2>1. /\ SszRootOfBasic(Bytes, v.source_address) = SszRootOfBasic(Bytes, w.source_address)
          /\ SszRootOfBasic(Bytes, v.pubkey) = SszRootOfBasic(Bytes, w.pubkey)
      BY <1>5
    <2>2. v.source_address = w.source_address /\ v.pubkey = w.pubkey
      BY <1>3, <2>1 DEF BasicRootTells, Tells
    <2>3. v = [source_address |-> v.source_address, pubkey |-> v.pubkey]
          /\ w = [source_address |-> w.source_address, pubkey |-> w.pubkey]
      BY DEF BuilderExitRequests
    <2> QED BY <2>2, <2>3
  <1> HIDE DEF X
  <1>6. Tells(SszMerkleize(X(v), 2), SszMerkleize(X(w), 2), X(v), X(w))
    BY <1>4, ContainerTells
  <1> QED BY <1>1, <1>5, <1>6 DEF ItemRootTells, Tells

-----------------------------------------------------------------------------
\* The roots of the items of a list within its limit, and their number, tell
\* the list.
LEMMA RootsTell ==
    ASSUME NEW x \in Words, NEW y \in Words, NEW max \in Nat, NEW T, NEW v \in Seq(T),
           NEW w \in Seq(T),
           Len(x) = Len(v), Len(y) = Len(w), Len(v) <= max, Len(w) <= max,
           x = y /\ Len(v) = Len(w) => v = w
    PROVE  Tells(MixInLength(SszMerkleize(x, max), Len(v)), MixInLength(SszMerkleize(y, max), Len(w)),
                 v, w)
  <1>1. Len(v) \in Nat /\ Len(w) \in Nat
    OBVIOUS
  <1>2. /\ MixInLength(SszMerkleize(x, max), Len(v)) \in Word
        /\ MixInLength(SszMerkleize(y, max), Len(w)) \in Word
        /\ MixInLength(SszMerkleize(x, max), Len(v)) = MixInLength(SszMerkleize(y, max), Len(w))
             => x = y /\ Len(v) = Len(w)
    BY <1>1, ListRootBinds
  <1> QED BY <1>2 DEF Tells

\* The roots of the items of a type tell the items.
ItemsTold(of, T) ==
    \A a, b \in T : ItemRootTells(of, a, b)

ItemRoots(of, u) == [i \in DOMAIN u |-> SszRootOfItem(of, u[i])]

\* The roots of the items of a list are the words of its tree.
LEMMA ItemRootsAreWords ==
    ASSUME NEW of, NEW T, ItemsTold(of, T), NEW u \in Seq(T)
    PROVE  ItemRoots(of, u) \in Words /\ Len(ItemRoots(of, u)) = Len(u)
  <1>1. DOMAIN u = 1..Len(u) /\ Len(u) \in Nat /\ \A i \in 1..Len(u) : u[i] \in T
    OBVIOUS
  <1>2. \A i \in 1..Len(u) : SszRootOfItem(of, u[i]) \in Word
    BY <1>1 DEF ItemsTold, ItemRootTells, Tells
  <1>3. ItemRoots(of, u) \in [1..Len(u) -> Word]
    BY <1>1, <1>2 DEF ItemRoots
  <1> QED BY <1>1, <1>3 DEF Words

\* A list within its limit, of items that are told by their roots, is told by
\* its own (htr_container_list, stateless.cpp:505-515).
LEMMA ItemsTell ==
    ASSUME NEW of, NEW T, ItemsTold(of, T), NEW max \in Nat, NEW v \in Seq(T), NEW w \in Seq(T),
           Len(v) <= max, Len(w) <= max
    PROVE  ListRootTells(List(of, max), v, w)
  <1> DEFINE x == ItemRoots(of, v)
             y == ItemRoots(of, w)
  <1>1. x \in Words /\ Len(x) = Len(v) /\ y \in Words /\ Len(y) = Len(w)
    BY ItemRootsAreWords
  <1>2. ASSUME x = y, Len(v) = Len(w) PROVE v = w
    <2>1. DOMAIN v = 1..Len(v) /\ DOMAIN w = 1..Len(v) /\ \A i \in 1..Len(v) : v[i] \in T
          /\ w[i] \in T
      BY <1>2
    <2>2. ASSUME NEW i \in 1..Len(v) PROVE v[i] = w[i]
      <3>1. x[i] = SszRootOfItem(of, v[i]) /\ y[i] = SszRootOfItem(of, w[i])
        BY <2>1 DEF ItemRoots
      <3> HIDE DEF x, y
      <3>2. SszRootOfItem(of, v[i]) = SszRootOfItem(of, w[i])
        BY <1>2, <3>1
      <3> QED BY <2>1, <3>2 DEF ItemsTold, ItemRootTells, Tells
    <2> HIDE DEF x, y
    <2> QED BY <1>2, <2>2
  <1>3. /\ SszRootOfList(List(of, max), v) = MixInLength(SszMerkleize(x, max), Len(v))
        /\ SszRootOfList(List(of, max), w) = MixInLength(SszMerkleize(y, max), Len(w))
    BY ListKinds DEF ItemRoots
  <1> HIDE DEF x, y
  <1>4. Tells(MixInLength(SszMerkleize(x, max), Len(v)), MixInLength(SszMerkleize(y, max), Len(w)),
              v, w)
    BY <1>1, <1>2, RootsTell
  <1> QED BY <1>3, <1>4 DEF ListRootTells

\* The root of a list has a length mixed in: it is the hash of a word and a
\* chunk, and no chunk itself.
IsListRoot(x) == \E m \in Word, c \in Chunk : x = Hash(m, c)

\* The root of a list is the hash of a word with a length.
LEMMA ListRootsAre ==
    ASSUME NEW of, NEW T, ItemsTold(of, T), NEW max \in Nat, NEW v \in Seq(T)
    PROVE  IsListRoot(SszRootOfList(List(of, max), v))
  <1> DEFINE x == ItemRoots(of, v)
  <1>1. x \in Words /\ Len(v) \in Nat
    BY ItemRootsAreWords
  <1>2. SszRootOfList(List(of, max), v) = MixInLength(SszMerkleize(x, max), Len(v))
    BY ListKinds DEF ItemRoots
  <1> HIDE DEF x
  <1>3. SszMerkleize(x, max) \in Word
    BY <1>1, MerkleizeWords
  <1>4. Pack(<<Len(v)>>)[1] \in Chunk
    BY <1>1, UIntBinds
  <1> QED BY <1>2, <1>3, <1>4 DEF MixInLength, IsListRoot

\* So is the root of a byte list.
LEMMA ByteListRootsAre ==
    ASSUME NEW v \in Seq(Byte), NEW max \in Nat
    PROVE  IsListRoot(SszRootOfList(ByteList(max), v))
  <1>1. v \in Bytewise /\ CountOf(max) \in Nat
    BY BytesAreNumbers, CountIs
  <1>2. Pack(v) \in Words /\ Len(v) \in Nat
    BY <1>1, PackWords
  <1>3. SszMerkleize(Pack(v), CountOf(max)) \in Word
    BY <1>1, <1>2, MerkleizeWords
  <1>4. Pack(<<Len(v)>>)[1] \in Chunk
    BY <1>2, UIntBinds
  <1>5. SszRootOfList(ByteList(max), v) = MixInLength(SszMerkleize(Pack(v), CountOf(max)), Len(v))
    BY ListKinds DEF ByteListRootOf
  <1> QED BY <1>3, <1>4, <1>5 DEF MixInLength, IsListRoot

\* Such a root is no chunk: a hash is longer than one in this model of sha256.
LEMMA ListRootIsNoChunk ==
    ASSUME NEW x, IsListRoot(x)
    PROVE  x \notin Chunk
  BY WordsAreClosed, ChunkIsNoHash DEF IsListRoot, Closed

\* The limits of the lists are numbers.
LEMMA LimitsAreNumbers ==
    /\ MAX_TRANSACTIONS_PER_PAYLOAD \in Nat /\ MAX_BLOB_COMMITMENTS_PER_BLOCK \in Nat
    /\ MAX_WITHDRAWALS_PER_PAYLOAD \in Nat
    /\ MAX_DEPOSIT_REQUESTS_PER_PAYLOAD \in Nat
    /\ MAX_WITHDRAWAL_REQUESTS_PER_PAYLOAD \in Nat
    /\ MAX_CONSOLIDATION_REQUESTS_PER_PAYLOAD \in Nat
    /\ MAX_BUILDER_DEPOSIT_REQUESTS_PER_PAYLOAD \in Nat
    /\ MAX_BUILDER_EXIT_REQUESTS_PER_PAYLOAD \in Nat
  BY LimitsAre DEF Limit

\* So do those of the lists of a request.
LEMMA WithdrawalsTell ==
    ASSUME NEW v \in Seq(Withdrawals), NEW w \in Seq(Withdrawals),
           Len(v) <= MAX_WITHDRAWALS_PER_PAYLOAD, Len(w) <= MAX_WITHDRAWALS_PER_PAYLOAD
    PROVE  ListRootTells(List(Withdrawal, MAX_WITHDRAWALS_PER_PAYLOAD), v, w)
  <1>1. ItemsTold(Withdrawal, Withdrawals)
    BY WithdrawalTells DEF ItemsTold
  <1> QED BY <1>1, LimitsAreNumbers, ItemsTell

\* The deposit requests of a block are told by their root.
LEMMA DepositsTell ==
    ASSUME NEW v \in Seq(DepositRequests), NEW w \in Seq(DepositRequests),
           Len(v) <= MAX_DEPOSIT_REQUESTS_PER_PAYLOAD,
           Len(w) <= MAX_DEPOSIT_REQUESTS_PER_PAYLOAD
    PROVE  ListRootTells(List(DepositRequest, MAX_DEPOSIT_REQUESTS_PER_PAYLOAD), v, w)
  <1>1. ItemsTold(DepositRequest, DepositRequests)
    BY DepositRequestTells DEF ItemsTold
  <1> QED BY <1>1, LimitsAreNumbers, ItemsTell

\* The withdrawal requests of a block are told by their root.
LEMMA WithdrawalRequestsTell ==
    ASSUME NEW v \in Seq(WithdrawalRequests), NEW w \in Seq(WithdrawalRequests),
           Len(v) <= MAX_WITHDRAWAL_REQUESTS_PER_PAYLOAD,
           Len(w) <= MAX_WITHDRAWAL_REQUESTS_PER_PAYLOAD
    PROVE  ListRootTells(List(WithdrawalRequest, MAX_WITHDRAWAL_REQUESTS_PER_PAYLOAD), v, w)
  <1>1. ItemsTold(WithdrawalRequest, WithdrawalRequests)
    BY WithdrawalRequestTells DEF ItemsTold
  <1> QED BY <1>1, LimitsAreNumbers, ItemsTell

\* The consolidation requests of a block are told by their root.
LEMMA ConsolidationsTell ==
    ASSUME NEW v \in Seq(ConsolidationRequests), NEW w \in Seq(ConsolidationRequests),
           Len(v) <= MAX_CONSOLIDATION_REQUESTS_PER_PAYLOAD,
           Len(w) <= MAX_CONSOLIDATION_REQUESTS_PER_PAYLOAD
    PROVE  ListRootTells(List(ConsolidationRequest, MAX_CONSOLIDATION_REQUESTS_PER_PAYLOAD), v, w)
  <1>1. ItemsTold(ConsolidationRequest, ConsolidationRequests)
    BY ConsolidationRequestTells DEF ItemsTold
  <1> QED BY <1>1, LimitsAreNumbers, ItemsTell

\* The builders' deposit requests of a block are told by their root.
LEMMA BuilderDepositsTell ==
    ASSUME NEW v \in Seq(BuilderDepositRequests), NEW w \in Seq(BuilderDepositRequests),
           Len(v) <= MAX_BUILDER_DEPOSIT_REQUESTS_PER_PAYLOAD,
           Len(w) <= MAX_BUILDER_DEPOSIT_REQUESTS_PER_PAYLOAD
    PROVE  ListRootTells(List(BuilderDepositRequest, MAX_BUILDER_DEPOSIT_REQUESTS_PER_PAYLOAD), v, w)
  <1>1. ItemsTold(BuilderDepositRequest, BuilderDepositRequests)
    BY BuilderDepositRequestTells DEF ItemsTold
  <1> QED BY <1>1, LimitsAreNumbers, ItemsTell

\* The builders' exit requests of a block are told by their root.
LEMMA BuilderExitsTell ==
    ASSUME NEW v \in Seq(BuilderExitRequests), NEW w \in Seq(BuilderExitRequests),
           Len(v) <= MAX_BUILDER_EXIT_REQUESTS_PER_PAYLOAD,
           Len(w) <= MAX_BUILDER_EXIT_REQUESTS_PER_PAYLOAD
    PROVE  ListRootTells(List(BuilderExitRequest, MAX_BUILDER_EXIT_REQUESTS_PER_PAYLOAD), v, w)
  <1>1. ItemsTold(BuilderExitRequest, BuilderExitRequests)
    BY BuilderExitRequestTells DEF ItemsTold
  <1> QED BY <1>1, LimitsAreNumbers, ItemsTell

\* The transactions of a block are told by their root, each within its limit.
LEMMA TransactionsTell ==
    ASSUME NEW v \in Seq(Seq(Byte)), NEW w \in Seq(Seq(Byte)),
           Len(v) <= MAX_TRANSACTIONS_PER_PAYLOAD, Len(w) <= MAX_TRANSACTIONS_PER_PAYLOAD,
           \A i \in DOMAIN v : Len(v[i]) <= MAX_BYTES_PER_TRANSACTION,
           \A i \in DOMAIN w : Len(w[i]) <= MAX_BYTES_PER_TRANSACTION
    PROVE  ListRootTells(List(ByteList(MAX_BYTES_PER_TRANSACTION), MAX_TRANSACTIONS_PER_PAYLOAD), v, w)
  <1> DEFINE T == {t \in Seq(Byte) : Len(t) <= MAX_BYTES_PER_TRANSACTION}
  <1>1. ItemsTold(ByteList(MAX_BYTES_PER_TRANSACTION), T)
    <2>1. ASSUME NEW a \in T, NEW b \in T
          PROVE  ItemRootTells(ByteList(MAX_BYTES_PER_TRANSACTION), a, b)
      BY LimitsAre, ByteListTells
    <2> HIDE DEF T
    <2> QED BY <2>1 DEF ItemsTold
  <1>2. ASSUME NEW u \in Seq(Seq(Byte)), \A i \in DOMAIN u : Len(u[i]) <= MAX_BYTES_PER_TRANSACTION
        PROVE  u \in Seq(T)
    <2>1. DOMAIN u = 1..Len(u) /\ Len(u) \in Nat /\ \A i \in 1..Len(u) : u[i] \in Seq(Byte)
      OBVIOUS
    <2>2. \A i \in 1..Len(u) : u[i] \in T
      BY <1>2, <2>1
    <2> HIDE DEF T
    <2> DEFINE n == Len(u)
    <2>3. n \in Nat /\ u = [i \in 1..n |-> u[i]] /\ \A i \in 1..n : u[i] \in T
      BY <2>1, <2>2
    <2> HIDE DEF n
    <2>4. u \in [1..n -> T]
      BY <2>3
    <2> QED BY <2>3, <2>4
  <1> HIDE DEF T
  <1>3. v \in Seq(T) /\ w \in Seq(T)
    BY <1>2
  <1> QED BY <1>1, <1>3, LimitsAreNumbers, ItemsTell

\* The versioned hashes, whose list is a field of the request itself.
LEMMA VersionedHashesTell ==
    ASSUME NEW v \in Seq(Hash32), NEW w \in Seq(Hash32),
           Len(v) <= MAX_BLOB_COMMITMENTS_PER_BLOCK, Len(w) <= MAX_BLOB_COMMITMENTS_PER_BLOCK
    PROVE  PartRootTells(List(Bytes, MAX_BLOB_COMMITMENTS_PER_BLOCK), v, w)
  <1> DEFINE max == MAX_BLOB_COMMITMENTS_PER_BLOCK
  <1>1. ItemsTold(Bytes, Hash32)
    <2>1. ASSUME NEW a \in Hash32, NEW b \in Hash32
          PROVE  ItemRootTells(Bytes, a, b)
      BY VectorTells, SizesAreNumbers DEF Hash32
    <2> QED BY <2>1 DEF ItemsTold
  <1>2. ListRootTells(List(Bytes, max), v, w)
    BY <1>1, LimitsAreNumbers, ItemsTell
  <1>3. ASSUME NEW u PROVE SszRootOfPart(List(Bytes, max), u) = SszRootOfList(List(Bytes, max), u)
    <2>1. SszRootOfList(List(Bytes, max), u)
              = MixInLength(SszMerkleize([i \in DOMAIN u |-> SszRootOfItem(Bytes, u[i])], max), Len(u))
      BY ListKinds
    <2>2. SszRootOfPart(List(Bytes, max), u)
              = MixInLength(SszMerkleize([i \in DOMAIN u |-> SszRootOfList(Bytes, u[i])], max), Len(u))
      BY PartKinds
    <2>3. \A i \in DOMAIN u : SszRootOfItem(Bytes, u[i]) = SszRootOfList(Bytes, u[i])
      BY ItemKinds, ListKinds
    <2>4. [i \in DOMAIN u |-> SszRootOfItem(Bytes, u[i])] = [i \in DOMAIN u |-> SszRootOfList(Bytes, u[i])]
      BY <2>3
    <2> QED BY <2>1, <2>2, <2>4
  <1> QED BY <1>2, <1>3 DEF ListRootTells, PartRootTells

-----------------------------------------------------------------------------
(***************************************************************************)
(* The parts of a request.                                                 *)
(***************************************************************************)
Data           == ByteList(MAX_EXTRA_DATA_BYTES)
Transactions   == List(ByteList(MAX_BYTES_PER_TRANSACTION), MAX_TRANSACTIONS_PER_PAYLOAD)
AllWithdrawals == List(Withdrawal, MAX_WITHDRAWALS_PER_PAYLOAD)

\* The fields every payload has are the same.
SameCommon(p, q) ==
    /\ p.parent_hash = q.parent_hash /\ p.fee_recipient = q.fee_recipient
       /\ p.state_root = q.state_root
    /\ p.receipts_root = q.receipts_root /\ p.logs_bloom = q.logs_bloom
       /\ p.prev_randao = q.prev_randao
    /\ p.block_number = q.block_number /\ p.gas_limit = q.gas_limit /\ p.gas_used = q.gas_used
    /\ p.timestamp = q.timestamp /\ p.extra_data = q.extra_data
       /\ p.base_fee_per_gas = q.base_fee_per_gas
    /\ p.block_hash = q.block_hash /\ p.transactions = q.transactions
       /\ p.withdrawals = q.withdrawals
    /\ p.blob_gas_used = q.blob_gas_used /\ p.excess_blob_gas = q.excess_blob_gas

\* The roots of the common fields tell them.
LEMMA CommonFieldsTell ==
    ASSUME NEW r \in AllRequests, WithinLimits(r), OfSchema(r),
           NEW s \in AllRequests, WithinLimits(s), OfSchema(s)
    PROVE  LET p == r.execution_payload
               q == s.execution_payload
           IN  /\ PartRoots(CommonFieldTypes, p) \in Words
               /\ Len(PartRoots(CommonFieldTypes, p)) = 17
               /\ PartRoots(CommonFieldTypes, p) = PartRoots(CommonFieldTypes, q)
                    => SameCommon(p, q)
  <1> DEFINE p == r.execution_payload
             q == s.execution_payload
             X(u) ==
               <<SszRootOfList(Bytes, u.parent_hash),
                 SszRootOfList(Bytes, u.fee_recipient),
                 SszRootOfList(Bytes, u.state_root),
                 SszRootOfList(Bytes, u.receipts_root),
                 SszRootOfList(Bytes, u.logs_bloom),
                 SszRootOfList(Bytes, u.prev_randao),
                 SszRootOfList(UInt, u.block_number),
                 SszRootOfList(UInt, u.gas_limit),
                 SszRootOfList(UInt, u.gas_used),
                 SszRootOfList(UInt, u.timestamp),
                 SszRootOfList(Data, u.extra_data),
                 SszRootOfList(Bytes, u.base_fee_per_gas),
                 SszRootOfList(Bytes, u.block_hash),
                 SszRootOfList(Transactions, u.transactions),
                 SszRootOfList(AllWithdrawals, u.withdrawals),
                 SszRootOfList(UInt, u.blob_gas_used),
                 SszRootOfList(UInt, u.excess_blob_gas)>>
  <1>1. /\ p \in Payloads
        /\ p.extra_data \in Seq(Byte) /\ Len(p.extra_data) <= MAX_EXTRA_DATA_BYTES
        /\ p.transactions \in Seq(Seq(Byte))
        /\ Len(p.transactions) <= MAX_TRANSACTIONS_PER_PAYLOAD
        /\ \A i \in DOMAIN p.transactions : Len(p.transactions[i]) <= MAX_BYTES_PER_TRANSACTION
        /\ p.withdrawals \in Seq(Withdrawals) /\ Len(p.withdrawals) <= MAX_WITHDRAWALS_PER_PAYLOAD
    BY PayloadFields
  <1>2. /\ q \in Payloads
        /\ q.extra_data \in Seq(Byte) /\ Len(q.extra_data) <= MAX_EXTRA_DATA_BYTES
        /\ q.transactions \in Seq(Seq(Byte))
        /\ Len(q.transactions) <= MAX_TRANSACTIONS_PER_PAYLOAD
        /\ \A i \in DOMAIN q.transactions : Len(q.transactions[i]) <= MAX_BYTES_PER_TRANSACTION
        /\ q.withdrawals \in Seq(Withdrawals) /\ Len(q.withdrawals) <= MAX_WITHDRAWALS_PER_PAYLOAD
    BY PayloadFields
  <1> HIDE DEF p, q
  <1>3. /\ p.parent_hash \in Vector(BYTES_PER_CHUNK) /\ q.parent_hash \in Vector(BYTES_PER_CHUNK)
        /\ p.fee_recipient \in Vector(AddressSize) /\ q.fee_recipient \in Vector(AddressSize)
        /\ p.state_root \in Vector(BYTES_PER_CHUNK) /\ q.state_root \in Vector(BYTES_PER_CHUNK)
        /\ p.receipts_root \in Vector(BYTES_PER_CHUNK)
           /\ q.receipts_root \in Vector(BYTES_PER_CHUNK)
        /\ p.logs_bloom \in Vector(BloomSize) /\ q.logs_bloom \in Vector(BloomSize)
        /\ p.prev_randao \in Vector(BYTES_PER_CHUNK) /\ q.prev_randao \in Vector(BYTES_PER_CHUNK)
        /\ p.block_number \in Byte /\ q.block_number \in Byte
        /\ p.gas_limit \in Byte /\ q.gas_limit \in Byte
        /\ p.gas_used \in Byte /\ q.gas_used \in Byte
        /\ p.timestamp \in Byte /\ q.timestamp \in Byte
        /\ p.base_fee_per_gas \in Vector(BYTES_PER_CHUNK)
           /\ q.base_fee_per_gas \in Vector(BYTES_PER_CHUNK)
        /\ p.block_hash \in Vector(BYTES_PER_CHUNK) /\ q.block_hash \in Vector(BYTES_PER_CHUNK)
        /\ p.blob_gas_used \in Byte /\ q.blob_gas_used \in Byte
        /\ p.excess_blob_gas \in Byte /\ q.excess_blob_gas \in Byte
    BY <1>1, <1>2 DEF Payloads, Address20, Hash32
  <1>4. /\ ListRootTells(Bytes, p.parent_hash, q.parent_hash)
        /\ ListRootTells(Bytes, p.fee_recipient, q.fee_recipient)
        /\ ListRootTells(Bytes, p.state_root, q.state_root)
        /\ ListRootTells(Bytes, p.receipts_root, q.receipts_root)
        /\ ListRootTells(Bytes, p.logs_bloom, q.logs_bloom)
        /\ ListRootTells(Bytes, p.prev_randao, q.prev_randao)
        /\ ListRootTells(UInt, p.block_number, q.block_number)
        /\ ListRootTells(UInt, p.gas_limit, q.gas_limit)
        /\ ListRootTells(UInt, p.gas_used, q.gas_used)
        /\ ListRootTells(UInt, p.timestamp, q.timestamp)
        /\ ListRootTells(Bytes, p.base_fee_per_gas, q.base_fee_per_gas)
        /\ ListRootTells(Bytes, p.block_hash, q.block_hash)
        /\ ListRootTells(UInt, p.blob_gas_used, q.blob_gas_used)
        /\ ListRootTells(UInt, p.excess_blob_gas, q.excess_blob_gas)
    BY <1>3, NumberTells, VectorTells, SizesAreNumbers
  <1>5. ListRootTells(Data, p.extra_data, q.extra_data)
    BY <1>1, <1>2, LimitsAre, ByteListTells DEF Data
  <1>6. ListRootTells(Transactions, p.transactions, q.transactions)
    BY <1>1, <1>2, TransactionsTell DEF Transactions
  <1>7. ListRootTells(AllWithdrawals, p.withdrawals, q.withdrawals)
    BY <1>1, <1>2, WithdrawalsTell DEF AllWithdrawals
  <1>8. X(p) \in Words /\ Len(X(p)) = 17
    BY <1>4, <1>5, <1>6, <1>7 DEF ListRootTells, Tells, Words
  <1>9. \A u : PartRoots(CommonFieldTypes, u) = X(u)
    BY DEF PartRoots, CommonFieldTypes, Data, Transactions, AllWithdrawals
  <1>10. ASSUME X(p) = X(q) PROVE SameCommon(p, q)
    <2>1. /\ SszRootOfList(Bytes, p.parent_hash) = SszRootOfList(Bytes, q.parent_hash)
          /\ SszRootOfList(Bytes, p.fee_recipient) = SszRootOfList(Bytes, q.fee_recipient)
          /\ SszRootOfList(Bytes, p.state_root) = SszRootOfList(Bytes, q.state_root)
          /\ SszRootOfList(Bytes, p.receipts_root) = SszRootOfList(Bytes, q.receipts_root)
          /\ SszRootOfList(Bytes, p.logs_bloom) = SszRootOfList(Bytes, q.logs_bloom)
          /\ SszRootOfList(Bytes, p.prev_randao) = SszRootOfList(Bytes, q.prev_randao)
          /\ SszRootOfList(UInt, p.block_number) = SszRootOfList(UInt, q.block_number)
          /\ SszRootOfList(UInt, p.gas_limit) = SszRootOfList(UInt, q.gas_limit)
          /\ SszRootOfList(UInt, p.gas_used) = SszRootOfList(UInt, q.gas_used)
          /\ SszRootOfList(UInt, p.timestamp) = SszRootOfList(UInt, q.timestamp)
          /\ SszRootOfList(Data, p.extra_data) = SszRootOfList(Data, q.extra_data)
          /\ SszRootOfList(Bytes, p.base_fee_per_gas) = SszRootOfList(Bytes, q.base_fee_per_gas)
          /\ SszRootOfList(Bytes, p.block_hash) = SszRootOfList(Bytes, q.block_hash)
          /\ SszRootOfList(Transactions, p.transactions) = SszRootOfList(Transactions, q.transactions)
          /\ SszRootOfList(AllWithdrawals, p.withdrawals) = SszRootOfList(AllWithdrawals, q.withdrawals)
          /\ SszRootOfList(UInt, p.blob_gas_used) = SszRootOfList(UInt, q.blob_gas_used)
          /\ SszRootOfList(UInt, p.excess_blob_gas) = SszRootOfList(UInt, q.excess_blob_gas)
      BY <1>10
    <2> QED BY <1>4, <1>5, <1>6, <1>7, <2>1 DEF ListRootTells, Tells, SameCommon
  <1> HIDE DEF X
  <1>11. /\ PartRoots(CommonFieldTypes, p) \in Words
         /\ Len(PartRoots(CommonFieldTypes, p)) = 17
         /\ PartRoots(CommonFieldTypes, p) = PartRoots(CommonFieldTypes, q) => SameCommon(p, q)
    BY <1>8, <1>9, <1>10
  <1> QED BY <1>11 DEF p, q

\* The roots of the two fields of a Gloas payload tell them.
LEMMA GloasFieldsTell ==
    ASSUME NEW r \in AllRequests, WithinLimits(r), OfSchema(r),
           NEW s \in AllRequests, WithinLimits(s), OfSchema(s),
           r.execution_payload.bal_htr_limit = s.execution_payload.bal_htr_limit
    PROVE  LET p == r.execution_payload
               q == s.execution_payload
               x == PartRoots(GloasFieldTypes(p.bal_htr_limit), p)
               y == PartRoots(GloasFieldTypes(q.bal_htr_limit), q)
           IN  /\ x \in Words /\ Len(x) = 2
               /\ x[1] = SszRootOfList(ByteList(p.bal_htr_limit), p.block_access_list)
               /\ x = y => p.block_access_list = q.block_access_list
                  /\ p.slot_number = q.slot_number
  <1> DEFINE p == r.execution_payload
             q == s.execution_payload
             max == p.bal_htr_limit
             X(u) == <<SszRootOfList(ByteList(max), u.block_access_list),
                       SszRootOfList(UInt, u.slot_number)>>
  <1>1. /\ p.block_access_list \in Seq(Byte) /\ Len(p.block_access_list) <= max
        /\ max \in Nat /\ p.slot_number \in Byte
        /\ q.block_access_list \in Seq(Byte) /\ Len(q.block_access_list) <= max
        /\ q.slot_number \in Byte /\ q.bal_htr_limit = max
    BY PayloadFields
  <1> HIDE DEF p, q, max
  <1>2. ListRootTells(ByteList(max), p.block_access_list, q.block_access_list)
    BY <1>1, ByteListTells
  <1>3. ListRootTells(UInt, p.slot_number, q.slot_number)
    BY <1>1, NumberTells
  <1>4. \A u : PartRoots(GloasFieldTypes(max), u) = X(u)
    BY DEF PartRoots, GloasFieldTypes
  <1>5. X(p) \in Words /\ Len(X(p)) = 2
        /\ X(p)[1] = SszRootOfList(ByteList(max), p.block_access_list)
    BY <1>2, <1>3 DEF ListRootTells, Tells, Words
  <1>6. X(p) = X(q) => p.block_access_list = q.block_access_list /\ p.slot_number = q.slot_number
    BY <1>2, <1>3 DEF ListRootTells, Tells
  <1> HIDE DEF X
  <1>7. LET x == PartRoots(GloasFieldTypes(p.bal_htr_limit), p)
            y == PartRoots(GloasFieldTypes(q.bal_htr_limit), q)
        IN  /\ x \in Words /\ Len(x) = 2
            /\ x[1] = SszRootOfList(ByteList(p.bal_htr_limit), p.block_access_list)
            /\ x = y => p.block_access_list = q.block_access_list /\ p.slot_number = q.slot_number
    BY <1>1, <1>4, <1>5, <1>6 DEF max
  <1> QED BY <1>7 DEF p, q

-----------------------------------------------------------------------------
\* The lists of fields of a type that adds to another's.
AreJoined(z, x, y) ==
    /\ z \in Words /\ Len(x) \in Nat /\ Len(y) \in Nat
    /\ Len(z) = Len(x) + Len(y)
    /\ \A i \in 1..Len(x) : z[i] = x[i]
    /\ \A i \in 1..Len(y) : z[Len(x) + i] = y[i]

\* What is used of the concatenation of two lists of words.
LEMMA JoinedWords ==
    ASSUME NEW x \in Words, NEW y \in Words
    PROVE  AreJoined(x \o y, x, y)
  <1>1. x \in Seq(Word) /\ y \in Seq(Word)
    BY DEF Words
  <1>2. x \o y \in Seq(Word) /\ Len(x) \in Nat /\ Len(y) \in Nat /\ Len(x \o y) = Len(x) + Len(y)
    BY <1>1
  <1>3. \A i \in 1..Len(x) : (x \o y)[i] = x[i]
    BY <1>1
  <1>4. \A i \in 1..Len(y) : (x \o y)[Len(x) + i] = y[i]
    BY <1>1
  <1> QED BY <1>2, <1>3, <1>4 DEF Words, AreJoined

\* Both parts are told by the joined list.
LEMMA JoinedBind ==
    ASSUME NEW x \in Words, NEW y \in Words, NEW v \in Words, NEW w \in Words,
           Len(x) = Len(v), Len(y) = Len(w), x \o y = v \o w
    PROVE  x = v /\ y = w
  <1> DEFINE s == x \o y
             t == v \o w
             m == Len(x)
             n == Len(y)
  <1>1. AreJoined(s, x, y) /\ AreJoined(t, v, w)
    BY JoinedWords
  <1>2. x \in Nodes /\ y \in Nodes /\ v \in Nodes /\ w \in Nodes
        /\ Len(x) = m /\ Len(v) = m /\ Len(y) = n /\ Len(w) = n
    BY WordsAreNodes
  <1>3. s = t
    OBVIOUS
  <1> HIDE DEF s, t, m, n
  <1>4. /\ \A i \in 1..m : s[i] = x[i]
        /\ \A i \in 1..n : s[m + i] = y[i]
        /\ \A i \in 1..m : t[i] = v[i]
        /\ \A i \in 1..n : t[m + i] = w[i]
    BY <1>1, <1>2 DEF AreJoined
  <1>5. ASSUME NEW i \in 1..m PROVE x[i] = v[i]
    BY <1>3, <1>4
  <1>6. ASSUME NEW i \in 1..n PROVE y[i] = w[i]
    BY <1>3, <1>4
  <1> QED BY <1>2, <1>5, <1>6, SameNodes

\* The heights of the containers that come in two sizes.
LEMMA SmallDepths ==
    /\ Pow2[2] = 4 /\ Pow2[3] = 8 /\ Pow2[5] = 32
    /\ Depth(3) = 2 /\ Depth(5) = 3 /\ Depth(17) = 5 /\ Depth(19) = 5
  <1>1. Pow2[0] = 1 /\ Pow2[1] = 2 /\ Pow2[2] = 4 /\ Pow2[3] = 8 /\ Pow2[4] = 16 /\ Pow2[5] = 32
    <2>1. Pow2[0] = 1
      BY Pow2Type
    <2>2. Pow2[0 + 1] = 2 * Pow2[0] /\ Pow2[1 + 1] = 2 * Pow2[1] /\ Pow2[2 + 1] = 2 * Pow2[2]
          /\ Pow2[3 + 1] = 2 * Pow2[3] /\ Pow2[4 + 1] = 2 * Pow2[4]
      BY Pow2Type
    <2> QED BY <2>1, <2>2
  <1>2. ASSUME NEW x \in Nat, NEW e \in Nat, Pow2[e] < x, x <= Pow2[e + 1]
        PROVE  Depth(x) = e + 1
    <2>0. e + 1 \in Nat /\ Pow2[e] \in Nat /\ Pow2[e + 1] \in Nat
      BY Pow2Twice
    <2>1. Depth(x) <= e + 1 /\ Depth(x) \in Nat
      BY <1>2, <2>0, DepthLeast, DepthIs
    <2>2. ASSUME Depth(x) <= e PROVE FALSE
      <3>1. Pow2[Depth(x)] <= Pow2[e] /\ Pow2[Depth(x)] >= x /\ Pow2[Depth(x)] \in Nat
        BY <2>1, <2>2, Pow2Monotone, DepthIs, Pow2Type
      <3> QED BY <1>2, <2>0, <3>1
    <2> QED BY <2>0, <2>1, <2>2
  <1>3. Depth(3) = 1 + 1 /\ Depth(5) = 2 + 1 /\ Depth(17) = 4 + 1 /\ Depth(19) = 4 + 1
    <2>1. Pow2[1 + 1] = 4 /\ Pow2[2 + 1] = 8 /\ Pow2[4 + 1] = 32
      BY <1>1
    <2>2. Depth(3) = 1 + 1
      BY <1>1, <1>2, <2>1
    <2>3. Depth(5) = 2 + 1
      BY <1>1, <1>2, <2>1
    <2>4. Depth(17) = 4 + 1
      BY <1>1, <1>2, <2>1
    <2>5. Depth(19) = 4 + 1
      BY <1>1, <1>2, <2>1
    <2> QED BY <2>2, <2>3, <2>4, <2>5
  <1> QED BY <1>1, <1>3

\* A payload of 17 fields has not the root of one of 19: where the latter has the
\* root of its block access list, the former is padded.
LEMMA ShapesDiffer ==
    ASSUME NEW x \in Words, NEW z \in Words, Len(x) = 17, Len(z) = 19, z[18] \notin Chunk
    PROVE  SszMerkleize(x, 17) # SszMerkleize(z, 19)
  <1> SUFFICES ASSUME SszMerkleize(x, 17) = SszMerkleize(z, 19) PROVE FALSE
    OBVIOUS
  <1>1. SszMerkleize(x, 17) = SszMerkleize(x, 19)
    BY SmallDepths DEF SszMerkleize
  <1>2. LeavesOf(19) = 32
    BY SmallDepths DEF LeavesOf
  <1>3. Padded(x, 32) = Padded(z, 32)
    <2>1. 19 \in Nat /\ SszMerkleize(x, 19) = SszMerkleize(z, 19)
      BY <1>1
    <2> QED BY <1>2, <2>1, LeavesBind
  <1>4. Padded(x, 32)[18] = ZeroHash /\ Padded(z, 32)[18] = z[18]
    <2>1. x \in Nodes /\ z \in Nodes /\ 32 \in Nat /\ 18 \in 1..32
      BY WordsAreNodes
    <2>2. /\ \A i \in 1..32 : Padded(x, 32)[i] = IF i <= Len(x) THEN x[i] ELSE ZeroHash
          /\ \A i \in 1..32 : Padded(z, 32)[i] = IF i <= Len(z) THEN z[i] ELSE ZeroHash
      BY <2>1, PaddedType
    <2>3. ~ (18 <= 17) /\ 18 <= 19
      OBVIOUS
    <2> QED BY <2>1, <2>2, <2>3
  <1> QED BY <1>3, <1>4, ChunksOfNumbers

\* Three lists have not the root of five, whose tree is a level higher: what the
\* first list's length is mixed into is no root of a list.
LEMMA SchemasDiffer ==
    ASSUME NEW x \in Words, NEW z \in Words, Len(x) = 3, Len(z) = 5, IsListRoot(x[1]),
           z[2] \notin Chunk
    PROVE  SszMerkleize(x, 3) # SszMerkleize(z, 5)
  <1> SUFFICES ASSUME SszMerkleize(x, 3) = SszMerkleize(z, 5) PROVE FALSE
    OBVIOUS
  <1> DEFINE a == Padded(x, 4)
             b == Padded(z, 8)
  <1>1. SszMerkleize(x, 3) = RootOf[2][a] /\ SszMerkleize(z, 5) = RootOf[3][b]
    BY SmallDepths DEF SszMerkleize
  <1>2. /\ a \in Words /\ a \in Nodes /\ Len(a) = 4 /\ a[1] = x[1]
        /\ b \in Words /\ b \in Nodes /\ Len(b) = 8 /\ b[1] = z[1] /\ b[2] = z[2]
    <2>1. x \in Nodes /\ z \in Nodes /\ 4 \in Nat /\ 8 \in Nat /\ 1 \in 1..4 /\ 1 \in 1..8
          /\ 2 \in 1..8
          /\ 1 <= 3 /\ 1 <= 5 /\ 2 <= 5
      BY WordsAreNodes
    <2>2. /\ a \in Words /\ b \in Words /\ a \in Nodes /\ b \in Nodes /\ Len(a) = 4 /\ Len(b) = 8
          /\ \A i \in 1..4 : a[i] = IF i <= Len(x) THEN x[i] ELSE ZeroHash
          /\ \A i \in 1..8 : b[i] = IF i <= Len(z) THEN z[i] ELSE ZeroHash
      BY <2>1, PaddedType, PaddedWords
    <2> HIDE DEF a, b
    <2> QED BY <2>1, <2>2
  <1> HIDE DEF a, b
  <1>3. RootOf[3][b] = RootOf[2][Parents(b)]
    <2>1. 2 \in Nat /\ 2 + 1 = 3
      OBVIOUS
    <2>2. RootOf[2 + 1][b] = RootOf[2][Parents(b)]
      BY <1>2, <2>1, RootOfType
    <2> QED BY <2>1, <2>2
  <1>4. Parents(b) \in Words /\ Len(Parents(b)) = 4 /\ Parents(b)[1] = Hash(z[1], z[2])
    <2>1. 8 \div 2 = 4 /\ 1 \in 1..4 /\ 2 * 1 - 1 = 1 /\ 2 * 1 = 2
      OBVIOUS
    <2>2. /\ Len(Parents(b)) = Len(b) \div 2
          /\ \A i \in 1..(Len(b) \div 2) : Parents(b)[i] = Hash(b[2 * i - 1], b[2 * i])
      BY <1>2, ParentsType
    <2>3. Len(Parents(b)) = 4 /\ Parents(b)[1] = Hash(b[2 * 1 - 1], b[2 * 1])
      BY <1>2, <2>1, <2>2
    <2> QED BY <1>2, <2>1, <2>3, ParentsOfWords
  <1>5. a = Parents(b)
    <2>1. RootsBindAt(2)
      BY RootOfBinds
    <2>2. RootOf[2][a] = RootOf[2][Parents(b)]
      BY <1>1, <1>3
    <2> QED BY <1>2, <1>4, <2>1, <2>2, SmallDepths DEF RootsBindAt
  <1>6. PICK m \in Word, c \in Chunk : x[1] = Hash(m, c)
    BY DEF IsListRoot
  <1>7. Hash(m, c) = Hash(z[1], z[2])
    BY <1>2, <1>4, <1>5, <1>6
  <1>8. c \in Word /\ z[1] \in Word /\ z[2] \in Word
    <2>1. c \in Word
      BY WordsAreClosed DEF Closed
    <2>2. \A i \in 1..5 : z[i] \in Word
      BY WordsAreNodes
    <2> QED BY <2>1, <2>2
  <1>9. c = z[2]
    BY <1>7, <1>8, HashBinds
  <1> QED BY <1>9

-----------------------------------------------------------------------------
\* Payloads of one limit for the block access list, whatever their shapes: a root
\* tells them.
LEMMA PayloadTells ==
    ASSUME NEW r \in AllRequests, WithinLimits(r), OfSchema(r),
           NEW s \in AllRequests, WithinLimits(s), OfSchema(s),
           r.execution_payload.bal_htr_limit = s.execution_payload.bal_htr_limit
    PROVE  LET p == r.execution_payload
               q == s.execution_payload
           IN  Tells(SszRootOfPart(ExecutionPayload(p.shape, p.bal_htr_limit), p),
                     SszRootOfPart(ExecutionPayload(q.shape, q.bal_htr_limit), q), p, q)
  <1> DEFINE p == r.execution_payload
             q == s.execution_payload
             max == p.bal_htr_limit
             a == CommonFieldTypes
             b == GloasFieldTypes(max)
             x == PartRoots(a, p)
             y == PartRoots(b, p)
             v == PartRoots(a, q)
             w == PartRoots(b, q)
  <1>0. q.bal_htr_limit = max
    OBVIOUS
  <1>1. p \in Payloads /\ q \in Payloads /\ p.block_access_list \in Seq(Byte)
        /\ q.block_access_list \in Seq(Byte) /\ max \in Nat
    BY PayloadFields
  <1>2. /\ p.shape = "ElectraFulu" => p.block_access_list = << >> /\ p.slot_number = 0
        /\ q.shape = "ElectraFulu" => q.block_access_list = << >> /\ q.slot_number = 0
    BY DEF OfSchema
  <1>3. /\ x \in Words /\ Len(x) = 17 /\ v \in Words /\ Len(v) = 17
        /\ x = v => SameCommon(p, q)
    BY CommonFieldsTell
  <1>4. /\ y \in Words /\ Len(y) = 2 /\ y[1] = SszRootOfList(ByteList(max), p.block_access_list)
        /\ y = w => p.block_access_list = q.block_access_list /\ p.slot_number = q.slot_number
    BY <1>0, GloasFieldsTell
  <1>5. w \in Words /\ Len(w) = 2 /\ w[1] = SszRootOfList(ByteList(max), q.block_access_list)
    BY <1>0, GloasFieldsTell
  <1> HIDE DEF p, q, max
  <1>6. y[1] \notin Chunk /\ w[1] \notin Chunk
    BY <1>1, <1>4, <1>5, ByteListRootsAre, ListRootIsNoChunk
  <1>7. ASSUME SameCommon(p, q), p.block_access_list = q.block_access_list,
               p.slot_number = q.slot_number, p.shape = q.shape
        PROVE  p = q
    <2>1. p.bal_htr_limit = q.bal_htr_limit
      BY <1>0 DEF max
    <2> DEFINE Rec(u) ==
                [shape |-> u.shape, bal_htr_limit |-> u.bal_htr_limit,
                 parent_hash |-> u.parent_hash, fee_recipient |-> u.fee_recipient,
                 state_root |-> u.state_root, receipts_root |-> u.receipts_root,
                 logs_bloom |-> u.logs_bloom, prev_randao |-> u.prev_randao,
                 block_number |-> u.block_number, gas_limit |-> u.gas_limit,
                 gas_used |-> u.gas_used, timestamp |-> u.timestamp,
                 extra_data |-> u.extra_data, base_fee_per_gas |-> u.base_fee_per_gas,
                 block_hash |-> u.block_hash, transactions |-> u.transactions,
                 withdrawals |-> u.withdrawals, blob_gas_used |-> u.blob_gas_used,
                 excess_blob_gas |-> u.excess_blob_gas, block_access_list |-> u.block_access_list,
                 slot_number |-> u.slot_number]
    <2>2. \A u \in Payloads : u = Rec(u)
      BY DEF Payloads
    <2>3. Rec(p) = Rec(q)
      BY <1>7, <2>1 DEF SameCommon
    <2> HIDE DEF Rec
    <2> QED BY <1>1, <2>2, <2>3
  <1> HIDE DEF x, y, v, w
  <1>8. /\ x \o y \in Words /\ Len(x \o y) = 19 /\ (x \o y)[18] = y[1]
        /\ v \o w \in Words /\ Len(v \o w) = 19 /\ (v \o w)[18] = w[1]
    <2>1. AreJoined(x \o y, x, y) /\ AreJoined(v \o w, v, w)
      BY <1>3, <1>4, <1>5, JoinedWords
    <2>2. 17 + 2 = 19 /\ 17 + 1 = 18 /\ 1 \in 1..2
      OBVIOUS
    <2>3. \A z, f, g : AreJoined(z, f, g) /\ Len(f) = 17 /\ Len(g) = 2
                          => z \in Words /\ Len(z) = 19 /\ z[18] = g[1]
      BY <2>2 DEF AreJoined
    <2> QED BY <1>3, <1>4, <1>5, <2>1, <2>3
  <1>9. /\ SszRootOfPart(Container(a), p) = SszMerkleize(x, 17)
        /\ SszRootOfPart(Container(a), q) = SszMerkleize(v, 17)
        /\ SszRootOfPart(Container(a \o b), p) = SszMerkleize(x \o y, 19)
        /\ SszRootOfPart(Container(a \o b), q) = SszMerkleize(v \o w, 19)
    <2>1. IsParts(a) /\ Len(a) = 17
      BY CommonFieldsAreParts
    <2>2. IsParts(b) /\ Len(b) = 2
      BY DEF IsParts, GloasFieldTypes
    <2>3. x = PartRoots(a, p) /\ y = PartRoots(b, p) /\ v = PartRoots(a, q) /\ w = PartRoots(b, q)
      BY DEF x, y, v, w
    <2>4. x \in Nodes /\ y \in Nodes /\ v \in Nodes /\ w \in Nodes
      BY <1>3, <1>4, <1>5, WordsAreNodes
    <2> HIDE DEF a, b
    <2>5. /\ PartRoots(a \o b, p) = x \o y /\ PartRoots(a \o b, q) = v \o w
          /\ Len(a \o b) = Len(a) + Len(b)
      <3>1. /\ PartRoots(a, p) \in Nodes /\ PartRoots(b, p) \in Nodes
            /\ PartRoots(a, q) \in Nodes /\ PartRoots(b, q) \in Nodes
        BY <2>3, <2>4
      <3>2. /\ PartRoots(a \o b, p) \in Nodes
            /\ PartRoots(a \o b, p) = PartRoots(a, p) \o PartRoots(b, p)
            /\ Len(PartRoots(a \o b, p)) = Len(a \o b)
            /\ Len(a \o b) = Len(a) + Len(b)
        BY <2>1, <2>2, <3>1, ConcatenatedParts
      <3>3. PartRoots(a \o b, q) = PartRoots(a, q) \o PartRoots(b, q)
        BY <2>1, <2>2, <3>1, ConcatenatedParts
      <3> QED BY <2>3, <3>2, <3>3
    <2>6. Len(a \o b) = 19
      BY <2>1, <2>2, <2>5
    <2>7. \A f, u : SszRootOfPart(Container(f), u) = SszMerkleize(PartRoots(f, u), Len(f))
      BY PartKinds DEF PartRoots
    <2> QED BY <2>1, <2>3, <2>5, <2>6, <2>7
  <1>10. /\ Tells(SszMerkleize(x, 17), SszMerkleize(v, 17), x, v)
         /\ Tells(SszMerkleize(x \o y, 19), SszMerkleize(v \o w, 19), x \o y, v \o w)
    <2>1. 17 \in Nat /\ 19 \in Nat
      OBVIOUS
    <2> QED BY <1>3, <1>8, <2>1, ContainerTells
  <1>11. /\ SszMerkleize(x, 17) # SszMerkleize(v \o w, 19)
         /\ SszMerkleize(v, 17) # SszMerkleize(x \o y, 19)
    BY <1>3, <1>6, <1>8, ShapesDiffer
  <1>12. x \o y = v \o w => x = v /\ y = w
    <2>1. /\ x \in Words /\ y \in Words /\ v \in Words /\ w \in Words
          /\ Len(x) = Len(v) /\ Len(y) = Len(w)
      BY <1>3, <1>4, <1>5
    <2>2. ASSUME x \o y = v \o w PROVE x = v /\ y = w
      BY <2>1, <2>2, JoinedBind
    <2> QED BY <2>2
  <1>13. \A u : SszRootOfPart(ExecutionPayload(u.shape, max), u)
              = IF u.shape = "Gloas" THEN SszRootOfPart(Container(a \o b), u)
                ELSE SszRootOfPart(Container(a), u)
    BY DEF ExecutionPayload
  <1>14. p.shape \in {"ElectraFulu", "Gloas"} /\ q.shape \in {"ElectraFulu", "Gloas"}
    BY <1>1 DEF Payloads
  <1> HIDE DEF a, b
  <1>15. Tells(SszRootOfPart(ExecutionPayload(p.shape, max), p),
               SszRootOfPart(ExecutionPayload(q.shape, max), q), p, q)
    <2>1. CASE p.shape = "Gloas" /\ q.shape = "Gloas"
      BY <1>3, <1>4, <1>7, <1>9, <1>10, <1>12, <1>13, <2>1 DEF Tells
    <2>2. CASE p.shape = "ElectraFulu" /\ q.shape = "ElectraFulu"
      BY <1>2, <1>3, <1>7, <1>9, <1>10, <1>13, <2>2 DEF Tells
    <2>3. CASE p.shape = "Gloas" /\ q.shape = "ElectraFulu"
      BY <1>9, <1>10, <1>11, <1>13, <2>3 DEF Tells
    <2>4. CASE p.shape = "ElectraFulu" /\ q.shape = "Gloas"
      BY <1>9, <1>10, <1>11, <1>13, <2>4 DEF Tells
    <2> QED BY <1>14, <2>1, <2>2, <2>3, <2>4
  <1> QED BY <1>0, <1>15 DEF p, q, max

\* The execution requests of the legacy schema and those it lacks.
SameLegacy(e, f) ==
    e.deposits = f.deposits /\ e.withdrawals = f.withdrawals
    /\ e.consolidations = f.consolidations

SameBuilder(e, f) ==
    e.builder_deposits = f.builder_deposits /\ e.builder_exits = f.builder_exits

\* The three lists every fork has are told by their roots.
LEMMA LegacyListsTell ==
    ASSUME NEW r \in AllRequests, WithinLimits(r), NEW s \in AllRequests, WithinLimits(s)
    PROVE  LET e == r.execution_requests
               f == s.execution_requests
               x == PartRoots(LegacyListTypes, e)
           IN  /\ x \in Words /\ Len(x) = 3 /\ IsListRoot(x[1]) /\ IsListRoot(x[2])
               /\ x = PartRoots(LegacyListTypes, f) => SameLegacy(e, f)
  <1> DEFINE e == r.execution_requests
             f == s.execution_requests
             D == List(DepositRequest, MAX_DEPOSIT_REQUESTS_PER_PAYLOAD)
             W == List(WithdrawalRequest, MAX_WITHDRAWAL_REQUESTS_PER_PAYLOAD)
             C == List(ConsolidationRequest, MAX_CONSOLIDATION_REQUESTS_PER_PAYLOAD)
             X(u) == <<SszRootOfList(D, u.deposits), SszRootOfList(W, u.withdrawals),
                       SszRootOfList(C, u.consolidations)>>
  <1>1. /\ e.deposits \in Seq(DepositRequests)
        /\ Len(e.deposits) <= MAX_DEPOSIT_REQUESTS_PER_PAYLOAD
        /\ e.withdrawals \in Seq(WithdrawalRequests)
        /\ Len(e.withdrawals) <= MAX_WITHDRAWAL_REQUESTS_PER_PAYLOAD
        /\ e.consolidations \in Seq(ConsolidationRequests)
        /\ Len(e.consolidations) <= MAX_CONSOLIDATION_REQUESTS_PER_PAYLOAD
    BY ExecutionRequestFields
  <1>2. /\ f.deposits \in Seq(DepositRequests)
        /\ Len(f.deposits) <= MAX_DEPOSIT_REQUESTS_PER_PAYLOAD
        /\ f.withdrawals \in Seq(WithdrawalRequests)
        /\ Len(f.withdrawals) <= MAX_WITHDRAWAL_REQUESTS_PER_PAYLOAD
        /\ f.consolidations \in Seq(ConsolidationRequests)
        /\ Len(f.consolidations) <= MAX_CONSOLIDATION_REQUESTS_PER_PAYLOAD
    BY ExecutionRequestFields
  <1> HIDE DEF e, f
  <1>3. /\ ListRootTells(D, e.deposits, f.deposits)
        /\ ListRootTells(W, e.withdrawals, f.withdrawals)
        /\ ListRootTells(C, e.consolidations, f.consolidations)
    BY <1>1, <1>2, DepositsTell, WithdrawalRequestsTell, ConsolidationsTell
  <1>4. IsListRoot(SszRootOfList(D, e.deposits)) /\ IsListRoot(SszRootOfList(W, e.withdrawals))
    <2>1. ItemsTold(DepositRequest, DepositRequests)
          /\ ItemsTold(WithdrawalRequest, WithdrawalRequests)
      BY DepositRequestTells, WithdrawalRequestTells DEF ItemsTold
    <2> QED BY <1>1, <2>1, ListRootsAre, LimitsAreNumbers
  <1>5. \A u : PartRoots(LegacyListTypes, u) = X(u)
    BY DEF PartRoots, LegacyListTypes
  <1> HIDE DEF D, W, C
  <1>6. X(e) \in Words /\ Len(X(e)) = 3 /\ IsListRoot(X(e)[1]) /\ IsListRoot(X(e)[2])
    BY <1>3, <1>4 DEF ListRootTells, Tells, Words
  <1>7. X(e) = X(f) => SameLegacy(e, f)
    BY <1>3 DEF ListRootTells, Tells, SameLegacy
  <1> HIDE DEF X
  <1>8. LET x == PartRoots(LegacyListTypes, e)
        IN  /\ x \in Words /\ Len(x) = 3 /\ IsListRoot(x[1]) /\ IsListRoot(x[2])
            /\ x = PartRoots(LegacyListTypes, f) => SameLegacy(e, f)
    BY <1>5, <1>6, <1>7
  <1> QED BY <1>8 DEF e, f

\* The two lists of the builders are told by their roots.
LEMMA BuilderListsTell ==
    ASSUME NEW r \in AllRequests, WithinLimits(r), NEW s \in AllRequests, WithinLimits(s)
    PROVE  LET e == r.execution_requests
               f == s.execution_requests
               x == PartRoots(BuilderListTypes, e)
           IN  /\ x \in Words /\ Len(x) = 2
               /\ x = PartRoots(BuilderListTypes, f) => SameBuilder(e, f)
  <1> DEFINE e == r.execution_requests
             f == s.execution_requests
             D == List(BuilderDepositRequest, MAX_BUILDER_DEPOSIT_REQUESTS_PER_PAYLOAD)
             E == List(BuilderExitRequest, MAX_BUILDER_EXIT_REQUESTS_PER_PAYLOAD)
             X(u) == <<SszRootOfList(D, u.builder_deposits), SszRootOfList(E, u.builder_exits)>>
  <1>1. /\ e.builder_deposits \in Seq(BuilderDepositRequests)
        /\ Len(e.builder_deposits) <= MAX_BUILDER_DEPOSIT_REQUESTS_PER_PAYLOAD
        /\ e.builder_exits \in Seq(BuilderExitRequests)
        /\ Len(e.builder_exits) <= MAX_BUILDER_EXIT_REQUESTS_PER_PAYLOAD
    BY ExecutionRequestFields
  <1>2. /\ f.builder_deposits \in Seq(BuilderDepositRequests)
        /\ Len(f.builder_deposits) <= MAX_BUILDER_DEPOSIT_REQUESTS_PER_PAYLOAD
        /\ f.builder_exits \in Seq(BuilderExitRequests)
        /\ Len(f.builder_exits) <= MAX_BUILDER_EXIT_REQUESTS_PER_PAYLOAD
    BY ExecutionRequestFields
  <1> HIDE DEF e, f
  <1>3. /\ ListRootTells(D, e.builder_deposits, f.builder_deposits)
        /\ ListRootTells(E, e.builder_exits, f.builder_exits)
    BY <1>1, <1>2, BuilderDepositsTell, BuilderExitsTell
  <1>4. \A u : PartRoots(BuilderListTypes, u) = X(u)
    BY DEF PartRoots, BuilderListTypes
  <1> HIDE DEF D, E
  <1>5. X(e) \in Words /\ Len(X(e)) = 2
    BY <1>3 DEF ListRootTells, Tells, Words
  <1>6. X(e) = X(f) => SameBuilder(e, f)
    BY <1>3 DEF ListRootTells, Tells, SameBuilder
  <1> HIDE DEF X
  <1>7. LET x == PartRoots(BuilderListTypes, e)
        IN  /\ x \in Words /\ Len(x) = 2
            /\ x = PartRoots(BuilderListTypes, f) => SameBuilder(e, f)
    BY <1>4, <1>5, <1>6
  <1> QED BY <1>7 DEF e, f

\* Execution requests, of the legacy schema or with builder requests.
LEMMA ExecutionRequestsTell ==
    ASSUME NEW r \in AllRequests, WithinLimits(r), OfSchema(r),
           NEW s \in AllRequests, WithinLimits(s), OfSchema(s)
    PROVE  LET e == r.execution_requests
               f == s.execution_requests
           IN  Tells(SszRootOfPart(ExecutionRequests(e.has_builder_requests), e),
                     SszRootOfPart(ExecutionRequests(f.has_builder_requests), f), e, f)
  <1> DEFINE e == r.execution_requests
             f == s.execution_requests
             a == LegacyListTypes
             b == BuilderListTypes
             x == PartRoots(a, e)
             y == PartRoots(b, e)
             v == PartRoots(a, f)
             w == PartRoots(b, f)
  <1>1. e \in AllExecutionRequests /\ f \in AllExecutionRequests
    BY DEF AllRequests
  <1>2. /\ ~ e.has_builder_requests => e.builder_deposits = << >> /\ e.builder_exits = << >>
        /\ ~ f.has_builder_requests => f.builder_deposits = << >> /\ f.builder_exits = << >>
    BY DEF OfSchema
  <1>3. /\ x \in Words /\ Len(x) = 3 /\ IsListRoot(x[1]) /\ IsListRoot(x[2])
        /\ x = v => SameLegacy(e, f)
    BY LegacyListsTell
  <1>4. v \in Words /\ Len(v) = 3 /\ IsListRoot(v[1]) /\ IsListRoot(v[2])
    BY LegacyListsTell
  <1>5. y \in Words /\ Len(y) = 2 /\ w \in Words /\ Len(w) = 2 /\ (y = w => SameBuilder(e, f))
    BY BuilderListsTell
  <1> HIDE DEF e, f
  <1>6. ASSUME SameLegacy(e, f), SameBuilder(e, f), e.has_builder_requests = f.has_builder_requests
        PROVE  e = f
    BY <1>1, <1>6 DEF AllExecutionRequests, SameLegacy, SameBuilder
  <1> HIDE DEF x, y, v, w
  <1>7. x[2] \notin Chunk /\ v[2] \notin Chunk
    BY <1>3, <1>4, ListRootIsNoChunk
  <1>8. /\ x \o y \in Words /\ Len(x \o y) = 5 /\ (x \o y)[2] = x[2]
        /\ v \o w \in Words /\ Len(v \o w) = 5 /\ (v \o w)[2] = v[2]
    <2>1. AreJoined(x \o y, x, y) /\ AreJoined(v \o w, v, w)
      BY <1>3, <1>4, <1>5, JoinedWords
    <2>2. 3 + 2 = 5 /\ 2 \in 1..3
      OBVIOUS
    <2>3. \A z, g, h : AreJoined(z, g, h) /\ Len(g) = 3 /\ Len(h) = 2
                          => z \in Words /\ Len(z) = 5 /\ z[2] = g[2]
      BY <2>2 DEF AreJoined
    <2> QED BY <1>3, <1>4, <1>5, <2>1, <2>3
  <1>9. /\ SszRootOfPart(Container(a), e) = SszMerkleize(x, 3)
        /\ SszRootOfPart(Container(a), f) = SszMerkleize(v, 3)
        /\ SszRootOfPart(Container(a \o b), e) = SszMerkleize(x \o y, 5)
        /\ SszRootOfPart(Container(a \o b), f) = SszMerkleize(v \o w, 5)
    <2>1. IsParts(a) /\ Len(a) = 3
      BY DEF IsParts, LegacyListTypes
    <2>2. IsParts(b) /\ Len(b) = 2
      BY DEF IsParts, BuilderListTypes
    <2>3. x = PartRoots(a, e) /\ y = PartRoots(b, e) /\ v = PartRoots(a, f) /\ w = PartRoots(b, f)
      BY DEF x, y, v, w
    <2>4. x \in Nodes /\ y \in Nodes /\ v \in Nodes /\ w \in Nodes
      BY <1>3, <1>4, <1>5, WordsAreNodes
    <2> HIDE DEF a, b
    <2>5. /\ PartRoots(a \o b, e) = x \o y /\ PartRoots(a \o b, f) = v \o w
          /\ Len(a \o b) = Len(a) + Len(b)
      <3>1. /\ PartRoots(a, e) \in Nodes /\ PartRoots(b, e) \in Nodes
            /\ PartRoots(a, f) \in Nodes /\ PartRoots(b, f) \in Nodes
        BY <2>3, <2>4
      <3>2. /\ PartRoots(a \o b, e) \in Nodes
            /\ PartRoots(a \o b, e) = PartRoots(a, e) \o PartRoots(b, e)
            /\ Len(PartRoots(a \o b, e)) = Len(a \o b)
            /\ Len(a \o b) = Len(a) + Len(b)
        BY <2>1, <2>2, <3>1, ConcatenatedParts
      <3>3. PartRoots(a \o b, f) = PartRoots(a, f) \o PartRoots(b, f)
        BY <2>1, <2>2, <3>1, ConcatenatedParts
      <3> QED BY <2>3, <3>2, <3>3
    <2>6. Len(a \o b) = 5
      BY <2>1, <2>2, <2>5
    <2>7. \A g, u : SszRootOfPart(Container(g), u) = SszMerkleize(PartRoots(g, u), Len(g))
      BY PartKinds DEF PartRoots
    <2> QED BY <2>1, <2>3, <2>5, <2>6, <2>7
  <1>10. /\ Tells(SszMerkleize(x, 3), SszMerkleize(v, 3), x, v)
         /\ Tells(SszMerkleize(x \o y, 5), SszMerkleize(v \o w, 5), x \o y, v \o w)
    <2>1. 3 \in Nat /\ 5 \in Nat
      OBVIOUS
    <2> QED BY <1>3, <1>4, <1>8, <2>1, ContainerTells
  <1>11. /\ SszMerkleize(x, 3) # SszMerkleize(v \o w, 5)
         /\ SszMerkleize(v, 3) # SszMerkleize(x \o y, 5)
    BY <1>3, <1>4, <1>7, <1>8, SchemasDiffer
  <1>12. x \o y = v \o w => x = v /\ y = w
    <2>1. /\ x \in Words /\ y \in Words /\ v \in Words /\ w \in Words
          /\ Len(x) = Len(v) /\ Len(y) = Len(w)
      BY <1>3, <1>4, <1>5
    <2>2. ASSUME x \o y = v \o w PROVE x = v /\ y = w
      BY <2>1, <2>2, JoinedBind
    <2> QED BY <2>2
  <1>13. \A u : SszRootOfPart(ExecutionRequests(u.has_builder_requests), u)
              = IF u.has_builder_requests THEN SszRootOfPart(Container(a \o b), u)
                ELSE SszRootOfPart(Container(a), u)
    BY DEF ExecutionRequests
  <1>14. e.has_builder_requests \in BOOLEAN /\ f.has_builder_requests \in BOOLEAN
    BY <1>1 DEF AllExecutionRequests
  <1> HIDE DEF a, b
  <1>15. Tells(SszRootOfPart(ExecutionRequests(e.has_builder_requests), e),
               SszRootOfPart(ExecutionRequests(f.has_builder_requests), f), e, f)
    <2>1. CASE e.has_builder_requests /\ f.has_builder_requests
      BY <1>3, <1>5, <1>6, <1>9, <1>10, <1>12, <1>13, <1>14, <2>1 DEF Tells
    <2>2. CASE ~ e.has_builder_requests /\ ~ f.has_builder_requests
      <3>1. SameBuilder(e, f)
        BY <1>2, <2>2 DEF SameBuilder
      <3> QED BY <1>3, <1>6, <1>9, <1>10, <1>13, <1>14, <2>2, <3>1 DEF Tells
    <2>3. CASE e.has_builder_requests /\ ~ f.has_builder_requests
      BY <1>9, <1>10, <1>11, <1>13, <2>3 DEF Tells
    <2>4. CASE ~ e.has_builder_requests /\ f.has_builder_requests
      BY <1>9, <1>10, <1>11, <1>13, <2>4 DEF Tells
    <2> QED BY <1>14, <2>1, <2>2, <2>3, <2>4
  <1> QED BY <1>15 DEF e, f

-----------------------------------------------------------------------------
\* No two requests within their limits have the same root.
LEMMA RequestTells ==
    ASSUME NEW r \in AllRequests, WithinLimits(r), OfSchema(r),
           NEW s \in AllRequests, WithinLimits(s), OfSchema(s)
    PROVE  Tells(SszRoot(NewPayloadRequest(r), r), SszRoot(NewPayloadRequest(s), s), r, s)
  <1> DEFINE P(u) == SszRootOfPart(ExecutionPayload(u.execution_payload.shape,
                                                    u.execution_payload.bal_htr_limit),
                                   u.execution_payload)
             H(u) == SszRootOfPart(List(Bytes, MAX_BLOB_COMMITMENTS_PER_BLOCK),
                                   u.versioned_hashes)
             B(u) == SszRootOfPart(Bytes, u.parent_beacon_block_root)
             E(u) == SszRootOfPart(ExecutionRequests(u.execution_requests.has_builder_requests),
                                   u.execution_requests)
             X(u) == <<P(u), H(u), B(u), E(u)>>
  <1>1. \A u : SszRoot(NewPayloadRequest(u), u) = SszMerkleize(X(u), 4)
    <2> TAKE u
    <2> DEFINE fields == <<<<"execution_payload",
                             ExecutionPayload(u.execution_payload.shape,
                                              u.execution_payload.bal_htr_limit)>>,
                           <<"versioned_hashes", List(Bytes, MAX_BLOB_COMMITMENTS_PER_BLOCK)>>,
                           <<"parent_beacon_block_root", Bytes>>,
                           <<"execution_requests",
                             ExecutionRequests(u.execution_requests.has_builder_requests)>>>>
               roots  == [i \in DOMAIN fields |-> SszRootOfPart(fields[i][2], u[fields[i][1]])]
    <2>1. NewPayloadRequest(u) = Container(fields)
      BY DEF NewPayloadRequest
    <2>2. roots = X(u) /\ Len(fields) = 4
      OBVIOUS
    <2>3. SszRoot(Container(fields), u) = SszMerkleize(roots, Len(fields))
      BY RequestKind
    <2> HIDE DEF fields, roots, X
    <2> QED BY <2>1, <2>2, <2>3
  <1>2. ASSUME NEW u \in AllRequests, WithinLimits(u), OfSchema(u) PROVE P(u) \in Word
    BY <1>2, PayloadTells DEF Tells
  <1>3. Tells(H(r), H(s), r.versioned_hashes, s.versioned_hashes)
    <2>1. r.versioned_hashes \in Seq(Hash32) /\ s.versioned_hashes \in Seq(Hash32)
      BY DEF AllRequests
    <2>2. /\ Len(r.versioned_hashes) <= MAX_BLOB_COMMITMENTS_PER_BLOCK
          /\ Len(s.versioned_hashes) <= MAX_BLOB_COMMITMENTS_PER_BLOCK
      BY DEF WithinLimits
    <2> QED BY <2>1, <2>2, VersionedHashesTell DEF PartRootTells
  <1>4. Tells(B(r), B(s), r.parent_beacon_block_root, s.parent_beacon_block_root)
    <2>1. r.parent_beacon_block_root \in Vector(BYTES_PER_CHUNK)
          /\ s.parent_beacon_block_root \in Vector(BYTES_PER_CHUNK)
      BY DEF AllRequests, Hash32
    <2> QED BY <2>1, SizesAreNumbers, VectorTells DEF PartRootTells
  <1>5. Tells(E(r), E(s), r.execution_requests, s.execution_requests)
    BY ExecutionRequestsTell
  <1>6. ASSUME r.execution_requests = s.execution_requests
        PROVE  Tells(P(r), P(s), r.execution_payload, s.execution_payload)
    <2>1. r.execution_payload.bal_htr_limit = s.execution_payload.bal_htr_limit
      BY <1>6 DEF OfSchema
    <2> QED BY <2>1, PayloadTells
  <1>7. P(r) \in Word /\ P(s) \in Word
    BY <1>2
  <1> HIDE DEF P, H, B, E
  <1>8. X(r) \in Words /\ X(s) \in Words /\ Len(X(r)) = 4 /\ Len(X(s)) = 4
    BY <1>3, <1>4, <1>5, <1>7 DEF Tells, Words
  <1>9. ASSUME X(r) = X(s) PROVE r = s
    <2>1. P(r) = P(s) /\ H(r) = H(s) /\ B(r) = B(s) /\ E(r) = E(s)
      BY <1>9
    <2>2. /\ r.versioned_hashes = s.versioned_hashes
          /\ r.parent_beacon_block_root = s.parent_beacon_block_root
          /\ r.execution_requests = s.execution_requests
      BY <1>3, <1>4, <1>5, <2>1 DEF Tells
    <2>3. r.execution_payload = s.execution_payload
      BY <1>6, <2>1, <2>2 DEF Tells
    <2> QED BY <2>2, <2>3 DEF AllRequests
  <1> HIDE DEF X
  <1>10. Tells(SszMerkleize(X(r), 4), SszMerkleize(X(s), 4), X(r), X(s))
    <2>1. 4 \in Nat
      OBVIOUS
    <2> QED BY <1>8, <2>1, ContainerTells
  <1> QED BY <1>1, <1>9, <1>10 DEF Tells

\* Guests are given requests of the set.
GivenInv == IsSequence(runs) /\ \A i \in DOMAIN runs : runs[i].request \in Requests

\* A run is given a request and yields its root; the other steps leave the runs
\* alone.
LEMMA GivenStep == GivenInv /\ [RequestNext]_requestVars => GivenInv'
  <1> SUFFICES ASSUME GivenInv, [RequestNext]_requestVars PROVE GivenInv'
    OBVIOUS
  <1>1. CASE runs' = runs
    BY <1>1 DEF GivenInv, IsSequence
  <1>2. ASSUME NEW r \in Requests, Commit(r) PROVE GivenInv'
    <2> DEFINE run == [request |-> r, root |-> htr_new_payload_request(r)]
               n   == Len(runs)
    <2>1. runs' = Append(runs, run) /\ run.request = r
      BY <1>2 DEF Commit
    <2> HIDE DEF run
    <2>2. /\ n \in Nat /\ DOMAIN runs = 1..n /\ DOMAIN runs' = 1..(n + 1)
          /\ \A i \in 1..n : runs'[i] = runs[i]
          /\ runs'[n + 1] = run /\ IsSequence(runs')
      <3> DEFINE T == {runs[i] : i \in DOMAIN runs} \cup {run}
      <3>1. runs \in Seq(T) /\ run \in T
        BY DEF GivenInv, IsSequence
      <3> HIDE DEF T
      <3>2. runs' \in Seq(T)
        BY <2>1, <3>1
      <3>3. \A q \in Seq(T) : q \in Seq({q[i] : i \in DOMAIN q})
        OBVIOUS
      <3> QED BY <2>1, <3>1, <3>2, <3>3 DEF IsSequence
    <2> HIDE DEF n
    <2>3. ASSUME NEW i \in DOMAIN runs' PROVE runs'[i].request \in Requests
      <3>1. CASE i \in 1..n
        BY <2>2, <3>1 DEF GivenInv
      <3>2. CASE i = n + 1
        BY <2>1, <2>2, <3>2
      <3> QED BY <2>2, <3>1, <3>2
    <2> QED BY <2>2, <2>3 DEF GivenInv
  <1> QED BY <1>1, <1>2 DEF RequestNext, MerkleizeList, AllRun, requestVars

\* Guests that commit to the same root were given the same request, when no list
\* they are given is longer than its limit: no field, item, length, payload shape
\* or schema is lost on the way to the root (stateless.cpp:470-604, ssz.hpp:105-256).
THEOREM RequestsBound ==
    ASSUME \A r \in Requests : WithinLimits(r)
    PROVE  RequestSpec => []RootBindsRequest
  <1>1. RequestInit => GivenInv
    BY DEF RequestInit, GivenInv, IsSequence
  <1>2. GivenInv /\ RootsMatchSsz => RootBindsRequest
    <2> SUFFICES ASSUME GivenInv, RootsMatchSsz, NEW i \in DOMAIN runs, NEW j \in DOMAIN runs,
                        runs[i].root = runs[j].root
                 PROVE  runs[i].request = runs[j].request
      BY DEF RootBindsRequest
    <2> DEFINE r == runs[i].request
               s == runs[j].request
    <2>1. r \in Requests /\ s \in Requests
      BY DEF GivenInv
    <2>2. /\ r \in AllRequests /\ WithinLimits(r) /\ OfSchema(r)
          /\ s \in AllRequests /\ WithinLimits(s) /\ OfSchema(s)
      BY <2>1, RequestsAssumption
    <2>3. SszRoot(NewPayloadRequest(r), r) = SszRoot(NewPayloadRequest(s), s)
      BY <2>2 DEF RootsMatchSsz
    <2> HIDE DEF r, s
    <2>4. r = s
      BY <2>2, <2>3, RequestTells DEF Tells
    <2> QED BY <2>4 DEF r, s
  <1> QED BY <1>1, <1>2, GivenStep, RequestRoots, PTL DEF RequestSpec

-----------------------------------------------------------------------------
(***************************************************************************)
(* The post-state root of a block that removes no account, for any number  *)
(* of accounts, slots and words.  The invariant says that the updates are  *)
(* those of the accounts visited so far; the lemma on StorageRoot says     *)
(* that each carries the storage after the block.                          *)
(***************************************************************************)
Updating(a) == post[a] # None /\ ~ Unchanged(a)

\* What Init says of the block.
BlockOK ==
    /\ pre \in States /\ post \in States
    /\ accChanges \subseteq Address
    /\ \A a \in Address :
        /\ \A k \in Key : SlotOf(pre, a, k) # SlotOf(post, a, k) => k \in storChanges[a]
        /\ pre[a] # post[a] => a \in accChanges
    /\ \A a \in Address : storChanges[a] \subseteq Key

UpdatesOK ==
    /\ todo \subseteq accChanges
    /\ updates = {<<a, Leaf(post[a].info, StorageRoot(a))>> :
                    a \in {b \in accChanges \ todo : Updating(b)}}

IInv ==
    /\ BlockOK
    /\ UpdatesOK
    /\ root # << >> => todo = {} /\ root = <<Updated(StateTrie(pre))>>

-----------------------------------------------------------------------------
LEMMA AccountFacts ==
    ASSUME NEW s \in States, NEW a \in Address, s[a] # None
    PROVE  s[a].info # DefaultInfo
  BY DEF States

\* The storage of an update is that of the account after the block.
LEMMA StorageRootIsPost ==
    ASSUME BlockOK, NEW a \in Address, post[a] # None
    PROVE  StorageRoot(a).slots = TrieOf(post[a].storage)
  <1> DEFINE old == RootBefore(a).slots
             new == TrieOf(post[a].storage)
  <1>1. old = {<<k, SlotOf(pre, a, k)>> : k \in {l \in Key : SlotOf(pre, a, l) # Zero}}
    BY DEF RootBefore, ZeroRoot, Root, TrieOf, SlotOf
  <1>2. new = {<<k, SlotOf(post, a, k)>> : k \in {l \in Key : SlotOf(post, a, l) # Zero}}
    BY DEF TrieOf, SlotOf
  <1>3. SlotUpdates(a) = {k \in Key : SlotOf(pre, a, k) # SlotOf(post, a, k)}
    BY DEF SlotUpdates, BlockOK
  <1>4. CASE SlotUpdates(a) = {}
    <2>1. \A k \in Key : SlotOf(pre, a, k) = SlotOf(post, a, k)
      BY <1>3, <1>4
    <2>2. old = new
      BY <1>1, <1>2, <2>1
    <2> QED BY <1>4, <2>2 DEF StorageRoot
  <1>5. CASE SlotUpdates(a) # {}
    <2> DEFINE kept    == {s \in old : s[1] \notin SlotUpdates(a)}
               written == {<<k, SlotOf(post, a, k)>> :
                              k \in {l \in SlotUpdates(a) : SlotOf(post, a, l) # Zero}}
    <2>1. StorageRoot(a).slots = kept \cup written
      BY <1>5 DEF StorageRoot, Root
    <2>2. kept = {<<k, SlotOf(post, a, k)>> :
                    k \in {l \in Key \ SlotUpdates(a) : SlotOf(post, a, l) # Zero}}
      BY <1>1, <1>3
    <2>3. kept \cup written = new
      BY <1>2, <1>3, <2>2
    <2> QED BY <2>1, <2>3
  <1> QED BY <1>4, <1>5

\* Once every changed account has been visited, the updated trie is the state
\* after the block, account by account.
LEMMA UpdatedIsPost ==
    ASSUME IInv, todo = {}, RemovedAccounts = {}
    PROVE  Updated(StateTrie(pre)) = StateTrie(post)
  <1> USE DEF IInv, Updating
  <1> DEFINE Live(s) == {a \in Address : s[a] # None}
  <1>1. updates = {<<a, Leaf(post[a].info, StorageRoot(a))>> :
                      a \in {b \in accChanges : Updating(b)}}
    BY DEF UpdatesOK
  <1>2. {u[1] : u \in updates} = {a \in accChanges : Updating(a)}
    <2> HIDE DEF Updating, IInv
    <2>1. ASSUME NEW a \in accChanges, Updating(a)
          PROVE  a \in {u[1] : u \in updates}
      <3>1. <<a, Leaf(post[a].info, StorageRoot(a))>> \in updates
        BY <1>1, <2>1
      <3> QED BY <3>1
    <2>2. \A u \in updates : u[1] \in {a \in accChanges : Updating(a)}
      BY <1>1
    <2> QED BY <2>1, <2>2
  <1>3. DOMAIN StateTrie(pre) = Live(pre) /\ DOMAIN StateTrie(post) = Live(post)
    BY DEF StateTrie
  <1>4. Live(pre) \cup {a \in accChanges : Updating(a)} = Live(post)
    <2>1. Live(pre) \subseteq Live(post)
      BY DEF RemovedAccounts
    <2>2. {a \in accChanges : Updating(a)} \subseteq Live(post)
      BY DEF BlockOK
    <2>3. ASSUME NEW a \in Live(post), a \notin Live(pre)
          PROVE  a \in accChanges /\ Updating(a)
      <3>1. a \in accChanges
        BY <2>3 DEF BlockOK
      <3>2. post[a].info # DefaultInfo
        BY AccountFacts DEF BlockOK
      <3> QED BY <2>3, <3>1, <3>2 DEF Unchanged, InfoBefore
    <2> QED BY <2>1, <2>2, <2>3
  <1>5. ASSUME NEW a \in Live(post)
        PROVE  (IF \E u \in updates : u[1] = a
                THEN (CHOOSE u \in updates : u[1] = a)[2] ELSE StateTrie(pre)[a])
               = Leaf(post[a].info, Root(TrieOf(post[a].storage)))
    <2>1. Leaf(post[a].info, StorageRoot(a))
            = Leaf(post[a].info, Root(TrieOf(post[a].storage)))
      BY StorageRootIsPost DEF Leaf, Root
    <2>2. CASE a \in accChanges /\ Updating(a)
      <3> DEFINE mine == <<a, Leaf(post[a].info, StorageRoot(a))>>
      <3>1. mine \in updates /\ \A u \in updates : u[1] = a => u = mine
        BY <1>1, <2>2
      <3>2. (CHOOSE u \in updates : u[1] = a) = mine
        BY <3>1
      <3> QED BY <2>1, <3>1, <3>2
    <2>3. CASE ~ (a \in accChanges /\ Updating(a))
      <3>1. ~ \E u \in updates : u[1] = a
        BY <1>1, <2>3
      <3>2. a \in Live(pre)
        BY <1>4, <2>3
      <3>3. StateTrie(pre)[a] = Leaf(pre[a].info, Root(TrieOf(pre[a].storage)))
        BY <3>2 DEF StateTrie
      <3>4. CASE a \notin accChanges
        BY <3>1, <3>3, <3>4 DEF BlockOK
      <3>5. CASE Unchanged(a)
        <4>1. post[a].info = pre[a].info /\ StorageRoot(a) = Root(TrieOf(pre[a].storage))
          BY <3>2, <3>5 DEF Unchanged, InfoBefore, RootBefore
        <4> QED BY <2>1, <3>1, <3>3, <4>1
      <3> QED BY <2>3, <3>4, <3>5
    <2> QED BY <2>2, <2>3
  <1>6. Updated(StateTrie(pre))
          = [a \in Live(post) |-> IF \E u \in updates : u[1] = a
                                  THEN (CHOOSE u \in updates : u[1] = a)[2]
                                  ELSE StateTrie(pre)[a]]
    BY <1>2, <1>3, <1>4, Zenon DEF Updated
  <1>7. StateTrie(post) = [a \in Live(post) |-> Leaf(post[a].info, Root(TrieOf(post[a].storage)))]
    BY DEF StateTrie
  <1> QED BY <1>5, <1>6, <1>7

-----------------------------------------------------------------------------
LEMMA InitIInv == Init => IInv
  <1> SUFFICES ASSUME Init PROVE IInv
    OBVIOUS
  <1>1. BlockOK
    BY DEF Init, BlockOK
  <1>2. todo = accChanges /\ updates = {} /\ root = << >>
    BY DEF Init
  <1>3. UpdatesOK
    BY <1>2 DEF UpdatesOK
  <1> QED BY <1>1, <1>2, <1>3 DEF IInv

\* No step changes the block or what is computed from it.
LEMMA SameBlock ==
    ASSUME UNCHANGED <<pre, post, accChanges, storChanges>>
    PROVE  /\ BlockOK => BlockOK'
           /\ \A a : Updating(a)' = Updating(a) /\ StorageRoot(a)' = StorageRoot(a)
  <1>1. BlockOK => BlockOK'
    BY DEF BlockOK, SlotOf
  <1>2. \A a : Updating(a)' = Updating(a) /\ StorageRoot(a)' = StorageRoot(a)
    BY DEF Updating, Unchanged, InfoBefore, RootBefore, StorageRoot, SlotUpdates, SlotOf
  <1> QED BY <1>1, <1>2

\* A step that visits no account.
LEMMA SameUpdates ==
    ASSUME UNCHANGED <<pre, post, accChanges, storChanges, todo, updates>>
    PROVE  /\ BlockOK /\ UpdatesOK => BlockOK' /\ UpdatesOK'
           /\ Updated(StateTrie(pre))' = Updated(StateTrie(pre))
  <1>1. UpdatesOK => UpdatesOK'
    BY SameBlock DEF UpdatesOK
  <1>2. Updated(StateTrie(pre))' = Updated(StateTrie(pre))
    BY DEF Updated, StateTrie
  <1> QED BY <1>1, <1>2, SameBlock

LEMMA VisitInv ==
    ASSUME IInv, NEW v \in Address, VisitAccount(v)
    PROVE  IInv'
  <1>1. UNCHANGED <<pre, post, accChanges, storChanges, root>>
    BY DEF VisitAccount
  <1>2. v \in todo /\ todo' = todo \ {v} /\ root = << >> /\ todo \subseteq accChanges
    BY DEF VisitAccount, IInv, UpdatesOK
  <1>3. BlockOK'
    BY <1>1, SameBlock DEF IInv
  <1>4. \A a : Updating(a)' = Updating(a) /\ StorageRoot(a)' = StorageRoot(a)
    BY <1>1, SameBlock
  <1> DEFINE leaf(a) == <<a, Leaf(post[a].info, StorageRoot(a))>>
  <1>5. updates = {leaf(a) : a \in {b \in accChanges \ todo : Updating(b)}}
    BY DEF IInv, UpdatesOK
  <1>6. updates' = IF Updating(v) THEN updates \cup {leaf(v)} ELSE updates
    BY DEF VisitAccount, Updating
  <1>7. updates' = {leaf(a) : a \in {b \in accChanges \ todo' : Updating(b)}}
    <2>1. accChanges \ todo' = (accChanges \ todo) \cup {v}
      BY <1>2
    <2> HIDE DEF leaf
    <2> QED BY <1>5, <1>6, <2>1
  <1>8. UpdatesOK'
    BY <1>1, <1>2, <1>4, <1>7 DEF UpdatesOK
  <1> QED BY <1>1, <1>2, <1>3, <1>8 DEF IInv

LEMMA ComputeInv == IInv /\ ComputeRoot => IInv'
  <1> SUFFICES ASSUME IInv, ComputeRoot PROVE IInv'
    OBVIOUS
  <1>1. UNCHANGED <<pre, post, accChanges, storChanges, todo, updates>>
        /\ todo = {} /\ root' = <<Updated(StateTrie(pre))>>
    BY DEF ComputeRoot
  <1>2. root' = <<Updated(StateTrie(pre))'>>
    BY <1>1, SameUpdates
  <1> QED BY <1>1, <1>2, SameUpdates DEF IInv

LEMMA StepInv == IInv /\ [Next]_vars => IInv'
  <1> SUFFICES ASSUME IInv, [Next]_vars PROVE IInv'
    OBVIOUS
  <1>1. CASE UNCHANGED vars
    BY <1>1, SameUpdates DEF vars, IInv
  <1>2. CASE Compared
    BY <1>1, <1>2 DEF Compared
  <1> QED BY <1>1, <1>2, VisitInv, ComputeInv DEF Next

\* When the block removes no account of the parent's state, the root that
\* run_stateless_guest compares with the header's is that of the state after
\* the block, for every block and every list of changes.
THEOREM PostStateRoot == Spec => []RootWithoutRemovals
  <1>1. IInv => RootWithoutRemovals
    BY UpdatedIsPost DEF RootWithoutRemovals, RootIsPostState, IInv
  <1> QED BY <1>1, InitIInv, StepInv, PTL DEF Spec
=============================================================================
