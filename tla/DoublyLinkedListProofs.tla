------------------------ MODULE DoublyLinkedListProofs ----------------------
(***************************************************************************)
(* Proofs about DoublyLinkedList, for any finite set of members, any lists *)
(* and any data, and with allocations that fail: no call leaks or loses a  *)
(* node, every pointer leads to a node that is allocated, and the nodes    *)
(* implement the sequences of IteratorLists.                               *)
(*                                                                         *)
(* A list is a chain: its nodes are numbered, and the numbers say what     *)
(* they point to.  The invariant is that such chains exist and cover the   *)
(* heap.  Each function changes one or two of them at one place, and a     *)
(* walk along a chain is read off from its numbers, by induction over the  *)
(* set of the numbers of turns after which the walk is where it should be. *)
(***************************************************************************)
EXTENDS DoublyLinkedList, SequenceTheorems, FiniteSetTheorems, WellFoundedInduction, TLAPS

\* a numbers the nodes of list l in the heap h: the head dummy, n members, the
\* tail dummy, and NULL from there on.
IsChain(a, n, l, h) ==
    /\ n \in Nat
    /\ a[0] = HeadOf(l) /\ a[n + 1] = TailOf(l)
    /\ \A i \in 1..n : a[i] \in Node
    /\ \A i \in Nat : i > n + 1 => a[i] = Null
    /\ \A i \in 0..(n + 1) : /\ a[i] \in DOMAIN h
                             /\ h[a[i]].next = a[i + 1]
                             /\ h[a[i]].pre = IF i = 0 THEN Null ELSE a[i - 1]
    /\ \A i, j \in 0..(n + 1) : a[i] = a[j] => i = j

\* at numbers the nodes of every list, of which list l has len[l] members; no
\* node is in two lists, and every node is in one.
AreChains(at, len, made, h) ==
    /\ \A l \in made : IsChain(at[l], len[l], l, h)
    /\ \A l, k \in made : \A i \in 0..(len[l] + 1), j \in 0..(len[k] + 1) :
          at[l][i] = at[k][j] => l = k
    /\ \A x \in DOMAIN h : \E l \in made : \E i \in 0..(len[l] + 1) : x = at[l][i]

\* r is a node, whatever it points to.
IsNode(r) == r.data \in Data \cup {Null} /\ r = [next |-> r.next, pre |-> r.pre, data |-> r.data]
AreNodes(h) == \A x \in DOMAIN h : IsNode(h[x])

HeapInv ==
    /\ created \subseteq List
    /\ IsFiniteSet(DOMAIN heap)
    /\ AreNodes(heap)
    /\ \E at, len : AreChains(at, len, created, heap)

-----------------------------------------------------------------------------
(* Walking along a chain *)

\* A set of numbers with 0 and, with a number, the next one has all of them.
LEMMA NatSetInduction ==
    ASSUME NEW N0 \in SUBSET Nat, 0 \in N0, \A m \in N0 : m + 1 \in N0
    PROVE  N0 = Nat
  <1>. DEFINE Less == {p \in Nat \X Nat : p[1] < p[2]}
  <1>1. IsWellFoundedOn(Less, Nat)
    BY NatLessThanWellFounded, Zenon DEF OpToRel
  <1>2. SUFFICES ASSUME Nat \ N0 # {}
                 PROVE  FALSE
    OBVIOUS
  <1>3. PICK x \in Nat \ N0 : \A y \in Nat \ N0 : ~(<<y, x>> \in Less)
    <2>1. Nat \ N0 \subseteq Nat
      OBVIOUS
    <2>. HIDE DEF Less
    <2>. QED BY <1>1, <1>2, <2>1, WFMin
  <1>4. x \in Nat /\ x # 0
    BY <1>3
  <1>5. x - 1 \in Nat /\ <<x - 1, x>> \in Less
    BY <1>4
  <1>6. x - 1 \in N0
    BY <1>3, <1>5
  <1>7. (x - 1) + 1 \in N0
    BY <1>6
  <1>. QED BY <1>3, <1>4, <1>7

\* What the loop does in one turn.
Follow(x) == IF x \in DOMAIN heap THEN heap[x].next ELSE Null

\* f is where the runner is after every turn up to the b-th.
IsWalk(f, from, b) ==
    f = [k \in 0..b |->
            IF k = 0 THEN from
            ELSE IF f[k - 1] \in DOMAIN heap THEN heap[f[k - 1]].next ELSE Null]

Walk(from) == CHOOSE f : IsWalk(f, from, Cardinality(DOMAIN heap))

\* A chain has a length.
LEMMA ChainLength ==
    ASSUME NEW a, NEW n, NEW l, NEW h, IsChain(a, n, l, h)
    PROVE  n \in Nat
  BY DEF IsChain

\* A chain is not longer than the heap has nodes.
LEMMA ChainFits ==
    ASSUME IsFiniteSet(DOMAIN heap), NEW a, NEW n, NEW l, IsChain(a, n, l, heap)
    PROVE  Cardinality(DOMAIN heap) \in Nat /\ n + 2 <= Cardinality(DOMAIN heap)
  <1> DEFINE f == [i \in 0..(n + 1) |-> a[i]]
  <1>1. f \in Injection(0..(n + 1), DOMAIN heap)
    BY DEF IsChain, Injection, IsInjective
  <1>2. n \in Nat /\ IsFiniteSet(0..(n + 1)) /\ Cardinality(0..(n + 1)) = n + 2
    <2>1. n \in Nat
        BY DEF IsChain
    <2> QED BY <2>1, FS_Interval
  <1>3. Cardinality(0..(n + 1)) <= Cardinality(DOMAIN heap)
    BY <1>1, FS_Injection
  <1> QED BY <1>2, <1>3, FS_CardinalityType

\* A runner that starts at the i-th node of a chain is at the i+k-th after k
\* turns.
LEMMA WalkIs ==
    ASSUME IsFiniteSet(DOMAIN heap), Null \notin DOMAIN heap,
           NEW a, NEW n, NEW l, IsChain(a, n, l, heap), NEW i \in 0..(n + 1)
    PROVE  Walk(a[i]) = [k \in 0..Cardinality(DOMAIN heap) |-> a[i + k]]
  <1> DEFINE b == Cardinality(DOMAIN heap)
             g == [k \in 0..b |-> a[i + k]]
             f == Walk(a[i])
             Same == {k \in Nat : k \in 0..b => f[k] = a[i + k]}
  <1>0. b \in Nat /\ n \in Nat
    BY ChainFits, ChainLength
  <1> HIDE DEF b
  <1>1. b \in Nat /\ n \in Nat /\ i \in Nat /\ i + 0 = i
    BY <1>0
  <1>2. ASSUME NEW k \in Nat
        PROVE  Follow(a[i + k]) = a[i + k + 1]
    <2>1. CASE i + k <= n + 1
        BY <1>1, <2>1 DEF IsChain, Follow
    <2>2. CASE i + k > n + 1
        BY <1>1, <2>2 DEF IsChain, Follow
    <2> QED BY <1>1, <2>1, <2>2
  <1> HIDE DEF b
  <1>3. IsWalk(g, a[i], b)
    <2>1. ASSUME NEW k \in 0..b
          PROVE  g[k] = IF k = 0 THEN a[i] ELSE Follow(g[k - 1])
        <3>1. CASE k = 0
            BY <1>1, <3>1
        <3>2. CASE k # 0
            <4>1. k - 1 \in Nat /\ k - 1 \in 0..b /\ i + (k - 1) + 1 = i + k
                BY <1>1, <3>2
            <4>2. Follow(a[i + (k - 1)]) = a[i + k]
                BY <1>2, <4>1
            <4>3. g[k] = a[i + k] /\ g[k - 1] = a[i + (k - 1)]
                BY <4>1
            <4> HIDE DEF g
            <4> QED BY <3>2, <4>2, <4>3
        <3> QED BY <3>1, <3>2
    <2>2. g = [k \in 0..b |-> IF k = 0 THEN a[i] ELSE Follow(g[k - 1])]
        BY <2>1
    <2> HIDE DEF g
    <2> QED BY <2>2 DEF IsWalk, Follow
  <1>4. IsWalk(f, a[i], b)
    BY <1>3, Zenon DEF Walk, b
  <1> HIDE DEF f, g
  <1>5. f = [k \in 0..b |-> IF k = 0 THEN a[i] ELSE Follow(f[k - 1])]
    BY <1>4 DEF IsWalk, Follow
  <1>6. 0 \in Same
    BY <1>1, <1>5
  <1>7. ASSUME NEW k \in Same
        PROVE  k + 1 \in Same
    <2> SUFFICES ASSUME k + 1 \in 0..b
                 PROVE  f[k + 1] = a[i + (k + 1)]
        BY <1>7
    <2>1. k \in Nat /\ k \in 0..b /\ k + 1 # 0 /\ (k + 1) - 1 = k /\ i + (k + 1) = i + k + 1
        BY <1>1, <1>7
    <2>2. f[k + 1] = Follow(f[k])
        BY <1>5, <2>1
    <2>3. f[k] = a[i + k]
        BY <1>7, <2>1
    <2> QED BY <1>2, <2>1, <2>2, <2>3
  <1>8. Same = Nat
    <2> Same \in SUBSET Nat
        OBVIOUS
    <2> HIDE DEF Same
    <2> QED BY <1>6, <1>7, NatSetInduction
  <1>9. \A k \in 0..b : f[k] = a[i + k]
    BY <1>1, <1>8
  <1>10. f = [k \in 0..b |-> f[k]]
    BY <1>5
  <1> QED BY <1>9, <1>10 DEF f, b

\* The nodes from the i-th of a chain to the one before the j-th, which may be
\* the NULL behind the tail.
LEMMA PathIs ==
    ASSUME IsFiniteSet(DOMAIN heap), Null \notin DOMAIN heap,
           NEW a, NEW n, NEW l, IsChain(a, n, l, heap),
           NEW i \in 0..(n + 1), NEW j \in i..(n + 2)
    PROVE  Path(a[i], a[j]) = [k \in 1..(j - i) |-> a[i + k - 1]]
  <1> DEFINE b == Cardinality(DOMAIN heap)
             f == Walk(a[i])
             stops == {k \in 0..b : f[k] = a[j]}
  <1>0. b \in Nat /\ n \in Nat /\ n + 2 <= b
    BY ChainFits, ChainLength
  <1> HIDE DEF b
  <1>1. b \in Nat /\ n \in Nat /\ i \in Nat /\ j \in Nat /\ n + 2 <= b /\ j - i \in 0..b
    BY <1>0
  <1>2. f = [k \in 0..b |-> a[i + k]]
    BY WalkIs DEF b
  <1>3. Path(a[i], a[j]) =
            [k \in 1..(IF stops = {} THEN b ELSE Min(stops)) |-> f[k - 1]]
    BY Zenon DEF Path, Walk, IsWalk, b
  <1> HIDE DEF b, f
  <1>4. j - i \in stops
    BY <1>1, <1>2
  <1>5. ASSUME NEW k \in stops
        PROVE  j - i <= k
    <2>1. k \in 0..b /\ a[i + k] = a[j]
        BY <1>2
    <2>2. a[n + 2] = Null /\ \A m \in 0..(n + 1) : a[m] # Null
        BY <1>1 DEF IsChain
    <2>3. CASE j = n + 2
        <3> SUFFICES ASSUME k < j - i
                     PROVE  FALSE
            BY <1>1, <2>1
        <3> QED BY <1>1, <2>1, <2>2, <2>3
    <2>4. CASE j # n + 2 /\ i + k <= n + 1
        BY <1>1, <2>1, <2>4 DEF IsChain
    <2>5. CASE j # n + 2 /\ i + k > n + 1
        BY <1>1, <2>1, <2>5
    <2> QED BY <1>1, <2>1, <2>3, <2>4, <2>5
  <1>6. Min(stops) = j - i
    <2>1. stops \subseteq Int
        BY <1>1
    <2> HIDE DEF stops
    <2>2. Min(stops) \in stops /\ \A k \in stops : Min(stops) <= k
        BY <1>4, <1>5 DEF Min
    <2>3. Min(stops) <= j - i /\ j - i <= Min(stops) /\ Min(stops) \in Int
        BY <1>4, <1>5, <2>1, <2>2
    <2> QED BY <1>1, <2>3
  <1>7. Path(a[i], a[j]) = [k \in 1..(j - i) |-> f[k - 1]]
    BY <1>3, <1>4, <1>6
  <1>8. ASSUME NEW k \in 1..(j - i)
        PROVE  f[k - 1] = a[i + k - 1]
    BY <1>1, <1>2
  <1> QED BY <1>7, <1>8

\* No node is at NULL, and the dummies are told apart from each other and from
\* members.
LEMMA Addresses ==
    ASSUME HeapInv
    PROVE  /\ TypeOK
           /\ Null \notin DOMAIN heap
           /\ created \subseteq List
           /\ \A l, k \in List : /\ HeadOf(l) \notin Node /\ TailOf(l) \notin Node
                                 /\ HeadOf(l) # TailOf(k)
                                 /\ HeadOf(l) = HeadOf(k) => l = k
                                 /\ TailOf(l) = TailOf(k) => l = k
  <1>1. Null \notin Address
    BY DoublyLinkedListAssumption DEF Address
  <1>2. \A l \in List : HeadOf(l) \notin Node /\ TailOf(l) \notin Node
    BY DoublyLinkedListAssumption
  <1>3. \A l, k \in List : /\ HeadOf(l) # TailOf(k)
                           /\ HeadOf(l) = HeadOf(k) => l = k
                           /\ TailOf(l) = TailOf(k) => l = k
    BY DEF HeadOf, TailOf
  <1>4. TypeOK
    <2>1. PICK at, len : AreChains(at, len, created, heap)
        BY DEF HeapInv
    <2>2. ASSUME NEW x \in DOMAIN heap
          PROVE  /\ x \in Address
                 /\ heap[x].next \in DOMAIN heap \cup {Null}
                 /\ heap[x].pre \in DOMAIN heap \cup {Null}
        <3>1. PICK l \in created : \E i \in 0..(len[l] + 1) : x = at[l][i]
            BY <2>1 DEF AreChains
        <3>2. PICK i \in 0..(len[l] + 1) : x = at[l][i]
            BY <3>1
        <3> DEFINE a == at[l]
                   n == len[l]
        <3>3. IsChain(a, n, l, heap) /\ l \in List
            BY <2>1 DEF AreChains, HeapInv
        <3>4. n \in Nat
            BY <3>3, ChainLength
        <3> HIDE DEF a, n
        <3>5. x \in Address
            <4>1. i = 0 \/ i = n + 1 \/ i \in 1..n
                BY <3>4 DEF n
            <4>2. a[i] \in {HeadOf(l), TailOf(l)} \cup Node
                BY <3>3, <4>1 DEF IsChain
            <4> QED BY <3>2, <3>3, <4>2 DEF a, Address
        <3>6. /\ i \in 0..(n + 1)
              /\ heap[a[i]].next = a[i + 1]
              /\ heap[a[i]].pre = IF i = 0 THEN Null ELSE a[i - 1]
            BY <3>3 DEF IsChain, n
        <3>7. a[i + 1] \in DOMAIN heap \cup {Null}
            BY <3>3, <3>4, <3>6 DEF IsChain
        <3>8. i # 0 => a[i - 1] \in DOMAIN heap
            BY <3>3, <3>4, <3>6 DEF IsChain
        <3> QED BY <3>2, <3>5, <3>6, <3>7, <3>8 DEF a
    <2>3. ASSUME NEW x \in DOMAIN heap
          PROVE  heap[x] \in [next : DOMAIN heap \cup {Null}, pre : DOMAIN heap \cup {Null},
                              data : Data \cup {Null}]
        BY <2>2 DEF HeapInv, AreNodes, IsNode
    <2> QED BY <2>2, <2>3 DEF TypeOK, HeapInv
  <1> QED BY <1>1, <1>2, <1>3, <1>4 DEF TypeOK

\* What the walks of the module find in a list that is a chain.
LEMMA ListIs ==
    ASSUME IsFiniteSet(DOMAIN heap), Null \notin DOMAIN heap,
           NEW a, NEW n, NEW l, IsChain(a, n, l, heap)
    PROVE  /\ DLLBegin(l) = a[1] /\ DLLEnd(l) = a[n + 1]
           /\ DLLIsEmpty(l) <=> n = 0
           /\ DLLGetSize(l) = n
           /\ Path(HeadOf(l), Null) = [k \in 1..(n + 2) |-> a[k - 1]]
           /\ Members(l) = [k \in 1..n |-> a[k]]
           /\ Positions(l) = [k \in 1..(n + 1) |-> a[k]]
  <1>1. n \in Nat
    BY ChainLength
  <1>2. /\ a[0] = HeadOf(l) /\ a[n + 1] = TailOf(l) /\ a[n + 2] = Null
        /\ heap[a[0]].next = a[1]
        /\ \A i, j \in 0..(n + 1) : a[i] = a[j] => i = j
        /\ \A i \in 1..n : a[i] \in Node
    BY <1>1 DEF IsChain
  <1>3. DLLBegin(l) = a[1] /\ DLLEnd(l) = a[n + 1]
    BY <1>2 DEF DLLBegin, DLLEnd
  <1>4. DLLIsEmpty(l) <=> n = 0
    <2>1. 1 \in 0..(n + 1) /\ n + 1 \in 0..(n + 1)
        BY <1>1
    <2>2. a[1] = a[n + 1] <=> 1 = n + 1
        BY <1>2, <2>1
    <2> QED BY <1>1, <1>2, <1>3, <2>2 DEF DLLIsEmpty
  <1>5. Path(HeadOf(l), Null) = [k \in 1..(n + 2) |-> a[k - 1]]
    <2>1. 0 \in 0..(n + 1) /\ n + 2 \in 0..(n + 2) /\ (n + 2) - 0 = n + 2
        BY <1>1
    <2>2. Path(a[0], a[n + 2]) = [k \in 1..((n + 2) - 0) |-> a[0 + k - 1]]
        BY <2>1, PathIs
    <2>3. \A k \in 1..(n + 2) : 0 + k - 1 = k - 1
        BY <1>1
    <2> QED BY <1>2, <2>1, <2>2, <2>3
  <1>6. Path(DLLBegin(l), Null) = [k \in 1..(n + 1) |-> a[k]]
    <2>1. 1 \in 0..(n + 1) /\ n + 2 \in 1..(n + 2) /\ (n + 2) - 1 = n + 1
        BY <1>1
    <2>2. Path(a[1], a[n + 2]) = [k \in 1..((n + 2) - 1) |-> a[1 + k - 1]]
        BY <2>1, PathIs
    <2>3. \A k \in 1..(n + 1) : 1 + k - 1 = k
        BY <1>1
    <2> QED BY <1>2, <1>3, <2>1, <2>2, <2>3
  <1>7. DLLGetSize(l) = n
    BY <1>1, <1>6 DEF DLLGetSize
  <1>8. Members(l) = [k \in 1..n |-> a[k]]
    <2>1. 1 \in 0..(n + 1) /\ n + 1 \in 1..(n + 2) /\ (n + 1) - 1 = n
        BY <1>1
    <2>2. Path(a[1], a[n + 1]) = [k \in 1..((n + 1) - 1) |-> a[1 + k - 1]]
        BY <2>1, PathIs
    <2>3. \A k \in 1..n : 1 + k - 1 = k
        BY <1>1
    <2> QED BY <1>2, <1>3, <2>1, <2>2, <2>3 DEF Members
  <1>9. Positions(l) = [k \in 1..(n + 1) |-> a[k]]
    <2> DEFINE m == [k \in 1..n |-> a[k]]
    <2>1. m \in Seq(Node) /\ Len(m) = n
        BY <1>1, <1>2
    <2>2. Append(m, TailOf(l)) = [k \in 1..(n + 1) |-> IF k = n + 1 THEN TailOf(l) ELSE m[k]]
        <3> HIDE DEF m
        <3> DEFINE S == Node \cup {TailOf(l)}
                   p == Append(m, TailOf(l))
        <3>1. m \in Seq(S) /\ TailOf(l) \in S
            BY <2>1
        <3>2. /\ p \in Seq(S) /\ Len(p) = n + 1 /\ p[n + 1] = TailOf(l)
              /\ \A k \in 1..n : p[k] = m[k]
            <4> HIDE DEF S
            <4> QED BY <2>1, <3>1, AppendProperties
        <3>3. p \in [1..(n + 1) -> S]
            <4> HIDE DEF S, p
            <4> QED BY <3>2, LenProperties
        <3> HIDE DEF p
        <3>4. \A k \in 1..(n + 1) : p[k] = IF k = n + 1 THEN TailOf(l) ELSE m[k]
            BY <1>1, <3>2
        <3>5. p = [k \in 1..(n + 1) |-> p[k]]
            BY <3>3
        <3> QED BY <3>4, <3>5 DEF p
    <2>3. \A k \in 1..(n + 1) : (IF k = n + 1 THEN TailOf(l) ELSE m[k]) = a[k]
        BY <1>1, <1>2
    <2> HIDE DEF m
    <2>4. [k \in 1..(n + 1) |-> IF k = n + 1 THEN TailOf(l) ELSE m[k]] = [k \in 1..(n + 1) |-> a[k]]
        BY <2>3
    <2> QED BY <1>8, <2>2, <2>4 DEF Positions, m
  <1> QED BY <1>3, <1>4, <1>5, <1>7, <1>8, <1>9

\* Chains that cover the heap are well linked.
LEMMA ChainsAreWellLinked ==
    ASSUME HeapInv
    PROVE  WellLinked
  <1>1. PICK at, len : AreChains(at, len, created, heap)
    BY DEF HeapInv
  <1>2. Null \notin DOMAIN heap /\ IsFiniteSet(DOMAIN heap)
    BY Addresses DEF HeapInv
  <1>3. ASSUME NEW l \in created
        PROVE  /\ IsChain(at[l], len[l], l, heap)
               /\ len[l] \in Nat
               /\ Path(HeadOf(l), Null) = [k \in 1..(len[l] + 2) |-> at[l][k - 1]]
    BY <1>1, <1>2, ChainLength, ListIs DEF AreChains
  <1>4. ASSUME NEW l \in created
        PROVE  LET nodes == Path(HeadOf(l), Null)
               IN  /\ Last(nodes) = TailOf(l)
                   /\ heap[HeadOf(l)].pre = Null
                   /\ \A i \in 2..Len(nodes) : heap[nodes[i]].pre = nodes[i - 1]
    <2> DEFINE nodes == Path(HeadOf(l), Null)
               a == at[l]
               n == len[l]
    <2>1. n \in Nat /\ nodes = [k \in 1..(n + 2) |-> a[k - 1]]
        BY <1>3
    <2>2. /\ a[0] = HeadOf(l) /\ a[n + 1] = TailOf(l)
          /\ \A i \in 0..(n + 1) : heap[a[i]].pre = IF i = 0 THEN Null ELSE a[i - 1]
        BY <1>3 DEF IsChain
    <2> HIDE DEF a, n, nodes
    <2>3. Len(nodes) = n + 2
        BY <2>1
    <2>4. Last(nodes) = TailOf(l)
        BY <2>1, <2>2, <2>3 DEF Last
    <2>5. heap[HeadOf(l)].pre = Null
        BY <2>1, <2>2
    <2>6. ASSUME NEW i \in 2..Len(nodes)
          PROVE  heap[nodes[i]].pre = nodes[i - 1]
        <3>1. i - 1 \in 0..(n + 1) /\ i - 1 # 0 /\ nodes[i] = a[i - 1]
              /\ nodes[i - 1] = a[(i - 1) - 1]
            BY <2>1, <2>3
        <3> QED BY <2>2, <3>1
    <2> QED BY <2>4, <2>5, <2>6 DEF nodes
  <1>5. ASSUME NEW x \in DOMAIN heap
        PROVE  Cardinality({l \in created : x \in Range(Path(HeadOf(l), Null))}) = 1
    <2>1. ASSUME NEW l \in created
          PROVE  x \in Range(Path(HeadOf(l), Null)) <=>
                     \E i \in 0..(len[l] + 1) : x = at[l][i]
        <3> DEFINE nodes == Path(HeadOf(l), Null)
        <3>1. len[l] \in Nat /\ nodes = [k \in 1..(len[l] + 2) |-> at[l][k - 1]]
            BY <1>3
        <3> HIDE DEF nodes
        <3>2. ASSUME x \in Range(nodes)
              PROVE  \E i \in 0..(len[l] + 1) : x = at[l][i]
            <4>1. PICK k \in 1..(len[l] + 2) : x = at[l][k - 1]
                BY <3>1, <3>2 DEF Range
            <4>2. k - 1 \in 0..(len[l] + 1)
                BY <3>1
            <4> QED BY <4>1, <4>2
        <3>3. ASSUME NEW i \in 0..(len[l] + 1), x = at[l][i]
              PROVE  x \in Range(nodes)
            <4>1. i + 1 \in 1..(len[l] + 2) /\ (i + 1) - 1 = i
                BY <3>1
            <4>2. x = nodes[i + 1] /\ i + 1 \in DOMAIN nodes
                BY <3>1, <3>3, <4>1
            <4> QED BY <4>2 DEF Range
        <3> QED BY <3>2, <3>3 DEF nodes
    <2>2. PICK l \in created : \E i \in 0..(len[l] + 1) : x = at[l][i]
        BY <1>1 DEF AreChains
    <2>3. ASSUME NEW k \in created, x \in Range(Path(HeadOf(k), Null))
          PROVE  k = l
        BY <1>1, <2>1, <2>2, <2>3 DEF AreChains
    <2>4. {k \in created : x \in Range(Path(HeadOf(k), Null))} = {l}
        BY <2>1, <2>2, <2>3
    <2> QED BY <2>4, FS_Singleton
  <1> QED BY <1>4, <1>5 DEF WellLinked

-----------------------------------------------------------------------------
(* Changing chains *)

\* Chain a with the node x at place w, and without the nodes from place i up to
\* place j.
Inserted(a, w, x) == [i \in Nat |-> IF i < w THEN a[i] ELSE IF i = w THEN x ELSE a[i - 1]]
Removed(a, i, j) == [x \in Nat |-> IF x < i THEN a[x] ELSE a[x + (j - i)]]

\* Chain b with the nodes of a from place i up to place j at place w.
Spliced(b, w, a, i, j) ==
    [x \in Nat |-> IF x < w THEN b[x]
                   ELSE IF x < w + (j - i) THEN a[x - w + i] ELSE b[x - (j - i)]]

\* x is in one of the lists in S.
InLists(x, at, len, S) == \E l \in S : \E i \in 0..(len[l] + 1) : x = at[l][i]

\* The nodes of the lists outside S are the same in both heaps.
Spared(at, len, S, h, h2) ==
    \A x \in DOMAIN h : ~InLists(x, at, len, S) =>
        x \in DOMAIN h2 /\ h2[x].next = h[x].next /\ h2[x].pre = h[x].pre

\* The lists in S become those in S2, which share no node, have nodes that are
\* new or were in S, and together with the spared ones all nodes.
Rebuilt(at, len, S, h, at2, len2, S2, h2) ==
    /\ \A l \in S2 : IsChain(at2[l], len2[l], l, h2)
    /\ \A l, k \in S2 : \A i \in 0..(len2[l] + 1), j \in 0..(len2[k] + 1) :
           at2[l][i] = at2[k][j] => l = k
    /\ \A x : InLists(x, at2, len2, S2) => x \notin DOMAIN h \/ InLists(x, at, len, S)
    /\ \A x \in DOMAIN h2 :
           (x \in DOMAIN h /\ ~InLists(x, at, len, S)) \/ InLists(x, at2, len2, S2)

\* The lists in S of made are changed into those in S2 of made2, the others are
\* left alone.
LEMMA ChainsChange ==
    ASSUME NEW at, NEW len, NEW made, NEW h, AreChains(at, len, made, h),
           NEW at2, NEW len2, NEW made2, NEW h2,
           NEW S \in SUBSET made, NEW S2 \in SUBSET made2, made \ S = made2 \ S2,
           \A l \in made \ S : at2[l] = at[l] /\ len2[l] = len[l],
           Spared(at, len, S, h, h2), Rebuilt(at, len, S, h, at2, len2, S2, h2)
    PROVE  AreChains(at2, len2, made2, h2)
  <1>0. /\ \A x \in DOMAIN h : ~InLists(x, at, len, S) =>
                x \in DOMAIN h2 /\ h2[x].next = h[x].next /\ h2[x].pre = h[x].pre
        /\ \A l \in S2 : IsChain(at2[l], len2[l], l, h2)
        /\ \A l, k \in S2 : \A i \in 0..(len2[l] + 1), j \in 0..(len2[k] + 1) :
               at2[l][i] = at2[k][j] => l = k
        /\ \A x : InLists(x, at2, len2, S2) => x \notin DOMAIN h \/ InLists(x, at, len, S)
        /\ \A x \in DOMAIN h2 :
               (x \in DOMAIN h /\ ~InLists(x, at, len, S)) \/ InLists(x, at2, len2, S2)
    BY Zenon DEF Spared, Rebuilt
  <1>1. ASSUME NEW l \in made \ S, NEW i \in 0..(len[l] + 1)
        PROVE  at[l][i] \in DOMAIN h /\ ~InLists(at[l][i], at, len, S)
    BY <1>1 DEF AreChains, IsChain, InLists
  <1>2. ASSUME NEW l \in made2 \ S2
        PROVE  IsChain(at2[l], len2[l], l, h2)
    <2>1. l \in made \ S /\ at2[l] = at[l] /\ len2[l] = len[l] /\ IsChain(at[l], len[l], l, h)
        BY DEF AreChains
    <2>2. \A i \in 0..(len[l] + 1) : /\ at[l][i] \in DOMAIN h2
                                     /\ h2[at[l][i]].next = h[at[l][i]].next
                                     /\ h2[at[l][i]].pre = h[at[l][i]].pre
        BY <1>0, <1>1, <2>1
    <2> QED BY <2>1, <2>2 DEF IsChain
  <1>3. ASSUME NEW l \in made2, NEW k \in made2,
               NEW i \in 0..(len2[l] + 1), NEW j \in 0..(len2[k] + 1), at2[l][i] = at2[k][j]
        PROVE  l = k
    <2>1. CASE l \in S2 /\ k \in S2
        BY <1>0, <1>3, <2>1
    <2>2. CASE l \notin S2 /\ k \notin S2
        BY <1>3, <2>2 DEF AreChains
    <2>3. CASE l \in S2 /\ k \notin S2
        <3>1. InLists(at2[l][i], at2, len2, S2)
            BY <2>3 DEF InLists
        <3> QED BY <1>0, <1>1, <1>3, <2>3, <3>1
    <2>4. CASE l \notin S2 /\ k \in S2
        <3>1. InLists(at2[k][j], at2, len2, S2)
            BY <2>4 DEF InLists
        <3> QED BY <1>0, <1>1, <1>3, <2>4, <3>1
    <2> QED BY <2>1, <2>2, <2>3, <2>4
  <1>4. ASSUME NEW x \in DOMAIN h2
        PROVE  \E l \in made2 : \E i \in 0..(len2[l] + 1) : x = at2[l][i]
    <2>1. CASE InLists(x, at2, len2, S2)
        BY <2>1 DEF InLists
    <2>2. CASE x \in DOMAIN h /\ ~InLists(x, at, len, S)
        <3>1. PICK l \in made : \E i \in 0..(len[l] + 1) : x = at[l][i]
            BY <2>2 DEF AreChains
        <3>2. l \in made \ S
            BY <2>2, <3>1 DEF InLists
        <3> QED BY <3>1, <3>2
    <2> QED BY <1>0, <2>1, <2>2
  <1> QED BY <1>0, <1>2, <1>3, <1>4 DEF AreChains

\* f with the value v for list l.
Put(f, made, l, v) == [k \in made |-> IF k = l THEN v ELSE f[k]]

\* One list is changed, into the chain c of m members.
LEMMA OneChainChanges ==
    ASSUME NEW at, NEW len, NEW made, NEW h, AreChains(at, len, made, h),
           NEW l \in made, NEW c, NEW m, NEW h2, IsChain(c, m, l, h2),
           \A x \in DOMAIN h : (\A i \in 0..(len[l] + 1) : x # at[l][i]) =>
               x \in DOMAIN h2 /\ h2[x].next = h[x].next /\ h2[x].pre = h[x].pre,
           \A i \in 0..(m + 1) :
               c[i] \notin DOMAIN h \/ \E j \in 0..(len[l] + 1) : c[i] = at[l][j],
           \A x \in DOMAIN h2 : x \in DOMAIN h \/ \E i \in 0..(m + 1) : x = c[i],
           \A j \in 0..(len[l] + 1) :
               at[l][j] \in DOMAIN h2 => \E i \in 0..(m + 1) : at[l][j] = c[i]
    PROVE  AreChains(Put(at, made, l, c), Put(len, made, l, m), made, h2)
  <1> DEFINE at2 == Put(at, made, l, c)
             len2 == Put(len, made, l, m)
  <1>1. /\ at2[l] = c /\ len2[l] = m
        /\ \A k \in made \ {l} : at2[k] = at[k] /\ len2[k] = len[k]
    BY DEF Put
  <1> HIDE DEF at2, len2
  <1>2. \A x : InLists(x, at, len, {l}) <=> \E i \in 0..(len[l] + 1) : x = at[l][i]
    BY Zenon DEF InLists
  <1>3. \A x : InLists(x, at2, len2, {l}) <=> \E i \in 0..(m + 1) : x = c[i]
    BY <1>1, Zenon DEF InLists
  <1>4. Spared(at, len, {l}, h, h2)
    BY <1>2, Zenon DEF Spared
  <1>5. Rebuilt(at, len, {l}, h, at2, len2, {l}, h2)
    <2>1. \A k \in {l} : IsChain(at2[k], len2[k], k, h2)
        BY <1>1
    <2>2. \A k, j \in {l} : k = j
        OBVIOUS
    <2>3. ASSUME NEW x, InLists(x, at2, len2, {l})
          PROVE  x \notin DOMAIN h \/ InLists(x, at, len, {l})
        <3>1. PICK i \in 0..(m + 1) : x = c[i]
            BY <1>3, <2>3
        <3>2. c[i] \notin DOMAIN h \/ \E j \in 0..(len[l] + 1) : c[i] = at[l][j]
            OBVIOUS
        <3> QED BY <1>2, <3>1, <3>2
    <2>4. ASSUME NEW x \in DOMAIN h2
          PROVE  (x \in DOMAIN h /\ ~InLists(x, at, len, {l})) \/ InLists(x, at2, len2, {l})
        <3>1. CASE \E i \in 0..(m + 1) : x = c[i]
            BY <1>3, <3>1
        <3>2. CASE ~\E i \in 0..(m + 1) : x = c[i]
            <4>1. x \in DOMAIN h
                BY <3>2
            <4>2. \A j \in 0..(len[l] + 1) : x # at[l][j]
                BY <3>2
            <4> QED BY <1>2, <4>1, <4>2
        <3> QED BY <3>1, <3>2
    <2> QED BY <2>1, <2>2, <2>3, <2>4, Zenon DEF Rebuilt
  <1>6. {l} \in SUBSET made
    OBVIOUS
  <1>7. AreChains(at2, len2, made, h2)
    BY <1>1, <1>4, <1>5, <1>6, ChainsChange
  <1> QED BY <1>7 DEF at2, len2

\* A node more in front of the one at place w.
LEMMA ChainInserted ==
    ASSUME NEW a, NEW n, NEW l, NEW h, IsChain(a, n, l, h),
           NEW w \in 1..(n + 1), NEW x \in Node, x \notin DOMAIN h, NEW h2,
           DOMAIN h2 = DOMAIN h \cup {x},
           \A y \in DOMAIN h : /\ h2[y].next = IF y = a[w - 1] THEN x ELSE h[y].next
                               /\ h2[y].pre = IF y = a[w] THEN x ELSE h[y].pre,
           h2[x].next = a[w], h2[x].pre = a[w - 1]
    PROVE  IsChain(Inserted(a, w, x), n + 1, l, h2)
  <1> DEFINE c == Inserted(a, w, x)
  <1>1. n \in Nat /\ w \in Nat /\ w >= 1 /\ w <= n + 1
    BY ChainLength
  <1>2. \A i \in Nat : c[i] = IF i < w THEN a[i] ELSE IF i = w THEN x ELSE a[i - 1]
    BY DEF Inserted
  <1> HIDE DEF c
  <1>3. \A i \in 0..(n + 1) : a[i] # x
    BY DEF IsChain
  <1>4. c[0] = HeadOf(l) /\ c[n + 1 + 1] = TailOf(l)
    BY <1>1, <1>2 DEF IsChain
  <1>5. \A i \in 1..(n + 1) : c[i] \in Node
    BY <1>1, <1>2 DEF IsChain
  <1>6. \A i \in Nat : i > n + 1 + 1 => c[i] = Null
    BY <1>1, <1>2 DEF IsChain
  <1>7. ASSUME NEW i \in 0..(n + 1 + 1)
        PROVE  /\ c[i] \in DOMAIN h2
               /\ h2[c[i]].next = c[i + 1]
               /\ h2[c[i]].pre = IF i = 0 THEN Null ELSE c[i - 1]
    <2>1. CASE i < w
        <3>1. i \in 0..(n + 1) /\ c[i] = a[i] /\ i \in Nat /\ w - 1 \in 0..(n + 1) /\ w \in 0..(n + 1)
            BY <1>1, <1>2, <2>1
        <3>2. a[i] \in DOMAIN h /\ h[a[i]].next = a[i + 1]
              /\ h[a[i]].pre = IF i = 0 THEN Null ELSE a[i - 1]
            BY <3>1 DEF IsChain
        <3>3. (a[i] = a[w - 1] <=> i = w - 1) /\ a[i] # a[w]
            BY <1>1, <2>1, <3>1 DEF IsChain
        <3>4. c[i + 1] = IF i = w - 1 THEN x ELSE a[i + 1]
            BY <1>1, <1>2, <2>1
        <3>5. i # 0 => c[i - 1] = a[i - 1]
            BY <1>1, <1>2, <2>1
        <3> QED BY <3>1, <3>2, <3>3, <3>4, <3>5
    <2>2. CASE i = w
        <3>1. c[i] = x /\ c[i + 1] = a[w] /\ c[i - 1] = a[w - 1] /\ i # 0
            BY <1>1, <1>2, <2>2
        <3> QED BY <3>1
    <2>3. CASE i > w
        <3>1. i - 1 \in 0..(n + 1) /\ c[i] = a[i - 1] /\ i # 0
              /\ w - 1 \in 0..(n + 1) /\ w \in 0..(n + 1)
            BY <1>1, <1>2, <2>3
        <3>2. a[i - 1] \in DOMAIN h /\ h[a[i - 1]].next = a[i]
              /\ h[a[i - 1]].pre = IF i - 1 = 0 THEN Null ELSE a[(i - 1) - 1]
            BY <3>1 DEF IsChain
        <3>3. a[i - 1] # a[w - 1] /\ (a[i - 1] = a[w] <=> i - 1 = w)
            BY <1>1, <2>3, <3>1 DEF IsChain
        <3>4. c[i + 1] = a[i]
            BY <1>1, <1>2, <2>3
        <3>5. c[i - 1] = IF i - 1 = w THEN x ELSE a[(i - 1) - 1]
            BY <1>1, <1>2, <2>3
        <3>6. i - 1 # 0
            BY <1>1, <2>3
        <3> QED BY <3>1, <3>2, <3>3, <3>4, <3>5, <3>6
    <2> QED BY <1>1, <2>1, <2>2, <2>3
  <1>8. ASSUME NEW i \in 0..(n + 1 + 1), NEW j \in 0..(n + 1 + 1), c[i] = c[j]
        PROVE  i = j
    <2> DEFINE Old(m) == IF m < w THEN m ELSE m - 1
    <2>1. \A m \in 0..(n + 1 + 1) : m # w => Old(m) \in 0..(n + 1) /\ c[m] = a[Old(m)]
        BY <1>1, <1>2
    <2>2. c[w] = x
        BY <1>1, <1>2
    <2>3. \A m \in 0..(n + 1 + 1) : m # w => c[m] # x
        BY <1>3, <2>1
    <2>4. CASE i = w \/ j = w
        BY <1>8, <2>2, <2>3, <2>4
    <2>5. CASE i # w /\ j # w
        <3>1. Old(i) = Old(j)
            <4> HIDE DEF Old
            <4> QED BY <1>8, <2>1, <2>5 DEF IsChain
        <3> QED BY <1>1, <2>5, <3>1
    <2> QED BY <2>4, <2>5
  <1>9. n + 1 \in Nat
    BY <1>1
  <1> QED BY <1>4, <1>5, <1>6, <1>7, <1>8, <1>9 DEF IsChain, c

\* The nodes from place i up to place j are cut out.
LEMMA ChainRemoved ==
    ASSUME NEW a, NEW n, NEW l, NEW h, IsChain(a, n, l, h),
           NEW i \in 1..(n + 1), NEW j \in i..(n + 1), NEW h2,
           \A x \in 0..(n + 1) : x < i \/ x >= j =>
               /\ a[x] \in DOMAIN h2
               /\ h2[a[x]].next = IF x = i - 1 THEN a[j] ELSE h[a[x]].next
               /\ h2[a[x]].pre = IF x = j THEN a[i - 1] ELSE h[a[x]].pre
    PROVE  IsChain(Removed(a, i, j), n - (j - i), l, h2)
  <1> DEFINE c == Removed(a, i, j)
             d == j - i
  <1>1. n \in Nat /\ i \in Nat /\ i >= 1 /\ j \in Nat /\ i <= j /\ j <= n + 1
        /\ d \in Nat /\ d <= n /\ n - d \in Nat /\ j = i + d
    BY ChainLength
  <1>2. \A x \in Nat : c[x] = IF x < i THEN a[x] ELSE a[x + d]
    BY DEF Removed
  <1> HIDE DEF c, d
  <1>4. c[0] = HeadOf(l) /\ c[n - d + 1] = TailOf(l)
    <2>1. n - d + 1 \in Nat /\ ~(n - d + 1 < i) /\ n - d + 1 + d = n + 1
        BY <1>1
    <2>2. c[0] = a[0] /\ c[n - d + 1] = a[n + 1]
        BY <1>1, <1>2, <2>1
    <2> QED BY <2>2 DEF IsChain
  <1>5. \A x \in 1..(n - d) : c[x] \in Node
    BY <1>1, <1>2 DEF IsChain
  <1>6. \A x \in Nat : x > n - d + 1 => c[x] = Null
    BY <1>1, <1>2 DEF IsChain
  <1>7. ASSUME NEW x \in 0..(n - d + 1)
        PROVE  /\ c[x] \in DOMAIN h2
               /\ h2[c[x]].next = c[x + 1]
               /\ h2[c[x]].pre = IF x = 0 THEN Null ELSE c[x - 1]
    <2> DEFINE y == IF x < i THEN x ELSE x + d
    <2>1. y \in 0..(n + 1) /\ (y < i \/ y >= j) /\ c[x] = a[y]
        BY <1>1, <1>2
    <2>2. a[y] \in DOMAIN h2
          /\ h2[a[y]].next = (IF y = i - 1 THEN a[j] ELSE a[y + 1])
          /\ h2[a[y]].pre = (IF y = j THEN a[i - 1] ELSE IF y = 0 THEN Null ELSE a[y - 1])
        <3> HIDE DEF y
        <3> QED BY <2>1 DEF IsChain
    <2>3. c[x + 1] = IF y = i - 1 THEN a[j] ELSE a[y + 1]
        BY <1>1, <1>2
    <2>4. x # 0 => c[x - 1] = IF y = j THEN a[i - 1] ELSE a[y - 1]
        BY <1>1, <1>2
    <2>5. (x = 0 => y = 0 /\ y # j) /\ (x # 0 => y # 0)
        BY <1>1
    <2> HIDE DEF y
    <2> QED BY <2>1, <2>2, <2>3, <2>4, <2>5
  <1>8. ASSUME NEW x \in 0..(n - d + 1), NEW y \in 0..(n - d + 1), c[x] = c[y]
        PROVE  x = y
    <2> DEFINE Old(m) == IF m < i THEN m ELSE m + d
    <2>1. \A m \in 0..(n - d + 1) : Old(m) \in 0..(n + 1) /\ c[m] = a[Old(m)]
        BY <1>1, <1>2
    <2>2. Old(x) = Old(y)
        <3> HIDE DEF Old
        <3> QED BY <1>8, <2>1 DEF IsChain
    <2> QED BY <1>1, <2>2
  <1> QED BY <1>1, <1>4, <1>5, <1>6, <1>7, <1>8 DEF IsChain, c, d

\* In h2 the chain b of m members leads into the nodes of a from place i up to
\* place j, in front of its place w, and back out of them.
LeadsThrough(h, h2, b, m, w, a, i, j) ==
    /\ \A y \in 0..(m + 1) :
         /\ b[y] \in DOMAIN h2
         /\ h2[b[y]].next = IF y = w - 1 THEN a[i] ELSE h[b[y]].next
         /\ h2[b[y]].pre = IF y = w THEN a[j - 1] ELSE h[b[y]].pre
    /\ \A x \in i..(j - 1) :
         /\ a[x] \in DOMAIN h2
         /\ h2[a[x]].next = IF x = j - 1 THEN b[w] ELSE h[a[x]].next
         /\ h2[a[x]].pre = IF x = i THEN b[w - 1] ELSE h[a[x]].pre

\* The chains a, of n members, and b, of m, have no node in common.
Disjoint(a, n, b, m) == \A x \in 0..(n + 1), y \in 0..(m + 1) : a[x] # b[y]

\* The nodes of a from place i up to place j come to place w of b.
LEMMA ChainSpliced ==
    ASSUME NEW a, NEW n, NEW l, NEW h, IsChain(a, n, l, h),
           NEW b, NEW m, NEW k, IsChain(b, m, k, h),
           Disjoint(a, n, b, m),
           NEW i \in 1..(n + 1), NEW j \in i..(n + 1), i < j, NEW w \in 1..(m + 1),
           NEW h2, LeadsThrough(h, h2, b, m, w, a, i, j)
    PROVE  IsChain(Spliced(b, w, a, i, j), m + (j - i), k, h2)
  <1> DEFINE c == Spliced(b, w, a, i, j)
             d == j - i
             Mine(x) == x < w \/ x >= w + d
             MyOld(x) == IF x < w THEN x ELSE x - d
  <1>1. n \in Nat /\ m \in Nat /\ i \in Nat /\ i >= 1 /\ j \in Nat /\ j <= n + 1
        /\ d \in Nat /\ d >= 1 /\ j = i + d /\ w \in Nat /\ w >= 1 /\ w <= m + 1
    BY ChainLength
  <1>2. \A x \in Nat : c[x] = IF x < w THEN b[x]
                              ELSE IF x < w + d THEN a[x - w + i] ELSE b[x - d]
    BY DEF Spliced
  <1> HIDE DEF c, d
  <1>3. \A x \in Nat : IF Mine(x) THEN c[x] = b[MyOld(x)] ELSE c[x] = a[x - w + i]
    BY <1>1, <1>2
  <1>4. c[0] = HeadOf(k) /\ c[m + d + 1] = TailOf(k)
    BY <1>1, <1>2 DEF IsChain
  <1>5. \A x \in 1..(m + d) : c[x] \in Node
    <2>1. ASSUME NEW x \in 1..(m + d)
          PROVE  c[x] \in Node
        <3>1. CASE Mine(x)
            <4>1. MyOld(x) \in 1..m /\ c[x] = b[MyOld(x)]
                BY <1>1, <1>3, <3>1
            <4> QED BY <4>1 DEF IsChain
        <3>2. CASE ~Mine(x)
            <4>1. x - w + i \in 1..n /\ c[x] = a[x - w + i]
                BY <1>1, <1>3, <3>2
            <4> QED BY <4>1 DEF IsChain
        <3> QED BY <3>1, <3>2
    <2> QED BY <2>1
  <1>6. \A x \in Nat : x > m + d + 1 => c[x] = Null
    BY <1>1, <1>2 DEF IsChain
  <1>7. ASSUME NEW x \in 0..(m + d + 1)
        PROVE  /\ c[x] \in DOMAIN h2
               /\ h2[c[x]].next = c[x + 1]
               /\ h2[c[x]].pre = IF x = 0 THEN Null ELSE c[x - 1]
    <2>1. CASE Mine(x)
        <3> DEFINE y == MyOld(x)
        <3>1. y \in 0..(m + 1) /\ c[x] = b[y] /\ (x = 0 <=> y = 0)
            BY <1>1, <1>3, <2>1
        <3>2. c[x + 1] = IF y = w - 1 THEN a[i] ELSE b[y + 1]
            BY <1>1, <1>2, <2>1
        <3>3. x # 0 => c[x - 1] = IF y = w THEN a[j - 1] ELSE b[y - 1]
            BY <1>1, <1>2, <2>1
        <3> HIDE DEF y
        <3>4. b[y] \in DOMAIN h2
              /\ h2[b[y]].next = (IF y = w - 1 THEN a[i] ELSE b[y + 1])
              /\ h2[b[y]].pre = (IF y = w THEN a[j - 1] ELSE IF y = 0 THEN Null ELSE b[y - 1])
            BY <3>1 DEF IsChain, LeadsThrough
        <3> QED BY <1>1, <3>1, <3>2, <3>3, <3>4
    <2>2. CASE ~Mine(x)
        <3> DEFINE y == x - w + i
        <3>1. y \in i..(j - 1) /\ y \in 1..n /\ c[x] = a[y] /\ x # 0 /\ y # 0
            BY <1>1, <1>3, <2>2
        <3>2. c[x + 1] = IF y = j - 1 THEN b[w] ELSE a[y + 1]
            BY <1>1, <1>2, <2>2
        <3>3. c[x - 1] = IF y = i THEN b[w - 1] ELSE a[y - 1]
            BY <1>1, <1>2, <2>2
        <3> HIDE DEF y
        <3>4. y \in 0..(n + 1)
            BY <1>1, <3>1
        <3>5. a[y] \in DOMAIN h2
              /\ h2[a[y]].next = (IF y = j - 1 THEN b[w] ELSE a[y + 1])
              /\ h2[a[y]].pre = (IF y = i THEN b[w - 1] ELSE a[y - 1])
            BY <3>1, <3>4 DEF IsChain, LeadsThrough
        <3> QED BY <3>1, <3>2, <3>3, <3>5
    <2> QED BY <2>1, <2>2
  <1>8. ASSUME NEW x \in 0..(m + d + 1), NEW y \in 0..(m + d + 1), c[x] = c[y]
        PROVE  x = y
    <2>1. \A z \in 0..(m + d + 1) : IF Mine(z) THEN MyOld(z) \in 0..(m + 1)
                                    ELSE z - w + i \in 0..(n + 1)
        BY <1>1
    <2>2. CASE Mine(x) /\ Mine(y)
        <3>1. MyOld(x) \in 0..(m + 1) /\ MyOld(y) \in 0..(m + 1) /\ b[MyOld(x)] = b[MyOld(y)]
            BY <1>3, <1>8, <2>1, <2>2
        <3>2. MyOld(x) = MyOld(y)
            <4> HIDE DEF MyOld
            <4> QED BY <3>1 DEF IsChain
        <3> QED BY <1>1, <2>2, <3>2
    <2>3. CASE ~Mine(x) /\ ~Mine(y)
        <3>1. x - w + i \in 0..(n + 1) /\ y - w + i \in 0..(n + 1) /\ a[x - w + i] = a[y - w + i]
            BY <1>3, <1>8, <2>1, <2>3
        <3>2. x - w + i = y - w + i
            BY <3>1 DEF IsChain
        <3> QED BY <1>1, <3>2
    <2>4. CASE Mine(x) /\ ~Mine(y)
        BY <1>3, <1>8, <2>1, <2>4 DEF Disjoint
    <2>5. CASE ~Mine(x) /\ Mine(y)
        BY <1>3, <1>8, <2>1, <2>5 DEF Disjoint
    <2> QED BY <2>2, <2>3, <2>4, <2>5
  <1>9. m + d \in Nat
    BY <1>1
  <1> QED BY <1>4, <1>5, <1>6, <1>7, <1>8, <1>9 DEF IsChain, c, d

-----------------------------------------------------------------------------
(* The stores of the functions *)

\* Stores to one pointer of a node.
SetNext(h, x, v) == [h EXCEPT ![x].next = v]
SetPre(h, x, v) == [h EXCEPT ![x].pre = v]

\* What they do, for nodes that are records.
LEMMA NodeStores ==
    ASSUME NEW h, AreNodes(h), NEW x \in DOMAIN h, NEW v
    PROVE  /\ AreNodes(SetNext(h, x, v)) /\ AreNodes(SetPre(h, x, v))
           /\ DOMAIN SetNext(h, x, v) = DOMAIN h /\ DOMAIN SetPre(h, x, v) = DOMAIN h
           /\ \A y \in DOMAIN h :
                /\ SetNext(h, x, v)[y].next = IF y = x THEN v ELSE h[y].next
                /\ SetNext(h, x, v)[y].pre = h[y].pre
                /\ SetNext(h, x, v)[y].data = h[y].data
                /\ SetPre(h, x, v)[y].next = h[y].next
                /\ SetPre(h, x, v)[y].pre = IF y = x THEN v ELSE h[y].pre
                /\ SetPre(h, x, v)[y].data = h[y].data
  <1> DEFINE r == h[x]
  <1>1. r = [next |-> r.next, pre |-> r.pre, data |-> r.data] /\ r.data \in Data \cup {Null}
    BY DEF AreNodes, IsNode
  <1>2. /\ SetNext(h, x, v) = [h EXCEPT ![x] = [next |-> v, pre |-> r.pre, data |-> r.data]]
        /\ SetPre(h, x, v) = [h EXCEPT ![x] = [next |-> r.next, pre |-> v, data |-> r.data]]
    <2>1. /\ SetNext(h, x, v) = [h EXCEPT ![x] = [r EXCEPT !.next = v]]
          /\ SetPre(h, x, v) = [h EXCEPT ![x] = [r EXCEPT !.pre = v]]
        BY DEF SetNext, SetPre
    <2> HIDE DEF r
    <2>2. /\ [r EXCEPT !.next = v] = [next |-> v, pre |-> r.pre, data |-> r.data]
          /\ [r EXCEPT !.pre = v] = [next |-> r.next, pre |-> v, data |-> r.data]
        BY <1>1
    <2> QED BY <2>1, <2>2
  <1> QED BY <1>1, <1>2 DEF AreNodes, IsNode

\* h is the heap with a new node x in front of where.
Linked(h, x, where, d) ==
    /\ AreNodes(h)
    /\ DOMAIN h = DOMAIN heap \cup {x}
    /\ \A y \in DOMAIN heap : /\ h[y].next = IF y = heap[where].pre THEN x ELSE heap[y].next
                              /\ h[y].pre = IF y = where THEN x ELSE heap[y].pre
                              /\ h[y].data = heap[y].data
    /\ h[x] = [next |-> where, pre |-> heap[where].pre, data |-> d]

\* The stores of InsertToList.
LEMMA LinkStores ==
    ASSUME AreNodes(heap), NEW x, x \notin DOMAIN heap, NEW where \in DOMAIN heap,
           heap[where].pre \in DOMAIN heap, NEW d \in Data
    PROVE  Linked(Link(x, where, d), x, where, d)
  <1> DEFINE p == heap[where].pre
             g == SetPre(SetNext(heap, p, x), where, x)
  <1>1. Link(x, where, d) = CreateNodeDll(g, x, where, p, d)
    BY DEF Link, SetPre, SetNext
  <1>2. /\ AreNodes(g) /\ DOMAIN g = DOMAIN heap
        /\ \A y \in DOMAIN heap : /\ g[y].next = IF y = p THEN x ELSE heap[y].next
                                  /\ g[y].pre = IF y = where THEN x ELSE heap[y].pre
                                  /\ g[y].data = heap[y].data
    <2> DEFINE h1 == SetNext(heap, p, x)
    <2>1. /\ AreNodes(h1) /\ DOMAIN h1 = DOMAIN heap
          /\ \A y \in DOMAIN heap : /\ h1[y].next = IF y = p THEN x ELSE heap[y].next
                                    /\ h1[y].pre = heap[y].pre /\ h1[y].data = heap[y].data
        BY NodeStores
    <2> HIDE DEF h1
    <2>2. /\ AreNodes(SetPre(h1, where, x)) /\ DOMAIN SetPre(h1, where, x) = DOMAIN h1
          /\ \A y \in DOMAIN h1 :
                /\ SetPre(h1, where, x)[y].next = h1[y].next
                /\ SetPre(h1, where, x)[y].pre = IF y = where THEN x ELSE h1[y].pre
                /\ SetPre(h1, where, x)[y].data = h1[y].data
        BY <2>1, NodeStores
    <2> QED BY <2>1, <2>2 DEF h1
  <1> HIDE DEF g, p
  <1> QED BY <1>1, <1>2 DEF Linked, CreateNodeDll, AreNodes, IsNode, p

\* h is the heap without node x.
Unlinked(h, x) ==
    /\ AreNodes(h)
    /\ DOMAIN h = DOMAIN heap \ {x}
    /\ \A y \in DOMAIN heap \ {x} :
         /\ h[y].next = IF y = heap[x].pre THEN heap[x].next ELSE heap[y].next
         /\ h[y].pre = IF y = heap[x].next THEN heap[x].pre ELSE heap[y].pre
         /\ h[y].data = heap[y].data

\* The stores of DLLErase, of which those to the node itself are gone with it.
LEMMA UnlinkStores ==
    ASSUME AreNodes(heap), NEW x \in DOMAIN heap
    PROVE  Unlinked(Unlink(x), x)
  <1>1. DOMAIN Unlink(x) = DOMAIN heap \ {x}
    BY DEF Unlink
  <1>2. ASSUME NEW y \in DOMAIN heap \ {x}
        PROVE  Unlink(x)[y] =
                   [next |-> IF y = heap[x].pre THEN heap[x].next ELSE heap[y].next,
                    pre |-> IF y = heap[x].next THEN heap[x].pre ELSE heap[y].pre,
                    data |-> heap[y].data]
    <2> DEFINE r == heap[y]
    <2>1. r = [next |-> r.next, pre |-> r.pre, data |-> r.data]
        BY DEF AreNodes, IsNode
    <2>2. Unlink(x)[y] = [r EXCEPT !.next = IF y = heap[x].pre THEN heap[x].next ELSE r.next,
                                   !.pre = IF y = heap[x].next THEN heap[x].pre ELSE r.pre]
        BY DEF Unlink
    <2> QED BY <2>1, <2>2
  <1> QED BY <1>1, <1>2 DEF Unlinked, AreNodes, IsNode

\* h is the heap with the nodes from one node up to another in front of where.
Relinked(h, where, from, to) ==
    /\ AreNodes(h)
    /\ DOMAIN h = DOMAIN heap
    /\ \A y \in DOMAIN heap :
         /\ h[y].next = IF y = heap[from].pre THEN to
                        ELSE IF y = heap[where].pre THEN from
                        ELSE IF y = heap[to].pre THEN where ELSE heap[y].next
         /\ h[y].pre = IF y = to THEN heap[from].pre
                       ELSE IF y = from THEN heap[where].pre
                       ELSE IF y = where THEN heap[to].pre ELSE heap[y].pre
         /\ h[y].data = heap[y].data

\* The six stores of DLLSplice: with the neighbours apart, none undoes another.
LEMMA RelinkStores ==
    ASSUME AreNodes(heap),
           NEW where \in DOMAIN heap, NEW from \in DOMAIN heap, NEW to \in DOMAIN heap,
           NEW p \in DOMAIN heap, p = heap[where].pre, NEW q \in DOMAIN heap, q = heap[from].pre,
           NEW e \in DOMAIN heap, e = heap[to].pre,
           p # q, p # e, q # e, where # from, where # to, from # to
    PROVE  Relinked(Relink(where, from, to), where, from, to)
  <1> DEFINE h1 == SetNext(heap, q, to)
             h2 == SetPre(h1, to, q)
             h3 == SetNext(h2, p, from)
             h4 == SetPre(h3, from, p)
             h5 == SetNext(h4, e, where)
             h6 == SetPre(h5, where, e)
  <1>1. Relink(where, from, to) = h6
    BY DEF Relink, SetNext, SetPre
  <1>2. /\ AreNodes(h1) /\ DOMAIN h1 = DOMAIN heap
        /\ \A y \in DOMAIN heap : /\ h1[y].next = IF y = q THEN to ELSE heap[y].next
                                  /\ h1[y].pre = heap[y].pre /\ h1[y].data = heap[y].data
    BY NodeStores
  <1> HIDE DEF h1
  <1>3. /\ AreNodes(h2) /\ DOMAIN h2 = DOMAIN h1
        /\ \A y \in DOMAIN h1 : /\ h2[y].pre = IF y = to THEN q ELSE h1[y].pre
                                /\ h2[y].next = h1[y].next /\ h2[y].data = h1[y].data
    BY <1>2, NodeStores
  <1> HIDE DEF h2
  <1>4. /\ AreNodes(h3) /\ DOMAIN h3 = DOMAIN h2
        /\ \A y \in DOMAIN h2 : /\ h3[y].next = IF y = p THEN from ELSE h2[y].next
                                /\ h3[y].pre = h2[y].pre /\ h3[y].data = h2[y].data
    BY <1>2, <1>3, NodeStores
  <1> HIDE DEF h3
  <1>5. /\ AreNodes(h4) /\ DOMAIN h4 = DOMAIN h3
        /\ \A y \in DOMAIN h3 : /\ h4[y].pre = IF y = from THEN p ELSE h3[y].pre
                                /\ h4[y].next = h3[y].next /\ h4[y].data = h3[y].data
    BY <1>2, <1>3, <1>4, NodeStores
  <1> HIDE DEF h4
  <1>6. /\ AreNodes(h5) /\ DOMAIN h5 = DOMAIN h4
        /\ \A y \in DOMAIN h4 : /\ h5[y].next = IF y = e THEN where ELSE h4[y].next
                                /\ h5[y].pre = h4[y].pre /\ h5[y].data = h4[y].data
    BY <1>2, <1>3, <1>4, <1>5, NodeStores
  <1> HIDE DEF h5
  <1>7. /\ AreNodes(h6) /\ DOMAIN h6 = DOMAIN h5
        /\ \A y \in DOMAIN h5 : /\ h6[y].pre = IF y = where THEN e ELSE h5[y].pre
                                /\ h6[y].next = h5[y].next /\ h6[y].data = h5[y].data
    BY <1>2, <1>3, <1>4, <1>5, <1>6, NodeStores
  <1> HIDE DEF h6
  <1>8. \A y \in DOMAIN heap :
            /\ h6[y].next = IF y = q THEN to ELSE IF y = p THEN from
                            ELSE IF y = e THEN where ELSE heap[y].next
            /\ h6[y].pre = IF y = to THEN q ELSE IF y = from THEN p
                           ELSE IF y = where THEN e ELSE heap[y].pre
            /\ h6[y].data = heap[y].data
    BY <1>2, <1>3, <1>4, <1>5, <1>6, <1>7
  <1> QED BY <1>1, <1>2, <1>3, <1>4, <1>5, <1>6, <1>7, <1>8 DEF Relinked

-----------------------------------------------------------------------------
(* The functions change chains *)

\* A new member in front of the node at place w.
LEMMA LinkChains ==
    ASSUME HeapInv, NEW at, NEW len, AreChains(at, len, created, heap),
           NEW l \in created, NEW w \in 1..(len[l] + 1),
           NEW x \in Node, x \notin DOMAIN heap, NEW d \in Data
    PROVE  AreChains(Put(at, created, l, Inserted(at[l], w, x)),
                     Put(len, created, l, len[l] + 1), created, Link(x, at[l][w], d))
  <1> DEFINE a == at[l]
             n == len[l]
             c == Inserted(a, w, x)
             h2 == Link(x, a[w], d)
  <1>1. IsChain(a, n, l, heap) /\ n \in Nat
    BY ChainLength DEF AreChains
  <1>2. /\ w \in 0..(n + 1) /\ w - 1 \in 0..(n + 1) /\ w # 0
        /\ a[w] \in DOMAIN heap /\ heap[a[w]].pre = a[w - 1] /\ a[w - 1] \in DOMAIN heap
    <2>1. w \in 0..(n + 1) /\ w - 1 \in 0..(n + 1) /\ w # 0
        BY <1>1
    <2> HIDE DEF a, n
    <2> QED BY <1>1, <2>1 DEF IsChain
  <1>3. /\ DOMAIN h2 = DOMAIN heap \cup {x}
        /\ \A y \in DOMAIN heap : /\ h2[y].next = IF y = a[w - 1] THEN x ELSE heap[y].next
                                  /\ h2[y].pre = IF y = a[w] THEN x ELSE heap[y].pre
        /\ h2[x].next = a[w] /\ h2[x].pre = a[w - 1]
    <2> HIDE DEF a
    <2>1. AreNodes(heap) /\ heap[a[w]].pre \in DOMAIN heap
        BY <1>2 DEF HeapInv
    <2>2. Linked(h2, x, a[w], d)
        BY <1>2, <2>1, LinkStores
    <2> HIDE DEF h2
    <2> QED BY <1>2, <2>2 DEF Linked
  <1>4. IsChain(c, n + 1, l, h2)
    <2> HIDE DEF a, n, h2
    <2>1. w \in 1..(n + 1)
        BY DEF n
    <2> QED BY <1>1, <1>3, <2>1, ChainInserted
  <1>5. /\ \A i \in 0..(n + 1 + 1) : c[i] = x \/ \E m \in 0..(n + 1) : c[i] = a[m]
        /\ \A m \in 0..(n + 1) : \E i \in 0..(n + 1 + 1) : a[m] = c[i]
        /\ \E i \in 0..(n + 1 + 1) : x = c[i]
    <2>1. \A i \in Nat : c[i] = IF i < w THEN a[i] ELSE IF i = w THEN x ELSE a[i - 1]
        BY DEF Inserted
    <2>2. n \in Nat /\ w \in Nat /\ w >= 1 /\ w <= n + 1
        BY <1>1
    <2> HIDE DEF a, n, c
    <2>3. ASSUME NEW i \in 0..(n + 1 + 1)
          PROVE  c[i] = x \/ \E m \in 0..(n + 1) : c[i] = a[m]
        <3>1. CASE i < w
            <4>1. i \in 0..(n + 1) /\ c[i] = a[i]
                BY <2>1, <2>2, <3>1
            <4> QED BY <4>1
        <3>2. CASE i > w
            <4>1. i - 1 \in 0..(n + 1) /\ c[i] = a[i - 1]
                BY <2>1, <2>2, <3>2
            <4> QED BY <4>1
        <3> QED BY <2>1, <2>2, <3>1, <3>2
    <2>4. ASSUME NEW m \in 0..(n + 1)
          PROVE  \E i \in 0..(n + 1 + 1) : a[m] = c[i]
        <3>1. CASE m < w
            <4>1. m \in 0..(n + 1 + 1) /\ c[m] = a[m]
                BY <2>1, <2>2, <3>1
            <4> QED BY <4>1
        <3>2. CASE m >= w
            <4>1. m + 1 \in 0..(n + 1 + 1) /\ c[m + 1] = a[m]
                BY <2>1, <2>2, <3>2
            <4> QED BY <4>1
        <3> QED BY <2>2, <3>1, <3>2
    <2>5. w \in 0..(n + 1 + 1) /\ c[w] = x
        BY <2>1, <2>2
    <2> QED BY <2>3, <2>4, <2>5
  <1> HIDE DEF a, n, c, h2
  <1>6. /\ \A y \in DOMAIN heap : (\A i \in 0..(n + 1) : y # a[i]) =>
               y \in DOMAIN h2 /\ h2[y].next = heap[y].next /\ h2[y].pre = heap[y].pre
        /\ \A y \in DOMAIN h2 : y \in DOMAIN heap \/ y = x
    BY <1>2, <1>3
  <1>7. AreChains(Put(at, created, l, c), Put(len, created, l, n + 1), created, h2)
    <2> USE DEF a, n
    <2> QED BY <1>4, <1>5, <1>6, OneChainChanges
  <1> QED BY <1>7 DEF h2, c, a, n

\* The member at place i is taken out.
LEMMA UnlinkChains ==
    ASSUME HeapInv, NEW at, NEW len, AreChains(at, len, created, heap),
           NEW l \in created, NEW i \in 1..len[l]
    PROVE  AreChains(Put(at, created, l, Removed(at[l], i, i + 1)),
                     Put(len, created, l, len[l] - 1), created, Unlink(at[l][i]))
  <1> DEFINE a == at[l]
             n == len[l]
             c == Removed(a, i, i + 1)
             h2 == Unlink(a[i])
  <1>1. IsChain(a, n, l, heap) /\ n \in Nat
    BY ChainLength DEF AreChains
  <1>2. /\ i \in Nat /\ i \in 0..(n + 1) /\ i - 1 \in 0..(n + 1) /\ i + 1 \in 0..(n + 1) /\ i # 0
        /\ i \in 1..(n + 1) /\ i + 1 \in i..(n + 1)
        /\ n - ((i + 1) - i) = n - 1 /\ n - 1 \in Nat
    BY <1>1
  <1> HIDE DEF a, n
  <1>3. /\ a[i] \in DOMAIN heap /\ heap[a[i]].next = a[i + 1] /\ heap[a[i]].pre = a[i - 1]
        /\ \A x, y \in 0..(n + 1) : a[x] = a[y] => x = y
        /\ \A x \in 0..(n + 1) : a[x] \in DOMAIN heap
    BY <1>1, <1>2 DEF IsChain
  <1>4. /\ DOMAIN h2 = DOMAIN heap \ {a[i]}
        /\ \A y \in DOMAIN heap \ {a[i]} :
                /\ h2[y].next = IF y = a[i - 1] THEN a[i + 1] ELSE heap[y].next
                /\ h2[y].pre = IF y = a[i + 1] THEN a[i - 1] ELSE heap[y].pre
    <2>1. Unlinked(h2, a[i])
        BY <1>3, UnlinkStores DEF HeapInv
    <2> HIDE DEF h2
    <2> QED BY <1>3, <2>1 DEF Unlinked
  <1> HIDE DEF h2
  <1>5. IsChain(c, n - 1, l, h2)
    <2>1. ASSUME NEW x \in 0..(n + 1), x < i \/ x >= i + 1
          PROVE  /\ a[x] \in DOMAIN h2
                 /\ h2[a[x]].next = IF x = i - 1 THEN a[i + 1] ELSE heap[a[x]].next
                 /\ h2[a[x]].pre = IF x = i + 1 THEN a[i - 1] ELSE heap[a[x]].pre
        <3>1. x # i
            BY <1>2, <2>1
        <3> QED BY <1>2, <1>3, <1>4, <3>1
    <2>2. IsChain(c, n - ((i + 1) - i), l, h2)
        BY <1>1, <1>2, <2>1, ChainRemoved
    <2> QED BY <1>2, <2>2
  <1>6. /\ \A x \in 0..(n - 1 + 1) : \E m \in 0..(n + 1) : c[x] = a[m]
        /\ \A m \in 0..(n + 1) : m = i \/ \E x \in 0..(n - 1 + 1) : a[m] = c[x]
    <2>1. \A x \in Nat : c[x] = IF x < i THEN a[x] ELSE a[x + 1]
        BY <1>2 DEF Removed
    <2> HIDE DEF c
    <2>2. ASSUME NEW x \in 0..(n - 1 + 1)
          PROVE  \E m \in 0..(n + 1) : c[x] = a[m]
        <3>1. x \in 0..(n + 1) /\ x + 1 \in 0..(n + 1) /\ x \in Nat
            BY <1>1
        <3> QED BY <2>1, <3>1
    <2>3. ASSUME NEW m \in 0..(n + 1), m # i
          PROVE  \E x \in 0..(n - 1 + 1) : a[m] = c[x]
        <3>1. CASE m < i
            <4>1. m \in 0..(n - 1 + 1) /\ c[m] = a[m]
                BY <1>1, <1>2, <2>1, <3>1
            <4> QED BY <4>1
        <3>2. CASE m > i
            <4>1. m - 1 \in 0..(n - 1 + 1) /\ c[m - 1] = a[m]
                BY <1>1, <1>2, <2>1, <3>2
            <4> QED BY <4>1
        <3> QED BY <1>1, <1>2, <2>3, <3>1, <3>2
    <2> QED BY <2>2, <2>3
  <1> HIDE DEF c
  <1>7. /\ \A y \in DOMAIN heap : (\A x \in 0..(n + 1) : y # a[x]) =>
               y \in DOMAIN h2 /\ h2[y].next = heap[y].next /\ h2[y].pre = heap[y].pre
        /\ \A y \in DOMAIN h2 : y \in DOMAIN heap /\ y # a[i]
    BY <1>2, <1>4
  <1>8. AreChains(Put(at, created, l, c), Put(len, created, l, n - 1), created, h2)
    <2> USE DEF a, n
    <2> QED BY <1>5, <1>6, <1>7, OneChainChanges
  <1> QED BY <1>8 DEF h2, c, a, n

\* The nodes of list l from place i up to place j come to place w of list k.
LEMMA RelinkChains ==
    ASSUME HeapInv, NEW at, NEW len, AreChains(at, len, created, heap),
           NEW l \in created, NEW k \in created, k # l,
           NEW i \in 1..(len[l] + 1), NEW j \in i..(len[l] + 1), i < j,
           NEW w \in 1..(len[k] + 1)
    PROVE  AreChains(Put(Put(at, created, l, Removed(at[l], i, j)), created,
                         k, Spliced(at[k], w, at[l], i, j)),
                     Put(Put(len, created, l, len[l] - (j - i)), created,
                         k, len[k] + (j - i)),
                     created, Relink(at[k][w], at[l][i], at[l][j]))
  <1> DEFINE a == at[l]
             n == len[l]
             b == at[k]
             m == len[k]
             a2 == Removed(a, i, j)
             b2 == Spliced(b, w, a, i, j)
             n2 == n - (j - i)
             m2 == m + (j - i)
             at2 == Put(Put(at, created, l, a2), created, k, b2)
             len2 == Put(Put(len, created, l, n2), created, k, m2)
             h2 == Relink(b[w], a[i], a[j])
  <1>1. IsChain(a, n, l, heap) /\ IsChain(b, m, k, heap) /\ n \in Nat /\ m \in Nat
    BY ChainLength DEF AreChains
  <1>2. \A x \in 0..(n + 1), y \in 0..(m + 1) : a[x] # b[y]
    BY DEF AreChains
  <1>3. /\ i \in 1..(n + 1) /\ j \in i..(n + 1) /\ w \in 1..(m + 1)
        /\ i \in Nat /\ j \in Nat /\ w \in Nat /\ i >= 1 /\ j <= n + 1 /\ w >= 1 /\ w <= m + 1
    BY <1>1
  <1> HIDE DEF a, n, b, m
  <1>4. /\ i \in 0..(n + 1) /\ i - 1 \in 0..(n + 1) /\ j \in 0..(n + 1) /\ j - 1 \in 0..(n + 1)
        /\ w \in 0..(m + 1) /\ w - 1 \in 0..(m + 1) /\ i # 0 /\ j # 0 /\ w # 0
        /\ i # j /\ i - 1 # j - 1
    BY <1>1, <1>3
  <1>5. /\ \A x \in 0..(n + 1) : /\ a[x] \in DOMAIN heap
                                 /\ x # 0 => heap[a[x]].pre = a[x - 1]
        /\ \A x, y \in 0..(n + 1) : a[x] = a[y] => x = y
    BY <1>1 DEF IsChain
  <1>6. /\ \A x \in 0..(m + 1) : /\ b[x] \in DOMAIN heap
                                 /\ x # 0 => heap[b[x]].pre = b[x - 1]
        /\ \A x, y \in 0..(m + 1) : b[x] = b[y] => x = y
    BY <1>1 DEF IsChain
  <1>7. /\ b[w] \in DOMAIN heap /\ heap[b[w]].pre = b[w - 1] /\ b[w - 1] \in DOMAIN heap
        /\ a[i] \in DOMAIN heap /\ heap[a[i]].pre = a[i - 1] /\ a[i - 1] \in DOMAIN heap
        /\ a[j] \in DOMAIN heap /\ heap[a[j]].pre = a[j - 1] /\ a[j - 1] \in DOMAIN heap
        /\ b[w - 1] # a[i - 1] /\ b[w - 1] # a[j - 1] /\ a[i - 1] # a[j - 1]
        /\ b[w] # a[i] /\ b[w] # a[j] /\ a[i] # a[j]
    BY <1>2, <1>4, <1>5, <1>6
  <1>8. Relinked(h2, b[w], a[i], a[j])
    <2>1. AreNodes(heap)
        BY DEF HeapInv
    <2> QED BY <1>7, <2>1, RelinkStores
  <1> HIDE DEF h2
  <1>9. /\ DOMAIN h2 = DOMAIN heap
        /\ \A y \in DOMAIN heap :
             /\ h2[y].next = IF y = a[i - 1] THEN a[j]
                             ELSE IF y = b[w - 1] THEN a[i]
                             ELSE IF y = a[j - 1] THEN b[w] ELSE heap[y].next
             /\ h2[y].pre = IF y = a[j] THEN a[i - 1]
                            ELSE IF y = a[i] THEN b[w - 1]
                            ELSE IF y = b[w] THEN a[j - 1] ELSE heap[y].pre
    BY <1>7, <1>8 DEF Relinked
  <1>10. \A x \in 0..(n + 1) :
            /\ a[x] \in DOMAIN h2
            /\ h2[a[x]].next = IF x = i - 1 THEN a[j]
                               ELSE IF x = j - 1 THEN b[w] ELSE heap[a[x]].next
            /\ h2[a[x]].pre = IF x = j THEN a[i - 1]
                              ELSE IF x = i THEN b[w - 1] ELSE heap[a[x]].pre
    BY <1>2, <1>4, <1>5, <1>9
  <1>11. \A x \in 0..(m + 1) :
            /\ b[x] \in DOMAIN h2
            /\ h2[b[x]].next = IF x = w - 1 THEN a[i] ELSE heap[b[x]].next
            /\ h2[b[x]].pre = IF x = w THEN a[j - 1] ELSE heap[b[x]].pre
    BY <1>2, <1>4, <1>6, <1>9
  <1>12. IsChain(a2, n2, l, h2)
    <2>1. ASSUME NEW x \in 0..(n + 1), x < i \/ x >= j
          PROVE  /\ a[x] \in DOMAIN h2
                 /\ h2[a[x]].next = IF x = i - 1 THEN a[j] ELSE heap[a[x]].next
                 /\ h2[a[x]].pre = IF x = j THEN a[i - 1] ELSE heap[a[x]].pre
        <3>1. (x = j - 1 => x = i - 1) /\ x # i
            BY <1>3, <2>1
        <3> QED BY <1>10, <3>1
    <2> QED BY <1>1, <1>3, <2>1, ChainRemoved
  <1>13. IsChain(b2, m2, k, h2)
    <2>1. ASSUME NEW x \in i..(j - 1)
          PROVE  /\ a[x] \in DOMAIN h2
                 /\ h2[a[x]].next = IF x = j - 1 THEN b[w] ELSE heap[a[x]].next
                 /\ h2[a[x]].pre = IF x = i THEN b[w - 1] ELSE heap[a[x]].pre
        <3>1. x \in 0..(n + 1) /\ x # i - 1 /\ x # j
            BY <1>1, <1>3, <2>1
        <3> QED BY <1>10, <3>1
    <2>2. Disjoint(a, n, b, m)
        BY <1>2 DEF Disjoint
    <2>3. LeadsThrough(heap, h2, b, m, w, a, i, j)
        BY <1>11, <2>1 DEF LeadsThrough
    <2> QED BY <1>1, <1>3, <2>2, <2>3, ChainSpliced
  <1>14. /\ \A x \in 0..(n2 + 1) : \E y \in 0..(n + 1) : (y < i \/ y >= j) /\ a2[x] = a[y]
         /\ \A y \in 0..(n + 1) : y < i \/ y >= j => \E x \in 0..(n2 + 1) : a[y] = a2[x]
    <2>1. \A x \in Nat : a2[x] = IF x < i THEN a[x] ELSE a[x + (j - i)]
        BY DEF Removed
    <2> HIDE DEF a2
    <2>2. ASSUME NEW x \in 0..(n2 + 1)
          PROVE  \E y \in 0..(n + 1) : (y < i \/ y >= j) /\ a2[x] = a[y]
        <3>1. CASE x < i
            <4>1. x \in 0..(n + 1) /\ a2[x] = a[x]
                BY <1>1, <1>3, <2>1, <3>1
            <4> QED BY <3>1, <4>1
        <3>2. CASE x >= i
            <4>1. x + (j - i) \in 0..(n + 1) /\ x + (j - i) >= j /\ a2[x] = a[x + (j - i)]
                BY <1>1, <1>3, <2>1, <3>2
            <4> QED BY <4>1
        <3> QED BY <1>1, <1>3, <3>1, <3>2
    <2>3. ASSUME NEW y \in 0..(n + 1), y < i \/ y >= j
          PROVE  \E x \in 0..(n2 + 1) : a[y] = a2[x]
        <3>1. CASE y < i
            <4>1. y \in 0..(n2 + 1) /\ a2[y] = a[y]
                BY <1>1, <1>3, <2>1, <3>1
            <4> QED BY <4>1
        <3>2. CASE y >= j
            <4>1. /\ y - (j - i) \in 0..(n2 + 1) /\ ~(y - (j - i) < i)
                  /\ y - (j - i) + (j - i) = y
                BY <1>1, <1>3, <3>2
            <4>2. a2[y - (j - i)] = a[y]
                BY <2>1, <4>1
            <4> QED BY <4>1, <4>2
        <3> QED BY <2>3, <3>1, <3>2
    <2> QED BY <2>2, <2>3
  <1>15. /\ \A x \in 0..(m2 + 1) : \/ \E y \in 0..(m + 1) : b2[x] = b[y]
                                   \/ \E y \in i..(j - 1) : b2[x] = a[y]
         /\ \A y \in 0..(m + 1) : \E x \in 0..(m2 + 1) : b[y] = b2[x]
         /\ \A y \in i..(j - 1) : \E x \in 0..(m2 + 1) : a[y] = b2[x]
    <2>1. \A x \in Nat : b2[x] = IF x < w THEN b[x]
                                 ELSE IF x < w + (j - i) THEN a[x - w + i] ELSE b[x - (j - i)]
        BY DEF Spliced
    <2> HIDE DEF b2
    <2>2. ASSUME NEW x \in 0..(m2 + 1)
          PROVE  \/ \E y \in 0..(m + 1) : b2[x] = b[y]
                 \/ \E y \in i..(j - 1) : b2[x] = a[y]
        <3>1. CASE x < w
            <4>1. x \in 0..(m + 1) /\ b2[x] = b[x]
                BY <1>1, <1>3, <2>1, <3>1
            <4> QED BY <4>1
        <3>2. CASE x >= w /\ x < w + (j - i)
            <4>1. x - w + i \in i..(j - 1) /\ b2[x] = a[x - w + i]
                BY <1>1, <1>3, <2>1, <3>2
            <4> QED BY <4>1
        <3>3. CASE x >= w + (j - i)
            <4>1. x - (j - i) \in 0..(m + 1) /\ b2[x] = b[x - (j - i)]
                BY <1>1, <1>3, <2>1, <3>3
            <4> QED BY <4>1
        <3> QED BY <1>1, <1>3, <3>1, <3>2, <3>3
    <2>3. ASSUME NEW y \in 0..(m + 1)
          PROVE  \E x \in 0..(m2 + 1) : b[y] = b2[x]
        <3>1. CASE y < w
            <4>1. y \in 0..(m2 + 1) /\ b2[y] = b[y]
                BY <1>1, <1>3, <2>1, <3>1
            <4> QED BY <4>1
        <3>2. CASE y >= w
            <4>1. /\ y + (j - i) \in 0..(m2 + 1) /\ ~(y + (j - i) < w)
                  /\ ~(y + (j - i) < w + (j - i)) /\ y + (j - i) - (j - i) = y
                BY <1>1, <1>3, <3>2
            <4>2. b2[y + (j - i)] = b[y]
                BY <2>1, <4>1
            <4> QED BY <4>1, <4>2
        <3> QED BY <1>3, <3>1, <3>2
    <2>4. ASSUME NEW y \in i..(j - 1)
          PROVE  \E x \in 0..(m2 + 1) : a[y] = b2[x]
        <3>1. /\ y - i + w \in 0..(m2 + 1) /\ ~(y - i + w < w)
              /\ y - i + w < w + (j - i) /\ y - i + w - w + i = y
            BY <1>1, <1>3
        <3>2. b2[y - i + w] = a[y]
            BY <2>1, <3>1
        <3> QED BY <3>1, <3>2
    <2> QED BY <2>2, <2>3, <2>4
  <1>16. /\ at2[l] = a2 /\ len2[l] = n2 /\ at2[k] = b2 /\ len2[k] = m2
         /\ \A x \in created \ {l, k} : at2[x] = at[x] /\ len2[x] = len[x]
    BY DEF Put
  <1> HIDE DEF at2, len2, a2, b2, n2, m2
  <1>17. \A y : InLists(y, at, len, {l, k}) <=>
                    (\E x \in 0..(n + 1) : y = a[x]) \/ (\E x \in 0..(m + 1) : y = b[x])
    BY DEF InLists, a, n, b, m
  <1>18. \A y : InLists(y, at2, len2, {l, k}) <=>
                    (\E x \in 0..(n2 + 1) : y = a2[x]) \/ (\E x \in 0..(m2 + 1) : y = b2[x])
    BY <1>16 DEF InLists
  <1>19. Spared(at, len, {l, k}, heap, h2)
    <2>1. ASSUME NEW y \in DOMAIN heap, ~InLists(y, at, len, {l, k})
          PROVE  y \in DOMAIN h2 /\ h2[y].next = heap[y].next /\ h2[y].pre = heap[y].pre
        <3>1. (\A x \in 0..(n + 1) : y # a[x]) /\ (\A x \in 0..(m + 1) : y # b[x])
            BY <1>17, <2>1
        <3> QED BY <1>4, <1>9, <3>1
    <2> QED BY <2>1 DEF Spared
  <1>20. Rebuilt(at, len, {l, k}, heap, at2, len2, {l, k}, h2)
    <2>1. \A x \in {l, k} : IsChain(at2[x], len2[x], x, h2)
        BY <1>12, <1>13, <1>16
    <2>2. ASSUME NEW x \in 0..(n2 + 1), NEW y \in 0..(m2 + 1)
          PROVE  a2[x] # b2[y]
        <3>1. PICK u \in 0..(n + 1) : (u < i \/ u >= j) /\ a2[x] = a[u]
            BY <1>14
        <3>2. CASE \E v \in 0..(m + 1) : b2[y] = b[v]
            BY <1>2, <3>1, <3>2
        <3>3. CASE \E v \in i..(j - 1) : b2[y] = a[v]
            <4>1. PICK v \in i..(j - 1) : b2[y] = a[v]
                BY <3>3
            <4>2. v \in 0..(n + 1) /\ u # v
                BY <1>1, <1>3, <3>1
            <4> QED BY <1>5, <3>1, <4>1, <4>2
        <3> QED BY <1>15, <3>2, <3>3
    <2>3. ASSUME NEW x \in {l, k}, NEW y \in {l, k},
                 NEW u \in 0..(len2[x] + 1), NEW v \in 0..(len2[y] + 1), at2[x][u] = at2[y][v]
          PROVE  x = y
        BY <1>16, <2>2, <2>3
    <2>4. ASSUME NEW y, InLists(y, at2, len2, {l, k})
          PROVE  InLists(y, at, len, {l, k})
        <3>1. CASE \E x \in 0..(n2 + 1) : y = a2[x]
            BY <1>14, <1>17, <3>1
        <3>2. CASE \E x \in 0..(m2 + 1) : y = b2[x]
            <4>1. PICK x \in 0..(m2 + 1) : y = b2[x]
                BY <3>2
            <4>2. i..(j - 1) \subseteq 0..(n + 1)
                BY <1>1, <1>3
            <4> QED BY <1>15, <1>17, <4>1, <4>2
        <3> QED BY <1>18, <2>4, <3>1, <3>2
    <2>5. ASSUME NEW y, InLists(y, at, len, {l, k})
          PROVE  InLists(y, at2, len2, {l, k})
        <3>1. CASE \E x \in 0..(n + 1) : y = a[x]
            <4>1. PICK x \in 0..(n + 1) : y = a[x]
                BY <3>1
            <4>2. CASE x < i \/ x >= j
                BY <1>14, <1>18, <4>1, <4>2
            <4>3. CASE x >= i /\ x < j
                <5>1. x \in i..(j - 1)
                    BY <1>3, <4>3
                <5> QED BY <1>15, <1>18, <4>1, <5>1
            <4> QED BY <1>3, <4>2, <4>3
        <3>2. CASE \E x \in 0..(m + 1) : y = b[x]
            BY <1>15, <1>18, <3>2
        <3> QED BY <1>17, <2>5, <3>1, <3>2
    <2>6. \A y \in DOMAIN h2 : y \in DOMAIN heap
        BY <1>9
    <2> QED BY <2>1, <2>3, <2>4, <2>5, <2>6 DEF Rebuilt
  <1>21. {l, k} \in SUBSET created
    OBVIOUS
  <1>22. AreChains(at2, len2, created, h2)
    BY <1>16, <1>19, <1>20, <1>21, ChainsChange
  <1> QED BY <1>22 DEF at2, len2, h2, a2, b2, n2, m2, a, b, n, m

\* The chain of an empty list.
EmptyChain(l) == [i \in Nat |-> IF i = 0 THEN HeadOf(l) ELSE IF i = 1 THEN TailOf(l) ELSE Null]

\* The heap with the dummies of list l.
NewHeap(l) == CreateNodeDll(CreateNodeDll(heap, HeadOf(l), TailOf(l), Null, Null),
                            TailOf(l), Null, HeadOf(l), Null)

\* The dummies of a new list point to each other.
LEMMA CreateStores ==
    ASSUME AreNodes(heap), NEW l, HeadOf(l) # TailOf(l)
    PROVE  /\ AreNodes(NewHeap(l))
           /\ DOMAIN NewHeap(l) = DOMAIN heap \cup {HeadOf(l), TailOf(l)}
           /\ \A y \in DOMAIN heap \ {HeadOf(l), TailOf(l)} : NewHeap(l)[y] = heap[y]
           /\ NewHeap(l)[HeadOf(l)] = [next |-> TailOf(l), pre |-> Null, data |-> Null]
           /\ NewHeap(l)[TailOf(l)] = [next |-> Null, pre |-> HeadOf(l), data |-> Null]
  BY DEF NewHeap, CreateNodeDll, AreNodes, IsNode

\* A list more, which has no members.
LEMMA CreateChains ==
    ASSUME HeapInv, NEW at, NEW len, AreChains(at, len, created, heap),
           NEW l \in List, l \notin created
    PROVE  AreChains(Put(at, created \cup {l}, l, EmptyChain(l)),
                     Put(len, created \cup {l}, l, 0), created \cup {l}, NewHeap(l))
  <1> DEFINE c == EmptyChain(l)
             made2 == created \cup {l}
             at2 == Put(at, made2, l, c)
             len2 == Put(len, made2, l, 0)
             h2 == NewHeap(l)
             head == HeadOf(l)
             tail == TailOf(l)
  <1>1. /\ created \subseteq List /\ AreNodes(heap) /\ head # tail
        /\ \A k \in List : HeadOf(k) \notin Node /\ TailOf(k) \notin Node
    BY Addresses DEF HeapInv
  <1>2. /\ c[0] = head /\ c[1] = tail
        /\ \A i \in Nat : i > 1 => c[i] = Null
    BY DEF EmptyChain
  <1>3. head \notin DOMAIN heap /\ tail \notin DOMAIN heap
    <2> SUFFICES ASSUME NEW x \in DOMAIN heap
                 PROVE  x # head /\ x # tail
        OBVIOUS
    <2>1. PICK k \in created : \E i \in 0..(len[k] + 1) : x = at[k][i]
        BY DEF AreChains
    <2>0. PICK i \in 0..(len[k] + 1) : x = at[k][i]
        BY <2>1
    <2> DEFINE a == at[k]
               n == len[k]
    <2>2. IsChain(a, n, k, heap) /\ n \in Nat /\ k \in List /\ k # l
        BY <1>1, ChainLength DEF AreChains
    <2> HIDE DEF a, n
    <2>3. i = 0 \/ i = n + 1 \/ i \in 1..n
        BY <2>2 DEF n
    <2>4. a[i] \in {HeadOf(k), TailOf(k)} \cup Node
        BY <2>2, <2>3 DEF IsChain
    <2>5. {head, tail} \cap ({HeadOf(k), TailOf(k)} \cup Node) = {}
        BY <1>1, <2>2, Addresses
    <2> QED BY <2>0, <2>4, <2>5 DEF a
  <1>4. /\ DOMAIN h2 = DOMAIN heap \cup {head, tail}
        /\ \A y \in DOMAIN heap : h2[y] = heap[y]
        /\ h2[head] = [next |-> tail, pre |-> Null, data |-> Null]
        /\ h2[tail] = [next |-> Null, pre |-> head, data |-> Null]
    BY <1>1, <1>3, CreateStores
  <1> HIDE DEF c, h2, head, tail
  <1>5. IsChain(c, 0, l, h2)
    <2>1. \A i \in 0..(0 + 1) : i = 0 \/ i = 1
        OBVIOUS
    <2>2. c[0] = HeadOf(l) /\ c[0 + 1] = TailOf(l) /\ \A i \in Nat : i > 0 + 1 => c[i] = Null
        BY <1>2 DEF head, tail
    <2>3. /\ c[0] \in DOMAIN h2 /\ h2[c[0]].next = c[1] /\ h2[c[0]].pre = Null
          /\ c[1] \in DOMAIN h2 /\ h2[c[1]].next = c[2] /\ h2[c[1]].pre = c[0]
        BY <1>2, <1>4
    <2>4. c[0] # c[1]
        BY <1>1, <1>2
    <2>5. \A i \in 0..(0 + 1) : /\ c[i] \in DOMAIN h2
                                /\ h2[c[i]].next = c[i + 1]
                                /\ h2[c[i]].pre = IF i = 0 THEN Null ELSE c[i - 1]
        BY <2>1, <2>3
    <2>6. \A i, j \in 0..(0 + 1) : c[i] = c[j] => i = j
        BY <2>1, <2>4
    <2> QED BY <2>2, <2>5, <2>6 DEF IsChain
  <1>6. /\ at2[l] = c /\ len2[l] = 0
        /\ \A k \in created : at2[k] = at[k] /\ len2[k] = len[k]
    BY DEF Put
  <1> HIDE DEF at2, len2
  <1>7. \A y : ~InLists(y, at, len, {})
    BY DEF InLists
  <1>8. \A y : InLists(y, at2, len2, {l}) <=> y = head \/ y = tail
    BY <1>2, <1>6 DEF InLists
  <1>9. Spared(at, len, {}, heap, h2)
    BY <1>4 DEF Spared
  <1>10. Rebuilt(at, len, {}, heap, at2, len2, {l}, h2)
    <2>1. \A k \in {l} : IsChain(at2[k], len2[k], k, h2)
        BY <1>5, <1>6
    <2>2. \A x, k \in {l} : x = k
        OBVIOUS
    <2>3. \A y : InLists(y, at2, len2, {l}) => y \notin DOMAIN heap
        BY <1>3, <1>8
    <2>4. \A y \in DOMAIN h2 : y \in DOMAIN heap \/ InLists(y, at2, len2, {l})
        BY <1>4, <1>8
    <2> QED BY <1>7, <2>1, <2>2, <2>3, <2>4 DEF Rebuilt
  <1>11. /\ {} \in SUBSET created /\ {l} \in SUBSET made2 /\ created \ {} = made2 \ {l}
         /\ \A k \in created \ {} : at2[k] = at[k] /\ len2[k] = len[k]
    BY <1>6
  <1> HIDE DEF made2
  <1>12. AreChains(at2, len2, made2, h2)
    BY <1>9, <1>10, <1>11, ChainsChange
  <1> QED BY <1>12 DEF at2, len2, made2, h2, c

\* The nodes of a list, from its head to its tail.
LEMMA NodesOf ==
    ASSUME HeapInv, NEW at, NEW len, AreChains(at, len, created, heap), NEW l \in created
    PROVE  Range(Path(HeadOf(l), Null)) = {at[l][i] : i \in 0..(len[l] + 1)}
  <1> DEFINE nodes == Path(HeadOf(l), Null)
             a == at[l]
             n == len[l]
  <1>1. n \in Nat /\ nodes = [k \in 1..(n + 2) |-> a[k - 1]]
    BY ChainLength, ListIs, Addresses DEF AreChains, HeapInv
  <1> HIDE DEF nodes, a, n
  <1>2. ASSUME NEW x \in Range(nodes)
        PROVE  x \in {a[i] : i \in 0..(n + 1)}
    <2>1. PICK k \in 1..(n + 2) : x = a[k - 1]
        BY <1>1 DEF Range
    <2>2. k - 1 \in 0..(n + 1)
        BY <1>1
    <2> QED BY <2>1, <2>2
  <1>3. ASSUME NEW i \in 0..(n + 1)
        PROVE  a[i] \in Range(nodes)
    <2>1. i + 1 \in 1..(n + 2) /\ (i + 1) - 1 = i
        BY <1>1
    <2> QED BY <1>1, <2>1 DEF Range
  <1> QED BY <1>2, <1>3 DEF nodes, a, n

\* A list less.
LEMMA DestroyChains ==
    ASSUME HeapInv, NEW at, NEW len, AreChains(at, len, created, heap), NEW l \in created
    PROVE  AreChains(at, len, created \ {l}, FreeNodes(Range(Path(HeadOf(l), Null))))
  <1> DEFINE nodes == Range(Path(HeadOf(l), Null))
             h2 == FreeNodes(nodes)
             made2 == created \ {l}
  <1>1. \A y : y \in nodes <=> InLists(y, at, len, {l})
    BY NodesOf DEF InLists
  <1> HIDE DEF nodes
  <1>2. /\ DOMAIN h2 = DOMAIN heap \ nodes
        /\ \A y \in DOMAIN heap \ nodes : h2[y] = heap[y]
    BY DEF FreeNodes, Restrict
  <1> HIDE DEF h2
  <1>3. \A y : ~InLists(y, at, len, {})
    BY DEF InLists
  <1>4. Spared(at, len, {l}, heap, h2)
    BY <1>1, <1>2 DEF Spared
  <1>5. Rebuilt(at, len, {l}, heap, at, len, {}, h2)
    BY <1>1, <1>2, <1>3 DEF Rebuilt
  <1>6. /\ {l} \in SUBSET created /\ {} \in SUBSET made2 /\ created \ {l} = made2 \ {}
        /\ \A k \in created \ {l} : at[k] = at[k] /\ len[k] = len[k]
    OBVIOUS
  <1> HIDE DEF made2
  <1>7. AreChains(at, len, made2, h2)
    BY <1>4, <1>5, <1>6, ChainsChange
  <1> QED BY <1>7 DEF made2, h2, nodes

-----------------------------------------------------------------------------
(* The invariant *)

\* Next, with places in the chains for the addresses that a caller passes.
ChainNext(at, len) ==
    \/ \E l \in List : DLLCreate(l)
    \/ \E l \in created : DLLDestroy(l) \/ Look(l)
    \/ \E l \in created, d \in Data : DLLPushFront(l, d) \/ DLLPushBack(l, d)
    \/ \E l \in created, d \in Data : \E w \in 0..(len[l] + 1) : DLLInsert(l, at[l][w], d)
    \/ \E l \in created : len[l] # 0 /\ (DLLPopFront(l) \/ DLLPopBack(l))
    \/ \E l \in created : \E i \in 1..len[l] : DLLErase(at[l][i]) \/ LookAt(at[l][i])
    \/ \E l \in created : \E i, j \in 1..(len[l] + 1) :
         /\ i <= j
         /\ \/ \E d \in Data : DLLFind(l, at[l][i], at[l][j], d)
            \/ \E bad \in SUBSET Data : DLLForEach(at[l][i], at[l][j], bad)
    \/ \E l \in created : \E k \in created \ {l} : \E i, j \in 1..(len[l] + 1) :
         /\ i < j
         /\ \E w \in 1..(len[k] + 1) : DLLSplice(at[k][w], at[l][i], at[l][j])

\* The positions of a list and what is in their range.
LEMMA PositionsAre ==
    ASSUME HeapInv, NEW at, NEW len, AreChains(at, len, created, heap), NEW l \in created
    PROVE  /\ len[l] \in Nat
           /\ DLLIsEmpty(l) <=> len[l] = 0
           /\ HeadOf(l) = at[l][0]
           /\ DOMAIN Positions(l) = 1..(len[l] + 1)
           /\ \A i \in 1..(len[l] + 1) : Positions(l)[i] = at[l][i]
           /\ \A n \in Range(Positions(l)) : \E i \in 1..(len[l] + 1) : n = at[l][i]
           /\ \A n \in Range(Members(l)) : \E i \in 1..len[l] : n = at[l][i]
  <1>1. IsChain(at[l], len[l], l, heap) /\ len[l] \in Nat
    BY ChainLength DEF AreChains
  <1>2. /\ DLLIsEmpty(l) <=> len[l] = 0
        /\ Members(l) = [k \in 1..len[l] |-> at[l][k]]
        /\ Positions(l) = [k \in 1..(len[l] + 1) |-> at[l][k]]
    BY <1>1, ListIs, Addresses DEF HeapInv
  <1>3. HeadOf(l) = at[l][0]
    BY <1>1 DEF IsChain
  <1> QED BY <1>1, <1>2, <1>3 DEF Range

\* An address that a caller passes is that of a place in a chain.
LEMMA NextAlongChains ==
    ASSUME HeapInv, Next, NEW at, NEW len, AreChains(at, len, created, heap)
    PROVE  ChainNext(at, len)
  <1>1. CASE \E l \in List : DLLCreate(l)
    BY <1>1 DEF ChainNext
  <1>2. ASSUME NEW l \in created
        PROVE  /\ len[l] \in Nat
               /\ DLLIsEmpty(l) <=> len[l] = 0
               /\ HeadOf(l) = at[l][0]
               /\ DOMAIN Positions(l) = 1..(len[l] + 1)
               /\ \A i \in 1..(len[l] + 1) : Positions(l)[i] = at[l][i]
               /\ \A n \in Range(Positions(l)) : \E i \in 1..(len[l] + 1) : n = at[l][i]
               /\ \A n \in Range(Members(l)) : \E i \in 1..len[l] : n = at[l][i]
    BY PositionsAre
  <1>3. ASSUME NEW l \in created, DLLDestroy(l) \/ Look(l)
        PROVE  ChainNext(at, len)
    BY <1>3 DEF ChainNext
  <1>4. ASSUME NEW l \in created, NEW d \in Data, DLLPushFront(l, d) \/ DLLPushBack(l, d)
        PROVE  ChainNext(at, len)
    BY <1>4 DEF ChainNext
  <1>5. ASSUME NEW l \in created, NEW d \in Data,
               NEW n \in Range(Positions(l)) \cup {HeadOf(l)}, DLLInsert(l, n, d)
        PROVE  ChainNext(at, len)
    <2>1. \E w \in 0..(len[l] + 1) : n = at[l][w]
        <3>1. 0 \in 0..(len[l] + 1) /\ 1..(len[l] + 1) \subseteq 0..(len[l] + 1)
            BY <1>2
        <3> QED BY <1>2, <3>1
    <2>2. PICK w \in 0..(len[l] + 1) : n = at[l][w]
        BY <2>1
    <2> QED BY <1>5, <2>2, Zenon DEF ChainNext
  <1>6. ASSUME NEW l \in created, ~DLLIsEmpty(l), DLLPopFront(l) \/ DLLPopBack(l)
        PROVE  ChainNext(at, len)
    <2>1. len[l] # 0
        BY <1>2, <1>6
    <2> QED BY <1>6, <2>1, Zenon DEF ChainNext
  <1>7. ASSUME NEW l \in created, NEW n \in Range(Members(l)), DLLErase(n) \/ LookAt(n)
        PROVE  ChainNext(at, len)
    <2>1. PICK i \in 1..len[l] : n = at[l][i]
        BY <1>2
    <2> QED BY <1>7, <2>1, Zenon DEF ChainNext
  <1>8. ASSUME NEW l \in created, NEW i \in DOMAIN Positions(l), NEW j \in DOMAIN Positions(l),
               i <= j, NEW d \in Data, DLLFind(l, Positions(l)[i], Positions(l)[j], d)
        PROVE  ChainNext(at, len)
    <2>1. /\ i \in 1..(len[l] + 1) /\ j \in 1..(len[l] + 1)
          /\ Positions(l)[i] = at[l][i] /\ Positions(l)[j] = at[l][j]
        BY <1>2
    <2> QED BY <1>8, <2>1, Zenon DEF ChainNext
  <1>9. ASSUME NEW l \in created, NEW i \in DOMAIN Positions(l), NEW j \in DOMAIN Positions(l),
               i <= j, NEW bad \in SUBSET Data, DLLForEach(Positions(l)[i], Positions(l)[j], bad)
        PROVE  ChainNext(at, len)
    <2>1. /\ i \in 1..(len[l] + 1) /\ j \in 1..(len[l] + 1)
          /\ Positions(l)[i] = at[l][i] /\ Positions(l)[j] = at[l][j]
        BY <1>2
    <2> QED BY <1>9, <2>1, Zenon DEF ChainNext
  <1>10. ASSUME NEW l \in created, NEW k \in created \ {l},
                NEW i \in DOMAIN Positions(l), NEW j \in DOMAIN Positions(l), i < j,
                NEW where \in Range(Positions(k)),
                DLLSplice(where, Positions(l)[i], Positions(l)[j])
         PROVE  ChainNext(at, len)
    <2>1. /\ i \in 1..(len[l] + 1) /\ j \in 1..(len[l] + 1)
          /\ Positions(l)[i] = at[l][i] /\ Positions(l)[j] = at[l][j]
        BY <1>2
    <2>2. PICK w \in 1..(len[k] + 1) : where = at[k][w]
        BY <1>2
    <2> QED BY <1>10, <2>1, <2>2, Zenon DEF ChainNext
  <1> QED BY <1>1, <1>3, <1>4, <1>5, <1>6, <1>7, <1>8, <1>9, <1>10, Zenon DEF Next

\* Where a list has its first member and its last, and its two ends.
LEMMA EndsOfList ==
    ASSUME HeapInv, NEW at, NEW len, AreChains(at, len, created, heap), NEW l \in created
    PROVE  /\ len[l] \in Nat
           /\ DLLBegin(l) = at[l][1]
           /\ TailOf(l) = at[l][len[l] + 1]
           /\ heap[TailOf(l)].pre = at[l][len[l]]
           /\ \A w \in 1..(len[l] + 1) : at[l][w] # HeadOf(l)
           /\ at[l][0] = HeadOf(l)
           /\ \A i \in 0..(len[l] + 1) : /\ at[l][i] \in DOMAIN heap
                                         /\ heap[at[l][i]].next = at[l][i + 1]
                                         /\ i # 0 => heap[at[l][i]].pre = at[l][i - 1]
           /\ \A i \in 1..len[l] : at[l][i] \in Node
  <1> DEFINE a == at[l]
             n == len[l]
  <1>1. IsChain(a, n, l, heap) /\ n \in Nat
    BY ChainLength DEF AreChains
  <1> HIDE DEF a, n
  <1>2. DLLBegin(l) = a[1] /\ TailOf(l) = a[n + 1]
    BY <1>1, ListIs, Addresses DEF HeapInv, DLLEnd
  <1>3. heap[TailOf(l)].pre = a[n]
    <2>1. n + 1 \in 0..(n + 1) /\ n + 1 # 0 /\ (n + 1) - 1 = n
        BY <1>1
    <2> QED BY <1>1, <1>2, <2>1 DEF IsChain
  <1>4. \A w \in 1..(n + 1) : a[w] # HeadOf(l)
    <2>1. \A w \in 1..(n + 1) : w \in 0..(n + 1) /\ w # 0 /\ 0 \in 0..(n + 1)
        BY <1>1
    <2> QED BY <1>1, <2>1 DEF IsChain
  <1>5. /\ a[0] = HeadOf(l)
        /\ \A i \in 0..(n + 1) : /\ a[i] \in DOMAIN heap
                                 /\ heap[a[i]].next = a[i + 1]
                                 /\ i # 0 => heap[a[i]].pre = a[i - 1]
        /\ \A i \in 1..n : a[i] \in Node
    BY <1>1 DEF IsChain
  <1> QED BY <1>1, <1>2, <1>3, <1>4, <1>5 DEF a, n

\* What InsertToList does in front of the node at place w.
LEMMA InsertCases ==
    ASSUME HeapInv, NEW at, NEW len, AreChains(at, len, created, heap), NEW l \in created,
           NEW w \in 0..(len[l] + 1), NEW d, NEW args, InsertToList(l, at[l][w], d, args)
    PROVE  /\ created' = created
           /\ \/ w = 0 /\ heap' = heap /\ call' = [args EXCEPT !.iterator = TailOf(l)]
              \/ w # 0 /\ heap' = heap /\ call' = args
              \/ w # 0 /\ \E x \in Node \ DOMAIN heap : /\ heap' = Link(x, at[l][w], d)
                                                        /\ call' = [args EXCEPT !.iterator = x]
  <1>1. w = 0 <=> at[l][w] = HeadOf(l)
    <2>1. len[l] \in Nat /\ (w # 0 => w \in 1..(len[l] + 1))
        BY EndsOfList
    <2> QED BY <2>1, EndsOfList
  <1> QED BY <1>1, Zenon DEF InsertToList

\* Insertion, erasure, splicing, creation and destruction keep the invariant: the
\* chains they change are the witness for the next state.
LEMMA LinkKeepsInv ==
    ASSUME HeapInv, NEW at, NEW len, AreChains(at, len, created, heap), NEW l \in created,
           NEW w \in 1..(len[l] + 1), NEW x \in Node \ DOMAIN heap, NEW d \in Data,
           created' = created, heap' = Link(x, at[l][w], d)
    PROVE  HeapInv'
  <1>1. AreChains(Put(at, created, l, Inserted(at[l], w, x)),
                  Put(len, created, l, len[l] + 1), created', heap')
    BY LinkChains
  <1>2. Linked(heap', x, at[l][w], d)
    <2>1. w \in 0..(len[l] + 1) /\ w - 1 \in 0..(len[l] + 1) /\ w # 0
        BY EndsOfList
    <2>2. at[l][w] \in DOMAIN heap /\ heap[at[l][w]].pre \in DOMAIN heap
        BY <2>1, EndsOfList
    <2> QED BY <2>2, LinkStores DEF HeapInv
  <1>3. IsFiniteSet(DOMAIN heap')
    BY <1>2, FS_AddElement DEF Linked, HeapInv
  <1> QED BY <1>1, <1>2, <1>3 DEF HeapInv, Linked

LEMMA UnlinkKeepsInv ==
    ASSUME HeapInv, NEW at, NEW len, AreChains(at, len, created, heap), NEW l \in created,
           NEW i \in 1..len[l], created' = created, heap' = Unlink(at[l][i])
    PROVE  HeapInv'
  <1>1. AreChains(Put(at, created, l, Removed(at[l], i, i + 1)),
                  Put(len, created, l, len[l] - 1), created', heap')
    BY UnlinkChains
  <1>2. Unlinked(heap', at[l][i])
    <2>1. i \in 0..(len[l] + 1)
        BY EndsOfList
    <2>2. at[l][i] \in DOMAIN heap
        BY <2>1, EndsOfList
    <2> QED BY <2>2, UnlinkStores DEF HeapInv
  <1>3. IsFiniteSet(DOMAIN heap')
    BY <1>2, FS_RemoveElement DEF Unlinked, HeapInv
  <1> QED BY <1>1, <1>2, <1>3 DEF HeapInv, Unlinked

LEMMA RelinkKeepsInv ==
    ASSUME HeapInv, NEW at, NEW len, AreChains(at, len, created, heap),
           NEW l \in created, NEW k \in created \ {l},
           NEW i \in 1..(len[l] + 1), NEW j \in 1..(len[l] + 1), i < j,
           NEW w \in 1..(len[k] + 1),
           created' = created, heap' = Relink(at[k][w], at[l][i], at[l][j])
    PROVE  HeapInv' /\ Relinked(heap', at[k][w], at[l][i], at[l][j])
  <1>1. AreChains(Put(Put(at, created, l, Removed(at[l], i, j)), created,
                      k, Spliced(at[k], w, at[l], i, j)),
                  Put(Put(len, created, l, len[l] - (j - i)), created,
                      k, len[k] + (j - i)), created', heap')
    <2>1. j \in i..(len[l] + 1) /\ k # l
        BY EndsOfList
    <2> QED BY <2>1, RelinkChains
  <1> DEFINE a == at[l]
             n == len[l]
             b == at[k]
             m == len[k]
  <1>2. /\ n \in Nat /\ m \in Nat
        /\ i \in 0..(n + 1) /\ i - 1 \in 0..(n + 1) /\ j \in 0..(n + 1) /\ j - 1 \in 0..(n + 1)
        /\ w \in 0..(m + 1) /\ w - 1 \in 0..(m + 1) /\ i # 0 /\ j # 0 /\ w # 0
        /\ i # j /\ i - 1 # j - 1
    BY EndsOfList
  <1>3. /\ IsChain(a, n, l, heap)
        /\ \A x \in 0..(n + 1), y \in 0..(m + 1) : a[x] # b[y]
    BY DEF AreChains
  <1>4. /\ \A x \in 0..(n + 1) : /\ a[x] \in DOMAIN heap
                                 /\ x # 0 => heap[a[x]].pre = a[x - 1]
        /\ \A x \in 0..(m + 1) : /\ b[x] \in DOMAIN heap
                                 /\ x # 0 => heap[b[x]].pre = b[x - 1]
    BY EndsOfList
  <1> HIDE DEF a, n, b, m
  <1>5. \A x, y \in 0..(n + 1) : a[x] = a[y] => x = y
    BY <1>3 DEF IsChain
  <1>6. /\ b[w] \in DOMAIN heap /\ heap[b[w]].pre = b[w - 1] /\ b[w - 1] \in DOMAIN heap
        /\ a[i] \in DOMAIN heap /\ heap[a[i]].pre = a[i - 1] /\ a[i - 1] \in DOMAIN heap
        /\ a[j] \in DOMAIN heap /\ heap[a[j]].pre = a[j - 1] /\ a[j - 1] \in DOMAIN heap
        /\ b[w - 1] # a[i - 1] /\ b[w - 1] # a[j - 1] /\ a[i - 1] # a[j - 1]
        /\ b[w] # a[i] /\ b[w] # a[j] /\ a[i] # a[j]
    BY <1>2, <1>3, <1>4, <1>5
  <1>7. Relinked(Relink(b[w], a[i], a[j]), b[w], a[i], a[j])
    <2>1. AreNodes(heap)
        BY DEF HeapInv
    <2> QED BY <1>6, <2>1, RelinkStores
  <1>8. Relinked(heap', b[w], a[i], a[j])
    BY <1>7 DEF a, b
  <1>9. HeapInv'
    BY <1>1, <1>8 DEF HeapInv, Relinked
  <1> QED BY <1>8, <1>9 DEF a, b

LEMMA CreateKeepsInv ==
    ASSUME HeapInv, NEW l \in List, DLLCreate(l)
    PROVE  HeapInv'
  <1>1. CASE UNCHANGED <<created, heap>>
    BY <1>1 DEF HeapInv
  <1>2. CASE heap' = NewHeap(l) /\ created' = created \cup {l}
    <2>1. PICK at, len : AreChains(at, len, created, heap)
        BY DEF HeapInv
    <2>2. l \notin created
        BY DEF DLLCreate
    <2>3. AreChains(Put(at, created \cup {l}, l, EmptyChain(l)),
                    Put(len, created \cup {l}, l, 0), created', heap')
        BY <1>2, <2>1, <2>2, CreateChains
    <2>4. AreNodes(heap') /\ DOMAIN heap' = DOMAIN heap \cup {HeadOf(l), TailOf(l)}
        BY <1>2, Addresses, CreateStores DEF HeapInv
    <2>5. IsFiniteSet(DOMAIN heap \cup {HeadOf(l)})
        BY FS_AddElement DEF HeapInv
    <2>6. IsFiniteSet((DOMAIN heap \cup {HeadOf(l)}) \cup {TailOf(l)})
        BY <2>5, FS_AddElement
    <2>7. IsFiniteSet(DOMAIN heap')
        <3>1. DOMAIN heap' = (DOMAIN heap \cup {HeadOf(l)}) \cup {TailOf(l)}
            BY <2>4
        <3> QED BY <2>6, <3>1
    <2>8. created' \subseteq List
        BY <1>2 DEF HeapInv
    <2> QED BY <2>3, <2>4, <2>7, <2>8 DEF HeapInv
  <1> QED BY <1>1, <1>2 DEF DLLCreate, NewHeap

LEMMA DestroyKeepsInv ==
    ASSUME HeapInv, NEW l \in created, DLLDestroy(l)
    PROVE  HeapInv'
  <1>1. PICK at, len : AreChains(at, len, created, heap)
    BY DEF HeapInv
  <1>2. AreChains(at, len, created', heap')
    BY <1>1, DestroyChains DEF DLLDestroy
  <1>3. /\ DOMAIN heap' \subseteq DOMAIN heap
        /\ \A y \in DOMAIN heap' : heap'[y] = heap[y]
    BY DEF DLLDestroy, FreeNodes, Restrict
  <1>4. AreNodes(heap')
    BY <1>3 DEF HeapInv, AreNodes
  <1>5. IsFiniteSet(DOMAIN heap')
    BY <1>3, FS_Subset DEF HeapInv
  <1> QED BY <1>2, <1>4, <1>5 DEF HeapInv, DLLDestroy

LEMMA InsertKeepsInv ==
    ASSUME HeapInv, NEW at, NEW len, AreChains(at, len, created, heap), NEW l \in created,
           NEW w \in 0..(len[l] + 1), NEW d \in Data, NEW args, InsertToList(l, at[l][w], d, args)
    PROVE  HeapInv'
  <1>3. /\ created' = created
        /\ heap' = heap \/ (w # 0 /\ \E x \in Node \ DOMAIN heap : heap' = Link(x, at[l][w], d))
    <2>1. w = 0 => at[l][w] = HeadOf(l)
        BY EndsOfList
    <2> QED BY <2>1, Zenon DEF InsertToList
  <1>1. CASE heap' = heap /\ created' = created
    BY <1>1 DEF HeapInv
  <1>2. ASSUME w # 0, created' = created,
               NEW x \in Node \ DOMAIN heap, heap' = Link(x, at[l][w], d)
        PROVE  HeapInv'
    <2>1. w \in 1..(len[l] + 1)
        BY <1>2, EndsOfList
    <2> QED BY <1>2, <2>1, LinkKeepsInv
  <1> QED BY <1>1, <1>2, <1>3

\* There is no chain at first.
LEMMA InitInv ==
    ASSUME Init
    PROVE  HeapInv
  <1>1. created = {} /\ DOMAIN heap = {}
    BY DEF Init
  <1>2. \A at, len : AreChains(at, len, created, heap)
    BY <1>1 DEF AreChains
  <1>3. AreNodes(heap) /\ IsFiniteSet(DOMAIN heap)
    BY <1>1, FS_EmptySet DEF AreNodes
  <1> QED BY <1>1, <1>2, <1>3 DEF HeapInv

\* The invariant is inductive.
LEMMA NextInv ==
    ASSUME HeapInv, [Next]_vars
    PROVE  HeapInv'
  <1>1. PICK at, len : AreChains(at, len, created, heap)
    BY DEF HeapInv
  <1>2. CASE UNCHANGED <<created, heap>>
    BY <1>2 DEF HeapInv
  <1>3. ASSUME NEW l \in created, NEW d \in Data, DLLPushFront(l, d) \/ DLLPushBack(l, d)
        PROVE  HeapInv'
    <2>1. \E w \in 0..(len[l] + 1) : \E args : InsertToList(l, at[l][w], d, args)
        <3>1. CASE DLLPushFront(l, d)
            <4>1. 1 \in 0..(len[l] + 1) /\ DLLBegin(l) = at[l][1]
                BY <1>1, EndsOfList
            <4> QED BY <3>1, <4>1, Zenon DEF DLLPushFront
        <3>2. CASE DLLPushBack(l, d)
            <4>1. len[l] + 1 \in 0..(len[l] + 1) /\ TailOf(l) = at[l][len[l] + 1]
                BY <1>1, EndsOfList
            <4> QED BY <3>2, <4>1, Zenon DEF DLLPushBack
        <3> QED BY <1>3, <3>1, <3>2
    <2>2. PICK w \in 0..(len[l] + 1) : \E args : InsertToList(l, at[l][w], d, args)
        BY <2>1
    <2>3. PICK args : InsertToList(l, at[l][w], d, args)
        BY <2>2
    <2> QED BY <1>1, <2>3, InsertKeepsInv
  <1>4. ASSUME NEW l \in created, NEW d \in Data, NEW w \in 0..(len[l] + 1),
               DLLInsert(l, at[l][w], d)
        PROVE  HeapInv'
    <2>1. PICK args : InsertToList(l, at[l][w], d, args)
        BY <1>4, Zenon DEF DLLInsert
    <2> QED BY <1>1, <2>1, InsertKeepsInv
  <1>5. ASSUME NEW l \in created, len[l] # 0, DLLPopFront(l) \/ DLLPopBack(l)
        PROVE  HeapInv'
    <2>1. /\ len[l] \in Nat
          /\ DLLBegin(l) = at[l][1] /\ heap[TailOf(l)].pre = at[l][len[l]]
        BY <1>1, EndsOfList
    <2>2. 1 \in 1..len[l] /\ len[l] \in 1..len[l]
        BY <1>5, <2>1
    <2>3. created' = created
          /\ (heap' = Unlink(at[l][1]) \/ heap' = Unlink(at[l][len[l]]))
        BY <1>5, <2>1 DEF DLLPopFront, DLLPopBack
    <2> QED BY <1>1, <2>2, <2>3, UnlinkKeepsInv
  <1>6. ASSUME NEW l \in created, NEW i \in 1..len[l], DLLErase(at[l][i])
        PROVE  HeapInv'
    BY <1>1, <1>6, UnlinkKeepsInv DEF DLLErase
  <1>7. ASSUME NEW l \in created, NEW k \in created \ {l},
               NEW i \in 1..(len[l] + 1), NEW j \in 1..(len[l] + 1), i < j,
               NEW w \in 1..(len[k] + 1), DLLSplice(at[k][w], at[l][i], at[l][j])
        PROVE  HeapInv'
    BY <1>1, <1>7, RelinkKeepsInv DEF DLLSplice
  <1>8. ASSUME ChainNext(at, len)
        PROVE  HeapInv'
    <2>1. ASSUME NEW l \in created, NEW n, NEW m, NEW d, NEW bad,
                 Look(l) \/ LookAt(n) \/ DLLFind(l, n, m, d) \/ DLLForEach(n, m, bad)
          PROVE  HeapInv'
        BY <1>2, <2>1 DEF Look, LookAt, DLLFind, DLLForEach
    <2> QED BY <1>3, <1>4, <1>5, <1>6, <1>7, <1>8, <2>1, CreateKeepsInv, DestroyKeepsInv, Zenon
            DEF ChainNext
  <1> QED BY <1>1, <1>2, <1>8, NextAlongChains DEF vars

\* No call, failed or not, leaks a node, loses one from a list or puts it in two.
THEOREM NothingLeaksOrBreaks == Spec => []WellLinked
  <1>1. Init => HeapInv
    BY InitInv
  <1>2. HeapInv /\ [Next]_vars => HeapInv'
    BY NextInv
  <1>3. HeapInv => WellLinked
    BY ChainsAreWellLinked
  <1> QED BY <1>1, <1>2, <1>3, PTL DEF Spec

\* Every pointer is NULL or points to a node that is allocated.
THEOREM PointersStayValid == Spec => []TypeOK
  <1>1. Init => HeapInv
    BY InitInv
  <1>2. HeapInv /\ [Next]_vars => HeapInv'
    BY NextInv
  <1>3. HeapInv => TypeOK
    BY Addresses
  <1> QED BY <1>1, <1>2, <1>3, PTL DEF Spec

-----------------------------------------------------------------------------
(* The sequences behind the chains *)

\* The members of a chain, and of all of them.
Row(a, n) == [k \in 1..n |-> a[k]]
Rows(at, len, made) == [l \in made |-> Row(at[l], len[l])]

\* s has the n members of c behind place o.
Reads(s, n, c, o) == /\ s \in Seq(Node) /\ n \in Nat /\ o \in Nat /\ Len(s) = n
                     /\ \A k \in 1..n : s[k] = c[o + k]

\* One member.
LEMMA ReadsOne ==
    ASSUME NEW c, NEW o \in Nat, c[o + 1] \in Node
    PROVE  Reads(<<c[o + 1]>>, 1, c, o)
  BY DEF Reads

\* Another chain has the same members.
LEMMA ReadsOther ==
    ASSUME NEW s, NEW n, NEW a, NEW o, Reads(s, n, a, o),
           NEW c, NEW p \in Nat, \A k \in 1..n : c[p + k] = a[o + k]
    PROVE  Reads(s, n, c, p)
  BY DEF Reads

\* What is read in one piece after the other.
LEMMA ReadsJoined ==
    ASSUME NEW s, NEW n, NEW c, NEW o, Reads(s, n, c, o), NEW t, NEW m, Reads(t, m, c, o + n)
    PROVE  Reads(s \o t, n + m, c, o)
  <1>2. n \in Nat /\ m \in Nat /\ o \in Nat
    BY DEF Reads
  <1>1. /\ s \o t \in Seq(Node) /\ Len(s \o t) = n + m
        /\ \A k \in 1..(n + m) : (s \o t)[k] = IF k <= n THEN s[k] ELSE t[k - n]
    <2>1. s \in Seq(Node) /\ t \in Seq(Node) /\ Len(s) = n /\ Len(t) = m
        BY DEF Reads
    <2> QED BY <2>1, ConcatProperties
  <1>3. ASSUME NEW k \in 1..(n + m)
        PROVE  (s \o t)[k] = c[o + k]
    <2>1. CASE k <= n
        <3>1. k \in 1..n
            BY <1>2, <2>1
        <3> QED BY <1>1, <2>1, <3>1 DEF Reads
    <2>2. CASE ~(k <= n)
        <3>1. k - n \in 1..m /\ (o + n) + (k - n) = o + k
            BY <1>2, <2>2
        <3>2. t[k - n] = c[(o + n) + (k - n)]
            BY <3>1 DEF Reads
        <3> QED BY <1>1, <2>2, <3>1, <3>2
    <2> QED BY <2>1, <2>2
  <1> QED BY <1>1, <1>2, <1>3 DEF Reads

\* A whole chain was read.
LEMMA ReadsRow ==
    ASSUME NEW s, NEW n, NEW c, Reads(s, n, c, 0)
    PROVE  s = Row(c, n)
  <1>1. s \in Seq(Node) /\ n \in Nat /\ Len(s) = n /\ \A k \in 1..n : s[k] = c[k]
    BY DEF Reads
  <1>2. s = [k \in 1..n |-> s[k]]
    BY <1>1
  <1> QED BY <1>1, <1>2 DEF Row

\* The members of a chain are a sequence.
LEMMA RowIsSeq ==
    ASSUME NEW a, NEW n \in Nat, \A k \in 1..n : a[k] \in Node
    PROVE  /\ Row(a, n) \in Seq(Node)
           /\ Len(Row(a, n)) = n
           /\ DOMAIN Row(a, n) = 1..n
           /\ \A k \in 1..n : Row(a, n)[k] = a[k]
  BY DEF Row

\* A part of a row.
LEMMA PartOfRow ==
    ASSUME NEW a, NEW n \in Nat, \A k \in 1..n : a[k] \in Node,
           NEW i \in 1..(n + 1), NEW j \in 0..n, i <= j + 1
    PROVE  Reads(SubSeq(Row(a, n), i, j), j - i + 1, a, i - 1)
  <1> DEFINE s == Row(a, n)
  <1>1. s \in Seq(Node) /\ Len(s) = n /\ \A k \in 1..n : s[k] = a[k]
    BY RowIsSeq
  <1> HIDE DEF s
  <1>2. CASE i <= j
    <2>1. /\ SubSeq(s, i, j) \in Seq(Node) /\ Len(SubSeq(s, i, j)) = j - i + 1
          /\ \A k \in 1..(j - i + 1) : SubSeq(s, i, j)[k] = s[i + (k - 1)]
        <3>1. i \in 1..(Len(s) + 1) /\ j \in (i - 1)..Len(s) /\ i <= j
            BY <1>1, <1>2
        <3> QED BY <1>1, <3>1, SubSeqProperties
    <2>2. \A k \in 1..(j - i + 1) : /\ i + (k - 1) \in 1..n
                                    /\ i + (k - 1) = (i - 1) + k
        BY <1>2
    <2>3. \A k \in 1..(j - i + 1) : SubSeq(s, i, j)[k] = a[(i - 1) + k]
        BY <1>1, <2>1, <2>2
    <2>4. j - i + 1 \in Nat /\ i - 1 \in Nat
        BY <1>2
    <2> QED BY <2>1, <2>3, <2>4 DEF Reads, s
  <1>3. CASE i = j + 1
    <2>1. SubSeq(s, i, j) \in Seq(Node) /\ Len(SubSeq(s, i, j)) = 0
        <3>1. i \in 1..(Len(s) + 1) /\ j \in (i - 1)..Len(s) /\ ~(i <= j)
            BY <1>1, <1>3
        <3> QED BY <1>1, <3>1, SubSeqProperties
    <2>2. j - i + 1 = 0 /\ i - 1 \in Nat
        BY <1>3
    <2> QED BY <2>1, <2>2 DEF Reads, s
  <1> QED BY <1>2, <1>3

\* A chain with a member more.
LEMMA RowInserted ==
    ASSUME NEW a, NEW n \in Nat, \A k \in 1..n : a[k] \in Node,
           NEW w \in 1..(n + 1), NEW x \in Node
    PROVE  Row(Inserted(a, w, x), n + 1) = InsertAt(Row(a, n), w, x)
  <1> DEFINE s == Row(a, n)
             p == SubSeq(s, 1, w - 1)
             q == SubSeq(s, w, n)
             c == Inserted(a, w, x)
  <1>1. InsertAt(s, w, x) = p \o <<x>> \o q
    <2>1. Len(s) = n
        BY RowIsSeq
    <2> QED BY <2>1 DEF InsertAt
  <1>2. Reads(p, (w - 1) - 1 + 1, a, 1 - 1)
    BY PartOfRow
  <1>3. Reads(q, n - w + 1, a, w - 1)
    BY PartOfRow
  <1>4. \A k \in Nat : c[k] = IF k < w THEN a[k] ELSE IF k = w THEN x ELSE a[k - 1]
    BY DEF Inserted
  <1> HIDE DEF p, q, c, s
  <1>5. Reads(p, w - 1, c, 0)
    <2>1. (w - 1) - 1 + 1 = w - 1 /\ 1 - 1 = 0 /\ 0 \in Nat
          /\ \A k \in 1..(w - 1) : c[0 + k] = a[0 + k]
        BY <1>4
    <2>2. Reads(p, w - 1, a, 0)
        BY <1>2, <2>1
    <2> QED BY <2>1, <2>2, ReadsOther
  <1>6. Reads(<<x>>, 1, c, w - 1)
    <2>1. w - 1 \in Nat /\ c[(w - 1) + 1] = x
        BY <1>4
    <2> QED BY <2>1, ReadsOne
  <1>7. Reads(q, n - w + 1, c, w)
    <2>1. w \in Nat /\ \A k \in 1..(n - w + 1) : c[w + k] = a[(w - 1) + k]
        BY <1>4
    <2> QED BY <1>3, <2>1, ReadsOther
  <1>8. Reads(p \o <<x>>, w, c, 0)
    <2>1. 0 + (w - 1) = w - 1 /\ (w - 1) + 1 = w
        OBVIOUS
    <2>2. Reads(p \o <<x>>, (w - 1) + 1, c, 0)
        BY <1>5, <1>6, <2>1, ReadsJoined
    <2> QED BY <2>1, <2>2
  <1>9. Reads(p \o <<x>> \o q, n + 1, c, 0)
    <2>1. 0 + w = w /\ w + (n - w + 1) = n + 1
        OBVIOUS
    <2>2. Reads(p \o <<x>> \o q, w + (n - w + 1), c, 0)
        BY <1>7, <1>8, <2>1, ReadsJoined
    <2> QED BY <2>1, <2>2
  <1>10. p \o <<x>> \o q = Row(c, n + 1)
    BY <1>9, ReadsRow
  <1> QED BY <1>1, <1>10 DEF s, c

\* A chain without the members from i up to j.
LEMMA RowRemoved ==
    ASSUME NEW a, NEW n \in Nat, \A k \in 1..n : a[k] \in Node,
           NEW i \in 1..(n + 1), NEW j \in i..(n + 1)
    PROVE  Row(Removed(a, i, j), n - (j - i)) = SubSeq(Row(a, n), 1, i - 1) \o SubSeq(Row(a, n), j, n)
  <1> DEFINE s == Row(a, n)
             p == SubSeq(s, 1, i - 1)
             q == SubSeq(s, j, n)
             c == Removed(a, i, j)
  <1>2. Reads(p, (i - 1) - 1 + 1, a, 1 - 1)
    BY PartOfRow
  <1>3. Reads(q, n - j + 1, a, j - 1)
    BY PartOfRow
  <1>4. \A k \in Nat : c[k] = IF k < i THEN a[k] ELSE a[k + (j - i)]
    BY DEF Removed
  <1> HIDE DEF p, q, c, s
  <1>5. Reads(p, i - 1, c, 0)
    <2>1. (i - 1) - 1 + 1 = i - 1 /\ 1 - 1 = 0 /\ 0 \in Nat
          /\ \A k \in 1..(i - 1) : c[0 + k] = a[0 + k]
        BY <1>4
    <2>2. Reads(p, i - 1, a, 0)
        BY <1>2, <2>1
    <2> QED BY <2>1, <2>2, ReadsOther
  <1>6. Reads(q, n - j + 1, c, i - 1)
    <2>1. i - 1 \in Nat /\ \A k \in 1..(n - j + 1) : c[(i - 1) + k] = a[(j - 1) + k]
        <3>1. ASSUME NEW k \in 1..(n - j + 1)
              PROVE  c[(i - 1) + k] = a[(j - 1) + k]
            <4>1. (i - 1) + k \in Nat /\ ~((i - 1) + k < i) /\ (i - 1) + k + (j - i) = (j - 1) + k
                OBVIOUS
            <4> QED BY <1>4, <4>1
        <3> QED BY <3>1
    <2> QED BY <1>3, <2>1, ReadsOther
  <1>7. Reads(p \o q, n - (j - i), c, 0)
    <2>1. 0 + (i - 1) = i - 1 /\ (i - 1) + (n - j + 1) = n - (j - i)
        OBVIOUS
    <2>2. Reads(p \o q, (i - 1) + (n - j + 1), c, 0)
        BY <1>5, <1>6, <2>1, ReadsJoined
    <2> QED BY <2>1, <2>2
  <1>8. p \o q = Row(c, n - (j - i))
    BY <1>7, ReadsRow
  <1> QED BY <1>8 DEF s, p, q, c

\* Chain b with the members of a from i up to j in front of its w-th.
SplicesRows(a, n, b, m, i, j, w) ==
    Row(Spliced(b, w, a, i, j), m + (j - i)) =
        SubSeq(Row(b, m), 1, w - 1) \o SubSeq(Row(a, n), i, j - 1) \o SubSeq(Row(b, m), w, m)

LEMMA RowSpliced ==
    ASSUME NEW a, NEW n \in Nat, \A k \in 1..n : a[k] \in Node,
           NEW b, NEW m \in Nat, \A k \in 1..m : b[k] \in Node,
           NEW i \in 1..(n + 1), NEW j \in i..(n + 1), NEW w \in 1..(m + 1)
    PROVE  SplicesRows(a, n, b, m, i, j, w)
  <1> DEFINE p == SubSeq(Row(b, m), 1, w - 1)
             q == SubSeq(Row(a, n), i, j - 1)
             r == SubSeq(Row(b, m), w, m)
             c == Spliced(b, w, a, i, j)
             d == j - i
  <1>1. Reads(p, (w - 1) - 1 + 1, b, 1 - 1)
    BY PartOfRow
  <1>2. Reads(q, (j - 1) - i + 1, a, i - 1)
    BY PartOfRow
  <1>3. Reads(r, m - w + 1, b, w - 1)
    BY PartOfRow
  <1>4. /\ d \in Nat /\ d = (j - 1) - i + 1
        /\ \A k \in Nat : c[k] = IF k < w THEN b[k] ELSE IF k < w + d THEN a[k - w + i] ELSE b[k - d]
    BY DEF Spliced
  <1> HIDE DEF p, q, r, c, d
  <1>5. Reads(p, w - 1, c, 0)
    <2>1. (w - 1) - 1 + 1 = w - 1 /\ 1 - 1 = 0 /\ 0 \in Nat
          /\ \A k \in 1..(w - 1) : c[0 + k] = b[0 + k]
        BY <1>4
    <2>2. Reads(p, w - 1, b, 0)
        BY <1>1, <2>1
    <2> QED BY <2>1, <2>2, ReadsOther
  <1>6. Reads(q, d, c, w - 1)
    <2>1. w - 1 \in Nat /\ \A k \in 1..d : c[(w - 1) + k] = a[(i - 1) + k]
        <3>1. ASSUME NEW k \in 1..d
              PROVE  c[(w - 1) + k] = a[(i - 1) + k]
            <4>1. /\ (w - 1) + k \in Nat /\ ~((w - 1) + k < w) /\ (w - 1) + k < w + d
                  /\ (w - 1) + k - w + i = (i - 1) + k
                BY <1>4
            <4> QED BY <1>4, <4>1
        <3> QED BY <3>1
    <2>2. Reads(q, d, a, i - 1)
        BY <1>2, <1>4
    <2> QED BY <2>1, <2>2, ReadsOther
  <1>7. Reads(r, m - w + 1, c, w - 1 + d)
    <2>1. w - 1 + d \in Nat /\ \A k \in 1..(m - w + 1) : c[(w - 1 + d) + k] = b[(w - 1) + k]
        <3>1. ASSUME NEW k \in 1..(m - w + 1)
              PROVE  c[(w - 1 + d) + k] = b[(w - 1) + k]
            <4>1. /\ (w - 1 + d) + k \in Nat /\ ~((w - 1 + d) + k < w) /\ ~((w - 1 + d) + k < w + d)
                  /\ (w - 1 + d) + k - d = (w - 1) + k
                BY <1>4
            <4> QED BY <1>4, <4>1
        <3> QED BY <1>4, <3>1
    <2> QED BY <1>3, <2>1, ReadsOther
  <1>8. Reads(p \o q, w - 1 + d, c, 0)
    <2>1. 0 + (w - 1) = w - 1
        OBVIOUS
    <2> QED BY <1>5, <1>6, <2>1, ReadsJoined
  <1>9. Reads(p \o q \o r, m + d, c, 0)
    <2>1. 0 + (w - 1 + d) = w - 1 + d /\ (w - 1 + d) + (m - w + 1) = m + d
        BY <1>4
    <2>2. Reads(p \o q \o r, (w - 1 + d) + (m - w + 1), c, 0)
        BY <1>7, <1>8, <2>1, ReadsJoined
    <2> QED BY <2>1, <2>2
  <1>10. p \o q \o r = Row(c, m + d)
    BY <1>9, ReadsRow
  <1> QED BY <1>10 DEF p, q, r, c, d, SplicesRows

-----------------------------------------------------------------------------
(* The steps of IteratorLists *)

\* What a caller sees of the lists, in a heap with the chains at.
ContentsRead ==
    \A at, len : AreChains(at, len, created, heap) => Contents = Rows(at, len, created)

\* The walks of Members find the chains.
LEMMA ContentsAreRows ==
    ASSUME HeapInv
    PROVE  ContentsRead
  <1>1. ASSUME NEW at, NEW len, AreChains(at, len, created, heap), NEW l \in created
        PROVE  Members(l) = Row(at[l], len[l])
    <2>1. IsChain(at[l], len[l], l, heap)
        BY <1>1 DEF AreChains
    <2> QED BY <2>1, ListIs, Addresses DEF HeapInv, Row
  <1> QED BY <1>1 DEF ContentsRead, Contents, Rows

\* The members of a list and its iterators.
LEMMA SeenOfList ==
    ASSUME HeapInv, NEW at, NEW len, AreChains(at, len, created, heap), NEW l \in created
    PROVE  /\ DOMAIN Contents = created
           /\ Contents[l] = Row(at[l], len[l])
           /\ Contents[l] \in Seq(Node) /\ Len(Contents[l]) = len[l]
           /\ DOMAIN Contents[l] = 1..len[l]
           /\ \A i \in 1..len[l] : at[l][i] \in Node /\ Contents[l][i] = at[l][i]
           /\ \A i \in 0..(len[l] + 1) : Lists!At(l, i) = at[l][i]
  <1> DEFINE a == at[l]
             n == len[l]
  <1>1. IsChain(a, n, l, heap) /\ n \in Nat
    BY ChainLength DEF AreChains
  <1>2. Contents = Rows(at, len, created)
    BY ContentsAreRows DEF ContentsRead
  <1>3. DOMAIN Contents = created /\ Contents[l] = Row(a, n)
    BY <1>2 DEF Rows
  <1> HIDE DEF a, n
  <1>4. \A i \in 1..n : a[i] \in Node
    BY <1>1 DEF IsChain
  <1>5. /\ Contents[l] \in Seq(Node) /\ Len(Contents[l]) = n /\ DOMAIN Contents[l] = 1..n
        /\ \A i \in 1..n : Contents[l][i] = a[i]
    BY <1>1, <1>3, <1>4, RowIsSeq
  <1>6. ASSUME NEW i \in 0..(n + 1)
        PROVE  Lists!At(l, i) = a[i]
    <2>1. a[0] = HeadOf(l) /\ a[n + 1] = TailOf(l)
        BY <1>1 DEF IsChain
    <2>2. CASE i = 0
        BY <2>1, <2>2 DEF Lists!At, Lists!BeforeBegin, HeadOf
    <2>3. CASE i = n + 1
        <3>1. i # 0 /\ i > Len(Contents[l])
            BY <1>1, <1>5, <2>3
        <3> QED BY <2>1, <2>3, <3>1 DEF Lists!At, Lists!End, TailOf
    <2>4. CASE i \in 1..n
        <3>1. i # 0 /\ ~(i > Len(Contents[l]))
            BY <1>1, <1>5, <2>4
        <3> QED BY <1>5, <2>4, <3>1 DEF Lists!At
    <2> QED BY <1>1, <2>2, <2>3, <2>4
  <1> QED BY <1>3, <1>4, <1>5, <1>6 DEF a, n

\* A function that leaves the heap alone does not change what a caller sees.
LEMMA SameSeen ==
    ASSUME HeapInv, ContentsRead', created' = created, heap' = heap
    PROVE  Contents' = Contents /\ Stored' = Stored
  <1>1. PICK at, len : AreChains(at, len, created, heap)
    BY DEF HeapInv
  <1>2. AreChains(at, len, created', heap')
    BY <1>1
  <1>3. Contents' = Rows(at, len, created')
    BY <1>2 DEF ContentsRead
  <1>4. Contents = Rows(at, len, created)
    BY <1>1, ContentsAreRows DEF ContentsRead
  <1> QED BY <1>3, <1>4 DEF Stored

\* The functions that look at a list, at an iterator.
LEMMA LookStep ==
    ASSUME HeapInv, ContentsRead', NEW l \in created, Look(l)
    PROVE  Lists!Look(l)
  <1>1. PICK at, len : AreChains(at, len, created, heap)
    BY DEF HeapInv
  <1>2. /\ Len(Contents[l]) = len[l] /\ Contents[l] \in Seq(Node)
        /\ Lists!At(l, 1) = at[l][1]
    <2>1. 1 \in 0..(len[l] + 1)
        BY <1>1, EndsOfList
    <2> QED BY <1>1, <2>1, SeenOfList
  <1>3. (Contents[l] = <<>>) = DLLIsEmpty(l)
    <2>1. DLLIsEmpty(l) <=> len[l] = 0
        BY <1>1, PositionsAre
    <2>2. Contents[l] = <<>> <=> len[l] = 0
        BY <1>2
    <2>3. DLLIsEmpty(l) \in BOOLEAN
        BY DEF DLLIsEmpty
    <2> QED BY <2>1, <2>2, <2>3
  <1>4. Len(Contents[l]) = DLLGetSize(l) /\ Lists!At(l, 1) = DLLBegin(l)
    <2>1. IsChain(at[l], len[l], l, heap)
        BY <1>1 DEF AreChains
    <2>2. DLLGetSize(l) = len[l] /\ DLLBegin(l) = at[l][1]
        BY <2>1, ListIs, Addresses DEF HeapInv
    <2> QED BY <1>2, <2>2
  <1>5. Lists!End(l) = DLLEnd(l)
    BY DEF Lists!End, DLLEnd, TailOf
  <1>6. UNCHANGED <<Contents, Stored>>
    <2>1. created' = created /\ heap' = heap
        BY DEF Look
    <2> QED BY <2>1, SameSeen
  <1> QED BY <1>3, <1>4, <1>5, <1>6, Zenon DEF Look, Lists!Look

LEMMA LookAtStep ==
    ASSUME HeapInv, ContentsRead', NEW at, NEW len, AreChains(at, len, created, heap),
           NEW l \in created, NEW i \in 1..len[l], LookAt(at[l][i])
    PROVE  Lists!LookAt(l, i)
  <1>1. /\ i \in 0..(len[l] + 1) /\ i + 1 \in 0..(len[l] + 1) /\ i - 1 \in 0..(len[l] + 1)
        /\ i # 0
    BY EndsOfList
  <1>2. /\ Lists!At(l, i) = at[l][i] /\ Lists!At(l, i + 1) = at[l][i + 1]
        /\ Lists!At(l, i - 1) = at[l][i - 1] /\ at[l][i] \in Node
    BY <1>1, SeenOfList
  <1>3. /\ heap[at[l][i]].next = at[l][i + 1] /\ heap[at[l][i]].pre = at[l][i - 1]
        /\ at[l][i] \in DOMAIN heap
    BY <1>1, EndsOfList
  <1>4. Stored[at[l][i]] = heap[at[l][i]].data
    BY <1>2, <1>3 DEF Stored
  <1>5. UNCHANGED <<Contents, Stored>>
    <2>1. created' = created /\ heap' = heap
        BY Zenon DEF LookAt
    <2> QED BY <2>1, SameSeen
  <1> QED BY <1>2, <1>3, <1>4, <1>5, Zenon DEF LookAt, Lists!LookAt

\* p are the nodes from place i of a up to place j.
IsPart(p, a, i, j) == p = [k \in 1..(j - i) |-> a[i + k - 1]]

\* PathIs, to be cited.
LEMMA PathIsPart ==
    ASSUME IsFiniteSet(DOMAIN heap), Null \notin DOMAIN heap,
           NEW a, NEW n, NEW l, IsChain(a, n, l, heap),
           NEW i \in 0..(n + 1), NEW j \in i..(n + 2)
    PROVE  IsPart(Path(a[i], a[j]), a, i, j)
  <1>1. Path(a[i], a[j]) = [k \in 1..(j - i) |-> a[i + k - 1]]
    BY PathIs
  <1> QED BY <1>1 DEF IsPart

\* The members p of list l from place i up to place j, as the loops meet them.
IsRange(p, l, i, j) ==
    /\ j - i \in Nat
    /\ p = Lists!Between(l, i, j)
    /\ Len(p) = j - i
    /\ DOMAIN p = 1..(j - i)
    /\ \A k \in 1..(j - i) : /\ p[k] = Lists!At(l, i + k - 1)
                             /\ Stored[p[k]] = heap[p[k]].data

LEMMA RangeIsPath ==
    ASSUME HeapInv, NEW at, NEW len, AreChains(at, len, created, heap), NEW l \in created,
           NEW i \in 1..(len[l] + 1), NEW j \in 1..(len[l] + 1), i <= j
    PROVE  IsRange(Path(at[l][i], at[l][j]), l, i, j)
  <1> DEFINE a == at[l]
             n == len[l]
             s == Lists!Between(l, i, j)
  <1>1. IsChain(a, n, l, heap) /\ n \in Nat
    BY ChainLength DEF AreChains
  <1>2. /\ Contents[l] = Row(a, n) /\ \A k \in 1..n : a[k] \in Node
        /\ \A k \in 0..(n + 1) : Lists!At(l, k) = a[k]
        /\ \A k \in 0..(n + 1) : a[k] \in DOMAIN heap
    BY SeenOfList, EndsOfList
  <1>3. s = SubSeq(Row(a, n), i, j - 1)
    BY <1>2 DEF Lists!Between
  <1> HIDE DEF a, n, s
  <1>4. Reads(s, j - i, a, i - 1)
    <2>1. j - 1 \in 0..n /\ i <= (j - 1) + 1 /\ (j - 1) - i + 1 = j - i
        BY <1>1 DEF n
    <2>2. i \in 1..(n + 1)
        BY DEF n
    <2>3. Reads(SubSeq(Row(a, n), i, j - 1), (j - 1) - i + 1, a, i - 1)
        BY <1>1, <1>2, <2>1, <2>2, PartOfRow
    <2> QED BY <1>3, <2>1, <2>3
  <1>5. /\ s \in Seq(Node) /\ Len(s) = j - i /\ j - i \in Nat
        /\ \A k \in 1..(j - i) : s[k] = a[(i - 1) + k]
    BY <1>4 DEF Reads
  <1>6. Path(a[i], a[j]) = [k \in 1..(j - i) |-> a[i + k - 1]]
    <2>1. i \in 0..(n + 1) /\ j \in i..(n + 2)
        BY <1>1 DEF n
    <2>2. IsFiniteSet(DOMAIN heap) /\ Null \notin DOMAIN heap
        BY Addresses DEF HeapInv
    <2>3. IsPart(Path(a[i], a[j]), a, i, j)
        BY <1>1, <2>1, <2>2, PathIsPart
    <2> QED BY <2>3 DEF IsPart
  <1>7. ASSUME NEW k \in 1..(j - i)
        PROVE  /\ s[k] = a[i + k - 1] /\ s[k] = Lists!At(l, i + k - 1)
               /\ Stored[s[k]] = heap[s[k]].data
    <2>1. (i - 1) + k = i + k - 1 /\ i + k - 1 \in 1..n /\ i + k - 1 \in 0..(n + 1)
        BY <1>1 DEF n
    <2>2. s[k] = a[i + k - 1] /\ s[k] \in Node /\ s[k] \in DOMAIN heap
        BY <1>2, <1>5, <2>1
    <2> QED BY <1>2, <2>1, <2>2 DEF Stored
  <1>8. Path(a[i], a[j]) = s
    <2>1. s = [k \in 1..(j - i) |-> s[k]] /\ DOMAIN s = 1..(j - i)
        BY <1>5
    <2> QED BY <1>6, <1>7, <2>1
  <1>9. DOMAIN s = 1..(j - i)
    BY <1>5
  <1> QED BY <1>5, <1>7, <1>8, <1>9 DEF a, s, IsRange

\* IteratorLists has its own instance of Min.
LEMMA SameMin == \A S : Lists!Min(S) = Min(S)
  BY DEF Lists!Min, Min

\* A set of numbers has a least one.
LEMMA LeastIn ==
    ASSUME NEW S \in SUBSET Nat, S # {}
    PROVE  Min(S) \in S /\ \A y \in S : Min(S) <= y
  <1> DEFINE None == {m \in Nat : \A y \in S : m <= y}
  <1>1. \E m \in S : \A y \in S : m <= y
    <2> SUFFICES ASSUME \A m \in S : \E y \in S : y < m
                 PROVE  FALSE
        OBVIOUS
    <2>1. 0 \in None
        OBVIOUS
    <2>2. \A m \in None : m + 1 \in None
        OBVIOUS
    <2>3. None \in SUBSET Nat
        OBVIOUS
    <2>4. None = Nat
        <3> HIDE DEF None
        <3> QED BY <2>1, <2>2, <2>3, NatSetInduction
    <2>5. PICK m \in S : TRUE
        OBVIOUS
    <2>6. m + 1 \in Nat /\ ~(m + 1 <= m)
        OBVIOUS
    <2> QED BY <2>4, <2>6
  <1> QED BY <1>1 DEF Min

\* Where the first member of a range is that holds what is looked for.
LEMMA FindStep ==
    ASSUME HeapInv, ContentsRead', NEW at, NEW len, AreChains(at, len, created, heap),
           NEW l \in created, NEW i \in 1..(len[l] + 1), NEW j \in 1..(len[l] + 1), i <= j,
           NEW d \in Data, DLLFind(l, at[l][i], at[l][j], d)
    PROVE  Lists!Find(l, i, j, d)
  <1> DEFINE path == Path(at[l][i], at[l][j])
             hits == {k \in DOMAIN path : heap[path[k]].data = d}
             s == Lists!Between(l, i, j)
             hit == Lists!FirstMatch(s, LAMBDA x : x = d)
  <1>1. /\ path = s /\ DOMAIN s = 1..(j - i) /\ Len(s) = j - i /\ j - i \in Nat
        /\ \A k \in 1..(j - i) : s[k] = Lists!At(l, i + k - 1) /\ Stored[s[k]] = heap[s[k]].data
    <2>1. IsRange(path, l, i, j)
        BY RangeIsPath
    <2> QED BY <2>1 DEF IsRange
  <1>2. hit = IF hits = {} THEN 0 ELSE Min(hits)
    <2>1. hits = {k \in 1..Len(s) : Stored[s[k]] = d}
        BY <1>1
    <2> HIDE DEF s, hits, path
    <2>2. hit = IF {k \in 1..Len(s) : Stored[s[k]] = d} # {}
                 THEN Lists!Min({k \in 1..Len(s) : Stored[s[k]] = d}) ELSE 0
        BY DEF Lists!FirstMatch, Lists!SelectInSeq
    <2> HIDE DEF hit
    <2> QED BY <2>1, <2>2, SameMin
  <1>3. hits # {} => /\ Min(hits) \in 1..(j - i)
                     /\ path[Min(hits)] = Lists!At(l, i + Min(hits) - 1)
    <2>1. hits \in SUBSET Nat /\ hits \subseteq 1..(j - i)
        BY <1>1
    <2>2. hits # {} => Min(hits) \in hits
        <3> HIDE DEF hits
        <3> QED BY <2>1, LeastIn
    <2> HIDE DEF hits
    <2> QED BY <1>1, <2>1, <2>2
  <1>4. Lists!At(l, i) = at[l][i] /\ Lists!At(l, j) = at[l][j]
    <2>1. i \in 0..(len[l] + 1) /\ j \in 0..(len[l] + 1)
        BY EndsOfList
    <2> QED BY <2>1, SeenOfList
  <1>5. Lists!End(l) = DLLEnd(l)
    BY DEF Lists!End, DLLEnd, TailOf
  <1>6. UNCHANGED <<Contents, Stored>>
    <2>1. created' = created /\ heap' = heap
        BY Zenon DEF DLLFind
    <2> QED BY <2>1, SameSeen
  <1>7. call' = [fn |-> "DLLFind", from |-> at[l][i], to |-> at[l][j], data |-> d,
                 iterator |-> IF hits = {} THEN DLLEnd(l) ELSE path[Min(hits)]]
    BY Zenon DEF DLLFind
  <1> HIDE DEF hits, path, s, hit
  <1>8. (IF hits = {} THEN DLLEnd(l) ELSE path[Min(hits)]) =
            IF hit = 0 THEN Lists!End(l) ELSE Lists!At(l, i + hit - 1)
    <2>1. CASE hits = {}
        BY <1>2, <1>5, <2>1
    <2>2. CASE hits # {}
        <3>1. hit = Min(hits) /\ hit # 0
            BY <1>1, <1>2, <1>3, <2>2
        <3> QED BY <1>3, <2>2, <3>1
    <2> QED BY <2>1, <2>2
  <1> QED BY <1>4, <1>6, <1>7, <1>8, Zenon DEF Lists!Find, s, hit

\* How far a loop gets that ends at the first failure.
LEMMA ForEachStep ==
    ASSUME HeapInv, ContentsRead', NEW at, NEW len, AreChains(at, len, created, heap),
           NEW l \in created, NEW i \in 1..(len[l] + 1), NEW j \in 1..(len[l] + 1), i <= j,
           NEW bad \in SUBSET Data, DLLForEach(at[l][i], at[l][j], bad)
    PROVE  Lists!ForEach(l, i, j, bad)
  <1> DEFINE path == Path(at[l][i], at[l][j])
             fails == {k \in DOMAIN path : heap[path[k]].data \in bad}
             calls == IF fails = {} THEN Len(path) ELSE Min(fails)
             s == Lists!Between(l, i, j)
             fail == Lists!FirstMatch(s, LAMBDA x : x \in bad)
             last == IF fail = 0 THEN j - 1 ELSE i + fail - 1
  <1>1. /\ path = s /\ DOMAIN s = 1..(j - i) /\ Len(s) = j - i /\ j - i \in Nat
        /\ \A k \in 1..(j - i) : s[k] = Lists!At(l, i + k - 1) /\ Stored[s[k]] = heap[s[k]].data
    <2>1. IsRange(path, l, i, j)
        BY RangeIsPath
    <2> QED BY <2>1 DEF IsRange
  <1>2. fail = IF fails = {} THEN 0 ELSE Min(fails)
    <2>1. fails = {k \in 1..Len(s) : Stored[s[k]] \in bad}
        BY <1>1
    <2> HIDE DEF s, fails, path
    <2>2. fail = IF {k \in 1..Len(s) : Stored[s[k]] \in bad} # {}
                 THEN Lists!Min({k \in 1..Len(s) : Stored[s[k]] \in bad}) ELSE 0
        BY DEF Lists!FirstMatch, Lists!SelectInSeq
    <2> HIDE DEF fail
    <2> QED BY <2>1, <2>2, SameMin
  <1>3. fails # {} => Min(fails) \in 1..(j - i)
    <2>1. fails \in SUBSET Nat /\ fails \subseteq 1..(j - i)
        BY <1>1
    <2>2. fails # {} => Min(fails) \in fails
        <3> HIDE DEF fails
        <3> QED BY <2>1, LeastIn
    <2> HIDE DEF fails
    <2> QED BY <2>1, <2>2
  <1>4. Lists!At(l, i) = at[l][i] /\ Lists!At(l, j) = at[l][j]
    <2>1. i \in 0..(len[l] + 1) /\ j \in 0..(len[l] + 1)
        BY EndsOfList
    <2> QED BY <2>1, SeenOfList
  <1>5. UNCHANGED <<Contents, Stored>>
    <2>1. created' = created /\ heap' = heap
        BY Zenon DEF DLLForEach
    <2> QED BY <2>1, SameSeen
  <1>6. call' = [fn |-> "DLLForEach", from |-> at[l][i], to |-> at[l][j], bad |-> bad,
                 visited |-> [k \in 1..calls |-> heap[path[k]].data],
                 failed |-> fails # {}]
    BY Zenon DEF DLLForEach
  <1>7. i \in Int /\ j \in Int
    OBVIOUS
  <1> HIDE DEF fails, path, s, fail
  <1>8. (fails # {}) = (fail # 0)
    BY <1>1, <1>2, <1>3
  <1>9. calls \in 0..(j - i) /\ last - i + 1 = calls
    BY <1>1, <1>2, <1>3, <1>7
  <1> HIDE DEF calls, last
  <1>10. [k \in 1..calls |-> heap[path[k]].data] =
             [k \in 1..(last - i + 1) |-> Stored[Lists!At(l, i + k - 1)]]
    <2>1. \A k \in 1..calls : heap[path[k]].data = Stored[Lists!At(l, i + k - 1)]
        BY <1>1, <1>9
    <2> QED BY <1>9, <2>1
  <1> QED BY <1>4, <1>5, <1>6, <1>8, <1>10, Zenon DEF Lists!ForEach, s, fail, last

\* IteratorLists has its operators on sequences and functions from the same modules.
LEMMA SameOperators ==
    /\ \A t, i, e : Lists!InsertAt(t, i, e) = InsertAt(t, i, e)
    /\ \A t, i : Lists!RemoveAt(t, i) = RemoveAt(t, i)
    /\ \A t : Lists!Range(t) = Range(t)
    /\ \A f, S : Lists!Restrict(f, S) = [x \in S |-> f[x]]
  BY Zenon DEF Lists!InsertAt, InsertAt, Lists!RemoveAt, RemoveAt, Lists!Range, Range, Lists!Restrict

\* One row is changed.
LEMMA RowsPut ==
    ASSUME NEW at, NEW len, NEW made, NEW l \in made, NEW c, NEW m
    PROVE  Rows(Put(at, made, l, c), Put(len, made, l, m), made) =
               [Rows(at, len, made) EXCEPT ![l] = Row(c, m)]
  BY DEF Rows, Put

\* What a caller sees when a function has changed the chains to at2.
LEMMA SeenAfter ==
    ASSUME HeapInv, ContentsRead', NEW at, NEW len, AreChains(at, len, created, heap),
           NEW at2, NEW len2, AreChains(at2, len2, created', heap')
    PROVE  Contents = Rows(at, len, created) /\ Contents' = Rows(at2, len2, created')
  BY ContentsAreRows DEF ContentsRead

\* Insertion: a member more in the sequence, with its data, or no memory.
LEMMA InsertBeforeStep ==
    ASSUME HeapInv, ContentsRead', NEW at, NEW len, AreChains(at, len, created, heap),
           NEW l \in created, NEW w \in 1..(len[l] + 1), NEW d \in Data, NEW args,
           InsertToList(l, at[l][w], d, args)
    PROVE  \/ Lists!InsertBefore(l, w, d, args)
           \/ call' = args /\ UNCHANGED <<Contents, Stored>>
  <1> DEFINE a == at[l]
             n == len[l]
  <1>1. /\ created' = created
        /\ \/ heap' = heap /\ call' = args
           \/ \E x \in Node \ DOMAIN heap : /\ heap' = Link(x, a[w], d)
                                            /\ call' = [args EXCEPT !.iterator = x]
    <2>1. a[w] # HeadOf(l)
        BY EndsOfList
    <2> QED BY <2>1, Zenon DEF InsertToList
  <1>2. CASE heap' = heap /\ call' = args
    <2>1. UNCHANGED <<Contents, Stored>>
        BY <1>1, <1>2, SameSeen
    <2> QED BY <1>2, <2>1
  <1>3. ASSUME NEW x \in Node \ DOMAIN heap, heap' = Link(x, a[w], d),
               call' = [args EXCEPT !.iterator = x]
        PROVE  Lists!InsertBefore(l, w, d, args)
    <2>1. AreChains(Put(at, created, l, Inserted(a, w, x)), Put(len, created, l, n + 1),
                    created', heap')
        BY <1>1, <1>3, LinkChains
    <2>2. /\ n \in Nat /\ \A k \in 1..n : a[k] \in Node
          /\ a[w] \in DOMAIN heap /\ heap[a[w]].pre \in DOMAIN heap
        <3>1. w \in 0..(n + 1) /\ w - 1 \in 0..(n + 1) /\ w # 0
            BY EndsOfList
        <3> QED BY <3>1, EndsOfList
    <2>3. Contents' = [Contents EXCEPT ![l] = InsertAt(Contents[l], w, x)]
        <3>1. Row(Inserted(a, w, x), n + 1) = InsertAt(Row(a, n), w, x)
            BY <2>2, RowInserted
        <3>2. Contents[l] = Row(a, n)
            BY SeenOfList
        <3>3. /\ Contents = Rows(at, len, created)
              /\ Contents' = Rows(Put(at, created, l, Inserted(a, w, x)),
                                  Put(len, created, l, n + 1), created)
            BY <1>1, <2>1, SeenAfter
        <3> HIDE DEF a, n
        <3> QED BY <3>1, <3>2, <3>3, RowsPut
    <2>4. Linked(heap', x, a[w], d)
        BY <1>3, <2>2, LinkStores DEF HeapInv
    <2>5. Stored' = Lists!Extend(Stored, x, d) /\ DOMAIN Stored = DOMAIN heap \cap Node
        BY <2>4 DEF Linked, Stored, Lists!Extend
    <2>6. x \in Node \ DOMAIN Stored
        BY <2>5
    <2>7. Contents' = [Contents EXCEPT ![l] = Lists!InsertAt(Contents[l], w, x)]
        BY <2>3, SameOperators
    <2> QED BY <1>3, <2>5, <2>6, <2>7, Zenon DEF Lists!InsertBefore
  <1> QED BY <1>1, <1>2, <1>3

\* Erasure: a member less, and its data.
LEMMA RemoveStep ==
    ASSUME HeapInv, ContentsRead', NEW at, NEW len, AreChains(at, len, created, heap),
           NEW l \in created, NEW i \in 1..len[l], created' = created, heap' = Unlink(at[l][i])
    PROVE  Lists!RemoveMember(l, i)
  <1> DEFINE a == at[l]
             n == len[l]
  <1>1. AreChains(Put(at, created, l, Removed(a, i, i + 1)), Put(len, created, l, n - 1),
                  created', heap')
    BY UnlinkChains
  <1>2. /\ n \in Nat /\ i \in 0..(n + 1) /\ \A k \in 1..n : a[k] \in Node
        /\ a[i] \in DOMAIN heap
    <2>1. i \in 0..(n + 1)
        BY EndsOfList
    <2> QED BY <2>1, EndsOfList
  <1>3. Lists!At(l, i) = a[i] /\ Contents[l] = Row(a, n) /\ Len(Contents[l]) = n
    BY <1>2, SeenOfList
  <1>4. Contents' = [Contents EXCEPT ![l] = RemoveAt(Contents[l], i)]
    <2>1. Row(Removed(a, i, i + 1), n - ((i + 1) - i)) =
              SubSeq(Row(a, n), 1, i - 1) \o SubSeq(Row(a, n), i + 1, n)
        <3>1. i \in 1..(n + 1) /\ i + 1 \in i..(n + 1)
            BY <1>2
        <3> QED BY <1>2, <3>1, RowRemoved
    <2>2. n - ((i + 1) - i) = n - 1
        BY <1>2
    <2>3. Row(Removed(a, i, i + 1), n - 1) = RemoveAt(Contents[l], i)
        BY <1>3, <2>1, <2>2 DEF RemoveAt
    <2>4. /\ Contents = Rows(at, len, created)
          /\ Contents' = Rows(Put(at, created, l, Removed(a, i, i + 1)), Put(len, created, l, n - 1), created)
        BY <1>1, SeenAfter
    <2> HIDE DEF a, n
    <2> QED BY <2>3, <2>4, RowsPut
  <1>5. Unlinked(heap', a[i])
    BY <1>2, UnlinkStores DEF HeapInv
  <1>6. Stored' = [x \in (DOMAIN heap \cap Node) \ {a[i]} |-> Stored[x]]
    <2>1. DOMAIN heap' \cap Node = (DOMAIN heap \cap Node) \ {a[i]}
        BY <1>5 DEF Unlinked
    <2>2. \A x \in (DOMAIN heap \cap Node) \ {a[i]} : heap'[x].data = Stored[x]
        BY <1>5 DEF Unlinked, Stored
    <2> QED BY <2>1, <2>2 DEF Stored
  <1>7. Stored' = Lists!Restrict(Stored, DOMAIN Stored \ {Lists!At(l, i)})
    <2>1. DOMAIN Stored = DOMAIN heap \cap Node
        BY DEF Stored
    <2> QED BY <1>3, <1>6, <2>1, SameOperators
  <1>8. Contents' = [Contents EXCEPT ![l] = Lists!RemoveAt(Contents[l], i)]
    BY <1>4, SameOperators
  <1> QED BY <1>7, <1>8, Zenon DEF Lists!RemoveMember

\* Splicing: two sequences change, the data does not.
LEMMA SpliceStep ==
    ASSUME HeapInv, ContentsRead', NEW at, NEW len, AreChains(at, len, created, heap),
           NEW l \in created, NEW k \in created \ {l},
           NEW i \in 1..(len[l] + 1), NEW j \in 1..(len[l] + 1), i < j,
           NEW w \in 1..(len[k] + 1), DLLSplice(at[k][w], at[l][i], at[l][j]),
           Relinked(heap', at[k][w], at[l][i], at[l][j])
    PROVE  Lists!Splice(k, w, l, i, j)
  <1> DEFINE a == at[l]
             n == len[l]
             b == at[k]
             m == len[k]
             a2 == Removed(a, i, j)
             b2 == Spliced(b, w, a, i, j)
             d == j - i
             at1 == Put(at, created, l, a2)
             len1 == Put(len, created, l, n - d)
  <1>1. created' = created /\ heap' = Relink(b[w], a[i], a[j])
    BY Zenon DEF DLLSplice
  <1>2. /\ n \in Nat /\ m \in Nat
        /\ \A x \in 1..n : a[x] \in Node
        /\ \A x \in 1..m : b[x] \in Node
        /\ j \in i..(n + 1)
    BY EndsOfList
  <1>3. AreChains(Put(at1, created, k, b2), Put(len1, created, k, m + d), created', heap')
    BY <1>1, <1>2, RelinkChains
  <1>4. /\ Contents[l] = Row(a, n) /\ Len(Contents[l]) = n
        /\ Contents[k] = Row(b, m) /\ Len(Contents[k]) = m
        /\ Lists!At(l, i) = a[i] /\ Lists!At(l, j) = a[j] /\ Lists!At(k, w) = b[w]
    <2>1. i \in 0..(n + 1) /\ j \in 0..(n + 1) /\ w \in 0..(m + 1)
        BY <1>2
    <2>2. /\ Contents[l] = Row(a, n) /\ Len(Contents[l]) = n
          /\ Lists!At(l, i) = a[i] /\ Lists!At(l, j) = a[j]
        BY <2>1, SeenOfList
    <2>3. Contents[k] = Row(b, m) /\ Len(Contents[k]) = m /\ Lists!At(k, w) = b[w]
        BY <2>1, SeenOfList
    <2> QED BY <2>2, <2>3
  <1>5. /\ Contents = Rows(at, len, created)
        /\ Contents' = Rows(Put(at1, created, k, b2), Put(len1, created, k, m + d), created)
    BY <1>1, <1>3, SeenAfter
  <1>6. Row(a2, n - d) = Lists!Between(l, 1, i) \o Lists!Between(l, j, Len(Contents[l]) + 1)
    <2>1. Row(a2, n - d) = SubSeq(Row(a, n), 1, i - 1) \o SubSeq(Row(a, n), j, n)
        BY <1>2, RowRemoved
    <2>2. (n + 1) - 1 = n
        BY <1>2
    <2> HIDE DEF a, n, a2, d
    <2> QED BY <1>4, <2>1, <2>2 DEF Lists!Between
  <1>7. Row(b2, m + d) = Lists!Between(k, 1, w) \o Lists!Between(l, i, j)
                             \o Lists!Between(k, w, Len(Contents[k]) + 1)
    <2>1. Row(b2, m + d) = SubSeq(Row(b, m), 1, w - 1) \o SubSeq(Row(a, n), i, j - 1)
                               \o SubSeq(Row(b, m), w, m)
        <3>1. SplicesRows(a, n, b, m, i, j, w)
            <4>1. i \in 1..(n + 1) /\ j \in i..(n + 1) /\ w \in 1..(m + 1)
                BY <1>2
            <4> HIDE DEF a, n, b, m
            <4> QED BY <1>2, <4>1, RowSpliced
        <3> QED BY <3>1 DEF SplicesRows
    <2>2. (m + 1) - 1 = m
        BY <1>2
    <2> HIDE DEF a, n, b, m, b2, d
    <2> QED BY <1>4, <2>1, <2>2 DEF Lists!Between
  <1> HIDE DEF a2, b2
  <1>8. Contents' = [Contents EXCEPT ![k] = Row(b2, m + d), ![l] = Row(a2, n - d)]
    <2>1. Contents' = [Rows(at1, len1, created) EXCEPT ![k] = Row(b2, m + d)]
        BY <1>5, RowsPut
    <2>2. Rows(at1, len1, created) = [Contents EXCEPT ![l] = Row(a2, n - d)]
        BY <1>5, RowsPut
    <2>3. DOMAIN Contents = created
        BY SeenOfList
    <2> HIDE DEF at1, len1, n, m, d
    <2> QED BY <2>1, <2>2, <2>3
  <1>9. Stored' = Stored
    BY Zenon, <1>1 DEF Stored, Relinked
  <1>10. call' = [fn |-> "DLLSplice", where |-> b[w], from |-> a[i], to |-> a[j]]
    BY Zenon DEF DLLSplice
  <1> HIDE DEF a, n, b, m, d
  <1> QED BY <1>4, <1>6, <1>7, <1>8, <1>9, <1>10, Zenon DEF Lists!Splice

\* A list more, with no members, or no memory.
LEMMA CreateStep ==
    ASSUME HeapInv, ContentsRead', NEW at, NEW len, AreChains(at, len, created, heap),
           NEW l \in List, DLLCreate(l)
    PROVE  Lists!Create(l) \/ Lists!OutOfMemory
  <1>1. l \notin created /\ DOMAIN Contents = created
    BY DEF DLLCreate, Contents
  <1>2. CASE UNCHANGED <<created, heap>>
    <2>1. call' = [fn |-> "DLLCreate", list |-> Null] \/ created' = created \cup {l}
        BY Zenon DEF DLLCreate
    <2>2. call' = [fn |-> "DLLCreate", list |-> Null]
        BY <1>1, <1>2, <2>1
    <2>3. UNCHANGED <<Contents, Stored>>
        BY <1>2, SameSeen
    <2>4. l \in List \ DOMAIN Contents
        BY <1>1
    <2> QED BY <2>2, <2>3, <2>4, Zenon DEF Lists!OutOfMemory
  <1>3. CASE /\ heap' = NewHeap(l) /\ created' = created \cup {l}
             /\ call' = [fn |-> "DLLCreate", list |-> l]
    <2>1. AreChains(Put(at, created \cup {l}, l, EmptyChain(l)),
                    Put(len, created \cup {l}, l, 0), created', heap')
        BY <1>1, <1>3, CreateChains
    <2>2. /\ Contents = Rows(at, len, created)
          /\ Contents' = Rows(Put(at, created \cup {l}, l, EmptyChain(l)),
                              Put(len, created \cup {l}, l, 0), created \cup {l})
        BY <1>3, <2>1, SeenAfter
    <2>3. Row(EmptyChain(l), 0) = <<>>
        <3>1. Row(EmptyChain(l), 0) \in Seq(Node) /\ Len(Row(EmptyChain(l), 0)) = 0
            BY RowIsSeq
        <3> QED BY <3>1
    <2>4. Contents' = Lists!Extend(Contents, l, <<>>)
        <3>1. Contents' = [x \in created \cup {l} |-> IF x = l THEN <<>> ELSE Contents[x]]
            BY <2>2, <2>3 DEF Rows, Put
        <3> QED BY <1>1, <3>1, Zenon DEF Lists!Extend
    <2>5. /\ HeadOf(l) \notin Node /\ TailOf(l) \notin Node /\ HeadOf(l) # TailOf(l)
        BY Addresses
    <2>6. Stored' = Stored
        <3>1. /\ DOMAIN heap' = DOMAIN heap \cup {HeadOf(l), TailOf(l)}
              /\ \A y \in DOMAIN heap \ {HeadOf(l), TailOf(l)} : heap'[y] = heap[y]
            BY <1>3, <2>5, CreateStores DEF HeapInv
        <3>2. DOMAIN heap' \cap Node = DOMAIN heap \cap Node
            BY <2>5, <3>1
        <3>3. \A y \in DOMAIN heap \cap Node : heap'[y].data = heap[y].data
            BY <2>5, <3>1
        <3> QED BY <3>2, <3>3 DEF Stored
    <2> QED BY <1>1, <1>3, <2>4, <2>6, Zenon DEF Lists!Create
  <1> QED BY <1>2, <1>3, Zenon DEF DLLCreate, NewHeap

\* A list less, and the data of its members.
LEMMA DestroyStep ==
    ASSUME HeapInv, ContentsRead', NEW at, NEW len, AreChains(at, len, created, heap),
           NEW l \in created, DLLDestroy(l)
    PROVE  Lists!Destroy(l)
  <1> DEFINE nodes == Range(Path(HeadOf(l), Null))
  <1>1. /\ heap' = FreeNodes(nodes) /\ created' = created \ {l}
        /\ call' = [fn |-> "DLLDestroy", list |-> l]
    BY Zenon DEF DLLDestroy
  <1>2. AreChains(at, len, created', heap')
    BY <1>1, DestroyChains
  <1>3. Contents = Rows(at, len, created) /\ Contents' = Rows(at, len, created')
    BY <1>2, SeenAfter
  <1>4. Contents' = Lists!Restrict(Contents, DOMAIN Contents \ {l})
    <2>1. DOMAIN Contents = created /\ Contents' = [x \in created \ {l} |-> Contents[x]]
        BY <1>1, <1>3 DEF Rows
    <2> QED BY <2>1, SameOperators
  <1>5. \A x \in Node : x \in nodes <=> x \in Range(Contents[l])
    <2> DEFINE a == at[l]
               n == len[l]
    <2>1. nodes = {a[i] : i \in 0..(n + 1)}
        BY NodesOf
    <2>2. n \in Nat /\ a[0] = HeadOf(l) /\ a[n + 1] = TailOf(l)
        BY EndsOfList
    <2>3. HeadOf(l) \notin Node /\ TailOf(l) \notin Node
        BY Addresses
    <2>4. DOMAIN Contents[l] = 1..n /\ \A i \in 1..n : Contents[l][i] = a[i]
        BY SeenOfList
    <2> HIDE DEF nodes, a, n
    <2>5. \A i \in 0..(n + 1) : i = 0 \/ i = n + 1 \/ i \in 1..n
        BY <2>2
    <2>6. \A i \in 1..n : i \in 0..(n + 1)
        BY <2>2
    <2> QED BY <2>1, <2>2, <2>3, <2>4, <2>5, <2>6 DEF Range
  <1> HIDE DEF nodes
  <1>6. Stored' = Lists!Restrict(Stored, DOMAIN Stored \ Lists!Range(Contents[l]))
    <2>1. /\ DOMAIN heap' = DOMAIN heap \ nodes
          /\ \A y \in DOMAIN heap \ nodes : heap'[y] = heap[y]
        BY <1>1 DEF FreeNodes, Restrict
    <2>2. DOMAIN heap' \cap Node = (DOMAIN heap \cap Node) \ Range(Contents[l])
        BY <1>5, <2>1
    <2>3. \A y \in DOMAIN heap' \cap Node : heap'[y].data = Stored[y]
        BY <2>1 DEF Stored
    <2>4. DOMAIN Stored = DOMAIN heap \cap Node
        BY DEF Stored
    <2>5. Stored' = [y \in DOMAIN heap' \cap Node |-> heap'[y].data]
        BY DEF Stored
    <2> QED BY <2>2, <2>3, <2>4, <2>5, SameOperators
  <1> QED BY <1>1, <1>4, <1>6, Zenon DEF Lists!Destroy

\* Every step that ChainNext allows is one of IteratorLists.
LEMMA ChainStepMaps ==
    ASSUME HeapInv, ContentsRead', NEW at, NEW len, AreChains(at, len, created, heap),
           ChainNext(at, len)
    PROVE  Lists!Next
  <1>1. ASSUME NEW l \in created
        PROVE  /\ len[l] \in Nat
               /\ DOMAIN Contents = created
               /\ Len(Contents[l]) = len[l] /\ DOMAIN Contents[l] = 1..len[l]
               /\ Contents[l] = <<>> <=> len[l] = 0
               /\ \A i \in 0..(len[l] + 1) : Lists!At(l, i) = at[l][i]
    <2>1. /\ DOMAIN Contents = created
          /\ Len(Contents[l]) = len[l] /\ DOMAIN Contents[l] = 1..len[l]
          /\ Contents[l] \in Seq(Node)
          /\ \A i \in 0..(len[l] + 1) : Lists!At(l, i) = at[l][i]
        BY SeenOfList
    <2>2. Contents[l] = <<>> <=> len[l] = 0
        BY <2>1
    <2>3. len[l] \in Nat
        BY EndsOfList
    <2> QED BY <2>1, <2>2, <2>3
  <1>2. ASSUME NEW l \in List, DLLCreate(l)
        PROVE  Lists!Next
    <2>1. Lists!Create(l) \/ Lists!OutOfMemory
        BY <1>2, CreateStep
    <2> QED BY <2>1, Zenon DEF Lists!Next
  <1>3. ASSUME NEW l \in created, DLLDestroy(l) \/ Look(l)
        PROVE  Lists!Next
    <2>1. Lists!Destroy(l) \/ Lists!Look(l)
        BY <1>3, DestroyStep, LookStep
    <2> QED BY <1>1, <2>1, Zenon DEF Lists!Next
  <1>4. ASSUME NEW l \in created, NEW d \in Data, DLLPushFront(l, d) \/ DLLPushBack(l, d)
        PROVE  Lists!Next
    <2>1. CASE DLLPushFront(l, d)
        <3> DEFINE args == [fn |-> "DLLPushFront", list |-> l, data |-> d, iterator |-> Null]
        <3>1. DLLBegin(l) = at[l][1] /\ 1 \in 1..(len[l] + 1)
            BY EndsOfList
        <3>2. InsertToList(l, at[l][1], d, args)
            BY <2>1, <3>1, Zenon DEF DLLPushFront
        <3> HIDE DEF args
        <3>3. \/ Lists!InsertBefore(l, 1, d, args)
              \/ call' = args /\ UNCHANGED <<Contents, Stored>>
            BY <3>1, <3>2, InsertBeforeStep
        <3>4. args = Lists!DLLPushFront(l, d)
            BY Zenon DEF Lists!DLLPushFront, args
        <3>5. Lists!PushFront(l, d) \/ Lists!OutOfMemory
            BY <1>1, <3>3, <3>4, Zenon DEF Lists!PushFront, Lists!OutOfMemory
        <3> QED BY <1>1, <3>5, Zenon DEF Lists!Next
    <2>2. CASE DLLPushBack(l, d)
        <3> DEFINE args == [fn |-> "DLLPushBack", list |-> l, data |-> d, iterator |-> Null]
        <3>1. TailOf(l) = at[l][len[l] + 1] /\ len[l] + 1 \in 1..(len[l] + 1)
            BY EndsOfList
        <3>2. InsertToList(l, at[l][len[l] + 1], d, args)
            BY <2>2, <3>1, Zenon DEF DLLPushBack
        <3> HIDE DEF args
        <3>3. \/ Lists!InsertBefore(l, len[l] + 1, d, args)
              \/ call' = args /\ UNCHANGED <<Contents, Stored>>
            BY <3>1, <3>2, InsertBeforeStep
        <3>4. args = Lists!DLLPushBack(l, d)
            BY Zenon DEF Lists!DLLPushBack, args
        <3>5. Lists!PushBack(l, d) \/ Lists!OutOfMemory
            BY <1>1, <3>3, <3>4, Zenon DEF Lists!PushBack, Lists!OutOfMemory
        <3> QED BY <1>1, <3>5, Zenon DEF Lists!Next
    <2> QED BY <1>4, <2>1, <2>2
  <1>5. ASSUME NEW l \in created, NEW d \in Data, NEW w \in 0..(len[l] + 1),
               DLLInsert(l, at[l][w], d)
        PROVE  Lists!Next
    <2> DEFINE args == [fn |-> "DLLInsert", list |-> l, where |-> at[l][w], data |-> d,
                        iterator |-> Null]
               larg == [fn |-> "DLLInsert", list |-> l, where |-> Lists!At(l, w), data |-> d,
                        iterator |-> Null]
    <2>1. InsertToList(l, at[l][w], d, args)
        BY <1>5, Zenon DEF DLLInsert
    <2>2. args = larg
        BY <1>1, Zenon
    <2> HIDE DEF args, larg
    <2>3. CASE w # 0
        <3>1. w \in 1..(len[l] + 1) /\ w > 0
            BY <1>1, <2>3
        <3>2. \/ Lists!InsertBefore(l, w, d, larg)
              \/ call' = larg /\ UNCHANGED <<Contents, Stored>>
            BY <2>1, <2>2, <3>1, InsertBeforeStep
        <3>3. larg = Lists!DLLInsert(l, w, d)
            BY Zenon DEF Lists!DLLInsert, larg
        <3>4. w \in 1..(Len(Contents[l]) + 1)
            BY <1>1, <3>1
        <3>5. Lists!Insert(l, w, d) \/ Lists!OutOfMemory
            BY <1>1, <3>1, <3>2, <3>3, <3>4, Zenon DEF Lists!Insert, Lists!OutOfMemory
        <3> QED BY <1>1, <3>5, Zenon DEF Lists!Next
    <2>4. CASE w = 0
        <3>1. at[l][w] = HeadOf(l)
            BY <2>4, EndsOfList
        <3>2. /\ call' = [args EXCEPT !.iterator = TailOf(l)]
              /\ heap' = heap /\ created' = created
            BY <2>1, <3>1, Zenon DEF InsertToList
        <3>3. UNCHANGED <<Contents, Stored>>
            BY <3>2, SameSeen
        <3>4. TailOf(l) = Lists!End(l)
            BY DEF TailOf, Lists!End
        <3>5. call' = [larg EXCEPT !.iterator = Lists!End(l)]
            BY <2>2, <3>2, <3>4, Zenon
        <3>6. Lists!Insert(l, w, d)
            BY <2>4, <3>3, <3>5, Zenon DEF Lists!Insert, Lists!DLLInsert, larg
        <3> QED BY <1>1, <3>6, Zenon DEF Lists!Next
    <2> QED BY <2>3, <2>4
  <1>6. ASSUME NEW l \in created, len[l] # 0, DLLPopFront(l) \/ DLLPopBack(l)
        PROVE  Lists!Next
    <2>1. /\ 1 \in 1..len[l] /\ len[l] \in 1..len[l]
          /\ DLLBegin(l) = at[l][1] /\ heap[TailOf(l)].pre = at[l][len[l]]
        BY <1>1, <1>6, EndsOfList
    <2>2. Contents[l] # <<>>
        BY <1>1, <1>6
    <2>3. CASE DLLPopFront(l)
        <3>1. created' = created /\ heap' = Unlink(at[l][1])
              /\ call' = [fn |-> "DLLPopFront", list |-> l]
            BY <2>1, <2>3, Zenon DEF DLLPopFront
        <3>2. Lists!RemoveMember(l, 1)
            BY <2>1, <3>1, RemoveStep
        <3>3. Lists!PopFront(l)
            BY <3>1, <3>2, Zenon DEF Lists!PopFront
        <3> QED BY <1>1, <2>2, <3>3, Zenon DEF Lists!Next
    <2>4. CASE DLLPopBack(l)
        <3>1. created' = created /\ heap' = Unlink(at[l][len[l]])
              /\ call' = [fn |-> "DLLPopBack", list |-> l]
            BY <2>1, <2>4, Zenon DEF DLLPopBack
        <3>2. Lists!RemoveMember(l, len[l])
            BY <2>1, <3>1, RemoveStep
        <3>3. Lists!PopBack(l)
            BY <1>1, <3>1, <3>2, Zenon DEF Lists!PopBack
        <3> QED BY <1>1, <2>2, <3>3, Zenon DEF Lists!Next
    <2> QED BY <1>6, <2>3, <2>4
  <1>7. ASSUME NEW l \in created, NEW i \in 1..len[l], DLLErase(at[l][i]) \/ LookAt(at[l][i])
        PROVE  Lists!Next
    <2>1. CASE LookAt(at[l][i])
        <3>1. Lists!LookAt(l, i)
            BY <2>1, LookAtStep
        <3> QED BY <1>1, <3>1, Zenon DEF Lists!Next
    <2>2. CASE DLLErase(at[l][i])
        <3>1. /\ created' = created /\ heap' = Unlink(at[l][i])
              /\ call' = [fn |-> "DLLErase", where |-> at[l][i], iterator |-> heap[at[l][i]].next]
            BY <2>2, Zenon DEF DLLErase
        <3>2. i \in 0..(len[l] + 1) /\ i + 1 \in 0..(len[l] + 1)
            BY <1>1
        <3>3. /\ Lists!At(l, i) = at[l][i] /\ Lists!At(l, i + 1) = at[l][i + 1]
              /\ heap[at[l][i]].next = at[l][i + 1]
            BY <1>1, <3>2, EndsOfList
        <3>4. Lists!RemoveMember(l, i)
            BY <3>1, RemoveStep
        <3>5. Lists!Erase(l, i)
            BY <3>1, <3>3, <3>4, Zenon DEF Lists!Erase
        <3> QED BY <1>1, <3>5, Zenon DEF Lists!Next
    <2> QED BY <1>7, <2>1, <2>2
  <1>8. ASSUME NEW l \in created, NEW i \in 1..(len[l] + 1), NEW j \in 1..(len[l] + 1), i <= j,
               \/ \E d \in Data : DLLFind(l, at[l][i], at[l][j], d)
               \/ \E bad \in SUBSET Data : DLLForEach(at[l][i], at[l][j], bad)
        PROVE  Lists!Next
    <2>1. \/ \E d \in Data : Lists!Find(l, i, j, d)
          \/ \E bad \in SUBSET Data : Lists!ForEach(l, i, j, bad)
        BY <1>8, FindStep, ForEachStep
    <2>2. i \in 1..(Len(Contents[l]) + 1) /\ j \in 1..(Len(Contents[l]) + 1)
        BY <1>1
    <2> QED BY <1>1, <1>8, <2>1, <2>2, Zenon DEF Lists!Next
  <1>9. ASSUME NEW l \in created, NEW k \in created \ {l},
               NEW i \in 1..(len[l] + 1), NEW j \in 1..(len[l] + 1), i < j,
               NEW w \in 1..(len[k] + 1), DLLSplice(at[k][w], at[l][i], at[l][j])
        PROVE  Lists!Next
    <2>1. created' = created /\ heap' = Relink(at[k][w], at[l][i], at[l][j])
        BY <1>9, Zenon DEF DLLSplice
    <2>2. Relinked(heap', at[k][w], at[l][i], at[l][j])
        BY <1>9, <2>1, RelinkKeepsInv
    <2>3. Lists!Splice(k, w, l, i, j)
        BY <1>9, <2>2, SpliceStep
    <2>4. /\ i \in 1..(Len(Contents[l]) + 1) /\ j \in 1..(Len(Contents[l]) + 1)
          /\ w \in 1..(Len(Contents[k]) + 1) /\ k \in DOMAIN Contents \ {l}
        BY <1>1
    <2> QED BY <1>1, <1>9, <2>3, <2>4, Zenon DEF Lists!Next
  <1> QED BY <1>2, <1>3, <1>4, <1>5, <1>6, <1>7, <1>8, <1>9, Zenon DEF ChainNext

\* So is every step.
LEMMA StepMaps ==
    ASSUME HeapInv, ContentsRead', [Next]_vars
    PROVE  [Lists!Next]_(Lists!vars)
  <1>1. PICK at, len : AreChains(at, len, created, heap)
    BY DEF HeapInv
  <1>2. CASE Next
    BY <1>1, <1>2, NextAlongChains, ChainStepMaps
  <1>3. CASE UNCHANGED vars
    <2>1. created' = created /\ heap' = heap /\ call' = call
        BY <1>3 DEF vars
    <2> QED BY <2>1, SameSeen DEF Lists!vars
  <1> QED BY <1>2, <1>3

\* There are no lists at first.
LEMMA InitMaps ==
    ASSUME Init
    PROVE  Lists!Init
  <1>1. created = {} /\ DOMAIN heap = {} /\ call = [fn |-> "none"]
    BY DEF Init
  <1>2. Contents = <<>> /\ Stored = <<>>
    BY <1>1 DEF Contents, Stored
  <1> QED BY <1>1, <1>2 DEF Lists!Init

\* The nodes implement sequences of members with identity, whatever is inserted,
\* erased or spliced: every call maps to the call of IteratorLists with its result.
THEOREM ListsAreSequences == Spec => IsIteratorLists
  <1>1. Init => HeapInv /\ Lists!Init
    BY InitInv, InitMaps
  <1>2. HeapInv /\ [Next]_vars => HeapInv'
    BY NextInv
  <1>3. HeapInv => ContentsRead
    BY ContentsAreRows
  <1>4. HeapInv /\ ContentsRead' /\ [Next]_vars => [Lists!Next]_(Lists!vars)
    BY StepMaps
  <1> QED BY <1>1, <1>2, <1>3, <1>4, PTL DEF Spec, IsIteratorLists, Lists!Spec
=============================================================================
