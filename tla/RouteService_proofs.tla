------------------------ MODULE RouteService_proofs ------------------------
(***************************************************************************)
(* Theorems about RouteService and the sparse Merkle map it commits with,  *)
(* for every depth of the map, every profile, every set of manifests and   *)
(* every number of steps.                                                  *)
(***************************************************************************)
EXTENDS RouteService, WellFoundedInduction, FiniteSetTheorems, TLAPS

(***************************************************************************)
(* What a proof of the sparse Merkle map is worth, for every depth: an     *)
(* honest opening verifies, and a proof that verifies under the root of a  *)
(* map states what the map holds.  The recursions are unfolded by hand:    *)
(* each is shown to have a solution on 0..n for every n.                   *)
(***************************************************************************)
Below == {ss \in Nat \X Nat : ss[1] < ss[2]}

\* The order of the naturals is well-founded.
LEMMA BelowWellFounded == IsWellFoundedOn(Below, Nat)
  BY NatLessThanWellFounded, Zenon DEF OpToRel, Below

\* A non-empty set of naturals has a least element.
LEMMA LeastElement ==
  ASSUME NEW T, T \subseteq Nat, T # {}
  PROVE  \E n \in T : \A m \in T : n <= m
<1>1. PICK n \in T : \A m \in T : ~(<<m, n>> \in Below)
  BY WFMin, BelowWellFounded
<1>2. \A m \in T : ~(m < n)
  BY <1>1 DEF Below
<1> QED BY <1>2

\* Induction over the naturals, with a set for the predicate.
LEMMA Induction ==
  ASSUME NEW S, S \subseteq Nat, 0 \in S, \A n \in S : n + 1 \in S
  PROVE  S = Nat
<1> DEFINE T == Nat \ S
<1>1. SUFFICES ASSUME T # {} PROVE FALSE
  OBVIOUS
<1>2. PICK n \in T : \A m \in T : n <= m
  BY <1>1, LeastElement
<1>3. n - 1 \in Nat /\ n - 1 \notin T
  BY <1>2
<1> QED BY <1>2, <1>3

(***************************************************************************)
(* The recursive definitions.                                              *)
(***************************************************************************)
DefaultUpTo(f, n) ==
  f = [h \in 0..n |-> IF h = 0 THEN EmptyLeaf ELSE NodeHash(f[h - 1], f[h - 1])]

\* The default hashes of the levels up to a height, as a function.
LEMMA DefaultExists == \A n \in Nat : \E f : DefaultUpTo(f, n)
<1> DEFINE S == {n \in Nat : \E f : DefaultUpTo(f, n)}
<1>1. 0 \in S
  <2>1. DefaultUpTo([h \in 0..0 |-> EmptyLeaf], 0)
    BY DEF DefaultUpTo
  <2> QED BY <2>1
<1>2. ASSUME NEW n \in S PROVE n + 1 \in S
  <2>1. PICK f : DefaultUpTo(f, n)
    OBVIOUS
  <2> DEFINE g == [h \in 0..(n + 1) |-> IF h = n + 1 THEN NodeHash(f[n], f[n]) ELSE f[h]]
  <2>2. DefaultUpTo(g, n + 1)
    BY <2>1 DEF DefaultUpTo
  <2> QED BY <2>2
<1>3. S = Nat
  BY <1>1, <1>2, Induction
<1> QED BY <1>3

\* There is one such function, as far as two of them go.
LEMMA DefaultUnique ==
  ASSUME NEW p \in Nat, NEW q \in Nat, NEW f, NEW g,
         DefaultUpTo(f, p), DefaultUpTo(g, q)
  PROVE  \A n \in Nat : n <= p /\ n <= q => f[n] = g[n]
<1> DEFINE S == {n \in Nat : n <= p /\ n <= q => f[n] = g[n]}
<1>1. 0 \in S
  BY DEF DefaultUpTo
<1>2. ASSUME NEW n \in S PROVE n + 1 \in S
  BY DEF DefaultUpTo
<1>3. S = Nat
  BY <1>1, <1>2, Induction
<1> QED BY <1>3

\* The recursion of the default hashes.
LEMMA DefaultHashDef ==
  /\ DefaultHash[0] = EmptyLeaf
  /\ \A h \in Nat : DefaultHash[h + 1] = NodeHash(DefaultHash[h], DefaultHash[h])
<1> DEFINE Sol(n) == CHOOSE f : DefaultUpTo(f, n)
           D == [h \in Nat |-> Sol(h)[h]]
<1>1. \A n \in Nat : DefaultUpTo(Sol(n), n)
  BY DefaultExists
<1>2. \A n \in Nat : D[n + 1] = NodeHash(D[n], D[n])
  <2> SUFFICES ASSUME NEW n \in Nat PROVE D[n + 1] = NodeHash(D[n], D[n])
    OBVIOUS
  <2>1. Sol(n + 1)[n] = Sol(n)[n]
    <3> HIDE DEF Sol
    <3> QED BY <1>1, DefaultUnique, n + 1 \in Nat
  <2>2. Sol(n + 1)[n + 1] = NodeHash(Sol(n + 1)[n], Sol(n + 1)[n])
    <3> HIDE DEF Sol
    <3>1. DefaultUpTo(Sol(n + 1), n + 1)
      BY <1>1
    <3> QED BY <3>1 DEF DefaultUpTo
  <2> HIDE DEF Sol
  <2> QED BY <2>1, <2>2
<1>3. D[0] = EmptyLeaf
  <2> HIDE DEF Sol
  <2>1. DefaultUpTo(Sol(0), 0)
    BY <1>1
  <2> QED BY <2>1 DEF DefaultUpTo
<1>4. D = [h \in Nat |-> IF h = 0 THEN EmptyLeaf ELSE NodeHash(D[h - 1], D[h - 1])]
  <2> DEFINE R == [h \in Nat |-> IF h = 0 THEN EmptyLeaf ELSE NodeHash(D[h - 1], D[h - 1])]
  <2>1. \A h \in Nat : D[h] = R[h]
    <3> SUFFICES ASSUME NEW h \in Nat PROVE D[h] = R[h]
      OBVIOUS
    <3> HIDE DEF D
    <3>1. CASE h = 0
      BY <3>1, <1>3
    <3>2. CASE h # 0
      <4>1. h - 1 \in Nat /\ (h - 1) + 1 = h
        BY <3>2
      <4>2. D[(h - 1) + 1] = NodeHash(D[h - 1], D[h - 1])
        BY <4>1, <1>2
      <4> QED BY <4>1, <4>2, <3>2
    <3> QED BY <3>1, <3>2
  <2>2. DOMAIN D = Nat /\ DOMAIN R = Nat
    OBVIOUS
  <2> QED BY <2>1, <2>2
<1>5. DefaultHash = [h \in Nat |-> IF h = 0 THEN EmptyLeaf
                                   ELSE NodeHash(DefaultHash[h - 1], DefaultHash[h - 1])]
  <2> HIDE DEF D
  <2> QED BY <1>4 DEF DefaultHash
<1> QED BY <1>5

\* The walk of one proof, up to height n.
WalkUpTo(f, n, key, siblings, leaf) ==
  f = [h \in 0..n |-> IF h = 0 THEN leaf ELSE Climb(key, siblings, h, f[h - 1])]

\* The hashes on the way up from a leaf, as a function.
LEMMA WalkExists ==
  ASSUME NEW key, NEW siblings, NEW leaf
  PROVE  \A n \in Nat : \E f : WalkUpTo(f, n, key, siblings, leaf)
<1> DEFINE W(f, n) == WalkUpTo(f, n, key, siblings, leaf)
           S == {n \in Nat : \E f : W(f, n)}
<1>1. 0 \in S
  <2>1. W([h \in 0..0 |-> leaf], 0)
    BY DEF WalkUpTo
  <2> QED BY <2>1
<1>2. ASSUME NEW n \in S PROVE n + 1 \in S
  <2>1. PICK f : W(f, n)
    OBVIOUS
  <2> DEFINE g == [h \in 0..(n + 1) |->
                     IF h = n + 1 THEN Climb(key, siblings, n + 1, f[n]) ELSE f[h]]
  <2>2. W(g, n + 1)
    BY <2>1 DEF WalkUpTo
  <2> QED BY <2>2
<1>3. S = Nat
  <2> HIDE DEF W
  <2> QED BY <1>1, <1>2, Induction
<1> QED BY <1>3

\* There is one such function, as far as two of them go.
LEMMA WalkUnique ==
  ASSUME NEW key, NEW siblings, NEW leaf, NEW p \in Nat, NEW q \in Nat, NEW f, NEW g,
         WalkUpTo(f, p, key, siblings, leaf), WalkUpTo(g, q, key, siblings, leaf)
  PROVE  \A n \in Nat : n <= p /\ n <= q => f[n] = g[n]
<1> DEFINE S == {n \in Nat : n <= p /\ n <= q => f[n] = g[n]}
<1>1. 0 \in S
  BY DEF WalkUpTo
<1>2. ASSUME NEW n \in S PROVE n + 1 \in S
  BY DEF WalkUpTo
<1>3. S = Nat
  BY <1>1, <1>2, Induction
<1> QED BY <1>3

\* The recursion of the hash walk of compute_root.
LEMMA WalkDef ==
  ASSUME NEW key, NEW siblings, NEW leaf
  PROVE  /\ Walk(key, siblings, leaf)[0] = leaf
         /\ \A h \in Nat : Walk(key, siblings, leaf)[h + 1] =
                            Climb(key, siblings, h + 1, Walk(key, siblings, leaf)[h])
<1> DEFINE W(f, n) == WalkUpTo(f, n, key, siblings, leaf)
           Sol(n) == CHOOSE f : W(f, n)
           D == [h \in Nat |-> Sol(h)[h]]
           Rec(f) == [h \in Nat |-> IF h = 0 THEN leaf ELSE Climb(key, siblings, h, f[h - 1])]
           Chosen == CHOOSE f : f = Rec(f)
<1>1. \A n \in Nat : W(Sol(n), n)
  BY WalkExists
<1>2. \A n \in Nat : D[n + 1] = Climb(key, siblings, n + 1, D[n])
  <2> SUFFICES ASSUME NEW n \in Nat PROVE D[n + 1] = Climb(key, siblings, n + 1, D[n])
    OBVIOUS
  <2> HIDE DEF Sol
  <2>1. Sol(n + 1)[n] = Sol(n)[n]
    BY <1>1, WalkUnique, n + 1 \in Nat
  <2>2. Sol(n + 1)[n + 1] = Climb(key, siblings, n + 1, Sol(n + 1)[n])
    <3>1. W(Sol(n + 1), n + 1)
      BY <1>1
    <3> QED BY <3>1 DEF WalkUpTo
  <2> QED BY <2>1, <2>2
<1>3. D[0] = leaf
  <2> HIDE DEF Sol
  <2>1. W(Sol(0), 0)
    BY <1>1
  <2> QED BY <2>1 DEF WalkUpTo
<1>4. D = Rec(D)
  <2>1. \A h \in Nat : D[h] = Rec(D)[h]
    <3> SUFFICES ASSUME NEW h \in Nat PROVE D[h] = Rec(D)[h]
      OBVIOUS
    <3> HIDE DEF D
    <3>1. CASE h = 0
      BY <3>1, <1>3
    <3>2. CASE h # 0
      <4>1. h - 1 \in Nat /\ (h - 1) + 1 = h
        BY <3>2
      <4>2. D[(h - 1) + 1] = Climb(key, siblings, (h - 1) + 1, D[h - 1])
        BY <4>1, <1>2
      <4> QED BY <4>1, <4>2, <3>2
    <3> QED BY <3>1, <3>2
  <2>2. DOMAIN D = Nat /\ DOMAIN Rec(D) = Nat
    OBVIOUS
  <2> QED BY <2>1, <2>2
<1>5. Chosen = Rec(Chosen)
  <2> HIDE DEF D, Rec
  <2> QED BY <1>4
<1>6. Walk(key, siblings, leaf) = Chosen
  BY Zenon DEF Walk
<1> HIDE DEF Chosen
<1> QED BY <1>5, <1>6

\* The stored nodes of a map, up to height n.
NodesUpTo(f, n, entries) ==
  f = [h \in 0..n |-> IF h = 0 THEN LeafLevel(entries) ELSE ParentLevel(f[h - 1], h)]

\* The stored nodes of the levels up to a height, as a function.
LEMMA NodesExists ==
  ASSUME NEW entries
  PROVE  \A n \in Nat : \E f : NodesUpTo(f, n, entries)
<1> DEFINE W(f, n) == NodesUpTo(f, n, entries)
           S == {n \in Nat : \E f : W(f, n)}
<1>1. 0 \in S
  <2>1. W([h \in 0..0 |-> LeafLevel(entries)], 0)
    BY DEF NodesUpTo
  <2> QED BY <2>1
<1>2. ASSUME NEW n \in S PROVE n + 1 \in S
  <2>1. PICK f : W(f, n)
    OBVIOUS
  <2> DEFINE g == [h \in 0..(n + 1) |->
                     IF h = n + 1 THEN ParentLevel(f[n], n + 1) ELSE f[h]]
  <2>2. W(g, n + 1)
    BY <2>1 DEF NodesUpTo
  <2> QED BY <2>2
<1>3. S = Nat
  <2> HIDE DEF W
  <2> QED BY <1>1, <1>2, Induction
<1> QED BY <1>3

\* There is one such function, as far as two of them go.
LEMMA NodesUnique ==
  ASSUME NEW entries, NEW p \in Nat, NEW q \in Nat, NEW f, NEW g,
         NodesUpTo(f, p, entries), NodesUpTo(g, q, entries)
  PROVE  \A n \in Nat : n <= p /\ n <= q => f[n] = g[n]
<1> DEFINE S == {n \in Nat : n <= p /\ n <= q => f[n] = g[n]}
<1>1. 0 \in S
  BY DEF NodesUpTo
<1>2. ASSUME NEW n \in S PROVE n + 1 \in S
  BY DEF NodesUpTo
<1>3. S = Nat
  BY <1>1, <1>2, Induction
<1> QED BY <1>3

\* The recursion of _ensure_built.
LEMMA NodesDef ==
  ASSUME NEW entries
  PROVE  /\ Nodes(entries)[0] = LeafLevel(entries)
         /\ \A h \in Nat : Nodes(entries)[h + 1] =
                            ParentLevel(Nodes(entries)[h], h + 1)
<1> DEFINE W(f, n) == NodesUpTo(f, n, entries)
           Sol(n) == CHOOSE f : W(f, n)
           D == [h \in Nat |-> Sol(h)[h]]
           Rec(f) == [h \in Nat |-> IF h = 0 THEN LeafLevel(entries) ELSE ParentLevel(f[h - 1], h)]
           Chosen == CHOOSE f : f = Rec(f)
<1>1. \A n \in Nat : W(Sol(n), n)
  BY NodesExists
<1>2. \A n \in Nat : D[n + 1] = ParentLevel(D[n], n + 1)
  <2> SUFFICES ASSUME NEW n \in Nat PROVE D[n + 1] = ParentLevel(D[n], n + 1)
    OBVIOUS
  <2> HIDE DEF Sol
  <2>1. Sol(n + 1)[n] = Sol(n)[n]
    BY <1>1, NodesUnique, n + 1 \in Nat
  <2>2. Sol(n + 1)[n + 1] = ParentLevel(Sol(n + 1)[n], n + 1)
    <3>1. W(Sol(n + 1), n + 1)
      BY <1>1
    <3> QED BY <3>1 DEF NodesUpTo
  <2> QED BY <2>1, <2>2
<1>3. D[0] = LeafLevel(entries)
  <2> HIDE DEF Sol
  <2>1. W(Sol(0), 0)
    BY <1>1
  <2> QED BY <2>1 DEF NodesUpTo
<1>4. D = Rec(D)
  <2>1. \A h \in Nat : D[h] = Rec(D)[h]
    <3> SUFFICES ASSUME NEW h \in Nat PROVE D[h] = Rec(D)[h]
      OBVIOUS
    <3> HIDE DEF D
    <3>1. CASE h = 0
      BY <3>1, <1>3
    <3>2. CASE h # 0
      <4>1. h - 1 \in Nat /\ (h - 1) + 1 = h
        BY <3>2
      <4>2. D[(h - 1) + 1] = ParentLevel(D[h - 1], (h - 1) + 1)
        BY <4>1, <1>2
      <4> QED BY <4>1, <4>2, <3>2
    <3> QED BY <3>1, <3>2
  <2>2. DOMAIN D = Nat /\ DOMAIN Rec(D) = Nat
    OBVIOUS
  <2> QED BY <2>1, <2>2
<1>5. Chosen = Rec(Chosen)
  <2> HIDE DEF D, Rec
  <2> QED BY <1>4
<1>6. Nodes(entries) = Chosen
  BY Zenon DEF Nodes, LeafLevel
<1> HIDE DEF Chosen
<1> QED BY <1>5, <1>6

(***************************************************************************)
(* PathsTo and levels.                                                    *)
(***************************************************************************)

\* What prefixes and children of prefixes are made of.
LEMMA PrefixFacts ==
  ASSUME NEW key \in Keys, NEW level \in Nat, level < Depth
  PROVE  /\ PrefixOf(key, level) \in PathsTo(level)
         /\ KeyBit(key, level) \in Bit
         /\ Child(PrefixOf(key, level), level, KeyBit(key, level)) = PrefixOf(key, level + 1)
<1> USE DepthAssumption
<1>1. KeyBit(key, level) \in Bit
  BY DEF Keys, PathsTo, KeyBit
<1>2. PrefixOf(key, level) \in PathsTo(level)
  BY DEF Keys, PathsTo, PrefixOf
<1>3. \A i \in 0..level : i = level \/ i \in 0..(level - 1)
  OBVIOUS
<1>4. Child(PrefixOf(key, level), level, KeyBit(key, level)) = PrefixOf(key, level + 1)
  BY <1>3 DEF Child, PrefixOf, KeyBit
<1> QED BY <1>1, <1>2, <1>4

\* A key is the whole of its path.
LEMMA WholePrefix ==
  ASSUME NEW key \in Keys
  PROVE  PrefixOf(key, Depth) = key /\ PrefixOf(key, 0) = PrefixOf(<<>>, 0)
<1>1. PrefixOf(key, Depth) = key
  BY DEF Keys, PathsTo, PrefixOf
<1>2. 0..(0 - 1) = {}
  OBVIOUS
<1> QED BY <1>1, <1>2 DEF PrefixOf

\* The parent of a child is the prefix it was made from.
LEMMA ParentOfChild ==
  ASSUME NEW level \in Nat, NEW p \in PathsTo(level), NEW b
  PROVE  PrefixOf(Child(p, level, b), level) = p
<1>1. \A i \in 0..(level - 1) : i \in 0..level /\ i # level
  OBVIOUS
<1>2. p = [i \in 0..(level - 1) |-> p[i]]
  BY DEF PathsTo
<1> QED BY <1>1, <1>2 DEF PrefixOf, Child

\* Whether stored or not, a node is the hash of its children: what ParentLevel
\* leaves out is the default.
LEMMA NodeOfChildren ==
  ASSUME NEW entries, NEW h \in Nat, NEW level \in Nat, level = Depth - (h + 1),
         NEW p \in PathsTo(level)
  PROVE  NodeAt(Nodes(entries)[h + 1], h + 1, p) =
           NodeHash(NodeAt(Nodes(entries)[h], h, Child(p, level, 0)),
                    NodeAt(Nodes(entries)[h], h, Child(p, level, 1)))
<1> DEFINE C == Nodes(entries)[h]
           parents == {PrefixOf(c, level) : c \in DOMAIN C}
           Hash(q) == NodeHash(NodeAt(C, h, Child(q, level, 0)),
                               NodeAt(C, h, Child(q, level, 1)))
           kept == {q \in parents : Hash(q) # DefaultHash[h + 1]}
           P == [q \in kept |-> Hash(q)]
<1>1. Nodes(entries)[h + 1] = P
  <2>1. Nodes(entries)[h + 1] = ParentLevel(C, h + 1)
    BY NodesDef
  <2>2. (h + 1) - 1 = h
    OBVIOUS
  <2> QED BY <2>1, <2>2 DEF ParentLevel
<1>2. DefaultHash[h + 1] = NodeHash(DefaultHash[h], DefaultHash[h])
  BY DefaultHashDef
<1>3. CASE p \in kept
  BY <1>1, <1>3 DEF NodeAt
<1>4. CASE p \in parents /\ p \notin kept
  <2>1. NodeAt(P, h + 1, p) = DefaultHash[h + 1]
    BY <1>4 DEF NodeAt
  <2>2. Hash(p) = DefaultHash[h + 1]
    BY <1>4
  <2> QED BY <2>1, <2>2, <1>1
<1>5. CASE p \notin parents
  <2>1. \A b : Child(p, level, b) \notin DOMAIN C
    <3> HIDE DEF C
    <3> QED BY <1>5, ParentOfChild
  <2>2. Hash(p) = NodeHash(DefaultHash[h], DefaultHash[h])
    <3> HIDE DEF C
    <3> QED BY <2>1 DEF NodeAt
  <2>3. NodeAt(P, h + 1, p) = DefaultHash[h + 1]
    BY <1>5 DEF NodeAt
  <2> QED BY <2>2, <2>3, <1>1, <1>2
<1> QED BY <1>3, <1>4, <1>5

(***************************************************************************)
(* An honest opening walks through the nodes of the tree.                  *)
(***************************************************************************)

\* An honest opening walks through the nodes of the tree.
LEMMA HonestWalk ==
  ASSUME NEW entries, NEW key \in Keys, NEW siblings,
         \A level \in 0..(Depth - 1) : siblings[level] = Sibling(Nodes(entries), key, level)
  PROVE  Walk(key, siblings, LeafOf(key, Entry(entries, key)))[Depth] = RootHash(entries)
<1> DEFINE leaf == LeafOf(key, Entry(entries, key))
           N(h) == NodeAt(Nodes(entries)[h], h, PrefixOf(key, Depth - h))
           S == {h \in Nat : h <= Depth => Walk(key, siblings, leaf)[h] = N(h)}
<1> USE DepthAssumption
<1>1. 0 \in S
  <2>1. Walk(key, siblings, leaf)[0] = leaf
    BY WalkDef
  <2>2. N(0) = NodeAt(LeafLevel(entries), 0, key)
    BY NodesDef, WholePrefix
  <2>3. NodeAt(LeafLevel(entries), 0, key) = leaf
    <3>1. CASE key \in DOMAIN entries
      BY <3>1 DEF NodeAt, LeafLevel, LeafOf, Entry, Present, Absent
    <3>2. CASE key \notin DOMAIN entries
      BY <3>2, DefaultHashDef DEF NodeAt, LeafLevel, LeafOf, Entry, Absent
    <3> QED BY <3>1, <3>2
  <2> QED BY <2>1, <2>2, <2>3
<1>2. ASSUME NEW h \in S PROVE h + 1 \in S
  <2> SUFFICES ASSUME h + 1 <= Depth
               PROVE  Walk(key, siblings, leaf)[h + 1] = N(h + 1)
    OBVIOUS
  <2> DEFINE level == Depth - (h + 1)
             q == PrefixOf(key, level)
             b == KeyBit(key, level)
             A(x) == NodeAt(Nodes(entries)[h], h, Child(q, level, x))
  <2>1. level \in Nat /\ level < Depth /\ level + 1 = Depth - h /\ Depth - (level + 1) = h
    OBVIOUS
  <2> HIDE DEF level
  <2>2. q \in PathsTo(level) /\ b \in Bit /\ Child(q, level, b) = PrefixOf(key, level + 1)
    BY <2>1, PrefixFacts
  <2>3. N(h + 1) = NodeHash(A(0), A(1))
    BY <2>1, <2>2, NodeOfChildren DEF level
  <2>4. Walk(key, siblings, leaf)[h] = A(b)
    BY <2>1, <2>2
  <2>5. siblings[level] = A(1 - b)
    BY <2>1 DEF Sibling
  <2>6. Walk(key, siblings, leaf)[h + 1] = Climb(key, siblings, h + 1, A(b))
    BY WalkDef, <2>4
  <2>7. Climb(key, siblings, h + 1, A(b)) =
          IF b = 0 THEN NodeHash(A(b), A(1 - b)) ELSE NodeHash(A(1 - b), A(b))
    BY <2>5 DEF Climb, level
  <2>8. b = 0 \/ b = 1
    BY <2>2 DEF Bit
  <2> HIDE DEF A, b
  <2> QED BY <2>3, <2>6, <2>7, <2>8
<1>3. S = Nat
  BY <1>1, <1>2, Induction
<1>4. Walk(key, siblings, leaf)[Depth] = N(Depth)
  BY <1>3
<1> QED BY <1>4, WholePrefix DEF RootHash

\* Completeness: open() of any key returns a proof that verifies.
THEOREM HonestOpeningVerifies ==
  ASSUME NEW entries, NEW key \in Keys
  PROVE  OpeningVerifies(Open(entries, key))
<1> DEFINE siblings == [level \in 0..(Depth - 1) |-> Sibling(Nodes(entries), key, level)]
<1>1. Walk(key, siblings, LeafOf(key, Entry(entries, key)))[Depth] = RootHash(entries)
  BY HonestWalk
<1>2. key \in DOMAIN entries <=> Entry(entries, key) # Absent
  BY DEF Entry, Present, Absent
<1> HIDE DEF siblings
<1>3. Open(entries, key) = [key |-> key, value |-> Entry(entries, key), root |-> RootHash(entries),
                            proof |-> Proof(key, siblings, key \in DOMAIN entries)]
  BY DEF Open, siblings
<1>4. ASSUME NEW o, NEW held, o = (key \in DOMAIN entries), held = Entry(entries, key),
             NEW v, v = [key |-> key, value |-> held, root |-> RootHash(entries),
                         proof |-> Proof(key, siblings, o)]
      PROVE  OpeningVerifies(v)
  <2>1. v.key = key /\ v.value = held /\ v.root = RootHash(entries)
    BY <1>4
  <2>2. v.proof.key = key /\ v.proof.siblings = siblings /\ v.proof.exists = o
    BY <1>4 DEF Proof
  <2>3. v.proof.exists <=> held # Absent
    BY <1>2, <1>4, <2>2, Zenon
  <2> QED BY <1>1, <1>4, <2>1, <2>2, <2>3, Zenon DEF OpeningVerifies, ProofVerifies
<1> QED BY <1>3, <1>4, Zenon

\* Two walks of one key that end in the same root started from the same leaf.
LEMMA WalkBinds ==
  ASSUME NEW key, NEW s, NEW t, NEW a, NEW b,
         Walk(key, s, a)[Depth] = Walk(key, t, b)[Depth]
  PROVE  a = b /\ \A level \in 0..(Depth - 1) : s[level] = t[level]
<1> DEFINE S == {n \in Nat : n <= Depth => Walk(key, s, a)[Depth - n] = Walk(key, t, b)[Depth - n]}
<1> USE DepthAssumption
<1>1. \A h \in Nat : Walk(key, s, a)[h + 1] = Walk(key, t, b)[h + 1]
                     => /\ Walk(key, s, a)[h] = Walk(key, t, b)[h]
                        /\ s[Depth - (h + 1)] = t[Depth - (h + 1)]
  <2> SUFFICES ASSUME NEW h \in Nat, Walk(key, s, a)[h + 1] = Walk(key, t, b)[h + 1]
               PROVE  /\ Walk(key, s, a)[h] = Walk(key, t, b)[h]
                      /\ s[Depth - (h + 1)] = t[Depth - (h + 1)]
    OBVIOUS
  <2> DEFINE x == Walk(key, s, a)[h]
             y == Walk(key, t, b)[h]
  <2>1. Climb(key, s, h + 1, x) = Climb(key, t, h + 1, y)
    BY WalkDef
  <2> HIDE DEF x, y
  <2>2. x = y /\ s[Depth - (h + 1)] = t[Depth - (h + 1)]
    BY <2>1 DEF Climb, NodeHash
  <2> QED BY <2>2 DEF x, y
<1>2. 0 \in S
  OBVIOUS
<1>3. ASSUME NEW n \in S PROVE n + 1 \in S
  <2> SUFFICES ASSUME n + 1 <= Depth
               PROVE  Walk(key, s, a)[Depth - (n + 1)] = Walk(key, t, b)[Depth - (n + 1)]
    OBVIOUS
  <2>1. Depth - (n + 1) \in Nat /\ (Depth - (n + 1)) + 1 = Depth - n
    OBVIOUS
  <2> QED BY <2>1, <1>1
<1>4. S = Nat
  BY <1>2, <1>3, Induction
<1>5. \A h \in 0..Depth : Walk(key, s, a)[h] = Walk(key, t, b)[h]
  <2> SUFFICES ASSUME NEW h \in 0..Depth PROVE Walk(key, s, a)[h] = Walk(key, t, b)[h]
    OBVIOUS
  <2>1. Depth - h \in Nat /\ Depth - h <= Depth /\ Depth - (Depth - h) = h
    OBVIOUS
  <2>2. Depth - h \in S
    BY <2>1, <1>4
  <2> QED BY <2>1, <2>2
<1>6. a = b
  BY <1>5, WalkDef
<1>7. ASSUME NEW level \in 0..(Depth - 1) PROVE s[level] = t[level]
  <2> DEFINE h == Depth - (level + 1)
  <2>1. h \in Nat /\ h + 1 \in 0..Depth /\ Depth - (h + 1) = level
    OBVIOUS
  <2> QED BY <2>1, <1>5, <1>1
<1> QED BY <1>6, <1>7

\* Soundness: whatever proof it comes with, a value that verifies for a key
\* under the root of a map is what the map holds there; and only the siblings
\* of the honest proof verify.
THEOREM VerifiedIsHeld ==
  ASSUME NEW entries, NEW key \in Keys, NEW proof, NEW value, proof.key = key,
         value = Absent \/ \E v : value = Present(v),
         ProofVerifies(proof, RootHash(entries), value)
  PROVE  /\ value = Entry(entries, key)
         /\ \A level \in 0..(Depth - 1) :
              proof.siblings[level] = Sibling(Nodes(entries), key, level)
<1> DEFINE siblings == [level \in 0..(Depth - 1) |-> Sibling(Nodes(entries), key, level)]
           held == Entry(entries, key)
<1>1. Walk(key, siblings, LeafOf(key, held))[Depth] = RootHash(entries)
  BY HonestWalk
<1>2. Walk(key, proof.siblings, LeafOf(key, value))[Depth] = RootHash(entries)
  BY DEF ProofVerifies
<1>3. /\ LeafOf(key, value) = LeafOf(key, held)
      /\ \A level \in 0..(Depth - 1) : proof.siblings[level] = siblings[level]
  <2> HIDE DEF siblings, held
  <2> QED BY <1>1, <1>2, WalkBinds
<1>4. held = Absent \/ \E v : held = Present(v)
  BY DEF Entry
<1>5. value = held
  <2> HIDE DEF held
  <2>1. CASE value = Absent /\ held = Absent
    BY <2>1
  <2>2. CASE value = Absent /\ held # Absent
    BY <2>2, <1>3, <1>4 DEF LeafOf, EmptyLeaf, LeafHash, Present, Absent
  <2>3. CASE value # Absent /\ held = Absent
    BY <2>3, <1>3 DEF LeafOf, EmptyLeaf, LeafHash, Present, Absent
  <2>4. CASE value # Absent /\ held # Absent
    <3>1. PICK v : value = Present(v)
      BY <2>4
    <3>2. PICK w : held = Present(w)
      BY <2>4, <1>4
    <3>3. LeafHash(key, v) = LeafHash(key, w)
      BY <2>4, <3>1, <3>2, <1>3 DEF LeafOf, Present
    <3> QED BY <3>1, <3>2, <3>3 DEF LeafHash
  <2> QED BY <2>1, <2>2, <2>3, <2>4
<1> QED BY <1>3, <1>5

(***************************************************************************)
(* The index and what it serves.                                           *)
(***************************************************************************)
\* roots is a sequence, whatever it holds.
RootsSequence == roots \in Seq({roots[i] : i \in DOMAIN roots})

\* A tree that is served is one of those that were built.
IInv ==
  /\ RootsSequence
  /\ cached # 0 => cached \in DOMAIN roots
  /\ ServedIsCurrent

\* What Append does to a sequence, the set it takes its elements from being
\* the set of its elements.
LEMMA AppendFacts ==
  ASSUME NEW s, NEW e, s \in Seq({s[i] : i \in DOMAIN s})
  PROVE  /\ Append(s, e) \in Seq({Append(s, e)[i] : i \in DOMAIN Append(s, e)})
         /\ DOMAIN Append(s, e) = 1..(Len(s) + 1) /\ Len(s) \in Nat
         /\ \A i \in 1..Len(s) : Append(s, e)[i] = s[i]
         /\ Append(s, e)[Len(s) + 1] = e
<1> DEFINE S == {s[i] : i \in DOMAIN s} \cup {e}
           t == Append(s, e)
<1>1. s \in Seq(S)
  OBVIOUS
<1>2. /\ t \in Seq(S) /\ Len(t) = Len(s) + 1 /\ Len(s) \in Nat /\ t[Len(s) + 1] = e
      /\ \A i \in 1..Len(s) : t[i] = s[i]
  BY <1>1
<1> HIDE DEF t
<1> DEFINE T == {t[i] : i \in DOMAIN t}
<1>3. DOMAIN t = 1..Len(t) /\ Len(t) \in Nat /\ t = [i \in 1..Len(t) |-> t[i]]
  BY <1>2
<1>4. Len(t) \in Nat /\ t \in [1..Len(t) -> T]
  BY <1>3
<1>5. t \in Seq(T)
  <2> HIDE DEF T
  <2> QED BY <1>4
<1> QED BY <1>2, <1>3, <1>5 DEF t

\* An empty index satisfies the invariant.
LEMMA InitIInv == Init => IInv
<1> SUFFICES ASSUME Init PROVE IInv
  OBVIOUS
<1>1. roots = <<>> /\ cached = 0
  BY DEF Init
<1>2. <<>> \in Seq({})
  OBVIOUS
<1> QED BY <1>1, <1>2 DEF IInv, RootsSequence, ServedIsCurrent

\* Every step keeps it.
LEMMA NextIInv == IInv /\ [Next]_vars => IInv'
<1> SUFFICES ASSUME IInv, [Next]_vars PROVE IInv'
  OBVIOUS
<1>1. ASSUME NEW it, NEW precisions, NEW policies, IndexAt(it, precisions, policies)
      PROVE  IInv'
  <2>1. cached' = 0 /\ roots' = roots
    BY <1>1 DEF IndexAt, Cache
  <2> QED BY <2>1 DEF IInv, RootsSequence, ServedIsCurrent
<1>2. CASE AddManifest
  BY <1>1, <1>2 DEF AddManifest
<1>3. CASE AddForPolicies
  BY <1>1, <1>3 DEF AddForPolicies
<1>4. CASE EnsureBuilt
  <2> DEFINE built == Entries(buckets)
  <2>1. roots' = Append(roots, built) /\ cached' = Len(roots) + 1 /\ buckets' = buckets
    BY <1>4 DEF EnsureBuilt
  <2>2. built' = built
    BY <2>1 DEF Entries, CandidateSet
  <2> HIDE DEF built
  <2>3. /\ roots' \in Seq({roots'[i] : i \in DOMAIN roots'})
        /\ cached' \in DOMAIN roots'
        /\ roots'[cached'] = built
    BY <2>1, AppendFacts DEF IInv, RootsSequence
  <2>4. roots'[cached'] = Entries(buckets)'
    BY <2>2, <2>3 DEF built
  <2> QED BY <2>3, <2>4 DEF IInv, RootsSequence, ServedIsCurrent
<1>5. ASSUME UNCHANGED <<buckets, roots, cached>> PROVE IInv'
  <2>1. Entries(buckets)' = Entries(buckets)
    BY <1>5 DEF Entries, CandidateSet
  <2> QED BY <1>5, <2>1 DEF IInv, RootsSequence, ServedIsCurrent
<1>6. CASE Publish
  BY <1>5, <1>6 DEF Publish
<1>7. CASE RestartPublisher
  BY <1>5, <1>7 DEF RestartPublisher
<1>8. CASE UNCHANGED vars
  BY <1>5, <1>8 DEF vars
<1> QED BY <1>2, <1>3, <1>4, <1>6, <1>7, <1>8 DEF Next

\* So it always holds.
LEMMA Invariance == Spec => []IInv
  BY InitIInv, NextIInv, PTL DEF Spec

\* No root record or opening is served from a tree that an add_reference has
\* made out of date: the lazy rebuild of _ensure_built always runs first.
THEOREM AlwaysServedIsCurrent == Spec => []ServedIsCurrent
<1>1. IInv => ServedIsCurrent
  BY DEF IInv
<1> QED BY <1>1, Invariance, PTL

(***************************************************************************)
(* What the commitment is worth, if every route key has a path: a hash of  *)
(* Depth bits.                                                             *)
(***************************************************************************)
\* No opening that was ever served makes anything but what the current root
\* commits to verify under it: not under another key, and not the absence.
THEOREM AlwaysOpeningsBind ==
  ASSUME \A k : PathOf(k) \in Keys
  PROVE  Spec => []OpeningsBind
<1>1. ASSUME cached # 0, NEW i \in DOMAIN roots, NEW j \in DOMAIN buckets, NEW k \in DOMAIN buckets,
             NEW value \in {Open(roots[i], PathOf(j)).value, Absent},
             TypedOpeningVerifies(PathOf(k), value, Open(roots[i], PathOf(j)).proof,
                                  RootHash(roots[cached]))
      PROVE  value = Entry(roots[cached], PathOf(k))
  <2> DEFINE proof == Open(roots[i], PathOf(j)).proof
             root == RootHash(roots[cached])
             opening == [key |-> PathOf(k), value |-> value, proof |-> proof, root |-> root]
  <2>1. Open(roots[i], PathOf(j)).value = Entry(roots[i], PathOf(j))
    BY DEF Open
  <2>2. value = Absent \/ \E v : value = Present(v)
    BY <2>1 DEF Entry
  <2>3. OpeningVerifies(opening)
    BY <1>1 DEF TypedOpeningVerifies
  <2> HIDE DEF proof, root
  <2>4. proof.key = PathOf(k) /\ ProofVerifies(proof, root, value)
    BY <2>3 DEF OpeningVerifies
  <2> QED BY <2>2, <2>4, VerifiedIsHeld DEF root
<1>2. OpeningsBind
  BY <1>1, Zenon DEF OpeningsBind, OpenRouteKey, PublicRouteKeys
<1> QED BY <1>2, PTL

\* Two maps of one root hold the same.
LEMMA RootBinds ==
  ASSUME NEW e, NEW f, RootHash(e) = RootHash(f), NEW key \in Keys
  PROVE  Entry(e, key) = Entry(f, key)
<1>1. OpeningVerifies(Open(e, key))
  BY HonestOpeningVerifies
<1> DEFINE proof == Open(e, key).proof
           value == Open(e, key).value
<1>2. proof.key = key /\ value = Entry(e, key) /\ Open(e, key).root = RootHash(e)
  BY DEF Open, Proof
<1>3. ProofVerifies(proof, RootHash(f), value)
  BY <1>1, <1>2 DEF OpeningVerifies
<1>4. value = Absent \/ \E v : value = Present(v)
  BY <1>2 DEF Entry
<1> HIDE DEF proof, value
<1>5. value = Entry(f, key)
  BY <1>2, <1>3, <1>4, VerifiedIsHeld
<1> QED BY <1>2, <1>5

\* Whatever a resolver with an expected root answers, it is what the index
\* held when the record of that root was built.
THEOREM AlwaysPinnedAnswerIsAnchored ==
  ASSUME \A k : PathOf(k) \in Keys
  PROVE  Spec => []PinnedAnswerIsAnchored
<1>1. ASSUME NEW e, NEW f, RootHash(e) = RootHash(f),
             NEW keys, NEW short, NEW ns, NEW matches, NEW max
      PROVE  LookupAuthenticated(e, keys, short, ns, matches, max) =
               LookupAuthenticated(f, keys, short, ns, matches, max)
  <2> DEFINE At(g, key) == IF PathOf(key) \in DOMAIN g THEN g[PathOf(key)].refs ELSE {}
  <2>1. ASSUME NEW key PROVE At(e, key) = At(f, key)
    <3>1. Entry(e, PathOf(key)) = Entry(f, PathOf(key))
      BY <1>1, RootBinds
    <3>2. (PathOf(key) \in DOMAIN e) <=> (PathOf(key) \in DOMAIN f)
      BY <3>1 DEF Entry, Absent, Present
    <3>3. PathOf(key) \in DOMAIN e => e[PathOf(key)] = f[PathOf(key)]
      BY <3>1, <3>2 DEF Entry, Absent, Present
    <3> QED BY <3>2, <3>3
  <2> DEFINE seq(g) == [i \in DOMAIN keys |-> {r \in At(g, keys[i]) : Passes(r, short, ns)}]
  <2>2. seq(e) = seq(f)
    <3> HIDE DEF At
    <3> QED BY <2>1
  <2> DEFINE result(s) == Ranked({t \in Tally(s) : t.hits >= matches}, max)
  <2>3. /\ LookupAuthenticated(e, keys, short, ns, matches, max) = result(seq(e))
        /\ LookupAuthenticated(f, keys, short, ns, matches, max) = result(seq(f))
    BY Zenon DEF LookupAuthenticated
  <2> HIDE DEF seq, result
  <2> QED BY <2>2, <2>3
<1>2. ASSUME NEW e, NEW f, NEW keys, NEW request, NEW max,
             ResolveAuthenticated(e, keys, request, 1, max, <<RootHash(f)>>).status # "error"
      PROVE  ResolveAuthenticated(e, keys, request, 1, max, <<RootHash(f)>>) =
               ResolveAuthenticated(f, keys, request, 1, max, <<>>)
  <2>1. RootHash(e) = RootHash(f)
    BY <1>2 DEF ResolveAuthenticated, RootMismatch
  <2>2. LookupAuthenticated(e, keys, <<request.short>>, request.ns, 1, MaxLookup(max)) =
          LookupAuthenticated(f, keys, <<request.short>>, request.ns, 1, MaxLookup(max))
    BY <2>1, <1>1
  <2> QED BY <2>1, <2>2 DEF ResolveAuthenticated
<1>3. PinnedAnswerIsAnchored
  BY <1>2, Zenon DEF PinnedAnswerIsAnchored
<1> QED BY <1>3, PTL

(***************************************************************************)
(* Anchors.                                                                *)
(***************************************************************************)
\* What an acknowledged anchor leaves behind that no restart takes away: the
\* ASI backend's receipt, and over the command-line client the deploy.
ChainSequence == chain \in Seq({chain[i] : i \in DOMAIN chain})
AckInv ==
  /\ ChainSequence
  /\ \A a \in acked : ReceiptOf("asi", a) \in receipts
  /\ client = "cli" => \A a \in acked : Contains(chain, Term(Payload(a)))

\* A deploy on a chain is there, and so is what was there before.
LEMMA DeployedFacts ==
  ASSUME NEW term, ChainSequence
  PROVE  /\ Deployed(term) \in Seq({Deployed(term)[i] : i \in DOMAIN Deployed(term)})
         /\ \A t : Contains(chain, t) => Contains(Deployed(term), t)
         /\ Contains(Deployed(term), term)
<1>1. CASE client = "mock" /\ Contains(chain, term)
  BY <1>1 DEF Deployed, ChainSequence
<1>2. CASE ~(client = "mock" /\ Contains(chain, term))
  <2> DEFINE new == Append(chain, term)
  <2>1. Deployed(term) = new
    BY <1>2 DEF Deployed
  <2>2. /\ new \in Seq({new[i] : i \in DOMAIN new})
        /\ DOMAIN new = 1..(Len(chain) + 1) /\ Len(chain) \in Nat
        /\ \A i \in 1..Len(chain) : new[i] = chain[i]
        /\ new[Len(chain) + 1] = term
    BY AppendFacts DEF ChainSequence
  <2> HIDE DEF new
  <2>3. Len(new) = Len(chain) + 1
    BY <2>2
  <2> QED BY <2>1, <2>2, <2>3 DEF Contains
<1> QED BY <1>1, <1>2

\* Every step keeps what is acknowledged deployed and receipted.
LEMMA NextAckInv ==
  ASSUME "asi" \in Range(Backends), AckInv, [Next]_vars
  PROVE  AckInv'
<1>1. ASSUME UNCHANGED <<client, chain, receipts, acked>> PROVE AckInv'
  BY <1>1 DEF AckInv, ChainSequence, ReceiptOf, Network, TransactionId, Contains
<1>2. CASE AddManifest
  BY <1>1, <1>2 DEF AddManifest, IndexAt
<1>3. CASE AddForPolicies
  BY <1>1, <1>3 DEF AddForPolicies, IndexAt
<1>4. CASE EnsureBuilt
  BY <1>1, <1>4 DEF EnsureBuilt
<1>5. ASSUME client' = client, receipts \subseteq receipts', ChainSequence',
             \A t : Contains(chain, t) => Contains(chain', t),
             \A a \in acked' \ acked :
               ReceiptOf("asi", a) \in receipts' /\ Contains(chain', Term(Payload(a)))
      PROVE  AckInv'
  <2>1. \A a : ReceiptOf("asi", a)' = ReceiptOf("asi", a)
    BY <1>5 DEF ReceiptOf, Network, TransactionId
  <2> QED BY <2>1, <1>5 DEF AckInv
<1>6. ASSUME NEW S, NEW anchor, NEW outcome, PublishOn(S, anchor, outcome)
      PROVE  /\ client' = client /\ ChainSequence'
             /\ \A t : Contains(chain, t) => Contains(chain', t)
             /\ "asi" \in S /\ outcome # "failed" => Contains(chain', Term(Payload(anchor)))
  BY <1>6, DeployedFacts DEF PublishOn, AckInv, ChainSequence
<1>7. ASSUME NEW anchor, PublishFirst(anchor) PROVE AckInv'
  BY <1>5, <1>6, <1>7 DEF PublishFirst
<1>8. ASSUME NEW anchor, PublishAll(anchor) PROVE AckInv'
  <2>1. PICK outcome \in Outcomes("asi") :
          /\ PublishOn(Reached(outcome), anchor, outcome)
          /\ IF Raises(outcome) THEN UNCHANGED <<receipts, acked>>
             ELSE /\ receipts' = receipts \cup {ReceiptOf(b, anchor) : b \in Range(Backends)}
                  /\ acked' = acked \cup {anchor}
    BY <1>8 DEF PublishAll
  <2>2. CASE Raises(outcome)
    BY <1>5, <1>6, <2>1, <2>2
  <2>3. CASE ~Raises(outcome)
    <3>1. "asi" \in Reached(outcome) /\ outcome # "failed"
      BY <2>3 DEF Reached, Raises
    <3> QED BY <1>5, <1>6, <2>1, <2>3, <3>1
  <2> QED BY <2>2, <2>3
<1>9. CASE Publish
  BY <1>7, <1>8, <1>9 DEF Publish
<1>10. CASE RestartPublisher
  <2>1. UNCHANGED <<client, receipts, acked>> /\ chain' = IF client = "mock" THEN <<>> ELSE chain
    BY <1>10 DEF RestartPublisher, Restart
  <2>2. ChainSequence'
    <3>1. <<>> \in Seq({}) /\ DOMAIN <<>> = {}
      OBVIOUS
    <3>2. CASE client = "mock"
      <4>1. chain' = <<>> /\ {chain'[i] : i \in DOMAIN chain'} = {}
        BY <2>1, <3>1, <3>2
      <4> QED BY <4>1, <3>1 DEF ChainSequence
    <3>3. CASE client # "mock"
      BY <2>1, <3>3 DEF AckInv, ChainSequence
    <3> QED BY <3>2, <3>3
  <2>3. \A a : ReceiptOf("asi", a)' = ReceiptOf("asi", a)
    BY <2>1 DEF ReceiptOf, Network, TransactionId
  <2> QED BY <2>1, <2>2, <2>3 DEF AckInv
<1>11. CASE UNCHANGED vars
  BY <1>1, <1>11 DEF vars
<1> QED BY <1>2, <1>3, <1>4, <1>9, <1>10, <1>11 DEF Next

\* A publisher that fans out to the ASI backend never loses an anchor that
\* publish_anchor_all has returned for, whatever failed or was tried again.
THEOREM AlwaysAckedStaysVerifiable ==
  ASSUME "asi" \in Range(Backends)
  PROVE  Spec => []AckedStaysVerifiable
<1>1. Init => AckInv
  <2>1. <<>> \in Seq({}) /\ DOMAIN <<>> = {}
    OBVIOUS
  <2> SUFFICES ASSUME Init PROVE AckInv
    OBVIOUS
  <2>2. chain = <<>> /\ acked = {}
    BY DEF Init, TrustInit
  <2>3. {chain[i] : i \in DOMAIN chain} = {}
    BY <2>1, <2>2
  <2> QED BY <2>1, <2>2, <2>3 DEF AckInv, ChainSequence
<1>2. AckInv /\ [Next]_vars => AckInv'
  BY NextAckInv
<1>3. AckInv => AckedStaysVerifiable
  <2> SUFFICES ASSUME AckInv, NEW a \in acked
               PROVE  VerifyAnchor(a, ReceiptOf("asi", a))
    BY DEF AckInv, AckedStaysVerifiable
  <2> QED BY DEF VerifyAnchor, VerifyOn, ReceiptOf, TermConfirms
<1> QED BY <1>1, <1>2, <1>3, PTL DEF Spec

(***************************************************************************)
(* An anchor's receipt.                                                    *)
(***************************************************************************)
\* A receipt that verifies for a record names that record, its created_at
\* included: there is no other record it could be taken for.
THEOREM AlwaysReceiptNamesOneRecord == Spec => []ReceiptNamesOneRecord
<1>1. ASSUME NEW r, NEW i, NEW j,
             VerifyAnchor(AnchorOf(RootRecord(i)), r), r.object = AnchorOf(RootRecord(j)).object
      PROVE  i = j
  <2>1. r.object = AnchorOf(RootRecord(i)).object
    BY <1>1 DEF VerifyAnchor, VerifyOn
  <2>2. RootRecord(i) = RootRecord(j)
    BY <1>1, <2>1 DEF AnchorOf
  <2>3. RootRecord(i).created_at = i /\ RootRecord(j).created_at = j
    BY DEF RootRecord
  <2> QED BY <2>2, <2>3
<1>2. ReceiptNamesOneRecord
  BY <1>1, Zenon DEF ReceiptNamesOneRecord
<1> QED BY <1>2, PTL

(***************************************************************************)
(* The folds of the index and of the policies: a fold goes over the        *)
(* subsets of the domain, each one without its last element.               *)
(***************************************************************************)
\* What holds of 0, and of each number up to n when it holds of the one
\* before, holds up to n.
LEMMA UpTo ==
  ASSUME NEW n \in Nat, NEW S, 0 \in S, \A i \in 1..n : i - 1 \in S => i \in S
  PROVE  \A i \in 0..n : i \in S
<1> DEFINE T == {i \in 0..n : i \notin S}
<1>1. SUFFICES ASSUME T # {} PROVE FALSE
  OBVIOUS
<1>2. PICK i \in T : \A j \in T : i <= j
  <2>1. T \subseteq Nat /\ T # {}
    BY <1>1
  <2> HIDE DEF T
  <2> QED BY <2>1, LeastElement
<1>3. \A j \in T : ~(j < i)
  BY <1>2
<1>4. i \in 1..n /\ i - 1 \in 0..n /\ i - 1 < i
  BY <1>2
<1>5. i - 1 \in S
  BY <1>3, <1>4
<1> QED BY <1>2, <1>4, <1>5

(***************************************************************************)
(* The recursion behind FoldLeft: over the subsets of the domain, each one *)
(* without its last element.                                               *)
(***************************************************************************)
Iterates(g, V, b, F, m) ==
  /\ g \in [SUBSET (1..m) -> V]
  /\ \A s \in SUBSET (1..m) :
       g[s] = IF s = {} THEN b ELSE F[<<g[s \ {Max(s)}], Max(s)>>]

\* The maximum of a set that holds its bound.
LEMMA MaxIsLast ==
  ASSUME NEW m \in Nat, NEW s \in SUBSET (1..m), m \in s
  PROVE  Max(s) = m
<1>1. \A y \in s : m >= y /\ y \in Nat
  OBVIOUS
<1>2. \E x \in s : \A y \in s : x >= y
  BY <1>1
<1>3. Max(s) \in s /\ \A y \in s : Max(s) >= y
  BY <1>2 DEF Max
<1>4. Max(s) >= m /\ m >= Max(s) /\ Max(s) \in Nat
  BY <1>1, <1>3
<1> HIDE DEF Max
<1> QED BY <1>4

\* Such a recursion has a solution.
LEMMA Iteration ==
  ASSUME NEW V, NEW b \in V, NEW n \in Nat, NEW F \in [V \X (1..n) -> V]
  PROVE  \E g : Iterates(g, V, b, F, n)
<1> DEFINE T == {m \in 0..n : \E g : Iterates(g, V, b, F, m)}
<1>1. 0 \in T
  <2> DEFINE g == [s \in SUBSET (1..0) |-> b]
  <2>1. \A s \in SUBSET (1..0) : s = {}
    OBVIOUS
  <2>2. Iterates(g, V, b, F, 0)
    BY <2>1 DEF Iterates
  <2> QED BY <2>2
<1>2. ASSUME NEW k \in 1..n, k - 1 \in T PROVE k \in T
  <2>1. PICK f : Iterates(f, V, b, F, k - 1)
    BY <1>2
  <2> DEFINE g == [s \in SUBSET (1..k) |->
                     IF s \subseteq 1..(k - 1) THEN f[s] ELSE F[<<f[s \ {k}], k>>]]
  <2>2. \A s \in SUBSET (1..k) :
          \/ s \subseteq 1..(k - 1)
          \/ k \in s /\ s # {} /\ s \ {k} \in SUBSET (1..(k - 1)) /\ Max(s) = k
    BY MaxIsLast
  <2>3. g \in [SUBSET (1..k) -> V]
    BY <2>1, <2>2 DEF Iterates
  <2>4. ASSUME NEW s \in SUBSET (1..k)
        PROVE  g[s] = IF s = {} THEN b ELSE F[<<g[s \ {Max(s)}], Max(s)>>]
    <3>1. CASE s \subseteq 1..(k - 1)
      <4>1. g[s] = f[s] /\ s \in SUBSET (1..(k - 1))
        BY <3>1
      <4>2. s \ {Max(s)} \in SUBSET (1..(k - 1)) /\ s \ {Max(s)} \in SUBSET (1..k)
        BY <3>1
      <4>3. g[s \ {Max(s)}] = f[s \ {Max(s)}]
        BY <4>2
      <4> QED BY <2>1, <4>1, <4>3 DEF Iterates
    <3>2. CASE k \in s /\ s # {} /\ s \ {k} \in SUBSET (1..(k - 1)) /\ Max(s) = k
      <4>1. s \ {k} \in SUBSET (1..k) /\ ~(s \subseteq 1..(k - 1))
        BY <3>2
      <4>2. g[s \ {k}] = f[s \ {k}]
        BY <3>2, <4>1
      <4>3. g[s] = F[<<f[s \ {k}], k>>]
        BY <4>1
      <4> QED BY <3>2, <4>2, <4>3
    <3> QED BY <2>2, <3>1, <3>2
  <2> HIDE DEF g
  <2>5. Iterates(g, V, b, F, k)
    BY <2>3, <2>4 DEF Iterates
  <2> QED BY <2>5
<1>3. n \in T
  <2> HIDE DEF T
  <2>1. \A i \in 0..n : i \in T
    BY <1>1, <1>2, UpTo
  <2> QED BY <2>1
<1> QED BY <1>3

\* The prefixes of a domain, without their last elements.
LEMMA PrefixSets ==
  ASSUME NEW n \in Nat, NEW i \in 1..n
  PROVE  /\ 1..i \in SUBSET (1..n) /\ 1..i # {} /\ Max(1..i) = i
         /\ (1..i) \ {i} = 1..(i - 1)
<1>1. Max(1..i) = i
  BY MaxIsLast
<1> QED BY <1>1

\* A bounded non-empty set has a maximum.
LEMMA MaxOf ==
  ASSUME NEW n \in Nat, NEW s \in SUBSET (1..n), s # {}
  PROVE  Max(s) \in s
<1> DEFINE T == {m \in 0..n : \A t \in SUBSET (1..m) :
                                t # {} => \E x \in t : \A y \in t : x >= y}
<1>1. 0 \in T
  <2>1. \A t \in SUBSET (1..0) : t = {}
    OBVIOUS
  <2>2. \A t \in SUBSET (1..0) : t # {} => \E x \in t : \A y \in t : x >= y
    BY <2>1
  <2> QED BY <2>2
<1>2. ASSUME NEW m \in 1..n, m - 1 \in T PROVE m \in T
  <2> SUFFICES ASSUME NEW t \in SUBSET (1..m), t # {}
               PROVE  \E x \in t : \A y \in t : x >= y
    OBVIOUS
  <2>1. CASE m \in t
    BY <2>1
  <2>2. CASE m \notin t
    <3>1. t \in SUBSET (1..(m - 1))
      BY <2>2
    <3> QED BY <1>2, <3>1
  <2> QED BY <2>1, <2>2
<1>3. n \in T
  <2> HIDE DEF T
  <2>1. \A i \in 0..n : i \in T
    BY <1>1, <1>2, UpTo
  <2> QED BY <2>1
<1>4. \E x \in s : \A y \in s : x >= y
  BY <1>3
<1> QED BY <1>4 DEF Max

AddUnique(kept, p) ==
  IF Contains(kept, Normalized(p)) THEN kept ELSE Append(kept, Normalized(p))

UniqueRun(h, seq) ==
  /\ h[0] = <<>> /\ h[Len(seq)] = Unique(seq)
  /\ \A i \in 1..Len(seq) : h[i] = AddUnique(h[i - 1], seq[i])

AllPublished(policies) ==
  FoldLeft(LAMBDA all, q : all \o EffectivePrecisions(q), <<>>, policies)

PublishedRun(h, policies) ==
  /\ h[0] = <<>> /\ h[Len(policies)] = AllPublished(policies)
  /\ \A i \in 1..Len(policies) : h[i] = h[i - 1] \o EffectivePrecisions(policies[i])

IndexRun(h, table, it, precisions) ==
  /\ h[0] = table /\ h[Len(precisions)] = Indexed(table, it, precisions)
  /\ \A i \in 1..Len(precisions) : h[i] = Inserted(h[i - 1], Ref(it), KeysOf(it, precisions[i]))

\* unique_precisions goes through the precisions and keeps those that are new.
LEMMA UniqueRuns ==
  ASSUME NEW M, NEW seq \in Seq(M)
  PROVE  \E h : UniqueRun(h, seq)
<1> DEFINE n == Len(seq)
           V == Seq({Normalized(m) : m \in M})
           Step(v, x) == AddUnique(v, x)
<1>0. /\ n \in Nat /\ DOMAIN seq = 1..n /\ <<>> \in V
      /\ \A v \in V, i \in 1..n : Step(v, seq[i]) \in V
  BY DEF AddUnique
<1> HIDE DEF n, V
<1> DEFINE D == DOMAIN seq
           Eq(g) == g = [s \in SUBSET D |->
                           IF s = {} THEN <<>> ELSE Step(g[s \ {Max(s)}], seq[Max(s)])]
           it == CHOOSE g : Eq(g)
           F == [p \in V \X (1..n) |-> Step(p[1], seq[p[2]])]
<1>1. Unique(seq) = it[D]
  BY DEF Unique, AddUnique, FoldLeft, MapThenFoldSet
<1> HIDE DEF Step
<1>2. \E g : Eq(g)
  <2>1. F \in [V \X (1..n) -> V]
    BY <1>0
  <2>2. PICK g : Iterates(g, V, <<>>, F, n)
    <3> HIDE DEF F
    <3> QED BY <1>0, <2>1, Iteration
  <2>3. \A s \in SUBSET (1..n) : s # {} => /\ Max(s) \in 1..n
                                           /\ s \ {Max(s)} \in SUBSET (1..n)
    BY <1>0, MaxOf
  <2>4. \A s \in SUBSET (1..n) : s # {} =>
          F[<<g[s \ {Max(s)}], Max(s)>>] = Step(g[s \ {Max(s)}], seq[Max(s)])
    BY <1>0, <2>2, <2>3 DEF Iterates
  <2> HIDE DEF F
  <2>5. g = [s \in SUBSET (1..n) |->
               IF s = {} THEN <<>> ELSE Step(g[s \ {Max(s)}], seq[Max(s)])]
    BY <1>0, <2>2, <2>4 DEF Iterates
  <2> QED BY <1>0, <2>5
<1>3. Eq(it)
  <2> HIDE DEF Eq
  <2> QED BY <1>2
<1> DEFINE h == [i \in 0..n |-> it[1..i]]
<1> HIDE DEF it
<1>4. h[0] = <<>>
  <2>1. 1..0 = {} /\ {} \in SUBSET D
    BY <1>0
  <2> QED BY <1>0, <1>3, <2>1
<1>5. ASSUME NEW i \in 1..n PROVE h[i] = Step(h[i - 1], seq[i])
  <2>1. h[i] = it[1..i] /\ h[i - 1] = it[1..(i - 1)]
    BY <1>0
  <2>2. /\ 1..i \in SUBSET D /\ 1..i # {}
        /\ Max(1..i) = i /\ (1..i) \ {i} = 1..(i - 1)
    BY <1>0, PrefixSets
  <2>3. it[1..i] = Step(it[(1..i) \ {Max(1..i)}], seq[Max(1..i)])
    <3> HIDE DEF D
    <3> QED BY <1>3, <2>2
  <2>4. it[1..i] = Step(it[1..(i - 1)], seq[i])
    BY <2>2, <2>3
  <2> QED BY <2>1, <2>4
<1>6. h[n] = Unique(seq)
  BY <1>0, <1>1
<1> HIDE DEF h
<1> QED BY <1>4, <1>5, <1>6 DEF n, Step, UniqueRun

\* The policies' precisions are joined one policy after the other.
LEMMA PublishedRuns ==
  ASSUME NEW M, NEW policies, Len(policies) \in Nat, DOMAIN policies = 1..Len(policies),
         \A i \in DOMAIN policies : EffectivePrecisions(policies[i]) \in Seq(M)
  PROVE  \E h : PublishedRun(h, policies)
<1> DEFINE n == Len(policies)
           V == Seq(M)
           Step(v, x) == v \o EffectivePrecisions(x)
<1>0. /\ n \in Nat /\ DOMAIN policies = 1..n /\ <<>> \in V
      /\ \A v \in V, i \in 1..n : Step(v, policies[i]) \in V
  OBVIOUS
<1> HIDE DEF n, V
<1> DEFINE D == DOMAIN policies
           Eq(g) == g = [s \in SUBSET D |->
                           IF s = {} THEN <<>> ELSE Step(g[s \ {Max(s)}], policies[Max(s)])]
           it == CHOOSE g : Eq(g)
           F == [p \in V \X (1..n) |-> Step(p[1], policies[p[2]])]
<1>1. AllPublished(policies) = it[D]
  BY DEF AllPublished, FoldLeft, MapThenFoldSet
<1> HIDE DEF Step
<1>2. \E g : Eq(g)
  <2>1. F \in [V \X (1..n) -> V]
    BY <1>0
  <2>2. PICK g : Iterates(g, V, <<>>, F, n)
    <3> HIDE DEF F
    <3> QED BY <1>0, <2>1, Iteration
  <2>3. \A s \in SUBSET (1..n) : s # {} => /\ Max(s) \in 1..n
                                           /\ s \ {Max(s)} \in SUBSET (1..n)
    BY <1>0, MaxOf
  <2>4. \A s \in SUBSET (1..n) : s # {} =>
          F[<<g[s \ {Max(s)}], Max(s)>>] = Step(g[s \ {Max(s)}], policies[Max(s)])
    BY <1>0, <2>2, <2>3 DEF Iterates
  <2> HIDE DEF F
  <2>5. g = [s \in SUBSET (1..n) |->
               IF s = {} THEN <<>> ELSE Step(g[s \ {Max(s)}], policies[Max(s)])]
    BY <1>0, <2>2, <2>4 DEF Iterates
  <2> QED BY <1>0, <2>5
<1>3. Eq(it)
  <2> HIDE DEF Eq
  <2> QED BY <1>2
<1> DEFINE h == [i \in 0..n |-> it[1..i]]
<1> HIDE DEF it
<1>4. h[0] = <<>>
  <2>1. 1..0 = {} /\ {} \in SUBSET D
    BY <1>0
  <2> QED BY <1>0, <1>3, <2>1
<1>5. ASSUME NEW i \in 1..n PROVE h[i] = Step(h[i - 1], policies[i])
  <2>1. h[i] = it[1..i] /\ h[i - 1] = it[1..(i - 1)]
    BY <1>0
  <2>2. /\ 1..i \in SUBSET D /\ 1..i # {}
        /\ Max(1..i) = i /\ (1..i) \ {i} = 1..(i - 1)
    BY <1>0, PrefixSets
  <2>3. it[1..i] = Step(it[(1..i) \ {Max(1..i)}], policies[Max(1..i)])
    <3> HIDE DEF D
    <3> QED BY <1>3, <2>2
  <2>4. it[1..i] = Step(it[1..(i - 1)], policies[i])
    BY <2>2, <2>3
  <2> QED BY <2>1, <2>4
<1>6. h[n] = AllPublished(policies)
  BY <1>0, <1>1
<1> HIDE DEF h
<1> QED BY <1>4, <1>5, <1>6 DEF n, Step, PublishedRun

\* An item is inserted for one precision after the other.
LEMMA IndexRuns ==
  ASSUME NEW V, NEW table \in V, NEW it, NEW precisions, Len(precisions) \in Nat,
         DOMAIN precisions = 1..Len(precisions),
         \A t \in V, i \in DOMAIN precisions : Inserted(t, Ref(it), KeysOf(it, precisions[i])) \in V
  PROVE  \E h : IndexRun(h, table, it, precisions)
<1> DEFINE n == Len(precisions)
           Step(v, x) == Inserted(v, Ref(it), KeysOf(it, x))
<1>0. /\ n \in Nat /\ DOMAIN precisions = 1..n /\ table \in V
      /\ \A v \in V, i \in 1..n : Step(v, precisions[i]) \in V
  OBVIOUS
<1> HIDE DEF n
<1> DEFINE D == DOMAIN precisions
           Eq(g) == g = [s \in SUBSET D |->
                           IF s = {} THEN table ELSE Step(g[s \ {Max(s)}], precisions[Max(s)])]
           fold == CHOOSE g : Eq(g)
           F == [p \in V \X (1..n) |-> Step(p[1], precisions[p[2]])]
<1>1. Indexed(table, it, precisions) = fold[D]
  BY DEF Indexed, FoldLeft, MapThenFoldSet
<1> HIDE DEF Step
<1>2. \E g : Eq(g)
  <2>1. F \in [V \X (1..n) -> V]
    BY <1>0
  <2>2. PICK g : Iterates(g, V, table, F, n)
    <3> HIDE DEF F
    <3> QED BY <1>0, <2>1, Iteration
  <2>3. \A s \in SUBSET (1..n) : s # {} => /\ Max(s) \in 1..n
                                           /\ s \ {Max(s)} \in SUBSET (1..n)
    BY <1>0, MaxOf
  <2>4. \A s \in SUBSET (1..n) : s # {} =>
          F[<<g[s \ {Max(s)}], Max(s)>>] = Step(g[s \ {Max(s)}], precisions[Max(s)])
    BY <1>0, <2>2, <2>3 DEF Iterates
  <2> HIDE DEF F
  <2>5. g = [s \in SUBSET (1..n) |->
               IF s = {} THEN table ELSE Step(g[s \ {Max(s)}], precisions[Max(s)])]
    BY <1>0, <2>2, <2>4 DEF Iterates
  <2> QED BY <1>0, <2>5
<1>3. Eq(fold)
  <2> HIDE DEF Eq
  <2> QED BY <1>2
<1> DEFINE h == [i \in 0..n |-> fold[1..i]]
<1> HIDE DEF fold
<1>4. h[0] = table
  <2>1. 1..0 = {} /\ {} \in SUBSET D
    BY <1>0
  <2> QED BY <1>0, <1>3, <2>1
<1>5. ASSUME NEW i \in 1..n PROVE h[i] = Step(h[i - 1], precisions[i])
  <2>1. h[i] = fold[1..i] /\ h[i - 1] = fold[1..(i - 1)]
    BY <1>0
  <2>2. /\ 1..i \in SUBSET D /\ 1..i # {}
        /\ Max(1..i) = i /\ (1..i) \ {i} = 1..(i - 1)
    BY <1>0, PrefixSets
  <2>3. fold[1..i] = Step(fold[(1..i) \ {Max(1..i)}], precisions[Max(1..i)])
    <3> HIDE DEF D
    <3> QED BY <1>3, <2>2
  <2>4. fold[1..i] = Step(fold[1..(i - 1)], precisions[i])
    BY <2>2, <2>3
  <2> QED BY <2>1, <2>4
<1>6. h[n] = Indexed(table, it, precisions)
  BY <1>0, <1>1
<1> HIDE DEF h
<1> QED BY <1>4, <1>5, <1>6 DEF n, Step, IndexRun

(***************************************************************************)
(* Precisions and route keys.                                              *)
(***************************************************************************)
BandSeqs == Seq(0..(NumBands - 1))

\* A sequence is one over the set of its elements.
LEMMA OverItsRange ==
  ASSUME NEW n \in Nat, NEW f, DOMAIN f = 1..n, f = [i \in 1..n |-> f[i]]
  PROVE  f \in Seq(Range(f)) /\ Len(f) = n
<1> DEFINE R == Range(f)
<1>1. f \in [1..n -> R]
  BY DEF Range
<1> HIDE DEF R
<1>2. f \in Seq(R) /\ Len(f) = n
  BY <1>1
<1> QED BY <1>2 DEF R

\* A normalized precision has bands.
LEMMA NormalizedBands ==
  ASSUME NEW p, p.bands \in BandSeqs
  PROVE  Normalized(p).bands \in BandSeqs /\ Normalized(p).bands # <<>>
<1>1. NumBands \in Nat \ {0}
  BY ProfileAssumption DEF LegalProfile
<1>2. AllBands \in [1..NumBands -> 0..(NumBands - 1)]
  BY <1>1 DEF AllBands
<1>3. AllBands \in BandSeqs /\ Len(AllBands) = NumBands
  BY <1>1, <1>2 DEF BandSeqs
<1> QED BY <1>1, <1>3 DEF Normalized, Precision

\* Normalizing again changes nothing, and a clamped precision is normalized.
LEMMA NormalizedTwice ==
  ASSUME NEW p, p.bands \in BandSeqs, p.band = Unset \/ p.band \in 1..BandWidth
  PROVE  Normalized(Normalized(p)) = Normalized(p)
<1> DEFINE n == Normalized(p)
<1>1. BitsPerBand # Unset /\ \A b \in 1..BandWidth : b # Unset
  BY ProfileAssumption DEF LegalProfile, Unset
<1>2. n = Precision(n.short, n.band, n.bands) /\ n.band # Unset
  BY <1>1 DEF Normalized, Precision
<1>3. n.bands # <<>>
  BY NormalizedBands
<1> HIDE DEF n
<1>4. Normalized(n) = n
  BY <1>2, <1>3 DEF Normalized
<1> QED BY <1>4 DEF n

\* ... and so are the bands that a policy of the indexer asks for.
LEMMA ClampedIsNormal ==
  ASSUME NEW short, NEW band
  PROVE  /\ Normalized(Clamped(short, band)) = Clamped(short, band)
         /\ Clamped(short, band).bands = AllBands
<1> DEFINE b == IF band < 1 THEN 1 ELSE IF band > BandWidth THEN BandWidth ELSE band
<1>1. b # Unset
  BY ProfileAssumption DEF LegalProfile, Unset
<1>2. AllBands # <<>>
  BY ProfileAssumption DEF LegalProfile, AllBands
<1>3. Clamped(short, band) = Precision(short, b, AllBands)
  BY DEF Clamped
<1> HIDE DEF b
<1> QED BY <1>1, <1>2, <1>3 DEF Normalized, Precision

\* unique_precisions returns the normalized precisions, and nothing else.
LEMMA UniqueFacts ==
  ASSUME NEW M, NEW seq \in Seq(M)
  PROVE  /\ Unique(seq) \in Seq({Normalized(m) : m \in M})
         /\ Range(Unique(seq)) = {Normalized(seq[i]) : i \in DOMAIN seq}
<1> DEFINE n == Len(seq)
           N == {Normalized(m) : m \in M}
<1>0. n \in Nat /\ DOMAIN seq = 1..n /\ \A i \in 1..n : Normalized(seq[i]) \in N
  OBVIOUS
<1>1. PICK h : UniqueRun(h, seq)
  BY UniqueRuns
<1> HIDE DEF n, N
<1> DEFINE Seen(i) == {Normalized(seq[j]) : j \in 1..i}
           T == {i \in 0..n : h[i] \in Seq(N) /\ Range(h[i]) = Seen(i)}
<1>2. 0 \in T
  <2>1. h[0] = <<>>
    BY <1>1 DEF UniqueRun
  <2>2. Seen(0) = {} /\ Range(<<>>) = {}
    BY DEF Range
  <2>3. h[0] \in Seq(N) /\ Range(h[0]) = Seen(0)
    BY <2>1, <2>2
  <2> HIDE DEF Seen
  <2> QED BY <1>0, <2>3
<1>3. ASSUME NEW i \in 1..n, i - 1 \in T PROVE i \in T
  <2> DEFINE s == h[i - 1]
             m == Normalized(seq[i])
  <2>1. s \in Seq(N) /\ Range(s) = Seen(i - 1) /\ m \in N
    BY <1>0, <1>3
  <2>2. h[i] = IF Contains(s, m) THEN s ELSE Append(s, m)
    BY <1>1 DEF UniqueRun, AddUnique, n
  <2> HIDE DEF s
  <2>3. Seen(i) = Seen(i - 1) \cup {m}
    <3>1. 1..i = 1..(i - 1) \cup {i}
      BY <1>0
    <3> QED BY <3>1
  <2> HIDE DEF m, Seen
  <2>4. CASE Contains(s, m)
    <3>1. m \in Range(s)
      BY <2>1, <2>4 DEF Contains, Range
    <3>2. h[i] = s
      BY <2>2, <2>4
    <3>3. h[i] \in Seq(N) /\ Range(h[i]) = Seen(i)
      BY <2>1, <2>3, <3>1, <3>2
    <3> QED BY <1>0, <3>3
  <2>5. CASE ~Contains(s, m)
    <3>1. h[i] = Append(s, m)
      BY <2>2, <2>5
    <3>2. /\ Append(s, m) \in Seq(N) /\ Len(Append(s, m)) = Len(s) + 1
          /\ \A j \in 1..Len(s) : Append(s, m)[j] = s[j]
          /\ Append(s, m)[Len(s) + 1] = m
      BY <2>1
    <3>3. Range(Append(s, m)) = Range(s) \cup {m}
      BY <2>1, <3>2 DEF Range
    <3>4. h[i] \in Seq(N) /\ Range(h[i]) = Seen(i)
      BY <2>1, <2>3, <3>1, <3>2, <3>3
    <3> QED BY <1>0, <3>4
  <2> QED BY <2>4, <2>5
<1>4. n \in T
  <2> HIDE DEF T
  <2>1. \A i \in 0..n : i \in T
    BY <1>0, <1>2, <1>3, UpTo
  <2> QED BY <1>0, <2>1
<1>5. h[n] = Unique(seq)
  BY <1>1 DEF UniqueRun, n
<1> QED BY <1>0, <1>4, <1>5 DEF N

\* The precisions of a policy: a sequence, not empty, of normalized precisions,
\* each with its bands.
LEMMA EffectiveFacts ==
  ASSUME NEW q, LegalPolicy(q)
  PROVE  /\ EffectivePrecisions(q) \in Seq(Range(EffectivePrecisions(q)))
         /\ Len(EffectivePrecisions(q)) >= 1
         /\ \A p \in Range(EffectivePrecisions(q)) : p.bands \in BandSeqs /\ Normalized(p) = p
<1>0. AllBands \in BandSeqs
  <2>1. NumBands \in Nat \ {0}
    BY ProfileAssumption DEF LegalProfile
  <2>2. AllBands \in [1..NumBands -> 0..(NumBands - 1)]
    BY <2>1 DEF AllBands
  <2> QED BY <2>1, <2>2 DEF BandSeqs
<1>1. CASE q.precisions # <<>>
  <2> DEFINE M == Range(q.precisions)
             u == Unique(q.precisions)
  <2>1. /\ q.precisions \in Seq(M)
        /\ \A p \in M : p.bands \in BandSeqs /\ (p.band = Unset \/ p.band \in 1..BandWidth)
    BY DEF LegalPolicy, Legal, BandSeqs
  <2>2. EffectivePrecisions(q) = u
    BY <1>1 DEF EffectivePrecisions
  <2>3. /\ u \in Seq({Normalized(m) : m \in M})
        /\ Range(u) = {Normalized(q.precisions[i]) : i \in DOMAIN q.precisions}
    BY <2>1, UniqueFacts
  <2>4. \A p \in Range(u) : p.bands \in BandSeqs /\ Normalized(p) = p
    <3>1. \A i \in DOMAIN q.precisions : q.precisions[i] \in M
      BY DEF Range
    <3> QED BY <2>1, <2>3, <3>1, NormalizedBands, NormalizedTwice
  <2>5. 1 \in DOMAIN q.precisions
    BY <1>1, <2>1
  <2> HIDE DEF M, u
  <2>6. Range(u) # {} /\ DOMAIN u = 1..Len(u) /\ Len(u) \in Nat /\ u = [i \in 1..Len(u) |-> u[i]]
    BY <2>3, <2>5
  <2>7. Len(u) >= 1
    BY <2>6 DEF Range
  <2> QED BY <2>2, <2>4, <2>6, <2>7, OverItsRange
<1>2. CASE q.precisions = <<>> /\ q.profile = "P0"
  <2> DEFINE c == Clamped(ShortBits, BitsPerBand)
  <2>1. EffectivePrecisions(q) = <<c>>
    BY <1>2 DEF EffectivePrecisions
  <2>2. c.bands = AllBands /\ Normalized(c) = c
    BY ClampedIsNormal
  <2> HIDE DEF c
  <2>3. <<c>> \in Seq({c}) /\ Len(<<c>>) = 1 /\ Range(<<c>>) = {c}
    BY DEF Range
  <2> QED BY <1>0, <2>1, <2>2, <2>3
<1>3. CASE q.precisions = <<>> /\ q.profile # "P0"
  <2> DEFINE c(i) == Clamped(Ladder[i][1], Ladder[i][2])
             e == [i \in DOMAIN Ladder |-> c(i)]
  <2>1. EffectivePrecisions(q) = e
    BY <1>3 DEF EffectivePrecisions
  <2>2. \A i \in DOMAIN Ladder : c(i).bands = AllBands /\ Normalized(c(i)) = c(i)
    BY ClampedIsNormal
  <2>3. DOMAIN Ladder = 1..Len(Ladder) /\ Len(Ladder) \in Nat /\ Len(Ladder) >= 1
    BY LadderAssumption
  <2> HIDE DEF c
  <2>4. e \in Seq(Range(e)) /\ Len(e) = Len(Ladder)
    BY <2>3, OverItsRange
  <2>5. \A p \in Range(e) : p.bands = AllBands /\ Normalized(p) = p
    BY <2>2 DEF Range
  <2> HIDE DEF e
  <2> QED BY <1>0, <2>1, <2>3, <2>4, <2>5
<1> QED BY <1>1, <1>2, <1>3

UsedPolicies == UNION {Range(l) : l \in PolicyLists}

\* The precisions that manifests are published at or asked for, and their keys.
UsedPrecisions ==
  {DefaultPrecision} \cup (UNION {Range(PrecisionsFor(l)) : l \in PolicyLists})
    \cup (UNION {Range(EffectivePrecisions(q)) : q \in UsedPolicies})

UsedKeys == UNION {Range(KeysOf(it, p)) : it \in Items, p \in UsedPrecisions}

\* What an indexer publishes for is a sequence of precisions in use: those of
\* its policies.
LEMMA PublishedFacts ==
  ASSUME NEW l \in PolicyLists
  PROVE  /\ PrecisionsFor(l) \in Seq(UsedPrecisions)
         /\ \A p \in Range(PrecisionsFor(l)) : p.bands \in BandSeqs
         /\ Range(PrecisionsFor(l)) = UNION {Range(EffectivePrecisions(q)) : q \in Range(l)}
<1> DEFINE M == UNION {Range(EffectivePrecisions(q)) : q \in Range(l)}
           n == Len(l)
           Upto(i) == UNION {Range(EffectivePrecisions(l[j])) : j \in 1..i}
<1>1. l \in Seq(Range(l)) /\ \A q \in Range(l) : LegalPolicy(q)
  BY ItemsAssumption
<1>2. n \in Nat /\ DOMAIN l = 1..n /\ \A i \in 1..n : l[i] \in Range(l)
  BY <1>1
<1>3. ASSUME NEW i \in 1..n PROVE EffectivePrecisions(l[i]) \in Seq(M)
  <2> DEFINE R == Range(EffectivePrecisions(l[i]))
  <2>1. EffectivePrecisions(l[i]) \in Seq(R)
    BY <1>1, <1>2, EffectiveFacts
  <2>2. R \subseteq M
    BY <1>2
  <2> HIDE DEF R, M
  <2> QED BY <2>1, <2>2
<1>4. \A p \in M : p.bands \in BandSeqs /\ Normalized(p) = p
  BY <1>1, EffectiveFacts
<1>a. Upto(0) = {} /\ Upto(n) = M
      /\ \A i \in 1..n : Upto(i) = Upto(i - 1) \cup Range(EffectivePrecisions(l[i]))
  <2>1. ASSUME NEW i \in 1..n
        PROVE  Upto(i) = Upto(i - 1) \cup Range(EffectivePrecisions(l[i]))
    <3>1. 1..i = 1..(i - 1) \cup {i}
      BY <1>2
    <3> QED BY <3>1
  <2>2. Range(l) = {l[j] : j \in 1..n}
    BY <1>2 DEF Range
  <2>3. Upto(n) = M
    BY <2>2
  <2>4. Upto(0) = {}
    OBVIOUS
  <2> QED BY <2>1, <2>3, <2>4
<1> HIDE DEF M, n, Upto
<1>5. PICK h : PublishedRun(h, l)
  <2>1. Len(l) \in Nat /\ DOMAIN l = 1..Len(l)
        /\ \A i \in DOMAIN l : EffectivePrecisions(l[i]) \in Seq(M)
    BY <1>2, <1>3 DEF n
  <2> QED BY <2>1, PublishedRuns
<1> DEFINE T == {i \in 0..n : h[i] \in Seq(M) /\ Range(h[i]) = Upto(i)}
<1>6. 0 \in T
  <2>1. h[0] \in Seq(M) /\ Range(h[0]) = Upto(0)
    BY <1>5, <1>a DEF PublishedRun, Range
  <2> QED BY <1>2, <2>1
<1>7. ASSUME NEW i \in 1..n, i - 1 \in T PROVE i \in T
  <2>1. h[i] = h[i - 1] \o EffectivePrecisions(l[i])
    BY <1>5 DEF PublishedRun, n
  <2>2. h[i - 1] \in Seq(M) /\ EffectivePrecisions(l[i]) \in Seq(M) /\ i \in 0..n
    BY <1>2, <1>3, <1>7
  <2> DEFINE s == h[i - 1]
             e == EffectivePrecisions(l[i])
  <2>3. h[i] \in Seq(M)
    BY <2>1, <2>2
  <2>4. Range(s \o e) = Range(s) \cup Range(e)
    <3> HIDE DEF s, e
    <3>1. s \in Seq(M) /\ e \in Seq(M)
      BY <2>2 DEF s, e
    <3>2. /\ DOMAIN (s \o e) = 1..(Len(s) + Len(e)) /\ Len(s) \in Nat /\ Len(e) \in Nat
          /\ DOMAIN s = 1..Len(s) /\ DOMAIN e = 1..Len(e)
          /\ \A j \in 1..Len(s) : (s \o e)[j] = s[j]
          /\ \A j \in 1..Len(e) : (s \o e)[Len(s) + j] = e[j]
      BY <3>1
    <3>3. ASSUME NEW j \in DOMAIN (s \o e) PROVE (s \o e)[j] \in Range(s) \cup Range(e)
      <4>1. CASE j \in 1..Len(s)
        BY <3>2, <4>1 DEF Range
      <4>2. CASE j \notin 1..Len(s)
        <5>1. j - Len(s) \in 1..Len(e) /\ Len(s) + (j - Len(s)) = j
          BY <3>2, <4>2
        <5> QED BY <3>2, <5>1 DEF Range
      <4> QED BY <4>1, <4>2
    <3>4. ASSUME NEW j \in DOMAIN s PROVE s[j] \in Range(s \o e)
      <4>1. j \in DOMAIN (s \o e) /\ (s \o e)[j] = s[j]
        BY <3>2
      <4> QED BY <4>1 DEF Range
    <3>5. ASSUME NEW j \in DOMAIN e PROVE e[j] \in Range(s \o e)
      <4>1. Len(s) + j \in DOMAIN (s \o e) /\ (s \o e)[Len(s) + j] = e[j]
        BY <3>2
      <4> QED BY <4>1 DEF Range
    <3> QED BY <3>3, <3>4, <3>5 DEF Range
  <2>5. Range(s) = Upto(i - 1)
    BY <1>7
  <2>6. Range(h[i]) = Upto(i)
    BY <1>a, <2>1, <2>4, <2>5
  <2> QED BY <2>2, <2>3, <2>6
<1>8. AllPublished(l) \in Seq(M) /\ Range(AllPublished(l)) = M
  <2> HIDE DEF T
  <2>1. \A i \in 0..n : i \in T
    BY <1>2, <1>6, <1>7, UpTo
  <2>2. n \in T
    BY <1>2, <2>1
  <2> QED BY <1>5, <1>a, <2>2 DEF PublishedRun, n, T
<1>9. PrecisionsFor(l) = Unique(AllPublished(l))
  BY DEF PrecisionsFor, AllPublished
<1> DEFINE a == AllPublished(l)
           u == PrecisionsFor(l)
<1>10. /\ u \in Seq({Normalized(m) : m \in M})
       /\ Range(u) = {Normalized(a[i]) : i \in DOMAIN a}
       /\ \A i \in DOMAIN a : a[i] \in M
  BY <1>8, <1>9, UniqueFacts
<1>11. Range(u) = M /\ \A p \in Range(u) : p.bands \in BandSeqs
  <2>1. Range(a) = M
    BY <1>8
  <2> HIDE DEF a, u
  <2>2. \A i \in DOMAIN a : Normalized(a[i]) = a[i]
    BY <1>4, <1>10
  <2>3. Range(u) = Range(a)
    BY <1>10, <2>2 DEF Range
  <2> QED BY <1>4, <2>1, <2>3
<1>12. Range(u) \subseteq UsedPrecisions
  BY DEF UsedPrecisions
<1> HIDE DEF a, u
<1>13. DOMAIN u = 1..Len(u) /\ Len(u) \in Nat /\ u = [i \in 1..Len(u) |-> u[i]]
  BY <1>10
<1>14. u \in Seq(Range(u))
  BY <1>13, OverItsRange
<1>15. u \in Seq(UsedPrecisions)
  <2> DEFINE R == Range(u)
  <2> HIDE DEF R
  <2>1. u \in Seq(R) /\ R \subseteq UsedPrecisions
    BY <1>12, <1>14 DEF R
  <2> QED BY <2>1
<1> QED BY <1>11, <1>15 DEF u, M

\* Every precision in use has its bands and is normalized.
LEMMA UsedFacts ==
  ASSUME NEW p \in UsedPrecisions
  PROVE  p.bands \in BandSeqs /\ Normalized(p) = p
<1>1. DefaultPrecision.bands \in BandSeqs /\ Normalized(DefaultPrecision) = DefaultPrecision
  <2> DEFINE q == Precision(ShortBits, Unset, <<>>)
  <2>1. q.bands = <<>> /\ <<>> \in BandSeqs /\ q.band = Unset
    BY DEF Precision, BandSeqs
  <2> HIDE DEF q
  <2>2. Normalized(q).bands \in BandSeqs /\ Normalized(Normalized(q)) = Normalized(q)
    BY <2>1, NormalizedBands, NormalizedTwice
  <2> QED BY <2>2 DEF DefaultPrecision, q
<1>2. \A l \in PolicyLists : \A q \in Range(l) : LegalPolicy(q)
  BY ItemsAssumption
<1>3. \A q \in UsedPolicies : \A r \in Range(EffectivePrecisions(q)) :
        r.bands \in BandSeqs /\ Normalized(r) = r
  BY <1>2, EffectiveFacts DEF UsedPolicies
<1>4. \A l \in PolicyLists : \A r \in Range(PrecisionsFor(l)) :
        \E q \in UsedPolicies : r \in Range(EffectivePrecisions(q))
  BY PublishedFacts DEF UsedPolicies
<1>5. \/ p = DefaultPrecision
      \/ \E l \in PolicyLists : p \in Range(PrecisionsFor(l))
      \/ \E q \in UsedPolicies : p \in Range(EffectivePrecisions(q))
  BY DEF UsedPrecisions
<1> QED BY <1>1, <1>3, <1>4, <1>5

\* The route keys of an artifact at a precision: a sequence, one key per band,
\* all with the namespace.
LEMMA RouteKeysFacts ==
  ASSUME NEW epoch, NEW ns, NEW p, NEW short, NEW hv, p.bands \in BandSeqs
  PROVE  LET keys == RouteKeys(epoch, ns, p, short, hv)
         IN  /\ keys \in Seq(Range(keys)) /\ Len(keys) = Len(Normalized(p).bands)
             /\ Len(keys) >= 1
             /\ \A k \in Range(keys) : k.ns = ns
<1> DEFINE bands == Normalized(p).bands
           K(i) == RouteKey(epoch, ns, Normalized(p), short, bands[i], hv)
           keys == [i \in DOMAIN bands |-> K(i)]
<1>1. bands \in BandSeqs /\ bands # <<>>
  BY NormalizedBands
<1>2. RouteKeys(epoch, ns, p, short, hv) = keys
  BY DEF RouteKeys
<1>3. \A i : K(i).ns = ns
  BY DEF RouteKey
<1> HIDE DEF bands, K
<1>4. DOMAIN bands = 1..Len(bands) /\ Len(bands) \in Nat /\ Len(bands) >= 1
  BY <1>1 DEF BandSeqs
<1>5. keys \in Seq(Range(keys)) /\ Len(keys) = Len(bands)
  BY <1>4, OverItsRange
<1>6. \A k \in Range(keys) : k.ns = ns
  BY <1>3 DEF Range
<1> HIDE DEF keys
<1> QED BY <1>2, <1>4, <1>5, <1>6 DEF bands

(***************************************************************************)
(* The buckets.                                                            *)
(***************************************************************************)
Refs == {Ref(it) : it \in Items}

\* A bucket is finite, holds references of its key's namespace only, and one
\* per manifest.
BucketOK(k, bucket) ==
  /\ bucket \in SUBSET Refs
  /\ IsFiniteSet(bucket)
  /\ \A r \in bucket : r.ns = k.ns
  /\ \A r, s \in bucket : r.mk = s.mk => r = s

TableOK(t) == DOMAIN t \subseteq UsedKeys /\ \A k \in DOMAIN t : BucketOK(k, t[k])

Tables == {t \in UNION {[D -> SUBSET Refs] : D \in SUBSET UsedKeys} : TableOK(t)}

\* The keys of an item at a precision in use are keys in use, of its namespace.
LEMMA ItemKeys ==
  ASSUME NEW it \in Items, NEW p \in UsedPrecisions
  PROVE  \A k \in Range(KeysOf(it, p)) : k \in UsedKeys /\ k.ns = it.ns
<1>1. p.bands \in BandSeqs
  BY UsedFacts
<1>2. \A k \in Range(KeysOf(it, p)) : k.ns = it.ns
  BY <1>1, RouteKeysFacts DEF KeysOf
<1>3. Range(KeysOf(it, p)) \subseteq UsedKeys
  BY DEF UsedKeys
<1> QED BY <1>2, <1>3

\* A table is one if its domain and its buckets are right.
LEMMA TableIs ==
  ASSUME NEW t, t = [k \in DOMAIN t |-> t[k]], TableOK(t)
  PROVE  t \in Tables
<1> DEFINE D == DOMAIN t
<1>1. D \in SUBSET UsedKeys /\ \A k \in D : t[k] \in SUBSET Refs
  BY DEF TableOK, BucketOK
<1>2. t \in [D -> SUBSET Refs]
  BY <1>1
<1> HIDE DEF D
<1> QED BY <1>1, <1>2 DEF Tables

\* One more reference of the bucket's namespace.
LEMMA WithRefFacts ==
  ASSUME NEW k, NEW bucket, BucketOK(k, bucket), NEW ref \in Refs, ref.ns = k.ns
  PROVE  BucketOK(k, WithRef(bucket, ref))
<1>1. CASE \E r \in bucket : RefKey(r) = RefKey(ref)
  BY <1>1 DEF WithRef
<1>2. CASE ~ \E r \in bucket : RefKey(r) = RefKey(ref)
  <2>1. WithRef(bucket, ref) = bucket \cup {ref}
    BY <1>2 DEF WithRef
  <2>2. IsFiniteSet(bucket \cup {ref})
    BY FS_AddElement DEF BucketOK
  <2>3. \A r \in bucket : r.mk # ref.mk
    BY <1>2 DEF RefKey
  <2> QED BY <2>1, <2>2, <2>3 DEF BucketOK
<1> QED BY <1>1, <1>2

\* add_reference keeps the buckets right.
LEMMA InsertedFacts ==
  ASSUME NEW t \in Tables, NEW it \in Items, NEW p \in UsedPrecisions
  PROVE  Inserted(t, Ref(it), KeysOf(it, p)) \in Tables
<1> DEFINE keys == KeysOf(it, p)
           new == Inserted(t, Ref(it), keys)
<1>1. \A k \in Range(keys) : k \in UsedKeys /\ k.ns = it.ns
  BY ItemKeys
<1>2. TableOK(t) /\ Ref(it) \in Refs /\ Ref(it).ns = it.ns
  BY DEF Tables, Refs, Ref
<1>3. ASSUME NEW k \in Range(keys) PROVE BucketOK(k, Bucket(t, k))
  <2>1. BucketOK(k, {})
    BY FS_EmptySet DEF BucketOK
  <2> QED BY <1>2, <2>1 DEF Bucket, TableOK
<1> HIDE DEF keys
<1>4. /\ DOMAIN new = DOMAIN t \cup Range(keys)
      /\ \A k \in DOMAIN new :
           new[k] = IF k \in Range(keys) THEN WithRef(Bucket(t, k), Ref(it)) ELSE Bucket(t, k)
      /\ new = [k \in DOMAIN new |-> new[k]]
  BY DEF Inserted
<1> HIDE DEF new
<1>5. ASSUME NEW k \in DOMAIN new PROVE k \in UsedKeys /\ BucketOK(k, new[k])
  <2>1. CASE k \in Range(keys)
    BY <1>1, <1>2, <1>3, <1>4, <2>1, WithRefFacts
  <2>2. CASE k \notin Range(keys)
    BY <1>2, <1>4, <2>2 DEF Bucket, TableOK
  <2> QED BY <2>1, <2>2
<1>6. new \in Tables
  BY <1>4, <1>5, TableIs DEF TableOK
<1> QED BY <1>6 DEF new, keys

\* So does adding an item at one precision after another.
LEMMA IndexedFacts ==
  ASSUME NEW t \in Tables, NEW it \in Items, NEW precisions \in Seq(UsedPrecisions)
  PROVE  Indexed(t, it, precisions) \in Tables
<1> DEFINE n == Len(precisions)
<1>1. n \in Nat /\ DOMAIN precisions = 1..n /\ \A i \in 1..n : precisions[i] \in UsedPrecisions
  OBVIOUS
<1>2. \A u \in Tables, i \in 1..n : Inserted(u, Ref(it), KeysOf(it, precisions[i])) \in Tables
  BY <1>1, InsertedFacts
<1>3. PICK h : IndexRun(h, t, it, precisions)
  BY <1>1, <1>2, IndexRuns
<1> DEFINE T == {i \in 0..n : h[i] \in Tables}
<1> HIDE DEF n
<1>4. 0 \in T
  BY <1>1, <1>3 DEF IndexRun
<1>5. ASSUME NEW i \in 1..n, i - 1 \in T PROVE i \in T
  <2>1. h[i] = Inserted(h[i - 1], Ref(it), KeysOf(it, precisions[i]))
    BY <1>3 DEF IndexRun, n
  <2> QED BY <1>1, <1>2, <1>5, <2>1
<1>6. n \in T
  <2> HIDE DEF T
  <2>1. \A i \in 0..n : i \in T
    BY <1>1, <1>4, <1>5, UpTo
  <2> QED BY <1>1, <2>1
<1> QED BY <1>3, <1>6 DEF IndexRun, n

\* The buckets are always right.
LEMMA BucketsInvariance == Spec => [](buckets \in Tables)
<1>1. Init => buckets \in Tables
  <2> SUFFICES ASSUME Init PROVE buckets \in Tables
    OBVIOUS
  <2>1. buckets = <<>> /\ DOMAIN buckets = {}
    BY DEF Init
  <2>2. buckets = [k \in DOMAIN buckets |-> buckets[k]]
    BY <2>1
  <2> QED BY <2>1, <2>2, TableIs DEF TableOK
<1>2. buckets \in Tables /\ [Next]_vars => (buckets \in Tables)'
  <2> SUFFICES ASSUME buckets \in Tables, [Next]_vars PROVE buckets' \in Tables
    OBVIOUS
  <2>1. CASE AddManifest
    <3>1. <<DefaultPrecision>> \in Seq(UsedPrecisions)
      BY DEF UsedPrecisions
    <3> QED BY <2>1, <3>1, IndexedFacts DEF AddManifest, IndexAt
  <2>2. CASE AddForPolicies
    BY <2>2, PublishedFacts, IndexedFacts DEF AddForPolicies, IndexAt
  <2>3. CASE EnsureBuilt \/ Publish \/ RestartPublisher \/ UNCHANGED vars
    BY <2>3 DEF EnsureBuilt, Publish, RestartPublisher, vars
  <2> QED BY <2>1, <2>2, <2>3 DEF Next
<1> QED BY <1>1, <1>2, PTL DEF Spec

(***************************************************************************)
(* Lookups.  The paths of the keys in use are taken as different, as       *)
(* hashes are.                                                             *)
(***************************************************************************)
PathsApart == \A k, l \in UsedKeys : PathOf(k) = PathOf(l) => k = l

\* What the map of a table has at a key's path is the key's bucket.
LEMMA OpenedIsBucket ==
  ASSUME PathsApart, NEW t \in Tables, NEW key \in UsedKeys
  PROVE  (IF PathOf(key) \in DOMAIN Entries(t) THEN Entries(t)[PathOf(key)].refs ELSE {}) =
           Bucket(t, key)
<1> DEFINE keys == {k \in DOMAIN t : t[k] # {}}
           At(path) == CHOOSE k \in keys : PathOf(k) = path
           paths == {PathOf(k) : k \in keys}
<1>1. keys \subseteq UsedKeys
  BY DEF Tables, TableOK
<1>2. Entries(t) = [path \in paths |-> CandidateSet(At(path), t[At(path)])]
  BY DEF Entries
<1>3. CASE key \in keys
  <2>1. At(PathOf(key)) \in keys /\ PathOf(At(PathOf(key))) = PathOf(key)
    BY <1>3
  <2>2. At(PathOf(key)) = key
    BY <1>1, <2>1 DEF PathsApart
  <2>3. PathOf(key) \in paths
    BY <1>3
  <2>4. Entries(t)[PathOf(key)].refs = t[key]
    <3> HIDE DEF At, paths
    <3>1. Entries(t)[PathOf(key)] = CandidateSet(key, t[key])
      BY <1>2, <2>2, <2>3
    <3> QED BY <3>1 DEF CandidateSet
  <2> QED BY <1>2, <1>3, <2>3, <2>4 DEF Bucket
<1>4. CASE key \notin keys
  <2>1. PathOf(key) \notin paths
    BY <1>1, <1>4 DEF PathsApart
  <2>2. Bucket(t, key) = {}
    BY <1>4 DEF Bucket
  <2> QED BY <1>2, <2>1, <2>2
<1> QED BY <1>3, <1>4

\* The buckets that hold a manifest, what a tally says of it, and who is in it.
Where(seq, mk) == {i \in DOMAIN seq : \E r \in seq[i] : r.mk = mk}
TallyOf(seq, mk) ==
  [ref |-> CHOOSE r \in seq[Min(Where(seq, mk))] : r.mk = mk, hits |-> Cardinality(Where(seq, mk))]
Counted(seq) == {r.mk : r \in UNION Range(seq)}

\* A tally has one element per manifest.
LEMMA TallyIs == ASSUME NEW seq PROVE Tally(seq) = {TallyOf(seq, mk) : mk \in Counted(seq)}
  BY DEF Tally, TallyOf, Where, Counted

\* The first reference is one of the manifest, and there is at least one hit.
LEMMA TallyFacts ==
  ASSUME NEW n \in Nat, NEW seq, DOMAIN seq = 1..n, NEW mk \in Counted(seq)
  PROVE  /\ Where(seq, mk) \subseteq 1..n
         /\ Min(Where(seq, mk)) \in Where(seq, mk)
         /\ TallyOf(seq, mk).ref \in seq[Min(Where(seq, mk))]
         /\ TallyOf(seq, mk).ref.mk = mk
         /\ TallyOf(seq, mk).hits \in Nat /\ TallyOf(seq, mk).hits >= 1
<1> DEFINE W == Where(seq, mk)
<1>1. W \subseteq 1..n
  BY DEF Where
<1>2. W # {}
  BY DEF Counted, Where, Range
<1>3. \A i \in W : \E r \in seq[i] : r.mk = mk
  BY DEF Where
<1> HIDE DEF W
<1>4. Min(W) \in W
  <2>1. W \subseteq Nat
    BY <1>1
  <2>2. \E x \in W : \A y \in W : x <= y
    BY <1>2, <2>1, LeastElement
  <2> QED BY <2>2 DEF Min
<1>5. IsFiniteSet(W) /\ Cardinality(W) \in Nat /\ Cardinality(W) # 0
  <2>1. IsFiniteSet(1..n)
    BY FS_Interval
  <2>2. IsFiniteSet(W)
    BY <1>1, <2>1, FS_Subset
  <2> QED BY <1>2, <2>2, FS_CardinalityType, FS_EmptySet
<1>6. PICK r \in seq[Min(W)] : r.mk = mk
  BY <1>3, <1>4
<1>7. TallyOf(seq, mk).ref = CHOOSE x \in seq[Min(W)] : x.mk = mk
  BY DEF TallyOf, W
<1>8. TallyOf(seq, mk).ref \in seq[Min(W)] /\ TallyOf(seq, mk).ref.mk = mk
  BY <1>6, <1>7
<1>9. TallyOf(seq, mk).hits = Cardinality(W)
  BY DEF TallyOf, W
<1> QED BY <1>1, <1>4, <1>5, <1>8, <1>9 DEF W

\* The buckets of a query: of keys in use, with references of one namespace.
BucketsOf(t, keys) == [i \in DOMAIN keys |-> Bucket(t, keys[i])]
Filtered(seq, short, ns) == [i \in DOMAIN seq |-> {r \in seq[i] : Passes(r, short, ns)}]

\* A bucket of a key in use is right, also if there is none.
LEMMA BucketFacts ==
  ASSUME NEW t \in Tables, NEW k \in UsedKeys
  PROVE  BucketOK(k, Bucket(t, k))
<1>1. BucketOK(k, {})
  BY FS_EmptySet DEF BucketOK
<1> QED BY <1>1 DEF Bucket, Tables, TableOK

\* A lookup in the map goes over the filtered buckets.
LEMMA AuthenticatedIs ==
  ASSUME PathsApart, NEW t \in Tables, NEW n \in Nat, NEW keys \in [1..n -> UsedKeys],
         NEW short, NEW ns, NEW matches, NEW max
  PROVE  LookupAuthenticated(Entries(t), keys, short, ns, matches, max) =
           Ranked({e \in Tally(Filtered(BucketsOf(t, keys), short, ns)) : e.hits >= matches}, max)
<1> DEFINE Opened(key) == IF PathOf(key) \in DOMAIN Entries(t) THEN Entries(t)[PathOf(key)].refs ELSE {}
           seq == [i \in DOMAIN keys |-> {r \in Opened(keys[i]) : Passes(r, short, ns)}]
<1>1. \A i \in DOMAIN keys : Opened(keys[i]) = Bucket(t, keys[i])
  BY OpenedIsBucket
<1> HIDE DEF Opened
<1>2. seq = Filtered(BucketsOf(t, keys), short, ns)
  BY <1>1 DEF Filtered, BucketsOf
<1>3. LookupAuthenticated(Entries(t), keys, short, ns, matches, max) =
        Ranked({e \in Tally(seq) : e.hits >= matches}, max)
  BY Zenon DEF LookupAuthenticated, Opened
<1> HIDE DEF seq
<1> QED BY <1>2, <1>3

\* To count a manifest and then filter it is to filter and then count, as long
\* as its references in these buckets either all pass or all do not.
LEMMA FilterCommutes ==
  ASSUME NEW n \in Nat, NEW seq, DOMAIN seq = 1..n, NEW short, NEW ns, NEW matches,
         \A i \in 1..n : \A r, s \in seq[i] : r.mk = s.mk => r = s,
         \A i, j \in 1..n : \A r \in seq[i], s \in seq[j] :
           r.mk = s.mk /\ Passes(r, short, ns) => Passes(s, short, ns)
  PROVE  {e \in Tally(seq) : Passes(e.ref, short, ns) /\ e.hits >= matches} =
           {e \in Tally(Filtered(seq, short, ns)) : e.hits >= matches}
<1> DEFINE fil == Filtered(seq, short, ns)
<1>1. /\ DOMAIN fil = 1..n
      /\ \A i \in 1..n : \A r : r \in fil[i] <=> r \in seq[i] /\ Passes(r, short, ns)
  BY DEF Filtered
<1> HIDE DEF fil
<1>2. ASSUME NEW mk \in Counted(fil)
      PROVE  mk \in Counted(seq) /\ TallyOf(seq, mk) = TallyOf(fil, mk)
             /\ Passes(TallyOf(seq, mk).ref, short, ns)
  <2>1. mk \in Counted(seq)
    BY <1>1 DEF Counted, Range
  <2>2. \E i \in 1..n : \E r \in seq[i] : r.mk = mk /\ Passes(r, short, ns)
    BY <1>1 DEF Counted, Range
  <2>3. \A j \in 1..n : \A s \in seq[j] : s.mk = mk => Passes(s, short, ns)
    BY <2>2
  <2>4. Where(seq, mk) = Where(fil, mk)
    BY <1>1, <2>3 DEF Where
  <2> DEFINE m == Min(Where(seq, mk))
             a == TallyOf(seq, mk).ref
             b == TallyOf(fil, mk).ref
  <2>5. m \in 1..n /\ a \in seq[m] /\ a.mk = mk
    BY <2>1, TallyFacts
  <2>6. b \in fil[m] /\ b.mk = mk
    BY <1>1, <2>4, TallyFacts
  <2> HIDE DEF m, a, b
  <2>7. a = b /\ Passes(a, short, ns)
    BY <1>1, <2>3, <2>5, <2>6
  <2>8. TallyOf(seq, mk) = TallyOf(fil, mk)
    BY <2>4, <2>7 DEF TallyOf, a, b
  <2> QED BY <2>1, <2>7, <2>8 DEF a
<1>3. ASSUME NEW mk \in Counted(seq), Passes(TallyOf(seq, mk).ref, short, ns)
      PROVE  mk \in Counted(fil)
  <2>1. /\ Min(Where(seq, mk)) \in 1..n /\ TallyOf(seq, mk).ref \in seq[Min(Where(seq, mk))]
        /\ TallyOf(seq, mk).ref.mk = mk
    BY TallyFacts
  <2>2. TallyOf(seq, mk).ref \in fil[Min(Where(seq, mk))]
    BY <1>1, <1>3, <2>1
  <2> QED BY <1>1, <2>1, <2>2 DEF Counted, Range
<1>4. Tally(seq) = {TallyOf(seq, mk) : mk \in Counted(seq)}
      /\ Tally(fil) = {TallyOf(fil, mk) : mk \in Counted(fil)}
  BY TallyIs
<1>5. {e \in Tally(seq) : Passes(e.ref, short, ns) /\ e.hits >= matches} =
        {e \in Tally(fil) : e.hits >= matches}
  BY <1>2, <1>3, <1>4
<1> QED BY <1>5 DEF fil

\* For keys of the request's namespace the two indexes answer the same.
LEMMA PlainIsAuthenticated ==
  ASSUME PathsApart, NEW t \in Tables, NEW n \in Nat, NEW keys \in [1..n -> UsedKeys],
         NEW short, NEW ns, NEW matches, NEW max, \A i \in 1..n : keys[i].ns = ns
  PROVE  LookupTokens(t, keys, <<short>>, ns, matches, max) =
           LookupAuthenticated(Entries(t), keys, <<short>>, ns, matches, max)
<1> DEFINE seq == BucketsOf(t, keys)
           id == <<short>>
           plain == {e \in Tally(seq) : Passes(e.ref, id, ns) /\ e.hits >= matches}
           filtered == {e \in Tally(Filtered(seq, id, ns)) : e.hits >= matches}
<1>1. DOMAIN seq = 1..n /\ \A i \in 1..n : BucketOK(keys[i], seq[i])
  BY BucketFacts DEF BucketsOf
<1>2. LookupTokens(t, keys, id, ns, matches, max) = Ranked(plain, max)
  BY DEF LookupTokens, BucketsOf
<1>3. LookupAuthenticated(Entries(t), keys, id, ns, matches, max) = Ranked(filtered, max)
  BY AuthenticatedIs
<1> HIDE DEF seq
<1>4. \A i \in 1..n : \A r, s \in seq[i] : r.mk = s.mk => r = s
  BY <1>1 DEF BucketOK
<1>5. \A i \in 1..n : \A r \in seq[i] : r \in Refs /\ r.ns = ns
  BY <1>1 DEF BucketOK
<1>6. \A r, s \in Refs : r.mk = s.mk => r.short = s.short
  BY ItemsAssumption DEF Refs, Ref
<1>7. \A i, j \in 1..n : \A r \in seq[i], s \in seq[j] :
        r.mk = s.mk /\ Passes(r, id, ns) => Passes(s, id, ns)
  BY <1>5, <1>6 DEF Passes
<1>8. DOMAIN seq = 1..n
  BY <1>1
<1>9. plain = filtered
  <2> HIDE DEF id
  <2> QED BY <1>4, <1>7, <1>8, FilterCommutes
<1> HIDE DEF plain, filtered
<1> QED BY <1>2, <1>3, <1>9

(***************************************************************************)
(* Plans.                                                                  *)
(***************************************************************************)
Manifests(t, keys) == {r.mk : r \in UNION {Bucket(t, k) : k \in Range(keys)}}

\* estimate_tokens counts the different manifests behind the keys.
LEMMA EstimateIs ==
  ASSUME PathsApart, NEW t \in Tables, NEW n \in Nat, NEW keys \in [1..n -> UsedKeys]
  PROVE  /\ EstimateFrom(Entries(t), keys) = Cardinality(Manifests(t, keys))
         /\ Cardinality(Manifests(t, keys)) \in Nat
<1> DEFINE seq == BucketsOf(t, keys)
           C == Counted(seq)
           all == {e \in Tally(Filtered(seq, <<>>, NoNamespace)) : e.hits >= 1}
<1>1. DOMAIN seq = 1..n /\ \A i \in 1..n : seq[i] = Bucket(t, keys[i]) /\ IsFiniteSet(seq[i])
  BY BucketFacts DEF BucketsOf, BucketOK
<1>2. Filtered(seq, <<>>, NoNamespace) = seq
  <2>1. \A r : Passes(r, <<>>, NoNamespace)
    BY DEF Passes
  <2>2. seq = [i \in DOMAIN seq |-> seq[i]]
    BY DEF BucketsOf
  <2> HIDE DEF seq
  <2> QED BY <2>1, <2>2 DEF Filtered
<1>3. EstimateFrom(Entries(t), keys) = Cardinality(all)
  <2>1. LookupAuthenticated(Entries(t), keys, <<>>, NoNamespace, 1, 0) = Ranked(all, 0)
    BY AuthenticatedIs
  <2> HIDE DEF all
  <2> QED BY <2>1 DEF EstimateFrom, Ranked, LookupResult
<1>4. Manifests(t, keys) = C
  <2>1. Range(keys) = {keys[i] : i \in 1..n} /\ Range(seq) = {seq[i] : i \in 1..n}
    BY <1>1 DEF Range
  <2>2. {Bucket(t, k) : k \in Range(keys)} = Range(seq)
    BY <1>1, <2>1
  <2> HIDE DEF seq
  <2> QED BY <2>2 DEF Manifests, Counted
<1> HIDE DEF seq
<1>5. all = {TallyOf(seq, mk) : mk \in C}
  <2>1. \A mk \in C : TallyOf(seq, mk).hits >= 1
    BY <1>1, TallyFacts
  <2>2. Tally(seq) = {TallyOf(seq, mk) : mk \in C}
    BY TallyIs
  <2> HIDE DEF C
  <2> QED BY <1>2, <2>1, <2>2
<1>6. IsFiniteSet(C)
  <2> DEFINE R == Range(seq)
             U == UNION R
  <2>1. IsFiniteSet(R)
    <3>1. R = {seq[i] : i \in 1..n}
      BY <1>1 DEF Range
    <3>2. [i \in 1..n |-> seq[i]] \in Surjection(1..n, R)
      BY <3>1 DEF Surjection
    <3>3. IsFiniteSet(1..n)
      BY FS_Interval
    <3> HIDE DEF R
    <3> QED BY <3>2, <3>3, FS_Surjection
  <2>2. \A b \in R : IsFiniteSet(b)
    BY <1>1 DEF Range
  <2> HIDE DEF R
  <2>3. IsFiniteSet(U)
    BY <2>1, <2>2, FS_UNION
  <2>4. C = {r.mk : r \in U}
    BY DEF Counted, R
  <2> HIDE DEF C, U
  <2>5. [r \in U |-> r.mk] \in Surjection(U, C)
    BY <2>4 DEF Surjection
  <2> QED BY <2>3, <2>5, FS_Surjection
<1>7. Cardinality(all) = Cardinality(C)
  <2> DEFINE f == [mk \in C |-> TallyOf(seq, mk)]
  <2>1. \A mk \in C : TallyOf(seq, mk).ref.mk = mk
    BY <1>1, TallyFacts
  <2> HIDE DEF C, all
  <2>2. f \in [C -> all] /\ \A e \in all : \E mk \in C : f[mk] = e
    BY <1>5
  <2>3. \A a, b \in C : f[a] = f[b] => a = b
    BY <2>1
  <2>4. f \in Bijection(C, all)
    <3> HIDE DEF f
    <3> QED BY <2>2, <2>3 DEF Bijection, Injection, IsInjective, Surjection
  <2>5. ExistsBijection(C, all)
    BY <2>4 DEF ExistsBijection
  <2> QED BY <1>6, <2>5, FS_Bijection
<1> HIDE DEF C, all
<1>8. Cardinality(C) \in Nat
  BY <1>6, FS_CardinalityType
<1> QED BY <1>3, <1>4, <1>7, <1>8

\* The planner selects one of the precisions it has a count for.
LEMMA SelectFacts ==
  ASSUME NEW q, LegalPolicy(q), NEW n \in Nat, n >= 1, NEW counts \in [1..n -> Nat]
  PROVE  Select(q, counts) \in 1..n
<1> DEFINE InRange == {i \in 1..n : counts[i] \in q.min..q.max}
           Smalls == {i \in 1..n : counts[i] < q.min}
           Largest(i, S) == \A j \in S \ {i} :
             counts[i] > counts[j] \/ (counts[i] = counts[j] /\ i < j)
           Smallest(i, S) == \A j \in S \ {i} :
             counts[i] < counts[j] \/ (counts[i] = counts[j] /\ i < j)
<1>1. q.min \in Nat /\ DOMAIN counts = 1..n /\ \A i \in 1..n : counts[i] \in Nat
  BY DEF LegalPolicy
<1>2. CASE q.profile = "P0"
  BY <1>2 DEF Select
<1>3. CASE q.profile # "P0" /\ InRange # {}
  <2>1. \E i \in InRange : \A j \in InRange : i <= j
    <3>1. InRange \subseteq Nat
      OBVIOUS
    <3> HIDE DEF InRange
    <3> QED BY <1>3, <3>1, LeastElement
  <2>2. (CHOOSE i \in InRange : \A j \in InRange : i <= j) \in InRange
    BY <2>1
  <2>3. Select(q, counts) = CHOOSE i \in InRange : \A j \in InRange : i <= j
    BY <1>1, <1>3 DEF Select
  <2> QED BY <2>2, <2>3
<1>4. CASE q.profile # "P0" /\ InRange = {} /\ Smalls # {}
  <2> DEFINE T == {q.min - counts[i] : i \in Smalls}
  <2>1. T \subseteq Nat /\ T # {}
    BY <1>1, <1>4
  <2>2. PICK d \in T : \A e \in T : d <= e
    <3> HIDE DEF T
    <3> QED BY <2>1, LeastElement
  <2> DEFINE B == {i \in Smalls : q.min - counts[i] = d}
  <2>3. B \subseteq Nat /\ B # {}
    BY <2>2
  <2>4. PICK i \in B : \A j \in B : i <= j
    <3> HIDE DEF B
    <3> QED BY <2>3, LeastElement
  <2>5. ASSUME NEW j \in Smalls \ {i}
        PROVE  counts[i] > counts[j] \/ (counts[i] = counts[j] /\ i < j)
    <3>1. d <= q.min - counts[j] /\ d = q.min - counts[i]
      BY <2>2, <2>4
    <3>2. counts[j] <= counts[i] /\ i \in Nat /\ j \in Nat /\ i # j
      BY <1>1, <2>4, <3>1
    <3>3. counts[j] = counts[i] => i <= j
      BY <2>4, <3>1
    <3> QED BY <1>1, <2>4, <3>2, <3>3
  <2>6. i \in Smalls /\ Largest(i, Smalls)
    BY <2>4, <2>5
  <2>7. Select(q, counts) = CHOOSE x \in Smalls : Largest(x, Smalls)
    BY <1>1, <1>4 DEF Select
  <2> HIDE DEF Largest
  <2>8. Select(q, counts) \in Smalls
    BY <2>6, <2>7
  <2> QED BY <2>8
<1>5. CASE q.profile # "P0" /\ InRange = {} /\ Smalls = {}
  <2> DEFINE T == {counts[i] : i \in 1..n}
  <2>1. T \subseteq Nat /\ T # {}
    BY <1>1
  <2>2. PICK d \in T : \A e \in T : d <= e
    <3> HIDE DEF T
    <3> QED BY <2>1, LeastElement
  <2> DEFINE B == {i \in 1..n : counts[i] = d}
  <2>3. B \subseteq Nat /\ B # {}
    BY <2>2
  <2>4. PICK i \in B : \A j \in B : i <= j
    <3> HIDE DEF B
    <3> QED BY <2>3, LeastElement
  <2>5. ASSUME NEW j \in (1..n) \ {i}
        PROVE  counts[i] < counts[j] \/ (counts[i] = counts[j] /\ i < j)
    <3>1. d <= counts[j] /\ d = counts[i]
      BY <2>2, <2>4
    <3>2. i \in Nat /\ j \in Nat /\ i # j
      BY <2>4
    <3>3. counts[j] = counts[i] => i <= j
      BY <2>4, <3>1
    <3> QED BY <1>1, <2>4, <3>1, <3>2, <3>3
  <2>6. i \in 1..n /\ Smallest(i, 1..n)
    BY <2>4, <2>5
  <2>7. Select(q, counts) = CHOOSE x \in 1..n : Smallest(x, 1..n)
    BY <1>1, <1>5 DEF Select
  <2> HIDE DEF Smallest
  <2> QED BY <2>6, <2>7
<1> QED BY <1>2, <1>3, <1>4, <1>5

\* The keys of a request at a precision in use are keys in use, of its
\* namespace, one per band.
LEMMA RequestKeys ==
  ASSUME NEW request \in Requests, NEW p \in UsedPrecisions
  PROVE  LET keys == RouteKeys(Epoch, request.ns, p, request.short, request.hv)
         IN  /\ keys \in Seq(UsedKeys) /\ Len(keys) >= 1
             /\ \A i \in 1..Len(keys) : keys[i].ns = request.ns
<1> DEFINE keys == RouteKeys(Epoch, request.ns, p, request.short, request.hv)
<1>1. PICK it \in Items : request = [short |-> it.short, hv |-> it.hv, ns |-> it.ns]
  BY DEF Requests
<1>2. keys = KeysOf(it, p)
  BY <1>1 DEF KeysOf
<1>3. \A k \in Range(keys) : k \in UsedKeys /\ k.ns = request.ns
  BY <1>1, <1>2, ItemKeys
<1>4. keys \in Seq(Range(keys)) /\ Len(keys) >= 1
  BY UsedFacts, RouteKeysFacts
<1> HIDE DEF keys
<1>5. DOMAIN keys = 1..Len(keys) /\ Len(keys) \in Nat /\ keys = [i \in 1..Len(keys) |-> keys[i]]
  BY <1>4
<1>6. \A i \in 1..Len(keys) : keys[i] \in UsedKeys /\ keys[i].ns = request.ns
  BY <1>3, <1>5 DEF Range
<1>7. keys \in Seq(UsedKeys)
  BY <1>5, <1>6
<1> QED BY <1>4, <1>6, <1>7 DEF keys

\* A plan asks for the keys of one precision of its policy, which it has the
\* count of.
LEMMA PlanFacts ==
  ASSUME PathsApart, NEW t \in Tables, NEW way \in UsedPolicies, NEW request \in Requests
  PROVE  LET plan == PlanFor(way, Entries(t), request)
         IN  \E p \in UsedPrecisions :
               /\ plan.precision = p
               /\ plan.real = RouteKeys(Epoch, request.ns, p, request.short, request.hv)
               /\ plan.warned = Warned(way, EstimateFrom(Entries(t), plan.real))
               /\ plan.queries = UNION {Shuffles(plan.real \o c) :
                                          c \in CoverDraws(way, PublicRouteKeys, plan.real)}
<1> DEFINE precisions == EffectivePrecisions(way)
           n == Len(precisions)
           K(p) == RouteKeys(Epoch, request.ns, p, request.short, request.hv)
           keys == PlanKeys(precisions, request.ns, request.short, request.hv)
           counts == [i \in DOMAIN keys |-> EstimateFrom(Entries(t), keys[i])]
           chosen == Select(way, counts)
<1>1. LegalPolicy(way)
  BY ItemsAssumption DEF UsedPolicies
<1>2. PlanPrecisions(way, <<>>) = precisions
  BY DEF PlanPrecisions
<1>3. /\ n \in Nat /\ n >= 1 /\ DOMAIN precisions = 1..n
      /\ \A i \in 1..n : precisions[i] \in UsedPrecisions
  <2>1. precisions \in Seq(Range(precisions)) /\ n >= 1
    BY <1>1, EffectiveFacts
  <2>2. Range(precisions) \subseteq UsedPrecisions
    BY DEF UsedPrecisions
  <2> HIDE DEF precisions
  <2>3. DOMAIN precisions = 1..n /\ n \in Nat /\ \A i \in 1..n : precisions[i] \in Range(precisions)
    BY <2>1 DEF Range
  <2> QED BY <2>1, <2>2, <2>3
<1> HIDE DEF precisions, n
<1>4. DOMAIN keys = 1..n /\ \A i \in 1..n : keys[i] = K(precisions[i])
  BY <1>3 DEF PlanKeys
<1>5. \A i \in 1..n : EstimateFrom(Entries(t), keys[i]) \in Nat
  <2> TAKE i \in 1..n
  <2>1. keys[i] \in Seq(UsedKeys)
    BY <1>3, <1>4, RequestKeys
  <2>2. keys[i] \in [1..Len(keys[i]) -> UsedKeys] /\ Len(keys[i]) \in Nat
    BY <2>1
  <2> HIDE DEF keys
  <2> QED BY <2>2, EstimateIs
<1>6. PlanFor(way, Entries(t), request) = QueryPlan(way, precisions, keys, counts, PublicRouteKeys)
  BY <1>2 DEF PlanFor
<1> HIDE DEF keys
<1>7. counts \in [1..n -> Nat]
  BY <1>4, <1>5
<1>8. chosen \in 1..n
  <2> HIDE DEF counts
  <2> QED BY <1>1, <1>3, <1>7, SelectFacts
<1>9. counts[chosen] = EstimateFrom(Entries(t), keys[chosen])
  BY <1>4, <1>8
<1> DEFINE plan == PlanFor(way, Entries(t), request)
<1>10. /\ plan.precision = precisions[chosen] /\ plan.real = keys[chosen]
       /\ plan.warned = Warned(way, counts[chosen])
       /\ plan.queries = UNION {Shuffles(keys[chosen] \o c) :
                                  c \in CoverDraws(way, PublicRouteKeys, keys[chosen])}
  BY <1>6 DEF QueryPlan
<1> HIDE DEF chosen, counts, plan
<1> QED BY <1>3, <1>4, <1>8, <1>9, <1>10 DEF plan

\* A policy asks for manifests as a way that is none.
LEMMA WayFacts ==
  ASSUME NEW way \in Ways
  PROVE  /\ way # NoPolicy => way \in UsedPolicies /\ LegalPolicy(way)
         /\ way \in UsedPolicies => way # NoPolicy
<1>1. \A q \in UsedPolicies : LegalPolicy(q)
  BY ItemsAssumption DEF UsedPolicies
<1>2. \A q \in UsedPolicies : q.profile # "none"
  BY <1>1 DEF LegalPolicy
<1>3. NoPolicy.profile = "none"
  BY DEF NoPolicy
<1>4. way = NoPolicy \/ way \in UsedPolicies
  BY DEF Ways, UsedPolicies
<1> QED BY <1>1, <1>2, <1>3, <1>4

\* A shuffled sequence has the elements of the sequence.
LEMMA ShuffleFacts ==
  ASSUME NEW seq, NEW n \in Nat, DOMAIN seq = 1..n, NEW keys \in Shuffles(seq)
  PROVE  /\ DOMAIN keys = 1..n /\ keys = [i \in 1..n |-> keys[i]]
         /\ \A i \in 1..n : \E j \in 1..n : keys[i] = seq[j]
         /\ \A j \in 1..n : \E i \in 1..n : keys[i] = seq[j]
<1>1. PICK f \in [1..n -> 1..n] : Range(f) = 1..n /\ keys = [i \in 1..n |-> seq[f[i]]]
  BY DEF Shuffles
<1> QED BY <1>1 DEF Range

\* Without cover queries only keys of the request's namespace are asked for.
LEMMA AskedFacts ==
  ASSUME PathsApart, buckets \in Tables, roots[cached] = Entries(buckets),
         NEW way \in Ways, way.covers = 0, NEW request \in Requests,
         NEW keys \in Asked(way, request).queries
  PROVE  \E n \in Nat : keys \in [1..n -> UsedKeys] /\ \A i \in 1..n : keys[i].ns = request.ns
<1>1. CASE way = NoPolicy
  <2>1. keys = RouteKeys(Epoch, request.ns, DefaultPrecision, request.short, request.hv)
    BY <1>1 DEF Asked
  <2>2. keys \in Seq(UsedKeys) /\ \A i \in 1..Len(keys) : keys[i].ns = request.ns
    <3>1. DefaultPrecision \in UsedPrecisions
      BY DEF UsedPrecisions
    <3> QED BY <2>1, <3>1, RequestKeys
  <2>3. keys \in [1..Len(keys) -> UsedKeys] /\ Len(keys) \in Nat
    BY <2>2
  <2> QED BY <2>2, <2>3
<1>2. CASE way # NoPolicy
  <2> DEFINE plan == PlanFor(way, Entries(buckets), request)
             real == plan.real
             n == Len(real)
  <2>1. way \in UsedPolicies /\ Asked(way, request) = plan
    BY <1>2, WayFacts DEF Asked
  <2>2. PICK p \in UsedPrecisions :
          /\ real = RouteKeys(Epoch, request.ns, p, request.short, request.hv)
          /\ plan.queries = UNION {Shuffles(real \o c) : c \in CoverDraws(way, PublicRouteKeys, real)}
    BY <2>1, PlanFacts
  <2>3. real \in Seq(UsedKeys) /\ \A i \in 1..n : real[i].ns = request.ns
    BY <2>2, RequestKeys
  <2>4. CoverDraws(way, PublicRouteKeys, real) = {<<>>}
    BY DEF CoverDraws
  <2> HIDE DEF plan, real
  <2>5. real \o <<>> = real
    BY <2>3
  <2>6. keys \in Shuffles(real)
    BY <2>1, <2>2, <2>4, <2>5
  <2>7. n \in Nat /\ DOMAIN real = 1..n /\ \A i \in 1..n : real[i] \in UsedKeys
    BY <2>3
  <2> HIDE DEF n
  <2>8. /\ DOMAIN keys = 1..n /\ keys = [i \in 1..n |-> keys[i]]
        /\ \A i \in 1..n : \E j \in 1..n : keys[i] = real[j]
    BY <2>6, <2>7, ShuffleFacts
  <2>9. \A i \in 1..n : keys[i] \in UsedKeys /\ keys[i].ns = request.ns
    BY <2>3, <2>7, <2>8 DEF n
  <2>10. keys \in [1..n -> UsedKeys]
    BY <2>8, <2>9
  <2> QED BY <2>7, <2>9, <2>10
<1> QED BY <1>1, <1>2

\* What the theorems below need of a state: the buckets are right, and a tree
\* in use is theirs.
LEMMA TreeIsOfBuckets ==
  ASSUME IInv, cached # 0
  PROVE  roots[cached] = Entries(buckets)
BY DEF IInv, ServedIsCurrent

\* Whoever asks the authenticated index, at whatever root is current, with any
\* policy without cover queries, gets the answer of the plain index.
THEOREM AlwaysMirrorsPlainIndex ==
  ASSUME PathsApart
  PROVE  Spec => []MirrorsPlainIndex
<1>1. ASSUME IInv, buckets \in Tables PROVE MirrorsPlainIndex
  <2>1. ASSUME cached # 0, NEW way \in Ways, way.covers = 0, NEW request \in Requests,
               NEW keys \in Asked(way, request).queries, NEW max
        PROVE  ResolvePlain(buckets, keys, request, way.matches, max) =
                 ResolveAuthenticated(roots[cached], keys, request, way.matches, max, <<>>)
    <3>1. roots[cached] = Entries(buckets)
      BY <1>1, <2>1, TreeIsOfBuckets
    <3>2. PICK n \in Nat : keys \in [1..n -> UsedKeys] /\ \A i \in 1..n : keys[i].ns = request.ns
      BY <1>1, <2>1, <3>1, AskedFacts
    <3>3. LookupTokens(buckets, keys, <<request.short>>, request.ns, way.matches, MaxLookup(max)) =
            LookupAuthenticated(Entries(buckets), keys, <<request.short>>, request.ns,
                                way.matches, MaxLookup(max))
      BY <1>1, <3>2, PlainIsAuthenticated
    <3> QED BY <3>1, <3>3 DEF ResolvePlain, ResolveAuthenticated
  <2> QED BY <2>1, Zenon DEF MirrorsPlainIndex
<1> QED BY <1>1, Invariance, BucketsInvariance, PTL

\* A plan that comes without a warning hides the manifest among as many others
\* as the policy asks for, and no more than it allows.
THEOREM AlwaysUnwarnedPlanHides ==
  ASSUME PathsApart
  PROVE  Spec => []UnwarnedPlanHides
<1>1. ASSUME IInv, buckets \in Tables PROVE UnwarnedPlanHides
  <2>1. ASSUME cached # 0, NEW way \in Ways \ {NoPolicy}, NEW request \in Requests,
               ~Asked(way, request).warned
        PROVE  Cardinality(Manifests(buckets, Asked(way, request).real)) \in way.min..way.max
    <3> DEFINE plan == PlanFor(way, Entries(buckets), request)
               real == plan.real
    <3>1. roots[cached] = Entries(buckets)
      BY <1>1, <2>1, TreeIsOfBuckets
    <3>2. way \in UsedPolicies /\ LegalPolicy(way) /\ Asked(way, request) = plan
      BY <2>1, <3>1, WayFacts DEF Asked
    <3>3. PICK p \in UsedPrecisions :
            /\ real = RouteKeys(Epoch, request.ns, p, request.short, request.hv)
            /\ plan.warned = Warned(way, EstimateFrom(Entries(buckets), real))
      BY <1>1, <3>2, PlanFacts
    <3>4. real \in Seq(UsedKeys)
      BY <3>3, RequestKeys
    <3> HIDE DEF plan, real
    <3>5. real \in [1..Len(real) -> UsedKeys] /\ Len(real) \in Nat
      BY <3>4
    <3>6. /\ EstimateFrom(Entries(buckets), real) = Cardinality(Manifests(buckets, real))
          /\ Cardinality(Manifests(buckets, real)) \in Nat
      BY <1>1, <3>5, EstimateIs
    <3>7. way.min \in Nat /\ way.max \in Nat
      BY <3>2 DEF LegalPolicy
    <3>8. Cardinality(Manifests(buckets, real)) \in way.min..way.max
      <4>1. ~Warned(way, EstimateFrom(Entries(buckets), real))
        BY <2>1, <3>2, <3>3
      <4> QED BY <3>6, <3>7, <4>1 DEF Warned
    <3> QED BY <3>2, <3>8 DEF real
  <2> QED BY <2>1, Zenon DEF UnwarnedPlanHides, Manifests
<1> QED BY <1>1, Invariance, BucketsInvariance, PTL

(***************************************************************************)
(* What the buckets say of the items that were added: each reference is of *)
(* an item that was published under the key, and each item that was is     *)
(* known to the bucket, by the reference of it that came first.            *)
(***************************************************************************)
Publishes(a, k) == \E p \in PublishedAt(a) : k \in Range(KeysOf(a.item, p))

Addable == [item : Items, policies : PolicyLists \cup {<<>>}]

AddedInv ==
  /\ added \subseteq Addable /\ IsFiniteSet(added) /\ IsFiniteSet(DOMAIN buckets)
  /\ \A k \in UsedKeys : \A r \in Bucket(buckets, k) :
       \E a \in added : r = Ref(a.item) /\ Publishes(a, k)
  /\ \A k \in UsedKeys, a \in added :
       Publishes(a, k) => \E r \in Bucket(buckets, k) : r.mk = a.item.mk

\* One call of add_reference loses no reference, adds its own alone, and leaves
\* the manifest known under all of its keys.
LEMMA InsertedAdds ==
  ASSUME NEW t, NEW ref, NEW keys
  PROVE  LET new == Inserted(t, ref, keys)
         IN  /\ DOMAIN new = DOMAIN t \cup Range(keys)
             /\ \A k : Bucket(t, k) \subseteq Bucket(new, k)
             /\ \A k : \A r \in Bucket(new, k) :
                  r \in Bucket(t, k) \/ (r = ref /\ k \in Range(keys))
             /\ \A k \in Range(keys) : \E r \in Bucket(new, k) : r.mk = ref.mk
<1> DEFINE new == Inserted(t, ref, keys)
<1>1. /\ DOMAIN new = DOMAIN t \cup Range(keys)
      /\ \A k \in DOMAIN new :
           new[k] = IF k \in Range(keys) THEN WithRef(Bucket(t, k), ref) ELSE Bucket(t, k)
  BY DEF Inserted
<1> HIDE DEF new
<1>2. \A k : Bucket(new, k) = IF k \in Range(keys) THEN WithRef(Bucket(t, k), ref)
                              ELSE Bucket(t, k)
  BY <1>1 DEF Bucket
<1>3. \A bucket : /\ bucket \subseteq WithRef(bucket, ref)
                  /\ WithRef(bucket, ref) \subseteq bucket \cup {ref}
                  /\ \E r \in WithRef(bucket, ref) : r.mk = ref.mk
  BY DEF WithRef, RefKey
<1>4. \A k : Bucket(t, k) \subseteq Bucket(new, k)
  BY <1>2, <1>3
<1>5. \A k : \A r \in Bucket(new, k) : r \in Bucket(t, k) \/ (r = ref /\ k \in Range(keys))
  BY <1>2, <1>3
<1>6. \A k \in Range(keys) : \E r \in Bucket(new, k) : r.mk = ref.mk
  BY <1>2, <1>3
<1> QED BY <1>1, <1>4, <1>5, <1>6 DEF new

\* The elements of a sequence of a finite length are finitely many.
LEMMA RangeFinite ==
  ASSUME NEW seq, NEW n \in Nat, DOMAIN seq = 1..n
  PROVE  IsFiniteSet(Range(seq))
<1>1. Range(seq) = {seq[i] : i \in 1..n}
  BY DEF Range
<1>2. [i \in 1..n |-> seq[i]] \in Surjection(1..n, Range(seq))
  BY <1>1 DEF Surjection
<1>3. IsFiniteSet(1..n)
  BY FS_Interval
<1> QED BY <1>2, <1>3, FS_Surjection

\* So do the calls for one precision after another.
LEMMA IndexedAdds ==
  ASSUME NEW t \in Tables, IsFiniteSet(DOMAIN t), NEW it \in Items,
         NEW precisions \in Seq(UsedPrecisions)
  PROVE  LET new == Indexed(t, it, precisions)
         IN  /\ IsFiniteSet(DOMAIN new)
             /\ \A k : Bucket(t, k) \subseteq Bucket(new, k)
             /\ \A k : \A r \in Bucket(new, k) :
                  \/ r \in Bucket(t, k)
                  \/ r = Ref(it) /\ \E p \in Range(precisions) : k \in Range(KeysOf(it, p))
             /\ \A p \in Range(precisions) : \A k \in Range(KeysOf(it, p)) :
                  \E r \in Bucket(new, k) : r.mk = it.mk
<1> DEFINE n == Len(precisions)
           K(i) == KeysOf(it, precisions[i])
<1>1. n \in Nat /\ DOMAIN precisions = 1..n /\ \A i \in 1..n : precisions[i] \in UsedPrecisions
  OBVIOUS
<1>2. \A u \in Tables, i \in 1..n : Inserted(u, Ref(it), KeysOf(it, precisions[i])) \in Tables
  BY <1>1, InsertedFacts
<1>3. PICK h : IndexRun(h, t, it, precisions)
  BY <1>1, <1>2, IndexRuns
<1>4. h[0] = t /\ \A i \in 1..n : h[i] = Inserted(h[i - 1], Ref(it), K(i))
  BY <1>3 DEF IndexRun
<1>5. ASSUME NEW i \in 1..n PROVE IsFiniteSet(Range(K(i)))
  <2>1. precisions[i].bands \in BandSeqs
    BY <1>1, UsedFacts
  <2>2. K(i) \in Seq(Range(K(i)))
    BY <2>1, RouteKeysFacts DEF KeysOf
  <2> HIDE DEF K
  <2> QED BY <2>2, RangeFinite
<1> HIDE DEF n, K
<1> DEFINE Fin(i) == IsFiniteSet(DOMAIN h[i])
           Kept(i) == \A k : Bucket(t, k) \subseteq Bucket(h[i], k)
           Own(i) == \A k : \A r \in Bucket(h[i], k) :
                       r \in Bucket(t, k) \/ (r = Ref(it) /\ \E j \in 1..i : k \in Range(K(j)))
           Known(i) == \A j \in 1..i : \A k \in Range(K(j)) :
                         \E r \in Bucket(h[i], k) : r.mk = it.mk
           T == {i \in 0..n : Fin(i) /\ Kept(i) /\ Own(i) /\ Known(i)}
<1>6. 0 \in T
  BY <1>1, <1>4
<1>7. ASSUME NEW i \in 1..n, i - 1 \in T PROVE i \in T
  <2>1. /\ h[i] = Inserted(h[i - 1], Ref(it), K(i))
        /\ 1..i = 1..(i - 1) \cup {i}
        /\ i \in 0..n
    BY <1>1, <1>4
  <2>2. Fin(i - 1) /\ Kept(i - 1) /\ Own(i - 1) /\ Known(i - 1)
    BY <1>7
  <2>3. /\ DOMAIN h[i] = DOMAIN h[i - 1] \cup Range(K(i))
        /\ \A k : Bucket(h[i - 1], k) \subseteq Bucket(h[i], k)
        /\ \A k : \A r \in Bucket(h[i], k) :
             r \in Bucket(h[i - 1], k) \/ (r = Ref(it) /\ k \in Range(K(i)))
        /\ \A k \in Range(K(i)) : \E r \in Bucket(h[i], k) : r.mk = Ref(it).mk
    <3> DEFINE new == Inserted(h[i - 1], Ref(it), K(i))
    <3>1. /\ DOMAIN new = DOMAIN h[i - 1] \cup Range(K(i))
          /\ \A k : Bucket(h[i - 1], k) \subseteq Bucket(new, k)
          /\ \A k : \A r \in Bucket(new, k) :
               r \in Bucket(h[i - 1], k) \/ (r = Ref(it) /\ k \in Range(K(i)))
          /\ \A k \in Range(K(i)) : \E r \in Bucket(new, k) : r.mk = Ref(it).mk
      BY InsertedAdds
    <3>2. h[i] = new
      BY <2>1
    <3> HIDE DEF new
    <3> QED BY <3>1, <3>2
  <2>4. Ref(it).mk = it.mk
    BY DEF Ref
  <2>5. Fin(i)
    <3> DEFINE A == DOMAIN h[i - 1]
               B == Range(K(i))
    <3>1. IsFiniteSet(A) /\ IsFiniteSet(B)
      BY <1>5, <2>2
    <3> HIDE DEF A, B
    <3>2. IsFiniteSet(A \cup B)
      BY <3>1, FS_Union
    <3> QED BY <2>3, <3>2 DEF A, B
  <2>6. Kept(i)
    BY <2>2, <2>3
  <2>7. Own(i)
    BY <2>1, <2>2, <2>3
  <2>8. Known(i)
    <3> SUFFICES ASSUME NEW j \in 1..i, NEW k \in Range(K(j))
                 PROVE  \E r \in Bucket(h[i], k) : r.mk = it.mk
      OBVIOUS
    <3>1. CASE j = i
      BY <2>3, <2>4, <3>1
    <3>2. CASE j # i
      <4>1. j \in 1..(i - 1)
        BY <2>1, <3>2
      <4> QED BY <2>2, <2>3, <4>1
    <3> QED BY <3>1, <3>2
  <2> HIDE DEF Fin, Kept, Own, Known
  <2> QED BY <2>1, <2>5, <2>6, <2>7, <2>8
<1>8. n \in T
  <2> HIDE DEF T
  <2>1. \A i \in 0..n : i \in T
    BY <1>1, <1>6, <1>7, UpTo
  <2> QED BY <1>1, <2>1
<1>9. h[n] = Indexed(t, it, precisions)
  BY <1>3 DEF IndexRun, n
<1>10. Range(precisions) = {precisions[j] : j \in 1..n}
  BY <1>1 DEF Range
<1>11. \A k : (\E j \in 1..n : k \in Range(K(j)))
              <=> \E p \in Range(precisions) : k \in Range(KeysOf(it, p))
  BY <1>10 DEF K
<1>12. \A p \in Range(precisions) : \A k \in Range(KeysOf(it, p)) :
         \E r \in Bucket(h[n], k) : r.mk = it.mk
  BY <1>8, <1>10 DEF K
<1> QED BY <1>8, <1>9, <1>11, <1>12

\* An item is published at the precisions it is indexed for.
LEMMA AddedAt ==
  ASSUME AddedInv, buckets \in Tables, NEW it \in Items, NEW precisions \in Seq(UsedPrecisions),
         NEW policies \in PolicyLists \cup {<<>>},
         PublishedAt([item |-> it, policies |-> policies]) = Range(precisions),
         IndexAt(it, precisions, policies)
  PROVE  AddedInv'
<1> DEFINE b == [item |-> it, policies |-> policies]
<1>1. /\ added' = added \cup {b} /\ buckets' = Indexed(buckets, it, precisions)
      /\ b \in Addable /\ b.item = it
  BY DEF IndexAt, Addable
<1>2. \A k : Publishes(b, k) <=> \E p \in Range(precisions) : k \in Range(KeysOf(it, p))
  BY DEF Publishes
<1> HIDE DEF b
<1>3. /\ IsFiniteSet(DOMAIN buckets')
      /\ \A k : Bucket(buckets, k) \subseteq Bucket(buckets', k)
      /\ \A k : \A r \in Bucket(buckets', k) :
           r \in Bucket(buckets, k) \/ (r = Ref(it) /\ Publishes(b, k))
      /\ \A k : Publishes(b, k) => \E r \in Bucket(buckets', k) : r.mk = it.mk
  BY <1>1, <1>2, IndexedAdds DEF AddedInv
<1>4. added' \subseteq Addable /\ IsFiniteSet(added')
  BY <1>1, FS_AddElement DEF AddedInv
<1>5. \A k \in UsedKeys : \A r \in Bucket(buckets', k) :
        \E a \in added' : r = Ref(a.item) /\ Publishes(a, k)
  BY <1>1, <1>3 DEF AddedInv
<1>6. \A k \in UsedKeys, a \in added' :
        Publishes(a, k) => \E r \in Bucket(buckets', k) : r.mk = a.item.mk
  BY <1>1, <1>3 DEF AddedInv
<1> QED BY <1>3, <1>4, <1>5, <1>6 DEF AddedInv, Publishes, PublishedAt, Bucket

\* The buckets and the items that were added always agree.
LEMMA AddedInvariance == Spec => []AddedInv
<1>1. Init => AddedInv
  BY FS_EmptySet DEF Init, AddedInv, Bucket
<1>2. AddedInv /\ buckets \in Tables /\ [Next]_vars => AddedInv'
  <2> SUFFICES ASSUME AddedInv, buckets \in Tables, [Next]_vars PROVE AddedInv'
    OBVIOUS
  <2>1. CASE AddManifest
    <3>1. PICK it \in Items : IndexAt(it, <<DefaultPrecision>>, <<>>)
      BY <2>1 DEF AddManifest
    <3>2. <<DefaultPrecision>> \in Seq(UsedPrecisions)
          /\ Range(<<DefaultPrecision>>) = {DefaultPrecision}
      BY DEF UsedPrecisions, Range
    <3>3. PublishedAt([item |-> it, policies |-> <<>>]) = {DefaultPrecision}
      BY DEF PublishedAt
    <3> QED BY <3>1, <3>2, <3>3, AddedAt
  <2>2. CASE AddForPolicies
    <3>1. PICK it \in Items, l \in PolicyLists : IndexAt(it, PrecisionsFor(l), l)
      BY <2>2 DEF AddForPolicies
    <3>2. l # <<>>
      BY ItemsAssumption
    <3>3. PublishedAt([item |-> it, policies |-> l]) = Range(PrecisionsFor(l))
      BY <3>2, PublishedFacts DEF PublishedAt
    <3> QED BY <3>1, <3>3, PublishedFacts, AddedAt
  <2>3. CASE EnsureBuilt \/ Publish \/ RestartPublisher \/ UNCHANGED vars
    <3>1. UNCHANGED <<buckets, added>>
      BY <2>3 DEF EnsureBuilt, Publish, RestartPublisher, vars
    <3> QED BY <3>1 DEF AddedInv, Publishes, PublishedAt, Bucket
  <2> QED BY <2>1, <2>2, <2>3 DEF Next
<1> QED BY <1>1, <1>2, BucketsInvariance, PTL DEF Spec

(***************************************************************************)
(* What is owed.  The keys of a request hold a manifest if it was          *)
(* published, for an artifact that agrees, at the precision asked for.     *)
(***************************************************************************)
RealKeys(request, p) == RouteKeys(Epoch, request.ns, p, request.short, request.hv)

\* An added item is like what is asked for, and agrees with it on a band.
AgreesAt(a, request, p, b) ==
  /\ a.item.short = request.short /\ a.item.ns = request.ns
  /\ BitPrefix(a.item.hv[b], p.band) = BitPrefix(request.hv[b], p.band)
  /\ \E w \in PublishedAt(a) : w.short = p.short /\ w.band = p.band /\ b \in Range(w.bands)

\* The filtered buckets of a query.
Seen(keys, request) == Filtered(BucketsOf(buckets, keys), <<request.short>>, request.ns)

\* The keys at a precision in use, one per band.
LEMMA KeysAt ==
  ASSUME NEW p \in UsedPrecisions, NEW ns, NEW short, NEW hv
  PROVE  /\ Len(p.bands) \in Nat /\ DOMAIN p.bands = 1..Len(p.bands)
         /\ RouteKeys(Epoch, ns, p, short, hv) =
              [i \in 1..Len(p.bands) |-> RouteKey(Epoch, ns, p, short, p.bands[i], hv)]
<1>1. p.bands \in BandSeqs /\ Normalized(p) = p
  BY UsedFacts
<1>2. Len(p.bands) \in Nat /\ DOMAIN p.bands = 1..Len(p.bands)
  BY <1>1 DEF BandSeqs
<1> QED BY <1>1, <1>2 DEF RouteKeys

\* An item published at w is under a request's key for band b at p if the
\* two agree on everything that goes into the key.
LEMMA KeyMatches ==
  ASSUME NEW it \in Items, NEW w \in UsedPrecisions, NEW p, NEW request, NEW b
  PROVE  RouteKey(Epoch, request.ns, p, request.short, b, request.hv) \in Range(KeysOf(it, w))
           <=> /\ it.ns = request.ns /\ w.short = p.short /\ w.band = p.band /\ b \in Range(w.bands)
               /\ BitPrefix(it.short, w.short) = BitPrefix(request.short, p.short)
               /\ BitPrefix(it.hv[b], w.band) = BitPrefix(request.hv[b], p.band)
<1> DEFINE k == RouteKey(Epoch, request.ns, p, request.short, b, request.hv)
           l(c) == RouteKey(Epoch, it.ns, w, it.short, c, it.hv)
           n == Len(w.bands)
<1>1. n \in Nat /\ DOMAIN w.bands = 1..n /\ KeysOf(it, w) = [i \in 1..n |-> l(w.bands[i])]
  BY KeysAt DEF KeysOf
<1>2. Range(KeysOf(it, w)) = {l(c) : c \in Range(w.bands)}
  BY <1>1 DEF Range
<1>3. ASSUME NEW c
      PROVE  k = l(c) <=> /\ it.ns = request.ns /\ w.short = p.short /\ w.band = p.band /\ b = c
                          /\ BitPrefix(it.short, w.short) = BitPrefix(request.short, p.short)
                          /\ BitPrefix(it.hv[b], w.band) = BitPrefix(request.hv[b], p.band)
  <2>1. /\ k.ns = request.ns /\ k.short_bits = p.short /\ k.band = b /\ k.band_bits = p.band
        /\ k.prefix = BitPrefix(request.short, p.short)
        /\ k.code = BitPrefix(request.hv[b], p.band)
    BY DEF RouteKey
  <2>2. /\ l(c).ns = it.ns /\ l(c).short_bits = w.short /\ l(c).band = c /\ l(c).band_bits = w.band
        /\ l(c).prefix = BitPrefix(it.short, w.short)
        /\ l(c).code = BitPrefix(it.hv[c], w.band)
    BY DEF RouteKey
  <2>3. CASE k = l(c)
    <3> HIDE DEF k, l
    <3> QED BY <2>1, <2>2, <2>3
  <2>4. CASE /\ it.ns = request.ns /\ w.short = p.short /\ w.band = p.band /\ b = c
             /\ BitPrefix(it.short, w.short) = BitPrefix(request.short, p.short)
             /\ BitPrefix(it.hv[b], w.band) = BitPrefix(request.hv[b], p.band)
    BY <2>4 DEF RouteKey
  <2> QED BY <2>3, <2>4
<1> HIDE DEF k, l
<1>4. k \in Range(KeysOf(it, w)) <=> \E c \in Range(w.bands) : k = l(c)
  BY <1>2
<1>5. k \in Range(KeysOf(it, w))
        <=> /\ it.ns = request.ns /\ w.short = p.short /\ w.band = p.band /\ b \in Range(w.bands)
            /\ BitPrefix(it.short, w.short) = BitPrefix(request.short, p.short)
            /\ BitPrefix(it.hv[b], w.band) = BitPrefix(request.hv[b], p.band)
  BY <1>3, <1>4
<1> QED BY <1>5 DEF k

\* To pass the filters of a request is to have its short id, and its namespace
\* if it has one.
LEMMA PassesId ==
  ASSUME NEW r, NEW short, NEW ns
  PROVE  Passes(r, <<short>>, ns) <=> r.short = short /\ (ns = NoNamespace \/ r.ns = ns)
<1>1. <<short>> # <<>> /\ (<<r.short>> = <<short>> <=> r.short = short)
  OBVIOUS
<1> QED BY <1>1, Zenon DEF Passes

\* What was added was published at precisions in use.
LEMMA AddedFacts ==
  ASSUME AddedInv, NEW a \in added
  PROVE  /\ a.item \in Items /\ PublishedAt(a) \subseteq UsedPrecisions
         /\ a.item.mk \in Nat
         /\ Ref(a.item) = [mk |-> a.item.mk, short |-> a.item.short, ns |-> a.item.ns,
                           inline |-> a.item.inline]
<1>1. a.item \in Items /\ a.policies \in PolicyLists \cup {<<>>}
  BY DEF AddedInv, Addable
<1>2. CASE a.policies = <<>>
  BY <1>1, <1>2, ItemsAssumption DEF PublishedAt, UsedPrecisions, Ref
<1>3. CASE a.policies \in PolicyLists
  <2>1. PublishedAt(a) = Range(PrecisionsFor(a.policies))
    BY <1>3, ItemsAssumption, PublishedFacts DEF PublishedAt
  <2> QED BY <1>1, <1>3, <2>1, ItemsAssumption DEF UsedPrecisions, Ref
<1> QED BY <1>1, <1>2, <1>3

\* The bucket of one key of a request holds a manifest that passes the filters
\* if an item of it, like the request, was published so that it agrees there.
LEMMA HeldIs ==
  ASSUME AddedInv, buckets \in Tables, NEW request \in Requests, NEW p \in UsedPrecisions,
         NEW i \in DOMAIN p.bands, NEW mk
  PROVE  (\E r \in Bucket(buckets, RealKeys(request, p)[i]) :
            Passes(r, <<request.short>>, request.ns) /\ r.mk = mk)
           <=> \E a \in added : a.item.mk = mk /\ AgreesAt(a, request, p, p.bands[i])
<1> DEFINE b == p.bands[i]
           k == RouteKey(Epoch, request.ns, p, request.short, b, request.hv)
           Agrees(a, w) == /\ w.short = p.short /\ w.band = p.band /\ b \in Range(w.bands)
                           /\ BitPrefix(a.item.hv[b], p.band) = BitPrefix(request.hv[b], p.band)
<1>1. RealKeys(request, p)[i] = k /\ k.ns = request.ns
  BY KeysAt DEF RealKeys, RouteKey
<1>2. k \in UsedKeys
  <2>1. RealKeys(request, p) \in Seq(UsedKeys)
    BY RequestKeys DEF RealKeys
  <2>2. i \in DOMAIN RealKeys(request, p)
    BY KeysAt DEF RealKeys
  <2> QED BY <1>1, <2>1, <2>2
<1>3. BucketOK(k, Bucket(buckets, k))
  BY <1>2, BucketFacts
<1>4. ASSUME NEW r \in Bucket(buckets, k), Passes(r, <<request.short>>, request.ns), r.mk = mk
      PROVE  \E a \in added : /\ a.item.short = request.short /\ a.item.ns = request.ns
                              /\ a.item.mk = mk /\ \E w \in PublishedAt(a) : Agrees(a, w)
  <2>1. PICK a \in added : r = Ref(a.item) /\ Publishes(a, k)
    BY <1>2 DEF AddedInv
  <2>2. PICK w \in PublishedAt(a) : k \in Range(KeysOf(a.item, w))
    BY <2>1 DEF Publishes
  <2>3. a.item \in Items /\ w \in UsedPrecisions
    BY AddedFacts
  <2>4. a.item.ns = request.ns /\ Agrees(a, w)
    <3>1. /\ a.item.ns = request.ns /\ w.short = p.short /\ w.band = p.band /\ b \in Range(w.bands)
          /\ BitPrefix(a.item.hv[b], w.band) = BitPrefix(request.hv[b], p.band)
      <4> HIDE DEF b
      <4> QED BY <2>2, <2>3, KeyMatches
    <3> QED BY <3>1
  <2>5. a.item.short = request.short /\ a.item.mk = mk
    <3>1. r.short = a.item.short /\ r.mk = a.item.mk
      BY <2>1 DEF Ref
    <3>2. r.short = request.short
      BY <1>4, PassesId
    <3> QED BY <1>4, <3>1, <3>2
  <2> QED BY <2>4, <2>5
<1>5. ASSUME NEW a \in added, a.item.short = request.short, a.item.ns = request.ns,
             a.item.mk = mk, NEW w \in PublishedAt(a), Agrees(a, w)
      PROVE  \E r \in Bucket(buckets, k) : Passes(r, <<request.short>>, request.ns) /\ r.mk = mk
  <2>1. a.item \in Items /\ w \in UsedPrecisions
    BY AddedFacts
  <2>2. k \in Range(KeysOf(a.item, w))
    BY <1>5, <2>1, KeyMatches
  <2>3. PICK r \in Bucket(buckets, k) : r.mk = mk
    BY <1>2, <1>5, <2>2 DEF AddedInv, Publishes
  <2>4. r.ns = request.ns
    BY <1>1, <1>3 DEF BucketOK
  <2>5. PICK c \in added : r = Ref(c.item)
    BY <1>2 DEF AddedInv
  <2>6. r.short = request.short
    <3>1. r.short = c.item.short /\ r.mk = c.item.mk
      BY <2>5 DEF Ref
    <3>2. c.item \in Items /\ c.item.mk = a.item.mk
      BY <1>5, <2>3, <3>1, AddedFacts
    <3> QED BY <1>5, <2>1, <3>1, <3>2, ItemsAssumption
  <2> QED BY <2>3, <2>4, <2>6, PassesId
<1>6. \A a : AgreesAt(a, request, p, b)
               <=> /\ a.item.short = request.short /\ a.item.ns = request.ns
                   /\ \E w \in PublishedAt(a) : Agrees(a, w)
  BY DEF AgreesAt
<1> HIDE DEF k, Agrees
<1> QED BY <1>1, <1>4, <1>5, <1>6

\* The manifests that are owed are those that enough keys of the request hold.
LEMMA OwedIs ==
  ASSUME AddedInv, buckets \in Tables, NEW request \in Requests, NEW p \in UsedPrecisions,
         NEW matches \in Nat \ {0}
  PROVE  \A mk : mk \in Owed(request, p, matches)
                   <=> Cardinality(Where(Seen(RealKeys(request, p), request), mk)) >= matches
<1> DEFINE keys == RealKeys(request, p)
           Tokens(mk) == {i \in DOMAIN p.bands :
                            \E a \in added : a.item.mk = mk /\ AgreesAt(a, request, p, p.bands[i])}
<1>1. Owed(request, p, matches) =
        {mk \in {a.item.mk : a \in added} : Cardinality(Tokens(mk)) >= matches}
  <2> DEFINE Like(a) == a.item.short = request.short /\ a.item.ns = request.ns
             Agrees(a, b) ==
               /\ BitPrefix(a.item.hv[b], p.band) = BitPrefix(request.hv[b], p.band)
               /\ \E w \in PublishedAt(a) : w.short = p.short /\ w.band = p.band /\ b \in Range(w.bands)
             Found(mk) == {i \in DOMAIN p.bands :
                             \E a \in added : Like(a) /\ a.item.mk = mk /\ Agrees(a, p.bands[i])}
  <2>1. \A a, b : AgreesAt(a, request, p, b) <=> Like(a) /\ Agrees(a, b)
    BY DEF AgreesAt
  <2>2. Owed(request, p, matches) =
          {mk \in {a.item.mk : a \in added} : Cardinality(Found(mk)) >= matches}
    BY DEF Owed
  <2> HIDE DEF Like, Agrees
  <2>3. \A mk : Found(mk) = Tokens(mk)
    BY <2>1
  <2> HIDE DEF Found, Tokens
  <2> QED BY <2>2, <2>3
<1>2. ASSUME NEW mk PROVE Where(Seen(keys, request), mk) = Tokens(mk)
  <2>1. DOMAIN keys = DOMAIN p.bands
    BY KeysAt DEF RealKeys
  <2>2. \A i \in DOMAIN p.bands :
          (\E r \in Bucket(buckets, keys[i]) : Passes(r, <<request.short>>, request.ns) /\ r.mk = mk)
            <=> \E a \in added : a.item.mk = mk /\ AgreesAt(a, request, p, p.bands[i])
    BY HeldIs
  <2>3. Where(Seen(keys, request), mk) =
          {i \in DOMAIN keys : \E r \in Bucket(buckets, keys[i]) :
             Passes(r, <<request.short>>, request.ns) /\ r.mk = mk}
    BY DEF Where, Seen, Filtered, BucketsOf
  <2> HIDE DEF keys
  <2> QED BY <2>1, <2>2, <2>3
<1>3. ASSUME NEW mk, Cardinality(Tokens(mk)) >= matches
      PROVE  mk \in {a.item.mk : a \in added}
  <2>1. Tokens(mk) # {}
    <3> HIDE DEF Tokens
    <3> QED BY <1>3, FS_EmptySet
  <2> QED BY <2>1
<1> HIDE DEF Tokens, keys
<1> QED BY <1>1, <1>2, <1>3 DEF keys

(***************************************************************************)
(* What is found.  A query is the request's keys with some covers, in any  *)
(* order: it finds what the keys by themselves find, and more only if      *)
(* there are covers.                                                       *)
(***************************************************************************)
\* The places of a sequence whose keys are in a set.
Places(seq, n, S) == {i \in 1..n : seq[i] \in S}

\* As many keys of a set are in a sequence in whatever order it is.
LEMMA ShuffleCount ==
  ASSUME NEW seq, NEW n \in Nat, DOMAIN seq = 1..n, NEW keys \in Shuffles(seq), NEW S
  PROVE  Cardinality(Places(keys, n, S)) = Cardinality(Places(seq, n, S))
<1> DEFINE A == Places(keys, n, S)
           B == Places(seq, n, S)
<1>1. PICK f \in [1..n -> 1..n] : Range(f) = 1..n /\ keys = [i \in 1..n |-> seq[f[i]]]
  BY DEF Shuffles
<1>2. IsFiniteSet(1..n)
  BY FS_Interval
<1>3. f \in Surjection(1..n, 1..n)
  BY <1>1 DEF Surjection, Range
<1>4. f \in Injection(1..n, 1..n)
  BY <1>2, <1>3, FS_SurjSameCardinalityImpliesInj
<1>5. \A i, j \in 1..n : f[i] = f[j] => i = j
  BY <1>4 DEF Injection, IsInjective
<1> DEFINE g == [i \in A |-> f[i]]
<1>6. g \in [A -> B] /\ \A i \in A : g[i] = f[i]
  BY <1>1 DEF Places
<1>7. \A j \in B : \E i \in A : g[i] = j
  <2> SUFFICES ASSUME NEW j \in B PROVE \E i \in A : f[i] = j
    BY <1>6
  <2>1. PICK i \in 1..n : f[i] = j
    BY <1>1 DEF Range, Places
  <2>2. keys[i] = seq[j]
    BY <1>1, <2>1
  <2> QED BY <2>1, <2>2 DEF Places
<1> HIDE DEF g
<1>8. g \in Bijection(A, B)
  <2>1. \A i, j \in A : g[i] = g[j] => i = j
    BY <1>5, <1>6 DEF Places
  <2> HIDE DEF A, B
  <2> QED BY <1>6, <1>7, <2>1 DEF Bijection, Injection, IsInjective, Surjection
<1>9. IsFiniteSet(A)
  BY <1>2, FS_Subset DEF Places
<1> HIDE DEF A, B
<1>10. ExistsBijection(A, B)
  BY <1>8 DEF ExistsBijection
<1> QED BY <1>9, <1>10, FS_Bijection DEF A, B

\* Of the keys and the covers, at least as many as of the keys.
LEMMA CoverCount ==
  ASSUME NEW n \in Nat, NEW m \in Nat, NEW real, NEW c, NEW K,
         real \in Seq(K), c \in Seq(K), Len(real) = n, Len(c) = m,
         NEW keys \in Shuffles(real \o c), NEW S
  PROVE  /\ keys \in [1..(n + m) -> K]
         /\ Cardinality(Places(real, n, S)) \in Nat
         /\ Cardinality(Places(keys, n + m, S)) \in Nat
         /\ Cardinality(Places(real, n, S))
              <= Cardinality(Places(keys, n + m, S))
         /\ m = 0 => Cardinality(Places(keys, n + m, S)) =
                       Cardinality(Places(real, n, S))
<1> DEFINE all == real \o c
           A == Places(real, n, S)
           B == Places(all, n + m, S)
           C == Places(keys, n + m, S)
<1>1. /\ DOMAIN all = 1..(n + m) /\ n + m \in Nat /\ \A i \in 1..n : all[i] = real[i]
      /\ \A i \in 1..(n + m) : all[i] \in K
  BY DEF all
<1>2. keys \in [1..(n + m) -> K]
  <2>1. /\ DOMAIN keys = 1..(n + m) /\ keys = [i \in 1..(n + m) |-> keys[i]]
        /\ \A i \in 1..(n + m) : \E j \in 1..(n + m) : keys[i] = all[j]
    <3>1. keys \in Shuffles(all)
      OBVIOUS
    <3> HIDE DEF all
    <3> QED BY <1>1, <3>1, ShuffleFacts
  <2> QED BY <1>1, <2>1
<1>3. Cardinality(C) = Cardinality(B)
  <2> DEFINE N == n + m
  <2>1. keys \in Shuffles(all)
    OBVIOUS
  <2> HIDE DEF all
  <2>2. N \in Nat /\ DOMAIN all = 1..N
    BY <1>1
  <2> HIDE DEF N
  <2>3. Cardinality(Places(keys, N, S)) = Cardinality(Places(all, N, S))
    BY <2>1, <2>2, ShuffleCount
  <2> QED BY <2>3 DEF N
<1>4. A \in SUBSET B /\ (m = 0 => A = B)
  <2> HIDE DEF all
  <2>1. 1..n \subseteq 1..(n + m) /\ (m = 0 => n + m = n)
    OBVIOUS
  <2> QED BY <1>1, <2>1 DEF Places
<1>5. IsFiniteSet(B)
  <2>1. IsFiniteSet(1..(n + m))
    BY <1>1, FS_Interval
  <2> QED BY <2>1, FS_Subset DEF Places
<1> HIDE DEF A, B, C
<1>6. Cardinality(A) <= Cardinality(B) /\ IsFiniteSet(A)
  BY <1>4, <1>5, FS_Subset
<1>7. Cardinality(A) \in Nat /\ Cardinality(B) \in Nat
  BY <1>5, <1>6, FS_CardinalityType
<1> QED BY <1>2, <1>3, <1>4, <1>6, <1>7 DEF A, B, C

\* The keys of a set that a tally counts.
LEMMA WhereIs ==
  ASSUME NEW n \in Nat, NEW keys, DOMAIN keys = 1..n, NEW request, NEW mk
  PROVE  Where(Seen(keys, request), mk) =
           Places(keys, n, {k \in Range(keys) \cup UsedKeys :
              \E r \in Bucket(buckets, k) :
                Passes(r, <<request.short>>, request.ns) /\ r.mk = mk})
<1>1. Where(Seen(keys, request), mk) =
        {i \in 1..n : \E r \in Bucket(buckets, keys[i]) :
           Passes(r, <<request.short>>, request.ns) /\ r.mk = mk}
  BY DEF Where, Seen, Filtered, BucketsOf
<1>2. \A i \in 1..n : keys[i] \in Range(keys)
  BY DEF Range
<1> QED BY <1>1, <1>2 DEF Places

\* A lookup asks for the keys of one precision with covers, if there are any.
LEMMA AskedQueries ==
  ASSUME PathsApart, AddedInv, buckets \in Tables, roots[cached] = Entries(buckets),
         NEW way \in Ways, NEW request \in Requests
  PROVE  /\ Asked(way, request).precision \in UsedPrecisions
         /\ \A keys \in Asked(way, request).queries : \E c \in Seq(UsedKeys) :
              /\ keys \in Shuffles(RealKeys(request, Asked(way, request).precision) \o c)
              /\ way.covers = 0 => c = <<>>
<1>1. CASE way = NoPolicy
  <2> DEFINE real == RealKeys(request, DefaultPrecision)
             n == Len(real)
  <2>1. Asked(way, request).precision = DefaultPrecision /\ Asked(way, request).queries = {real}
    BY <1>1 DEF Asked, RealKeys
  <2>2. DefaultPrecision \in UsedPrecisions
    BY DEF UsedPrecisions
  <2>3. real \in Seq(UsedKeys)
    BY <2>2, RequestKeys DEF RealKeys
  <2> HIDE DEF real
  <2>4. real \o <<>> = real
    BY <2>3
  <2>5. real \in Shuffles(real)
    <3> DEFINE f == [i \in DOMAIN real |-> i]
    <3>1. f \in [DOMAIN real -> DOMAIN real] /\ Range(f) = DOMAIN real
      BY DEF Range
    <3>2. real = [i \in DOMAIN real |-> real[f[i]]]
      BY <2>3
    <3> HIDE DEF f
    <3> QED BY <3>1, <3>2 DEF Shuffles
  <2>6. <<>> \in Seq(UsedKeys)
    OBVIOUS
  <2> QED BY <2>1, <2>2, <2>4, <2>5, <2>6 DEF real
<1>2. CASE way # NoPolicy
  <2> DEFINE plan == PlanFor(way, Entries(buckets), request)
             real == plan.real
             available == PublicRouteKeys \ Range(real)
             wanted == IF way.profile = "P2" THEN way.covers ELSE 0
             n == IF wanted > Cardinality(available) THEN Cardinality(available) ELSE wanted
  <2>1. way \in UsedPolicies /\ LegalPolicy(way) /\ Asked(way, request) = plan
    BY <1>2, WayFacts DEF Asked
  <2>2. PICK p \in UsedPrecisions :
          /\ plan.precision = p /\ real = RealKeys(request, p)
          /\ plan.queries = UNION {Shuffles(real \o c) : c \in CoverDraws(way, PublicRouteKeys, real)}
    BY <2>1, PlanFacts DEF RealKeys
  <2>3. wanted \in Nat /\ (way.covers = 0 => wanted = 0)
    BY <2>1 DEF LegalPolicy
  <2>4. available \subseteq UsedKeys /\ IsFiniteSet(available)
    <3>1. PublicRouteKeys \subseteq UsedKeys /\ IsFiniteSet(PublicRouteKeys)
      BY DEF PublicRouteKeys, Tables, TableOK, AddedInv
    <3> QED BY <3>1, FS_Subset
  <2> HIDE DEF plan, real, available, wanted
  <2>5. n \in Nat
    BY <2>3, <2>4, FS_CardinalityType
  <2>6. CoverDraws(way, PublicRouteKeys, real) =
          IF wanted = 0 THEN {<<>>}
          ELSE {c \in [1..n -> available] : \A i, j \in 1..n : i # j => c[i] # c[j]}
    BY DEF CoverDraws, available, wanted
  <2> HIDE DEF n
  <2>7. \A c \in CoverDraws(way, PublicRouteKeys, real) :
          c \in Seq(UsedKeys) /\ (way.covers = 0 => c = <<>>)
    <3> TAKE c \in CoverDraws(way, PublicRouteKeys, real)
    <3>1. CASE wanted = 0
      <4>1. c = <<>> /\ <<>> \in Seq(UsedKeys)
        BY <2>6, <3>1
      <4> QED BY <4>1
    <3>2. CASE wanted # 0
      <4>1. c \in [1..n -> available]
        BY <2>6, <3>2
      <4>2. c \in [1..n -> UsedKeys]
        BY <2>4, <4>1
      <4>3. c \in Seq(UsedKeys)
        BY <2>5, <4>2
      <4> QED BY <2>3, <3>2, <4>3
    <3> QED BY <3>1, <3>2
  <2> QED BY <2>1, <2>2, <2>7 DEF plan
<1> QED BY <1>1, <1>2

\* A lookup that is cut off had more to return than it may.
LEMMA RankedFacts ==
  ASSUME NEW T, IsFiniteSet(T), NEW max \in Nat \ {0},
         \A e \in T : e.hits \in Nat /\ e.ref.mk \in Nat
  PROVE  /\ Ranked(T, max).refs \subseteq {e.ref : e \in T}
         /\ Ranked(T, max).complete => Ranked(T, max).refs = {e.ref : e \in T}
         /\ ~Ranked(T, max).complete => Cardinality(T) > max
<1> DEFINE Before(a, b) == a.hits > b.hits \/ (a.hits = b.hits /\ a.ref.mk < b.ref.mk)
           Ahead(t) == {u \in T : Before(u, t)}
           returned == {t \in T : max = 0 \/ Cardinality(Ahead(t)) < max}
<1>1. Ranked(T, max) = LookupResult(returned, T)
  BY DEF Ranked
<1>2. \A t \in T : t \notin Ahead(t) /\ Ahead(t) \subseteq T
  OBVIOUS
<1> HIDE DEF Ahead
<1>3. returned \subseteq T
  OBVIOUS
<1>4. ASSUME returned # T PROVE Cardinality(T) > max
  <2>1. PICK t \in T : ~(Cardinality(Ahead(t)) < max)
    BY <1>4
  <2> DEFINE P == Ahead(t)
             R == T \ {t}
  <2>2. IsFiniteSet(R) /\ Cardinality(R) = Cardinality(T) - 1
    BY <2>1, FS_RemoveElement
  <2>3. P \in SUBSET R
    BY <1>2
  <2> HIDE DEF P, R
  <2>4. Cardinality(P) <= Cardinality(R) /\ IsFiniteSet(P)
    BY <2>2, <2>3, FS_Subset
  <2>5. Cardinality(P) \in Nat /\ Cardinality(T) \in Nat
    BY <2>4, FS_CardinalityType
  <2> QED BY <2>1, <2>2, <2>4, <2>5 DEF P
<1> HIDE DEF returned
<1>5. /\ Ranked(T, max).refs = {t.ref : t \in returned}
      /\ Ranked(T, max).complete = (returned = T)
  BY <1>1 DEF LookupResult
<1> QED BY <1>3, <1>4, <1>5

\* The keys in use that hold a manifest for a request, and what a query finds
\* in enough of its buckets.
Holding(request, mk) ==
  {k \in UsedKeys : \E r \in Bucket(buckets, k) :
     Passes(r, <<request.short>>, request.ns) /\ r.mk = mk}
Matched(keys, request, matches) == {e \in Tally(Seen(keys, request)) : e.hits >= matches}

\* The manifests of a query's keys are counted by the keys that hold them.
LEMMA MatchedIs ==
  ASSUME AddedInv, buckets \in Tables, NEW n \in Nat, NEW keys \in [1..n -> UsedKeys],
         NEW request, NEW matches \in Nat \ {0}
  PROVE  /\ \A mk : Cardinality(Places(keys, n, Holding(request, mk))) >= matches
                      => \E e \in Matched(keys, request, matches) : e.ref.mk = mk
         /\ \A e \in Matched(keys, request, matches) :
              /\ Cardinality(Places(keys, n, Holding(request, e.ref.mk))) >= matches
              /\ e.hits \in Nat
              /\ \E a \in added, i \in 1..n : e.ref = Ref(a.item) /\ e.ref.ns = keys[i].ns
         /\ \A e, f \in Matched(keys, request, matches) : e.ref.mk = f.ref.mk => e = f
<1> DEFINE seq == Seen(keys, request)
<1>1. DOMAIN seq = 1..n /\ \A i \in 1..n : seq[i] \subseteq Bucket(buckets, keys[i])
  BY DEF Seen, Filtered, BucketsOf
<1>2. ASSUME NEW mk PROVE Where(seq, mk) = Places(keys, n, Holding(request, mk))
  <2>1. Range(keys) \cup UsedKeys = UsedKeys
    BY DEF Range
  <2>2. DOMAIN keys = 1..n
    OBVIOUS
  <2> QED BY <2>1, <2>2, WhereIs DEF Holding
<1>3. Tally(seq) = {TallyOf(seq, mk) : mk \in Counted(seq)}
  BY TallyIs
<1> HIDE DEF seq
<1>4. ASSUME NEW mk \in Counted(seq)
      PROVE  /\ TallyOf(seq, mk).ref.mk = mk
             /\ TallyOf(seq, mk).hits = Cardinality(Where(seq, mk))
             /\ TallyOf(seq, mk).hits \in Nat
             /\ \E i \in 1..n : TallyOf(seq, mk).ref \in Bucket(buckets, keys[i])
  <2>1. TallyOf(seq, mk).hits = Cardinality(Where(seq, mk))
    BY DEF TallyOf
  <2>2. /\ Where(seq, mk) \subseteq 1..n /\ Min(Where(seq, mk)) \in Where(seq, mk)
        /\ TallyOf(seq, mk).ref \in seq[Min(Where(seq, mk))]
        /\ TallyOf(seq, mk).ref.mk = mk /\ TallyOf(seq, mk).hits \in Nat
    BY <1>1, <1>4, TallyFacts
  <2> QED BY <1>1, <2>1, <2>2
<1>5. ASSUME NEW mk, Cardinality(Where(seq, mk)) >= matches PROVE mk \in Counted(seq)
  <2> DEFINE W == Where(seq, mk)
  <2>1. W # {}
    <3>1. Cardinality(W) >= matches
      BY <1>5
    <3>2. W = {} => Cardinality(W) = 0
      BY FS_EmptySet
    <3> HIDE DEF W
    <3> QED BY <3>1, <3>2
  <2> QED BY <2>1 DEF Where, Counted, Range
<1>6. \A mk : Cardinality(Where(seq, mk)) >= matches => \E e \in Tally(seq) : e.ref.mk = mk /\ e.hits >= matches
  BY <1>3, <1>4, <1>5
<1>7. ASSUME NEW e \in Tally(seq)
      PROVE  /\ e.ref.mk \in Counted(seq) /\ e = TallyOf(seq, e.ref.mk)
             /\ e.hits = Cardinality(Where(seq, e.ref.mk)) /\ e.hits \in Nat
             /\ \E a \in added, i \in 1..n : e.ref = Ref(a.item) /\ e.ref.ns = keys[i].ns
  <2>1. PICK mk \in Counted(seq) : e = TallyOf(seq, mk)
    BY <1>3
  <2>2. PICK i \in 1..n : e.ref \in Bucket(buckets, keys[i])
    BY <1>4, <2>1
  <2>3. keys[i] \in UsedKeys
    OBVIOUS
  <2>4. \E a \in added : e.ref = Ref(a.item)
    BY <2>2, <2>3 DEF AddedInv
  <2>5. e.ref.ns = keys[i].ns
    BY <2>2, <2>3, BucketFacts DEF BucketOK
  <2> QED BY <1>4, <2>1, <2>4, <2>5
<1>8. Matched(keys, request, matches) = {e \in Tally(seq) : e.hits >= matches}
  BY DEF Matched, seq
<1>9. \A e, f \in Tally(seq) : e.ref.mk = f.ref.mk => e = f
  BY <1>7
<1>10. ASSUME NEW e \in Matched(keys, request, matches)
       PROVE  /\ Cardinality(Places(keys, n, Holding(request, e.ref.mk))) >= matches
              /\ e.hits \in Nat
              /\ \E a \in added, i \in 1..n : e.ref = Ref(a.item) /\ e.ref.ns = keys[i].ns
  BY <1>2, <1>7, <1>8
<1>11. ASSUME NEW mk, Cardinality(Places(keys, n, Holding(request, mk))) >= matches
       PROVE  \E e \in Matched(keys, request, matches) : e.ref.mk = mk
  BY <1>2, <1>6, <1>8, <1>11
<1> QED BY <1>8, <1>9, <1>10, <1>11

\* The manifests that were added are finitely many.
AddedManifests == {a.item.mk : a \in added}
LEMMA AddedManifestsFinite == ASSUME AddedInv PROVE IsFiniteSet(AddedManifests)
<1> DEFINE f == [a \in added |-> a.item.mk]
<1>1. f \in Surjection(added, AddedManifests)
  BY DEF Surjection, AddedManifests
<1>2. IsFiniteSet(added)
  BY DEF AddedInv
<1> HIDE DEF f
<1> QED BY <1>1, <1>2, FS_Surjection

\* A lookup finds what is owed, by the reference that came first, and nothing
\* else if there are no covers.
LEMMA LookupMatches ==
  ASSUME PathsApart, AddedInv, buckets \in Tables, roots[cached] = Entries(buckets),
         NEW way \in Ways, NEW request \in Requests,
         NEW keys \in Asked(way, request).queries
  PROVE  LET found == Matched(keys, request, way.matches)
             owed == Owed(request, Asked(way, request).precision, way.matches)
         IN  /\ \E n \in Nat : keys \in [1..n -> UsedKeys]
             /\ \A mk \in owed : \E e \in found : e.ref.mk = mk
             /\ way.covers = 0 => \A e \in found : e.ref.mk \in owed
             /\ \A e \in found :
                  /\ e.hits \in Nat
                  /\ \E a \in added : /\ e.ref = Ref(a.item)
                                      /\ way.covers = 0 => a.item.ns = request.ns
             /\ \A e, f \in found : e.ref.mk = f.ref.mk => e = f
<1> DEFINE p == Asked(way, request).precision
           real == RealKeys(request, p)
           n == Len(real)
           matches == way.matches
           owed == Owed(request, p, matches)
           found == Matched(keys, request, matches)
<1>1. p \in UsedPrecisions
  BY AskedQueries
<1>2. PICK c \in Seq(UsedKeys) : keys \in Shuffles(real \o c) /\ (way.covers = 0 => c = <<>>)
  BY AskedQueries
<1> DEFINE m == Len(c)
<1>3. real \in Seq(UsedKeys)
  BY <1>1, RequestKeys DEF RealKeys
<1>4. matches \in Nat \ {0}
  BY WayFacts DEF NoPolicy, LegalPolicy
<1> HIDE DEF p
<1>5. \A mk : mk \in owed <=> Cardinality(Where(Seen(real, request), mk)) >= matches
  <2> HIDE DEF matches
  <2> QED BY <1>1, <1>4, OwedIs
<1> HIDE DEF real, matches, owed
<1>6. n \in Nat /\ m \in Nat /\ real \in [1..n -> UsedKeys] /\ DOMAIN real = 1..n
  BY <1>2, <1>3
<1>7. /\ keys \in [1..(n + m) -> UsedKeys]
      /\ \A S : /\ Cardinality(Places(real, n, S)) \in Nat
                /\ Cardinality(Places(keys, n + m, S)) \in Nat
                /\ Cardinality(Places(real, n, S)) <= Cardinality(Places(keys, n + m, S))
                /\ m = 0 => Cardinality(Places(keys, n + m, S)) = Cardinality(Places(real, n, S))
  <2>1. Len(real) = n /\ Len(c) = m
    OBVIOUS
  <2> HIDE DEF n, m
  <2> QED BY <1>2, <1>3, <1>6, <2>1, CoverCount
<1>8. way.covers = 0 => m = 0
  BY <1>2
<1> HIDE DEF n, m
<1>9. \A mk : Where(Seen(real, request), mk) = Places(real, n, Holding(request, mk))
  <2>1. Range(real) \cup UsedKeys = UsedKeys
    BY <1>6 DEF Range
  <2> QED BY <1>6, <2>1, WhereIs DEF Holding
<1> DEFINE N == n + m
<1>10. N \in Nat /\ keys \in [1..N -> UsedKeys]
  BY <1>6, <1>7
<1> HIDE DEF N
<1>11. /\ \A mk : Cardinality(Places(keys, N, Holding(request, mk))) >= matches
                    => \E e \in found : e.ref.mk = mk
       /\ \A e \in found :
            /\ Cardinality(Places(keys, N, Holding(request, e.ref.mk))) >= matches
            /\ e.hits \in Nat
            /\ \E a \in added, i \in 1..N : e.ref = Ref(a.item) /\ e.ref.ns = keys[i].ns
       /\ \A e, f \in found : e.ref.mk = f.ref.mk => e = f
  BY <1>4, <1>10, MatchedIs
<1> HIDE DEF found
<1>12. ASSUME NEW mk \in owed PROVE \E e \in found : e.ref.mk = mk
  <2> DEFINE S == Holding(request, mk)
  <2>1. Cardinality(Places(real, n, S)) >= matches
    BY <1>5, <1>9
  <2>2. /\ Cardinality(Places(real, n, S)) <= Cardinality(Places(keys, N, S))
        /\ Cardinality(Places(real, n, S)) \in Nat /\ Cardinality(Places(keys, N, S)) \in Nat
    BY <1>7 DEF N
  <2>3. Cardinality(Places(keys, N, S)) >= matches
    BY <1>4, <2>1, <2>2
  <2> QED BY <1>11, <2>3
<1>13. ASSUME way.covers = 0, NEW e \in found PROVE e.ref.mk \in owed
  <2> DEFINE S == Holding(request, e.ref.mk)
  <2>1. Cardinality(Places(keys, N, S)) >= matches
    BY <1>11
  <2>2. Cardinality(Places(keys, N, S)) = Cardinality(Places(real, n, S))
    BY <1>7, <1>8, <1>13 DEF N
  <2>3. Cardinality(Places(real, n, S)) >= matches
    BY <2>1, <2>2
  <2> QED BY <1>5, <1>9, <2>3
<1>14. ASSUME way.covers = 0 PROVE \A i \in 1..N : keys[i].ns = request.ns
  <2>1. PICK l \in Nat : keys \in [1..l -> UsedKeys] /\ \A i \in 1..l : keys[i].ns = request.ns
    BY <1>14, AskedFacts
  <2>2. \A i \in 1..N : i \in 1..l
    <3>1. DOMAIN keys = 1..N
      BY <1>10
    <3>2. DOMAIN keys = 1..l
      BY <2>1
    <3> QED BY <3>1, <3>2
  <2> QED BY <2>1, <2>2
<1>15. ASSUME NEW e \in found
       PROVE  /\ e.hits \in Nat
              /\ \E a \in added : e.ref = Ref(a.item) /\ (way.covers = 0 => a.item.ns = request.ns)
  <2>1. PICK a \in added, i \in 1..N : e.ref = Ref(a.item) /\ e.ref.ns = keys[i].ns
    BY <1>11
  <2>2. e.ref.ns = a.item.ns
    BY <2>1 DEF Ref
  <2> QED BY <1>11, <1>14, <2>1, <2>2
<1> QED BY <1>10, <1>11, <1>12, <1>13, <1>15 DEF p, matches, owed, found

\* A lookup goes over what it finds, which is finite, and without covers no
\* more than what is owed.
LEMMA LookupIs ==
  ASSUME PathsApart, AddedInv, buckets \in Tables, roots[cached] = Entries(buckets),
         NEW way \in Ways, NEW request \in Requests,
         NEW keys \in Asked(way, request).queries, NEW max \in Nat \ {0}
  PROVE  LET found == Matched(keys, request, way.matches)
             owed == Owed(request, Asked(way, request).precision, way.matches)
             lookup == LookupAuthenticated(roots[cached], keys, <<request.short>>, request.ns,
                                           way.matches, max)
         IN  /\ lookup.refs \subseteq {e.ref : e \in found}
             /\ lookup.complete => lookup.refs = {e.ref : e \in found}
             /\ ~lookup.complete /\ way.covers = 0 => Cardinality(owed) > max
<1> DEFINE found == Matched(keys, request, way.matches)
           owed == Owed(request, Asked(way, request).precision, way.matches)
           lookup == LookupAuthenticated(roots[cached], keys, <<request.short>>, request.ns,
                                         way.matches, max)
<1>1. /\ \E n \in Nat : keys \in [1..n -> UsedKeys]
      /\ way.covers = 0 => \A e \in found : e.ref.mk \in owed
      /\ \A e \in found : e.hits \in Nat /\ \E a \in added : e.ref = Ref(a.item)
      /\ \A e, f \in found : e.ref.mk = f.ref.mk => e = f
  BY LookupMatches
<1>2. lookup = Ranked(found, max)
  <2>1. PICK n \in Nat : keys \in [1..n -> UsedKeys]
    BY <1>1
  <2> QED BY <2>1, AuthenticatedIs DEF Matched, Seen
<1>3. owed \subseteq AddedManifests
  BY DEF Owed, AddedManifests
<1> HIDE DEF found, owed, lookup
<1>4. \A e \in found : e.hits \in Nat /\ e.ref.mk \in Nat /\ e.ref.mk \in AddedManifests
  <2> TAKE e \in found
  <2>1. PICK a \in added : e.ref = Ref(a.item)
    BY <1>1
  <2>2. e.ref.mk = a.item.mk /\ a.item.mk \in Nat
    BY <2>1, AddedFacts DEF Ref
  <2> QED BY <1>1, <2>2 DEF AddedManifests
<1> DEFINE f == [e \in found |-> e.ref.mk]
<1>5. /\ f \in [found -> AddedManifests] /\ (way.covers = 0 => f \in [found -> owed])
      /\ \A e, g \in found : f[e] = f[g] => e = g
  BY <1>1, <1>4
<1> HIDE DEF f
<1>6. IsFiniteSet(AddedManifests) /\ IsFiniteSet(owed)
  BY <1>3, AddedManifestsFinite, FS_Subset
<1>7. IsFiniteSet(found)
  <2>1. f \in Injection(found, AddedManifests)
    BY <1>5 DEF Injection, IsInjective
  <2> QED BY <1>6, <2>1, FS_Injection
<1>8. way.covers = 0 => Cardinality(found) <= Cardinality(owed)
  <2> SUFFICES ASSUME way.covers = 0 PROVE Cardinality(found) <= Cardinality(owed)
    OBVIOUS
  <2>1. f \in Injection(found, owed)
    BY <1>5 DEF Injection, IsInjective
  <2> QED BY <1>6, <2>1, FS_Injection
<1>9. Cardinality(found) \in Nat /\ Cardinality(owed) \in Nat
  BY <1>6, <1>7, FS_CardinalityType
<1>10. /\ Ranked(found, max).refs \subseteq {e.ref : e \in found}
       /\ Ranked(found, max).complete => Ranked(found, max).refs = {e.ref : e \in found}
       /\ ~Ranked(found, max).complete => Cardinality(found) > max
  BY <1>4, <1>7, RankedFacts
<1>11. ~lookup.complete /\ way.covers = 0 => Cardinality(owed) > max
  BY <1>2, <1>8, <1>9, <1>10
<1> QED BY <1>2, <1>10, <1>11 DEF found, owed, lookup

\* Whatever is indexed, in any order and for any policies, and with whatever
\* policy it is asked for: FOUND carries all that is owed and sure to be
\* fetched, NOT_FOUND says there is nothing, unless the lookup was cut off, and
\* without covers nothing is answered that is not owed.
THEOREM AlwaysAnswerIsExact ==
  ASSUME PathsApart
  PROVE  Spec => []AnswerIsExact
<1>1. ASSUME IInv, buckets \in Tables, AddedInv PROVE AnswerIsExact
  <2>1. ASSUME cached # 0, NEW way \in Ways, NEW request \in Requests,
               NEW keys \in Asked(way, request).queries, NEW max \in Limits
        PROVE  LET owed == Owed(request, Asked(way, request).precision, way.matches)
                   sure == Sure(way, request, owed)
                   lookup == LookupAuthenticated(roots[cached], keys, <<request.short>>, request.ns,
                                                 way.matches, MaxLookup(max))
                   answer == ResolveAuthenticated(roots[cached], keys, request, way.matches, max, <<>>)
               IN  /\ answer.status = "found" => sure \subseteq answer.candidates
                   /\ answer.status = "not_found" =>
                        \/ sure = {}
                        \/ /\ ~lookup.complete
                           /\ way.covers = 0 => Cardinality(owed) > MaxLookup(max)
                   /\ way.covers = 0 => answer.candidates \subseteq Possible(request, owed)
    <3> DEFINE found == Matched(keys, request, way.matches)
               owed == Owed(request, Asked(way, request).precision, way.matches)
               sure == Sure(way, request, owed)
               possible == Possible(request, owed)
               lookup == LookupAuthenticated(roots[cached], keys, <<request.short>>, request.ns,
                                             way.matches, MaxLookup(max))
               answer == ResolveAuthenticated(roots[cached], keys, request, way.matches, max, <<>>)
               candidates == answer.candidates
               fetched(e) == e.ref.inline \/ e.ref.mk \in Stored
    <3>1. roots[cached] = Entries(buckets) /\ MaxLookup(max) \in Nat \ {0}
      BY <1>1, <2>1, TreeIsOfBuckets DEF Limits, MaxLookup
    <3>2. /\ lookup.refs \subseteq {e.ref : e \in found}
          /\ lookup.complete => lookup.refs = {e.ref : e \in found}
          /\ ~lookup.complete /\ way.covers = 0 => Cardinality(owed) > MaxLookup(max)
      BY <1>1, <3>1, LookupIs
    <3>3. /\ \A mk \in owed : \E e \in found : e.ref.mk = mk
          /\ way.covers = 0 => \A e \in found : e.ref.mk \in owed
          /\ \A e \in found : \E a \in added : /\ e.ref = Ref(a.item)
                                               /\ way.covers = 0 => a.item.ns = request.ns
      BY <1>1, <3>1, LookupMatches
    <3>4. answer = Answer(lookup, max)
      BY DEF ResolveAuthenticated
    <3>5. /\ sure = {mk \in owed : \A a \in added :
               a.item.mk = mk /\ (a.item.ns = request.ns \/ way.covers > 0) => Fetchable(a)}
          /\ possible = {mk \in owed : \E a \in added :
               a.item.mk = mk /\ a.item.ns = request.ns /\ Fetchable(a)}
      BY DEF Sure, Possible
    <3>6. way.covers \in Nat
      BY WayFacts DEF NoPolicy, LegalPolicy
    <3> HIDE DEF found, owed, sure, possible, lookup, answer
    <3>7. /\ candidates = {r.mk : r \in {q \in lookup.refs : q.inline \/ q.mk \in Stored}}
          /\ answer.status = "found" => lookup.complete
          /\ answer.status = "not_found" => candidates = {}
      BY <3>4 DEF Answer, Fetched
    <3>8. \A e \in found : \E a \in added : /\ e.ref.mk = a.item.mk /\ (fetched(e) <=> Fetchable(a))
                                            /\ way.covers = 0 => a.item.ns = request.ns
      <4> TAKE e \in found
      <4>1. PICK a \in added : e.ref = Ref(a.item) /\ (way.covers = 0 => a.item.ns = request.ns)
        BY <3>3
      <4>2. e.ref.mk = a.item.mk /\ e.ref.inline = a.item.inline
        BY <4>1 DEF Ref
      <4>3. fetched(e) <=> Fetchable(a)
        BY <4>2, Zenon DEF Fetchable
      <4> QED BY <4>1, <4>2, <4>3
    <3>9. \A mk \in sure : \E e \in found : e.ref.mk = mk /\ fetched(e)
      BY <3>3, <3>5, <3>6, <3>8
    <3> HIDE DEF candidates
    <3>10. lookup.complete => sure \subseteq candidates
      BY <3>2, <3>7, <3>9
    <3>11. way.covers = 0 => candidates \subseteq possible
      <4> SUFFICES ASSUME way.covers = 0, NEW mk \in candidates PROVE mk \in possible
        OBVIOUS
      <4>1. PICK e \in found : e.ref.mk = mk /\ fetched(e)
        BY <3>2, <3>7
      <4>2. PICK a \in added : a.item.mk = mk /\ Fetchable(a) /\ a.item.ns = request.ns
        BY <3>8, <4>1
      <4>3. mk \in owed
        BY <3>3, <4>1
      <4> QED BY <3>5, <4>2, <4>3
    <3>12. answer.status = "not_found" =>
             \/ sure = {}
             \/ ~lookup.complete /\ (way.covers = 0 => Cardinality(owed) > MaxLookup(max))
      BY <3>2, <3>7, <3>10
    <3> QED BY <3>7, <3>10, <3>11, <3>12 DEF owed, sure, possible, lookup, answer, candidates
  <2> QED BY <2>1, Zenon DEF AnswerIsExact
<1> QED BY <1>1, Invariance, BucketsInvariance, AddedInvariance, PTL
=============================================================================
