--------------------- MODULE ProvenanceVerifier_proofs ---------------------
(***************************************************************************)
(* What a verdict of ProvenanceVerifier is worth, for every set of         *)
(* manifests, keys, sources, limits and index rows.  The model computes    *)
(* with folds over sequences; the first part unrolls them.                 *)
(***************************************************************************)
EXTENDS ProvenanceVerifier, WellFoundedInduction, FiniteSetTheorems, TLAPS

(***************************************************************************)
(* Induction up to a number, with a set for the predicate.                 *)
(***************************************************************************)
Below == {ss \in Nat \X Nat : ss[1] < ss[2]}

\* The order of the naturals is well-founded.
LEMMA BelowWellFounded == IsWellFoundedOn(Below, Nat)
  BY NatLessThanWellFounded, Zenon DEF OpToRel, Below

\* A non-empty set of naturals has a least element.
LEMMA LeastElement ==
  ASSUME NEW T, T \subseteq Nat, T # {}
  PROVE  \E n \in T : \A m \in T : n <= m
<1>1. PICK n \in T : \A m \in T : ~(<<m, n>> \in Below)
  BY WFMin, BelowWellFounded
<1>2. \A m \in T : ~(m < n)
  BY <1>1 DEF Below
<1> QED BY <1>2

\* What holds of 0, and of each number up to n when it holds of the one
\* before, holds up to n.
LEMMA UpTo ==
  ASSUME NEW n \in Nat, NEW S, 0 \in S, \A i \in 1..n : i - 1 \in S => i \in S
  PROVE  \A i \in 0..n : i \in S
<1> DEFINE T == {i \in 0..n : i \notin S}
<1>1. SUFFICES ASSUME T # {} PROVE FALSE
  OBVIOUS
<1>2. PICK i \in T : \A j \in T : i <= j
  <2>1. T \subseteq Nat /\ T # {}
    BY <1>1
  <2> HIDE DEF T
  <2> QED BY <2>1, LeastElement
<1>3. \A j \in T : ~(j < i)
  BY <1>2
<1>4. i \in 1..n /\ i - 1 \in 0..n /\ i - 1 < i
  BY <1>2
<1>5. i - 1 \in S
  BY <1>3, <1>4
<1> QED BY <1>2, <1>4, <1>5

(***************************************************************************)
(* The recursion behind FoldLeft: over the subsets of the domain, each one *)
(* without its last element.                                               *)
(***************************************************************************)
Iterates(g, V, b, F, m) ==
  /\ g \in [SUBSET (1..m) -> V]
  /\ \A s \in SUBSET (1..m) :
       g[s] = IF s = {} THEN b ELSE F[<<g[s \ {Max(s)}], Max(s)>>]

\* The maximum of a set that holds its bound.
LEMMA MaxIsLast ==
  ASSUME NEW m \in Nat, NEW s \in SUBSET (1..m), m \in s
  PROVE  Max(s) = m
<1>1. \A y \in s : m >= y /\ y \in Nat
  OBVIOUS
<1>2. \E x \in s : \A y \in s : x >= y
  BY <1>1
<1>3. Max(s) \in s /\ \A y \in s : Max(s) >= y
  BY <1>2 DEF Max
<1>4. Max(s) >= m /\ m >= Max(s) /\ Max(s) \in Nat
  BY <1>1, <1>3
<1> HIDE DEF Max
<1> QED BY <1>4

\* Such a recursion has a solution.
LEMMA Iteration ==
  ASSUME NEW V, NEW b \in V, NEW n \in Nat, NEW F \in [V \X (1..n) -> V]
  PROVE  \E g : Iterates(g, V, b, F, n)
<1> DEFINE T == {m \in 0..n : \E g : Iterates(g, V, b, F, m)}
<1>1. 0 \in T
  <2> DEFINE g == [s \in SUBSET (1..0) |-> b]
  <2>1. \A s \in SUBSET (1..0) : s = {}
    OBVIOUS
  <2>2. Iterates(g, V, b, F, 0)
    BY <2>1 DEF Iterates
  <2> QED BY <2>2
<1>2. ASSUME NEW k \in 1..n, k - 1 \in T PROVE k \in T
  <2>1. PICK f : Iterates(f, V, b, F, k - 1)
    BY <1>2
  <2> DEFINE g == [s \in SUBSET (1..k) |->
                     IF s \subseteq 1..(k - 1) THEN f[s] ELSE F[<<f[s \ {k}], k>>]]
  <2>2. \A s \in SUBSET (1..k) :
          \/ s \subseteq 1..(k - 1)
          \/ k \in s /\ s # {} /\ s \ {k} \in SUBSET (1..(k - 1)) /\ Max(s) = k
    BY MaxIsLast
  <2>3. g \in [SUBSET (1..k) -> V]
    BY <2>1, <2>2 DEF Iterates
  <2>4. ASSUME NEW s \in SUBSET (1..k)
        PROVE  g[s] = IF s = {} THEN b ELSE F[<<g[s \ {Max(s)}], Max(s)>>]
    <3>1. CASE s \subseteq 1..(k - 1)
      <4>1. g[s] = f[s] /\ s \in SUBSET (1..(k - 1))
        BY <3>1
      <4>2. s \ {Max(s)} \in SUBSET (1..(k - 1)) /\ s \ {Max(s)} \in SUBSET (1..k)
        BY <3>1
      <4>3. g[s \ {Max(s)}] = f[s \ {Max(s)}]
        BY <4>2
      <4> QED BY <2>1, <4>1, <4>3 DEF Iterates
    <3>2. CASE k \in s /\ s # {} /\ s \ {k} \in SUBSET (1..(k - 1)) /\ Max(s) = k
      <4>1. s \ {k} \in SUBSET (1..k) /\ ~(s \subseteq 1..(k - 1))
        BY <3>2
      <4>2. g[s \ {k}] = f[s \ {k}]
        BY <3>2, <4>1
      <4>3. g[s] = F[<<f[s \ {k}], k>>]
        BY <4>1
      <4> QED BY <3>2, <4>2, <4>3
    <3> QED BY <2>2, <3>1, <3>2
  <2> HIDE DEF g
  <2>5. Iterates(g, V, b, F, k)
    BY <2>3, <2>4 DEF Iterates
  <2> QED BY <2>5
<1>3. n \in T
  <2> HIDE DEF T
  <2>1. \A i \in 0..n : i \in T
    BY <1>1, <1>2, UpTo
  <2> QED BY <2>1
<1> QED BY <1>3

\* The prefixes of a domain, without their last elements.
LEMMA PrefixSets ==
  ASSUME NEW n \in Nat, NEW i \in 1..n
  PROVE  /\ 1..i \in SUBSET (1..n) /\ 1..i # {} /\ Max(1..i) = i
         /\ (1..i) \ {i} = 1..(i - 1)
<1>1. Max(1..i) = i
  BY MaxIsLast
<1> QED BY <1>1

\* A bounded non-empty set has a maximum.
LEMMA MaxOf ==
  ASSUME NEW n \in Nat, NEW s \in SUBSET (1..n), s # {}
  PROVE  Max(s) \in s
<1> DEFINE T == {m \in 0..n : \A t \in SUBSET (1..m) :
                                t # {} => \E x \in t : \A y \in t : x >= y}
<1>1. 0 \in T
  <2>1. \A t \in SUBSET (1..0) : t = {}
    OBVIOUS
  <2>2. \A t \in SUBSET (1..0) : t # {} => \E x \in t : \A y \in t : x >= y
    BY <2>1
  <2> QED BY <2>2
<1>2. ASSUME NEW m \in 1..n, m - 1 \in T PROVE m \in T
  <2> SUFFICES ASSUME NEW t \in SUBSET (1..m), t # {}
               PROVE  \E x \in t : \A y \in t : x >= y
    OBVIOUS
  <2>1. CASE m \in t
    BY <2>1
  <2>2. CASE m \notin t
    <3>1. t \in SUBSET (1..(m - 1))
      BY <2>2
    <3> QED BY <1>2, <3>1
  <2> QED BY <2>1, <2>2
<1>3. n \in T
  <2> HIDE DEF T
  <2>1. \A i \in 0..n : i \in T
    BY <1>1, <1>2, UpTo
  <2> QED BY <2>1
<1>4. \E x \in s : \A y \in s : x >= y
  BY <1>3
<1> QED BY <1>4 DEF Max
(***************************************************************************)
(* The folds of the model, run forwards.                                   *)
(***************************************************************************)
\* No element twice.
Distinct(seq) == \A i, j \in DOMAIN seq : seq[i] = seq[j] => i = j

\* A candidate is added once.
LEMMA AddNewFacts ==
  ASSUME NEW M, NEW s \in Seq(M), NEW m \in M
  PROVE  /\ AddNew(s, m) \in Seq(M)
         /\ ToSet(AddNew(s, m)) = ToSet(s) \cup {m}
         /\ Len(AddNew(s, m)) <= Len(s) + 1
         /\ Distinct(s) => Distinct(AddNew(s, m))
         /\ m \in ToSet(s) => AddNew(s, m) = s
<1>1. CASE Contains(s, m)
  BY <1>1 DEF AddNew, Contains, ToSet
<1>2. CASE ~Contains(s, m)
  <2>1. AddNew(s, m) = Append(s, m) /\ m \notin ToSet(s)
    BY <1>2 DEF AddNew, Contains, ToSet
  <2>2. /\ Append(s, m) \in Seq(M) /\ Len(Append(s, m)) = Len(s) + 1
        /\ \A i \in 1..Len(s) : Append(s, m)[i] = s[i]
        /\ Append(s, m)[Len(s) + 1] = m
    OBVIOUS
  <2>3. ToSet(Append(s, m)) = ToSet(s) \cup {m}
    BY <2>2 DEF ToSet
  <2>4. Distinct(s) => Distinct(Append(s, m))
    BY <2>1, <2>2 DEF Distinct, ToSet
  <2> QED BY <2>1, <2>2, <2>3, <2>4
<1> QED BY <1>1, <1>2

\* Adding one candidate after another, keeping one element after another, and
\* registering one key record after another.
AddRun(h, b, seq) ==
  /\ h[0] = b /\ h[Len(seq)] = AddAllNew(b, seq)
  /\ \A i \in 1..Len(seq) : h[i] = AddNew(h[i - 1], seq[i])

KeepRun(h, seq, S) ==
  /\ h[0] = <<>> /\ h[Len(seq)] = KeepIf(seq, S)
  /\ \A i \in 1..Len(seq) :
       h[i] = IF seq[i] \in S THEN Append(h[i - 1], seq[i]) ELSE h[i - 1]

RegistryRun(h) ==
  /\ h[0] = {} /\ h[Len(OfferedKeys)] = KeyRegistry
  /\ \A i \in 1..Len(OfferedKeys) : h[i] = AddPublicKey(h[i - 1], OfferedKeys[i])

\* A fold of AddNew goes through one list after another.
LEMMA AddNewRun ==
  ASSUME NEW M, NEW b \in Seq(M), NEW seq \in Seq(M)
  PROVE  \E h : AddRun(h, b, seq)
<1> DEFINE n == Len(seq)
           V == Seq(M)
<1>0. /\ n \in Nat /\ DOMAIN seq = 1..n /\ b \in V
      /\ \A v \in V, i \in 1..n : AddNew(v, seq[i]) \in V
  <2>1. n \in Nat /\ DOMAIN seq = 1..n /\ \A i \in 1..n : seq[i] \in M
    OBVIOUS
  <2> HIDE DEF n
  <2> QED BY <2>1, AddNewFacts
<1> HIDE DEF n, V
<1> DEFINE D == DOMAIN seq
           Eq(g) == g = [s \in SUBSET D |->
                           IF s = {} THEN b ELSE AddNew(g[s \ {Max(s)}], seq[Max(s)])]
           it == CHOOSE g : Eq(g)
           F == [p \in V \X (1..n) |-> AddNew(p[1], seq[p[2]])]
<1>1. AddAllNew(b, seq) = it[D]
  BY DEF AddAllNew, FoldLeft, MapThenFoldSet
<1>2. \E g : Eq(g)
  <2>1. F \in [V \X (1..n) -> V]
    BY <1>0
  <2>2. PICK g : Iterates(g, V, b, F, n)
    <3> HIDE DEF F
    <3> QED BY <1>0, <2>1, Iteration
  <2>3. \A s \in SUBSET (1..n) : s # {} => /\ Max(s) \in 1..n
                                           /\ s \ {Max(s)} \in SUBSET (1..n)
    BY <1>0, MaxOf
  <2>4. \A s \in SUBSET (1..n) : s # {} =>
          F[<<g[s \ {Max(s)}], Max(s)>>] = AddNew(g[s \ {Max(s)}], seq[Max(s)])
    BY <1>0, <2>2, <2>3 DEF Iterates
  <2> HIDE DEF F
  <2>5. g = [s \in SUBSET (1..n) |->
               IF s = {} THEN b ELSE AddNew(g[s \ {Max(s)}], seq[Max(s)])]
    BY <1>0, <2>2, <2>4 DEF Iterates
  <2> QED BY <1>0, <2>5
<1>3. Eq(it)
  <2> HIDE DEF Eq
  <2> QED BY <1>2
<1> DEFINE h == [i \in 0..n |-> it[1..i]]
<1> HIDE DEF it
<1>4. h[0] = b
  <2>1. 1..0 = {} /\ {} \in SUBSET D
    BY <1>0
  <2> QED BY <1>0, <1>3, <2>1
<1>5. ASSUME NEW i \in 1..n PROVE h[i] = AddNew(h[i - 1], seq[i])
  <2>1. h[i] = it[1..i] /\ h[i - 1] = it[1..(i - 1)]
    BY <1>0
  <2>2. /\ 1..i \in SUBSET D /\ 1..i # {}
        /\ Max(1..i) = i /\ (1..i) \ {i} = 1..(i - 1)
    BY <1>0, PrefixSets
  <2>3. it[1..i] = AddNew(it[(1..i) \ {Max(1..i)}], seq[Max(1..i)])
    <3> HIDE DEF D
    <3> QED BY <1>3, <2>2
  <2>4. it[1..i] = AddNew(it[1..(i - 1)], seq[i])
    BY <2>2, <2>3
  <2> QED BY <2>1, <2>4
<1>6. h[n] = AddAllNew(b, seq)
  BY <1>0, <1>1
<1> HIDE DEF h
<1> QED BY <1>4, <1>5, <1>6 DEF n, AddRun

\* KeepIf goes through the sequence and keeps what is in the set.
LEMMA KeepIfRun ==
  ASSUME NEW M, NEW seq \in Seq(M), NEW S
  PROVE  \E h : KeepRun(h, seq, S)
<1> DEFINE n == Len(seq)
           V == Seq(M)
<1>0. /\ n \in Nat /\ DOMAIN seq = 1..n /\ <<>> \in V
      /\ \A v \in V, i \in 1..n : Append(v, seq[i]) \in V
  OBVIOUS
<1> HIDE DEF n, V
<1> DEFINE Keep(kept, x) == IF x \in S THEN Append(kept, x) ELSE kept
           D == DOMAIN seq
           Eq(g) == g = [s \in SUBSET D |->
                           IF s = {} THEN <<>> ELSE Keep(g[s \ {Max(s)}], seq[Max(s)])]
           it == CHOOSE g : Eq(g)
           F == [p \in V \X (1..n) |-> Keep(p[1], seq[p[2]])]
<1>1. KeepIf(seq, S) = it[D]
  BY DEF KeepIf, FoldLeft, MapThenFoldSet
<1>2. \E g : Eq(g)
  <2>1. F \in [V \X (1..n) -> V]
    BY <1>0
  <2>2. PICK g : Iterates(g, V, <<>>, F, n)
    <3> HIDE DEF F
    <3> QED BY <1>0, <2>1, Iteration
  <2>3. \A s \in SUBSET (1..n) : s # {} => /\ Max(s) \in 1..n
                                           /\ s \ {Max(s)} \in SUBSET (1..n)
    BY <1>0, MaxOf
  <2>4. \A s \in SUBSET (1..n) : s # {} =>
          F[<<g[s \ {Max(s)}], Max(s)>>] = Keep(g[s \ {Max(s)}], seq[Max(s)])
    BY <1>0, <2>2, <2>3 DEF Iterates
  <2> HIDE DEF F
  <2>5. g = [s \in SUBSET (1..n) |->
               IF s = {} THEN <<>> ELSE Keep(g[s \ {Max(s)}], seq[Max(s)])]
    BY <1>0, <2>2, <2>4 DEF Iterates
  <2> QED BY <1>0, <2>5
<1>3. Eq(it)
  <2> HIDE DEF Eq
  <2> QED BY <1>2
<1> DEFINE h == [i \in 0..n |-> it[1..i]]
<1> HIDE DEF it
<1>4. h[0] = <<>>
  <2>1. 1..0 = {} /\ {} \in SUBSET D
    BY <1>0
  <2> QED BY <1>0, <1>3, <2>1
<1>5. ASSUME NEW i \in 1..n PROVE h[i] = Keep(h[i - 1], seq[i])
  <2>1. h[i] = it[1..i] /\ h[i - 1] = it[1..(i - 1)]
    BY <1>0
  <2>2. /\ 1..i \in SUBSET D /\ 1..i # {}
        /\ Max(1..i) = i /\ (1..i) \ {i} = 1..(i - 1)
    BY <1>0, PrefixSets
  <2>3. it[1..i] = Keep(it[(1..i) \ {Max(1..i)}], seq[Max(1..i)])
    <3> HIDE DEF D
    <3> QED BY <1>3, <2>2
  <2>4. it[1..i] = Keep(it[1..(i - 1)], seq[i])
    BY <2>2, <2>3
  <2> QED BY <2>1, <2>4
<1>6. h[n] = KeepIf(seq, S)
  BY <1>0, <1>1
<1> HIDE DEF h
<1> QED BY <1>4, <1>5, <1>6 DEF n, KeepRun

\* The registry takes the records one after another.
LEMMA RegistryRuns == \E h : RegistryRun(h)
<1> DEFINE seq == OfferedKeys
           n == Len(seq)
           V == SUBSET ToSet(seq)
<1>0. /\ n \in Nat /\ DOMAIN seq = 1..n /\ {} \in V
      /\ \A v \in V, i \in 1..n : AddPublicKey(v, seq[i]) \in V
  BY OfferedKeysAssumption DEF AddPublicKey, ToSet
<1> HIDE DEF n, V, seq
<1> DEFINE D == DOMAIN seq
           Eq(g) == g = [s \in SUBSET D |->
                           IF s = {} THEN {} ELSE AddPublicKey(g[s \ {Max(s)}], seq[Max(s)])]
           it == CHOOSE g : Eq(g)
           F == [p \in V \X (1..n) |-> AddPublicKey(p[1], seq[p[2]])]
<1>1. KeyRegistry = it[D]
  BY DEF seq, KeyRegistry, FoldLeft, MapThenFoldSet
<1>2. \E g : Eq(g)
  <2>1. F \in [V \X (1..n) -> V]
    BY <1>0
  <2>2. PICK g : Iterates(g, V, {}, F, n)
    <3> HIDE DEF F
    <3> QED BY <1>0, <2>1, Iteration
  <2>3. \A s \in SUBSET (1..n) : s # {} => /\ Max(s) \in 1..n
                                           /\ s \ {Max(s)} \in SUBSET (1..n)
    BY <1>0, MaxOf
  <2>4. \A s \in SUBSET (1..n) : s # {} =>
          F[<<g[s \ {Max(s)}], Max(s)>>] = AddPublicKey(g[s \ {Max(s)}], seq[Max(s)])
    BY <1>0, <2>2, <2>3 DEF Iterates
  <2> HIDE DEF F
  <2>5. g = [s \in SUBSET (1..n) |->
               IF s = {} THEN {} ELSE AddPublicKey(g[s \ {Max(s)}], seq[Max(s)])]
    BY <1>0, <2>2, <2>4 DEF Iterates
  <2> QED BY <1>0, <2>5
<1>3. Eq(it)
  <2> HIDE DEF Eq
  <2> QED BY <1>2
<1> DEFINE h == [i \in 0..n |-> it[1..i]]
<1> HIDE DEF it
<1>4. h[0] = {}
  <2>1. 1..0 = {} /\ {} \in SUBSET D
    BY <1>0
  <2> QED BY <1>0, <1>3, <2>1
<1>5. ASSUME NEW i \in 1..n PROVE h[i] = AddPublicKey(h[i - 1], seq[i])
  <2>1. h[i] = it[1..i] /\ h[i - 1] = it[1..(i - 1)]
    BY <1>0
  <2>2. /\ 1..i \in SUBSET D /\ 1..i # {}
        /\ Max(1..i) = i /\ (1..i) \ {i} = 1..(i - 1)
    BY <1>0, PrefixSets
  <2>3. it[1..i] = AddPublicKey(it[(1..i) \ {Max(1..i)}], seq[Max(1..i)])
    <3> HIDE DEF D
    <3> QED BY <1>3, <2>2
  <2>4. it[1..i] = AddPublicKey(it[1..(i - 1)], seq[i])
    BY <2>2, <2>3
  <2> QED BY <2>1, <2>4
<1>6. h[n] = KeyRegistry
  BY <1>0, <1>1
<1> HIDE DEF h
<1> QED BY <1>4, <1>5, <1>6 DEF n, seq, RegistryRun

(***************************************************************************)
(* What the folds return.                                                  *)
(***************************************************************************)
\* Candidates of one list after those of another.
LEMMA MergedFacts ==
  ASSUME NEW M, NEW b \in Seq(M), NEW seq \in Seq(M)
  PROVE  /\ AddAllNew(b, seq) \in Seq(M)
         /\ ToSet(AddAllNew(b, seq)) = ToSet(b) \cup ToSet(seq)
         /\ Distinct(b) => Distinct(AddAllNew(b, seq))
<1> DEFINE n == Len(seq)
<1>0. n \in Nat /\ DOMAIN seq = 1..n /\ \A i \in 1..n : seq[i] \in M
  OBVIOUS
<1> HIDE DEF n
<1>2. PICK h : /\ h[0] = b /\ h[n] = AddAllNew(b, seq)
               /\ \A i \in 1..n : h[i] = AddNew(h[i - 1], seq[i])
  <2>1. PICK h : AddRun(h, b, seq)
    BY AddNewRun
  <2> QED BY <2>1 DEF AddRun, n
<1> DEFINE S == {i \in 0..n : /\ h[i] \in Seq(M)
                              /\ ToSet(h[i]) = ToSet(b) \cup {seq[j] : j \in 1..i}
                              /\ Distinct(b) => Distinct(h[i])}
<1>3. 0 \in S
  BY <1>0, <1>2
<1>4. ASSUME NEW i \in 1..n, i - 1 \in S PROVE i \in S
  <2>0. i - 1 \in 0..n /\ i \in 0..n /\ seq[i] \in M
    BY <1>0
  <2>1. {seq[j] : j \in 1..i} = {seq[j] : j \in 1..(i - 1)} \cup {seq[i]}
    OBVIOUS
  <2>2. h[i] = AddNew(h[i - 1], seq[i]) /\ h[i - 1] \in Seq(M)
    BY <1>2, <1>4
  <2>3. ToSet(h[i - 1]) = ToSet(b) \cup {seq[j] : j \in 1..(i - 1)}
    BY <1>4
  <2>4. /\ h[i] \in Seq(M) /\ ToSet(h[i]) = ToSet(h[i - 1]) \cup {seq[i]}
        /\ Distinct(h[i - 1]) => Distinct(h[i])
    <3> DEFINE v == h[i - 1]
               m == seq[i]
    <3>1. v \in Seq(M) /\ m \in M /\ h[i] = AddNew(v, m)
      BY <2>0, <2>2
    <3> HIDE DEF v, m
    <3>2. /\ AddNew(v, m) \in Seq(M) /\ ToSet(AddNew(v, m)) = ToSet(v) \cup {m}
          /\ Distinct(v) => Distinct(AddNew(v, m))
      BY <3>1, AddNewFacts
    <3> QED BY <3>1, <3>2 DEF v, m
  <2>5. ToSet(h[i]) = ToSet(b) \cup {seq[j] : j \in 1..i}
    BY <2>1, <2>3, <2>4
  <2> QED BY <2>0, <1>4, <2>4, <2>5
<1>5. n \in S
  <2> HIDE DEF S
  <2>1. \A i \in 0..n : i \in S
    BY <1>0, <1>3, <1>4, UpTo
  <2> QED BY <1>0, <2>1
<1> QED BY <1>0, <1>2, <1>5 DEF ToSet

\* deduplicate_candidates loses no manifest and repeats none.
LEMMA DeduplicateFacts ==
  ASSUME NEW M, NEW seq \in Seq(M)
  PROVE  /\ Deduplicate(seq) \in Seq(M) /\ Distinct(Deduplicate(seq))
         /\ ToSet(Deduplicate(seq)) = ToSet(seq)
<1> DEFINE b == <<>>
<1>1. b \in Seq(M) /\ Distinct(b) /\ ToSet(b) = {}
  BY DEF Distinct, ToSet
<1>2. Deduplicate(seq) = AddAllNew(b, seq)
  BY DEF Deduplicate
<1> HIDE DEF b
<1>3. /\ AddAllNew(b, seq) \in Seq(M) /\ Distinct(AddAllNew(b, seq))
      /\ ToSet(AddAllNew(b, seq)) = ToSet(b) \cup ToSet(seq)
  BY <1>1, MergedFacts
<1> QED BY <1>1, <1>2, <1>3

\* A list that names one candidate adds no more than that one.
LEMMA MergedOne ==
  ASSUME NEW M, NEW b \in Seq(M), NEW seq \in Seq(M), NEW m \in M, ToSet(seq) \subseteq {m}
  PROVE  Len(AddAllNew(b, seq)) <= Len(b) + 1
<1> DEFINE n == Len(seq)
<1>0. n \in Nat /\ DOMAIN seq = 1..n /\ \A i \in 1..n : seq[i] \in M
  OBVIOUS
<1> HIDE DEF n
<1>2. PICK h : /\ h[0] = b /\ h[n] = AddAllNew(b, seq)
               /\ \A i \in 1..n : h[i] = AddNew(h[i - 1], seq[i])
  <2>1. PICK h : AddRun(h, b, seq)
    BY AddNewRun
  <2> QED BY <2>1 DEF AddRun, n
<1> DEFINE S == {i \in 0..n : h[i] \in {b, AddNew(b, m)}}
<1>3. 0 \in S
  BY <1>0, <1>2
<1>4. ASSUME NEW i \in 1..n, i - 1 \in S PROVE i \in S
  <2>0. i - 1 \in 0..n /\ i \in 0..n /\ seq[i] \in M
    BY <1>0
  <2>1. seq[i] = m
    BY <1>0 DEF ToSet
  <2>2. AddNew(AddNew(b, m), m) = AddNew(b, m)
    BY AddNewFacts
  <2> QED BY <2>0, <1>2, <1>4, <2>1, <2>2
<1>5. n \in S
  <2> HIDE DEF S
  <2>1. \A i \in 0..n : i \in S
    BY <1>0, <1>3, <1>4, UpTo
  <2> QED BY <1>0, <2>1
<1>6. AddAllNew(b, seq) \in {b, AddNew(b, m)}
  BY <1>2, <1>5
<1> QED BY <1>6, AddNewFacts

\* KeepIf keeps what is in the set, in its order.
LEMMA KeepIfFacts ==
  ASSUME NEW M, NEW seq \in Seq(M), NEW S
  PROVE  /\ KeepIf(seq, S) \in Seq(M)
         /\ ToSet(KeepIf(seq, S)) = ToSet(seq) \cap S
         /\ Len(KeepIf(seq, S)) <= Len(seq)
         /\ Distinct(seq) => Distinct(KeepIf(seq, S))
<1> DEFINE n == Len(seq)
<1>0. n \in Nat /\ DOMAIN seq = 1..n /\ \A i \in 1..n : seq[i] \in M
  OBVIOUS
<1> HIDE DEF n
<1>1. PICK h : /\ h[0] = <<>> /\ h[n] = KeepIf(seq, S)
               /\ \A i \in 1..n :
                    h[i] = IF seq[i] \in S THEN Append(h[i - 1], seq[i]) ELSE h[i - 1]
  <2>1. PICK h : KeepRun(h, seq, S)
    BY KeepIfRun
  <2> QED BY <2>1 DEF KeepRun, n
<1> DEFINE T == {i \in 0..n : /\ h[i] \in Seq(M)
                              /\ ToSet(h[i]) = {seq[j] : j \in 1..i} \cap S
                              /\ Len(h[i]) <= i
                              /\ Distinct(seq) => Distinct(h[i])}
<1>2. 0 \in T
  <2>1. {seq[j] : j \in 1..0} = {} /\ h[0] = <<>>
    BY <1>1
  <2>2. <<>> \in Seq(M) /\ Len(<<>>) = 0 /\ ToSet(<<>>) = {} /\ Distinct(<<>>)
    BY DEF ToSet, Distinct
  <2>3. 0 \in 0..n /\ Len(h[0]) <= 0 /\ ToSet(h[0]) = {seq[j] : j \in 1..0} \cap S
    BY <1>0, <2>1, <2>2
  <2> QED BY <2>1, <2>2, <2>3
<1>3. ASSUME NEW i \in 1..n, i - 1 \in T PROVE i \in T
  <2>0. i - 1 \in 0..n /\ i \in 0..n /\ i \in Nat /\ seq[i] \in M
    BY <1>0
  <2>1. {seq[j] : j \in 1..i} = {seq[j] : j \in 1..(i - 1)} \cup {seq[i]}
    OBVIOUS
  <2>2. CASE seq[i] \notin S
    BY <2>0, <1>1, <1>3, <2>1, <2>2
  <2>3. CASE seq[i] \in S
    <3>1. h[i] = Append(h[i - 1], seq[i])
      BY <1>1, <2>3
    <3>2. /\ h[i] \in Seq(M) /\ Len(h[i]) = Len(h[i - 1]) + 1
          /\ \A j \in 1..Len(h[i - 1]) : h[i][j] = h[i - 1][j]
          /\ h[i][Len(h[i - 1]) + 1] = seq[i]
      BY <2>0, <1>3, <3>1
    <3> DEFINE k == Len(h[i - 1])
    <3>6. /\ k \in Nat /\ DOMAIN h[i - 1] = 1..k /\ DOMAIN h[i] = 1..(k + 1)
          /\ \A j \in 1..k : h[i][j] = h[i - 1][j]
          /\ h[i][k + 1] = seq[i]
      BY <1>3, <3>2
    <3> HIDE DEF k
    <3>3. ToSet(h[i]) = ToSet(h[i - 1]) \cup {seq[i]}
      BY <3>6 DEF ToSet
    <3>4. Distinct(seq) => seq[i] \notin ToSet(h[i - 1])
      BY <1>0, <2>0, <1>3 DEF Distinct
    <3>5. Distinct(seq) => Distinct(h[i])
      <4> SUFFICES ASSUME Distinct(seq) PROVE Distinct(h[i])
        OBVIOUS
      <4>1. Distinct(h[i - 1])
        BY <1>3
      <4>2. \A j \in 1..k : h[i][j] # seq[i]
        BY <3>4, <3>6 DEF ToSet
      <4>3. ASSUME NEW j \in 1..(k + 1), NEW l \in 1..(k + 1), h[i][j] = h[i][l]
            PROVE  j = l
        BY <4>1, <4>2, <4>3, <3>6 DEF Distinct
      <4> QED BY <4>3, <3>6 DEF Distinct
    <3> QED BY <2>0, <1>3, <2>1, <2>3, <3>2, <3>3, <3>5
  <2> QED BY <2>2, <2>3
<1>4. n \in T
  <2> HIDE DEF T
  <2>1. \A i \in 0..n : i \in T
    BY <1>0, <1>2, <1>3, UpTo
  <2> QED BY <1>0, <2>1
<1>5. ToSet(seq) = {seq[j] : j \in 1..n}
  BY <1>0 DEF ToSet
<1> QED BY <1>1, <1>4, <1>5 DEF n

(***************************************************************************)
(* Keys, signatures and the status of a candidate.                         *)
(***************************************************************************)
\* The position of the first record offered under its key id.
FirstOfItsId(i) == \A j \in 1..(i - 1) : OfferedKeys[j].kid # OfferedKeys[i].kid

\* The registry holds the first record of each key id.
LEMMA RegistryHoldsFirst ==
  KeyRegistry = {OfferedKeys[i] : i \in {j \in DOMAIN OfferedKeys : FirstOfItsId(j)}}
<1> DEFINE n == Len(OfferedKeys)
           K(i) == OfferedKeys[i]
           First(i) == {K(j) : j \in {l \in 1..i : FirstOfItsId(l)}}
<1>0. n \in Nat /\ DOMAIN OfferedKeys = 1..n
  BY OfferedKeysAssumption
<1>1. PICK h : /\ h[0] = {} /\ h[n] = KeyRegistry
               /\ \A i \in 1..n : h[i] = AddPublicKey(h[i - 1], K(i))
  BY RegistryRuns DEF RegistryRun
<1> HIDE DEF n
<1> DEFINE T == {i \in 0..n : /\ h[i] = First(i)
                              /\ \A j \in 1..i : \E k \in h[i] : k.kid = K(j).kid}
<1>2. 0 \in T
  BY <1>0, <1>1
<1>3. ASSUME NEW i \in 1..n, i - 1 \in T PROVE i \in T
  <2>1. /\ i \in Nat /\ i - 1 \in Nat /\ i \in 0..n
        /\ \A l \in 1..i : l \in 1..(i - 1) \/ l = i
    BY <1>0
  <2>2. h[i] = AddPublicKey(h[i - 1], K(i)) /\ h[i - 1] = First(i - 1)
    BY <1>1, <1>3
  <2>3. \A j \in 1..(i - 1) : \E k \in h[i - 1] : k.kid = K(j).kid
    BY <1>3
  <2>4. First(i) = First(i - 1) \cup (IF FirstOfItsId(i) THEN {K(i)} ELSE {})
    BY <2>1
  <2>5. (\E k \in h[i - 1] : k.kid = K(i).kid) <=> ~FirstOfItsId(i)
    BY <2>1, <2>2, <2>3 DEF FirstOfItsId
  <2>6. h[i] = First(i)
    BY <2>2, <2>4, <2>5 DEF AddPublicKey
  <2>7. \A j \in 1..i : \E k \in h[i] : k.kid = K(j).kid
    BY <2>1, <2>2, <2>3, <2>5 DEF AddPublicKey
  <2> QED BY <2>1, <2>6, <2>7
<1>4. n \in T
  <2> HIDE DEF T
  <2>1. \A i \in 0..n : i \in T
    BY <1>0, <1>2, <1>3, UpTo
  <2> QED BY <1>0, <2>1
<1> QED BY <1>0, <1>1, <1>4

\* A record verifies if and only if it is genuine.
LEMMA GenuineIsValid ==
  ASSUME NEW m \in Manifests, NEW sig \in m.sigs
  PROVE  Genuine(sig, m) <=> VerifySignature(m.core, sig)
<1> DEFINE K(i) == OfferedKeys[i]
           Made(k) == [by |-> k.key, over |-> SignaturePreimage(m.core, HeaderOf(sig))]
<1>1. sig = SignatureRecord(sig.kid, sig.alg, sig.role, sig.at, sig.signature)
  BY ManifestsAssumption
<1>2. VerifySignature(m.core, sig) <=>
        \E i \in DOMAIN OfferedKeys :
          /\ FirstOfItsId(i) /\ K(i).kid = sig.kid /\ sig.alg = K(i).alg
          /\ K(i).alg \in Algorithms /\ sig.signature = Made(K(i))
  BY RegistryHoldsFirst DEF VerifySignature, ResolvePublicKey
<1>3. ASSUME NEW i \in DOMAIN OfferedKeys
      PROVE  sig = SignCore(K(i), sig.role, sig.at, m.core) <=>
               K(i).kid = sig.kid /\ sig.alg = K(i).alg /\ sig.signature = Made(K(i))
  <2>1. SignCore(K(i), sig.role, sig.at, m.core) =
          SignatureRecord(K(i).kid, K(i).alg, sig.role, sig.at,
            [by |-> K(i).key, over |-> SignaturePreimage(m.core,
               ProtectedHeader(K(i).kid, K(i).alg, sig.role, sig.at))])
    BY DEF SignCore
  <2>2. HeaderOf(sig) = ProtectedHeader(sig.kid, sig.alg, sig.role, sig.at)
    BY DEF HeaderOf
  <2>3. ASSUME sig = SignCore(K(i), sig.role, sig.at, m.core)
        PROVE  K(i).kid = sig.kid /\ sig.alg = K(i).alg /\ sig.signature = Made(K(i))
    <3>1. K(i).kid = sig.kid /\ sig.alg = K(i).alg
      BY <2>1, <2>3 DEF SignatureRecord
    <3> QED BY <2>1, <2>2, <2>3, <3>1 DEF SignatureRecord
  <2>4. ASSUME K(i).kid = sig.kid, sig.alg = K(i).alg, sig.signature = Made(K(i))
        PROVE  sig = SignCore(K(i), sig.role, sig.at, m.core)
    BY <1>1, <2>1, <2>2, <2>4
  <2> QED BY <2>3, <2>4
<1> QED BY <1>2, <1>3 DEF Genuine, FirstOfItsId, Algorithms

\* All checks but trust passed.
Sound(m) ==
  /\ Matches(m, locator) /\ m.core.essence = "match"
  /\ \A sig \in m.sigs : sig.kid \notin RaisingKids
  /\ \E sig \in m.sigs : Genuine(sig, m)

\* The statuses of a candidate: of an acceptable one, of one that is only
\* signed, and of the others.
LEMMA StatusFacts ==
  ASSUME locator \in Locators, NEW m \in Manifests
  PROVE  /\ CandidateStatus(m) = "verified" <=> Acceptable(m)
         /\ CandidateStatus(m) \in {"verified", "signed_but_untrusted"} <=> Sound(m)
         /\ CandidateStatus(m) \in {"verified", "signed_but_untrusted"}
              \cup {FailurePriority[i] : i \in DOMAIN FailurePriority}
<1>1. ValidSignatures(m) = {sig \in m.sigs : Genuine(sig, m)}
  BY GenuineIsValid DEF ValidSignatures
<1>2. Acceptable(m) <=> Sound(m) /\ TrustAccepts(m)
  <2>1. TrustAccepts(m) <=> \E sig \in m.sigs : Genuine(sig, m) /\ Trusted(sig)
    BY <1>1 DEF TrustAccepts
  <2>2. \A sig \in m.sigs : Trusted(sig) <=>
          sig.role \in AcceptedRoles /\ {sig.kid, "*"} \cap TrustedKids # {}
    BY DEF Trusted
  <2> QED BY <2>1, <2>2 DEF Acceptable, Sound
<1>3. SignaturesRaise(m) \/ ValidSignatures(m) = {} <=>
        ~ (/\ \A sig \in m.sigs : sig.kid \notin RaisingKids
           /\ \E sig \in m.sigs : Genuine(sig, m))
  BY <1>1 DEF SignaturesRaise
<1>4. LocatorMismatch \in {"manifest_key_mismatch", "manifest_short_id_mismatch"}
  BY LocatorsAssumption DEF LocatorMismatch
<1>5. m.core.essence \in {"match", "mismatch", "unsupported", "error"}
  BY ManifestsAssumption
<1>6. \A s \in {"content_mismatch", "essence_computation_failed",
    "unsupported_essence_profile", "no_valid_signatures",
    "manifest_key_mismatch", "manifest_short_id_mismatch"} :
      s \in {FailurePriority[i] : i \in DOMAIN FailurePriority}
  BY DEF FailurePriority
<1> QED BY <1>2, <1>3, <1>4, <1>5, <1>6 DEF CandidateStatus, Sound

(***************************************************************************)
(* The classification of the reports.                                      *)
(***************************************************************************)
\* The reports of the first n candidates.
ReportsOf(n) == [i \in 1..n |-> Report(cands[i])]

\* The failure of reports that all fail is the first in the order of priority.
LEMMA BestFailureFacts ==
  ASSUME NEW reps
  PROVE  /\ BestFailure(reps) \notin {"verified", Undecided}
         /\ reps # <<>> /\ (\A i \in DOMAIN reps :
              reps[i].status \in {FailurePriority[j] : j \in DOMAIN FailurePriority})
            /\ DOMAIN reps # {} =>
            /\ BestFailure(reps) \in {reps[i].status : i \in DOMAIN reps}
            /\ \A i \in DOMAIN reps : \E j, k \in DOMAIN FailurePriority :
                 j <= k /\ FailurePriority[j] = BestFailure(reps)
                        /\ FailurePriority[k] = reps[i].status
<1> DEFINE P == FailurePriority
           statuses == {reps[i].status : i \in DOMAIN reps}
           present == {i \in DOMAIN P : P[i] \in statuses}
           best == CHOOSE i \in present : \A j \in present : i <= j
<1>1. DOMAIN P = 1..7 /\ \A i \in 1..7 : P[i] \notin {"verified", Undecided}
  BY DEF FailurePriority, Undecided
<1>2. BestFailure(reps) = IF reps = <<>> THEN "manifest_not_found"
                          ELSE IF present = {} THEN "no_valid_candidate" ELSE P[best]
  BY DEF BestFailure
<1> HIDE DEF P
<1>3. present # {} => best \in present /\ \A j \in present : best <= j
  <2> SUFFICES ASSUME present # {} PROVE \E i \in present : \A j \in present : i <= j
    OBVIOUS
  <2>1. present \subseteq Nat /\ present # {}
    BY <1>1
  <2> HIDE DEF present
  <2> QED BY <2>1, LeastElement
<1> HIDE DEF best
<1>4. present # {} => P[best] \notin {"verified", Undecided}
  BY <1>1, <1>3
<1>5. BestFailure(reps) \notin {"verified", Undecided}
  BY <1>2, <1>4 DEF Undecided
<1>6. ASSUME reps # <<>>, DOMAIN reps # {},
             \A i \in DOMAIN reps : reps[i].status \in {P[j] : j \in DOMAIN P}
      PROVE  /\ BestFailure(reps) \in statuses
             /\ \A i \in DOMAIN reps : \E j, k \in DOMAIN P :
                  j <= k /\ P[j] = BestFailure(reps) /\ P[k] = reps[i].status
  <2>1. \A i \in DOMAIN reps : \E k \in present : P[k] = reps[i].status
    BY <1>6
  <2>2. present # {} /\ BestFailure(reps) = P[best]
    BY <1>2, <1>6, <2>1
  <2> QED BY <1>3, <2>1, <2>2
<1> QED BY <1>5, <1>6 DEF P

\* The acceptable candidates, whether manifests have one core, and whether one
\* acceptable candidate claims one origin and neither the other nor an edit.
Good == {m \in ToSet(cands) : Acceptable(m)}
SameCoreIn(S) == \E c \in {m.core : m \in S} : \A m \in S : m.core = c
Origin(claim, other) ==
  \E m \in Good : claim \in m.core.claims /\ m.core.claims \cap {other, "edit"} = {}

\* The verdict on candidates that were all reported, in terms of their set.
LEMMA ClassifyFacts ==
  ASSUME locator \in Locators, cands \in Seq(Manifests), cands # <<>>
  PROVE  Classify(ReportsOf(Len(cands))) =
           IF Good # {}
           THEN IF SameCoreIn(Good) THEN "verified"
                ELSE IF Origin("capture", "generation") /\ Origin("generation", "capture")
                THEN "conflicting_provenance" ELSE "ambiguous_multiple_valid"
           ELSE IF {m \in ToSet(cands) : Sound(m)} # {} THEN "signed_but_untrusted"
           ELSE BestFailure(ReportsOf(Len(cands)))
<1> DEFINE reps == ReportsOf(Len(cands))
           X == {Report(m) : m \in Manifests}
           A == {r \in ToSet(reps) : TrustedValid(r)}
           B == {r \in ToSet(reps) : CryptographicallyValid(r)}
           trusted == KeepIf(reps, A)
           signed == KeepIf(reps, B)
<1>1. \A m \in Manifests : Report(m).man = m /\ Report(m).status = CandidateStatus(m)
  BY DEF Report
<1>2. reps \in Seq(X) /\ ToSet(reps) = {Report(m) : m \in ToSet(cands)}
  <2>1. /\ Len(cands) \in Nat /\ DOMAIN cands = 1..Len(cands)
        /\ \A i \in 1..Len(cands) : cands[i] \in Manifests
    OBVIOUS
  <2>2. DOMAIN reps = 1..Len(cands) /\ \A i \in 1..Len(cands) : reps[i] = Report(cands[i])
    BY DEF ReportsOf
  <2>3. reps \in Seq(X)
    BY <2>1 DEF ReportsOf
  <2>4. ToSet(reps) = {Report(m) : m \in ToSet(cands)}
    BY <2>1, <2>2 DEF ToSet
  <2> QED BY <2>3, <2>4
<1>3. ToSet(cands) \subseteq Manifests
  BY DEF ToSet
<1> HIDE DEF reps
<1>4. A = {Report(m) : m \in Good}
  BY <1>1, <1>2, <1>3, StatusFacts DEF Good, TrustedValid
<1>5. B = {Report(m) : m \in {x \in ToSet(cands) : Sound(x)}}
  BY <1>1, <1>2, <1>3, StatusFacts DEF CryptographicallyValid, TrustedValid
<1>6. /\ trusted \in Seq(X) /\ ToSet(trusted) = A
      /\ signed \in Seq(X) /\ ToSet(signed) = B
  BY <1>2, KeepIfFacts
<1>7. Classify(reps) =
        IF Len(trusted) = 1 THEN "verified"
        ELSE IF Len(trusted) > 1
             THEN IF SameCore(trusted) THEN "verified"
                  ELSE IF ClaimConflict(trusted) THEN "conflicting_provenance"
                  ELSE "ambiguous_multiple_valid"
        ELSE IF signed # <<>> THEN "signed_but_untrusted"
        ELSE BestFailure(reps)
  BY DEF Classify
<1> HIDE DEF trusted, signed, A, B, X
<1>8. /\ DOMAIN trusted = 1..Len(trusted) /\ Len(trusted) \in Nat
      /\ \A i \in 1..Len(trusted) : \E m \in Good : trusted[i] = Report(m) /\ trusted[i].man = m
      /\ \A m \in Good : \E i \in 1..Len(trusted) : trusted[i] = Report(m) /\ trusted[i].man = m
  <2>1. DOMAIN trusted = 1..Len(trusted) /\ Len(trusted) \in Nat
    BY <1>6
  <2>2. \A m \in Good : Report(m).man = m
    BY <1>1, <1>3 DEF Good
  <2>3. \A i \in 1..Len(trusted) : trusted[i] \in A
    BY <1>6, <2>1 DEF ToSet
  <2>4. \A r \in A : \E i \in 1..Len(trusted) : trusted[i] = r
    BY <1>6, <2>1 DEF ToSet
  <2>5. \A i \in 1..Len(trusted) : \E m \in Good : trusted[i] = Report(m) /\ trusted[i].man = m
    BY <1>4, <2>2, <2>3
  <2>6. \A m \in Good : \E i \in 1..Len(trusted) : trusted[i] = Report(m) /\ trusted[i].man = m
    <3> SUFFICES ASSUME NEW m \in Good
                 PROVE  \E i \in 1..Len(trusted) : trusted[i] = Report(m) /\ trusted[i].man = m
      OBVIOUS
    <3>1. Report(m) \in A
      BY <1>4
    <3>2. PICK i \in 1..Len(trusted) : trusted[i] = Report(m)
      BY <2>4, <3>1
    <3> QED BY <2>2, <3>2
  <2> QED BY <2>1, <2>5, <2>6
<1>9. CASE Good = {}
  <2>1. Len(trusted) = 0
    BY <1>8, <1>9
  <2>2. signed # <<>> <=> {m \in ToSet(cands) : Sound(m)} # {}
    <3>1. signed # <<>> <=> B # {}
      <4>1. DOMAIN signed = 1..Len(signed) /\ Len(signed) \in Nat
        BY <1>6
      <4>2. signed = <<>> <=> Len(signed) = 0
        BY <1>6
      <4>3. Len(signed) # 0 => signed[1] \in B
        BY <1>6, <4>1 DEF ToSet
      <4>4. Len(signed) = 0 => B = {}
        BY <1>6, <4>1 DEF ToSet
      <4> QED BY <4>2, <4>3, <4>4
    <3> QED BY <1>5, <3>1
  <2> QED BY <1>7, <1>9, <2>1, <2>2 DEF reps
<1>10. CASE Good # {}
  <2>1. Len(trusted) >= 1
    BY <1>8, <1>10
  <2>2. SameCore(trusted) <=> SameCoreIn(Good)
    <3> DEFINE core(i) == trusted[i].man.core
    <3>1. \A i \in 1..Len(trusted) : \E m \in Good : core(i) = m.core
      BY <1>8
    <3>2. \A m \in Good : \E i \in 1..Len(trusted) : core(i) = m.core
      BY <1>8
    <3>3. 1 \in 1..Len(trusted)
      BY <1>8, <2>1
    <3>4. SameCore(trusted) <=> \A i \in 1..Len(trusted) : core(i) = core(1)
      BY <1>8 DEF SameCore
    <3> HIDE DEF core
    <3>5. SameCore(trusted) => SameCoreIn(Good)
      BY <3>1, <3>2, <3>3, <3>4 DEF SameCoreIn
    <3>6. SameCoreIn(Good) => SameCore(trusted)
      BY <3>1, <3>3, <3>4 DEF SameCoreIn
    <3> QED BY <3>5, <3>6
  <2>3. Len(trusted) = 1 => SameCore(trusted)
    BY <1>8 DEF SameCore
  <2>4. ClaimConflict(trusted) <=>
          Origin("capture", "generation") /\ Origin("generation", "capture")
    <3> DEFINE claims(i) == trusted[i].man.core.claims
               Only(claim, other) == \E i \in DOMAIN trusted :
                 claim \in claims(i) /\ other \notin claims(i) /\ "edit" \notin claims(i)
    <3>1. ClaimConflict(trusted) <=>
            Only("capture", "generation") /\ Only("generation", "capture")
      BY DEF ClaimConflict
    <3>2. ASSUME NEW claim, NEW other PROVE Only(claim, other) <=> Origin(claim, other)
      <4>1. \A i \in 1..Len(trusted) : \E m \in Good : claims(i) = m.core.claims
        BY <1>8
      <4>2. \A m \in Good : \E i \in 1..Len(trusted) : claims(i) = m.core.claims
        BY <1>8
      <4>3. Origin(claim, other) <=> \E m \in Good :
              /\ claim \in m.core.claims
              /\ other \notin m.core.claims /\ "edit" \notin m.core.claims
        BY DEF Origin
      <4>4. Only(claim, other) <=> \E i \in 1..Len(trusted) :
              claim \in claims(i) /\ other \notin claims(i) /\ "edit" \notin claims(i)
        BY <1>8
      <4> HIDE DEF claims, Only
      <4>5. Only(claim, other) => Origin(claim, other)
        BY <4>1, <4>3, <4>4
      <4>6. Origin(claim, other) => Only(claim, other)
        BY <4>2, <4>3, <4>4
      <4> QED BY <4>5, <4>6
    <3> HIDE DEF Only
    <3> QED BY <3>1, <3>2
  <2> QED BY <1>7, <1>8, <1>10, <2>1, <2>2, <2>3, <2>4 DEF reps
<1> QED BY <1>9, <1>10

(***************************************************************************)
(* What the resolvers return.                                              *)
(***************************************************************************)
\* Two lists, one after the other.
LEMMA ConcatFacts ==
  ASSUME NEW M, NEW s \in Seq(M), NEW t \in Seq(M)
  PROVE  s \o t \in Seq(M) /\ ToSet(s \o t) = ToSet(s) \cup ToSet(t)
<1>1. /\ s \o t \in Seq(M) /\ Len(s \o t) = Len(s) + Len(t)
      /\ \A i \in 1..Len(s) : (s \o t)[i] = s[i]
      /\ \A i \in 1..Len(t) : (s \o t)[Len(s) + i] = t[i]
  OBVIOUS
<1>2. /\ Len(s) \in Nat /\ Len(t) \in Nat
      /\ DOMAIN s = 1..Len(s) /\ DOMAIN t = 1..Len(t) /\ DOMAIN (s \o t) = 1..(Len(s) + Len(t))
  BY <1>1
<1>3. \A i \in 1..(Len(s) + Len(t)) : i \in 1..Len(s) \/ \E j \in 1..Len(t) : i = Len(s) + j
  <2> SUFFICES ASSUME NEW i \in 1..(Len(s) + Len(t)), i \notin 1..Len(s)
               PROVE  \E j \in 1..Len(t) : i = Len(s) + j
    OBVIOUS
  <2>1. i - Len(s) \in 1..Len(t) /\ i = Len(s) + (i - Len(s))
    BY <1>2
  <2> QED BY <2>1
<1>4. \A j \in 1..Len(t) : Len(s) + j \in 1..(Len(s) + Len(t))
  BY <1>2
<1>5. \A i \in 1..Len(s) : i \in 1..(Len(s) + Len(t))
  BY <1>2
<1>6. ToSet(s \o t) \subseteq ToSet(s) \cup ToSet(t)
  <2> SUFFICES ASSUME NEW i \in 1..(Len(s) + Len(t))
               PROVE  (s \o t)[i] \in ToSet(s) \cup ToSet(t)
    BY <1>2 DEF ToSet
  <2>1. CASE i \in 1..Len(s)
    BY <1>1, <1>2, <2>1 DEF ToSet
  <2>2. CASE i \notin 1..Len(s)
    <3>1. PICK j \in 1..Len(t) : i = Len(s) + j
      BY <1>3, <2>2
    <3> QED BY <1>1, <1>2, <3>1 DEF ToSet
  <2> QED BY <2>1, <2>2
<1>7. ToSet(s) \subseteq ToSet(s \o t)
  BY <1>1, <1>2, <1>5 DEF ToSet
<1>8. ToSet(t) \subseteq ToSet(s \o t)
  <2> SUFFICES ASSUME NEW j \in 1..Len(t) PROVE t[j] \in ToSet(s \o t)
    BY <1>2 DEF ToSet
  <2>1. t[j] = (s \o t)[Len(s) + j] /\ Len(s) + j \in DOMAIN (s \o t)
    BY <1>1, <1>2, <1>4
  <2> QED BY <2>1 DEF ToSet
<1> QED BY <1>1, <1>6, <1>7, <1>8

\* The recursion of FlattenSeq, as far as n.
Joins(f, seqs, n) ==
  f = [i \in 1..n |-> IF i = 1 THEN seqs[i] ELSE f[i - 1] \o seqs[i]]

\* The lists of candidates, one after another.
LEMMA FlattenFacts ==
  ASSUME NEW M, NEW seqs \in Seq(Seq(M))
  PROVE  /\ FlattenSeq(seqs) \in Seq(M)
         /\ ToSet(FlattenSeq(seqs)) = UNION {ToSet(seqs[i]) : i \in DOMAIN seqs}
<1> DEFINE n == Len(seqs)
<1>0. n \in Nat /\ DOMAIN seqs = 1..n /\ \A i \in 1..n : seqs[i] \in Seq(M)
  OBVIOUS
<1>1. CASE n = 0
  <2>1. FlattenSeq(seqs) = seqs /\ seqs = <<>>
    BY <1>1 DEF FlattenSeq
  <2> QED BY <1>0, <1>1, <2>1 DEF ToSet
<1>2. CASE n # 0
  <2> DEFINE f == CHOOSE g : Joins(g, seqs, n)
  <2>1. FlattenSeq(seqs) = f[n]
    BY <1>2 DEF FlattenSeq, Joins
  <2> HIDE DEF n
  <2>2. Joins(f, seqs, n)
    <3> DEFINE S == {k \in 0..n : \E g : Joins(g, seqs, k)}
    <3>1. 0 \in S
      <4>1. Joins(<<>>, seqs, 0)
        BY DEF Joins
      <4> QED BY <1>0, <4>1
    <3>2. ASSUME NEW k \in 1..n, k - 1 \in S PROVE k \in S
      <4>1. PICK g : Joins(g, seqs, k - 1)
        BY <3>2
      <4> DEFINE e == [i \in 1..k |-> IF i = 1 THEN seqs[i] ELSE g[i - 1] \o seqs[i]]
      <4>2. \A i \in 1..k : i # 1 => i - 1 \in 1..(k - 1)
        BY <1>0
      <4>3. ASSUME NEW i \in 1..(k - 1) PROVE e[i] = g[i]
        <5>1. i \in 1..k
          BY <1>0
        <5>2. g[i] = IF i = 1 THEN seqs[i] ELSE g[i - 1] \o seqs[i]
          BY <4>1 DEF Joins
        <5> QED BY <5>1, <5>2
      <4>4. Joins(e, seqs, k)
        BY <4>2, <4>3 DEF Joins
      <4> HIDE DEF e
      <4> QED BY <1>0, <4>4
    <3>3. n \in S
      <4> HIDE DEF S
      <4>1. \A i \in 0..n : i \in S
        BY <1>0, <3>1, <3>2, UpTo
      <4> QED BY <1>0, <4>1
    <3> QED BY <3>3
  <2> HIDE DEF f
  <2> DEFINE T == {i \in 0..n : i # 0 => /\ f[i] \in Seq(M)
                                         /\ ToSet(f[i]) = UNION {ToSet(seqs[j]) : j \in 1..i}}
  <2>3. 0 \in T
    BY <1>0
  <2>4. ASSUME NEW k \in 1..n, k - 1 \in T PROVE k \in T
    <3>0. k \in 0..n /\ k \in Nat /\ k - 1 \in 0..n /\ seqs[k] \in Seq(M)
      BY <1>0
    <3>1. CASE k = 1
      <4>1. f[k] = seqs[1]
        BY <1>0, <2>2, <3>1 DEF Joins
      <4>2. UNION {ToSet(seqs[j]) : j \in 1..1} = ToSet(seqs[1])
        OBVIOUS
      <4> QED BY <3>0, <3>1, <4>1, <4>2
    <3>2. CASE k # 1
      <4>1. f[k] = f[k - 1] \o seqs[k]
        BY <1>0, <2>2, <3>2 DEF Joins
      <4>2. f[k - 1] \in Seq(M)
        BY <2>4, <3>0, <3>2
      <4>3. ToSet(f[k - 1]) = UNION {ToSet(seqs[j]) : j \in 1..(k - 1)}
        BY <2>4, <3>0, <3>2
      <4>4. \A s, t \in Seq(M) : s \o t \in Seq(M) /\ ToSet(s \o t) = ToSet(s) \cup ToSet(t)
        BY ConcatFacts
      <4>5. UNION {ToSet(seqs[j]) : j \in 1..k} =
              (UNION {ToSet(seqs[j]) : j \in 1..(k - 1)}) \cup ToSet(seqs[k])
        BY <3>0
      <4>6. f[k] \in Seq(M) /\ ToSet(f[k]) = ToSet(f[k - 1]) \cup ToSet(seqs[k])
        BY <3>0, <4>1, <4>2, <4>4
      <4> QED BY <3>0, <4>3, <4>5, <4>6
    <3> QED BY <3>1, <3>2
  <2>5. n \in T
    <3> HIDE DEF T
    <3>1. \A i \in 0..n : i \in T
      BY <1>0, <2>3, <2>4, UpTo
    <3> QED BY <1>0, <3>1
  <2> QED BY <1>0, <1>2, <2>1, <2>5
<1> QED BY <1>1, <1>2

\* The documents among the answers, or the first of them.
LEMMA DecodedFacts ==
  ASSUME NEW answers \in Seq(Answers(Manifests)), NEW cap \in Nat
  PROVE  /\ Decoded(answers, cap) \in Seq(Manifests)
         /\ Len(answers) <= cap => \A m \in Manifests :
              Document(m) \in ToSet(answers) => m \in ToSet(Decoded(answers, cap))
<1> DEFINE S == {a \in ToSet(answers) : a.kind = "document"}
           docs == KeepIf(answers, S)
           n == IF Len(docs) < cap THEN Len(docs) ELSE cap
<1>1. Decoded(answers, cap) = [i \in 1..n |-> docs[i].man]
  BY DEF Decoded
<1>2. /\ docs \in Seq(Answers(Manifests)) /\ ToSet(docs) = ToSet(answers) \cap S
      /\ Len(docs) <= Len(answers)
  BY KeepIfFacts
<1> HIDE DEF docs
<1>3. \A a \in Answers(Manifests) : a.kind = "document" => a.man \in Manifests
  BY DEF Answers, Document, Miss, Fault
<1>4. /\ Len(docs) \in Nat /\ DOMAIN docs = 1..Len(docs) /\ n \in 0..Len(docs)
      /\ Len(answers) \in Nat
  BY <1>2
<1>5. \A i \in 1..n : docs[i].man \in Manifests
  <2> SUFFICES ASSUME NEW i \in 1..n PROVE docs[i].man \in Manifests
    OBVIOUS
  <2>1. i \in DOMAIN docs
    BY <1>4
  <2>2. docs[i] \in S /\ docs[i] \in Answers(Manifests)
    BY <1>2, <2>1 DEF ToSet
  <2> QED BY <1>3, <2>2
<1>6. Decoded(answers, cap) \in Seq(Manifests)
  BY <1>1, <1>4, <1>5
<1>7. ASSUME Len(answers) <= cap, NEW m \in Manifests, Document(m) \in ToSet(answers)
      PROVE  m \in ToSet(Decoded(answers, cap))
  <2>1. n = Len(docs)
    <3> DEFINE a == Len(docs)
               b == Len(answers)
    <3>1. a \in Nat /\ b \in Nat /\ a <= b /\ b <= cap
      BY <1>2, <1>4, <1>7
    <3>2. n = IF a < cap THEN a ELSE cap
      OBVIOUS
    <3> HIDE DEF a, b, n
    <3>3. n = a
      BY <3>1, <3>2
    <3> QED BY <3>3 DEF a
  <2>2. Document(m) \in ToSet(docs) /\ Document(m).man = m
    BY <1>2, <1>7 DEF Document
  <2>3. PICK i \in 1..n : docs[i] = Document(m)
    BY <1>4, <2>1, <2>2 DEF ToSet
  <2> HIDE DEF n
  <2>4. i \in DOMAIN Decoded(answers, cap) /\ Decoded(answers, cap)[i] = m
    BY <1>1, <2>2, <2>3
  <2> QED BY <2>4 DEF ToSet
<1> QED BY <1>6, <1>7

\* At most one manifest: what a FULL160 locator for m can resolve to.
OnlyOf(seq, m) == seq \in Seq(Manifests) /\ Distinct(seq) /\ ToSet(seq) \subseteq {m}

\* There are two such lists.
LEMMA OnlyOfFacts ==
  ASSUME NEW m \in Manifests, NEW seq, OnlyOf(seq, m)
  PROVE  /\ seq = <<>> \/ seq = <<m>>
         /\ m \in ToSet(seq) => seq = <<m>>
<1>1. /\ Len(seq) \in Nat /\ DOMAIN seq = 1..Len(seq)
      /\ \A i \in 1..Len(seq) : seq[i] = m
  BY DEF OnlyOf, ToSet
<1>2. \A i, j \in 1..Len(seq) : i = j
  BY <1>1 DEF OnlyOf, Distinct
<1>3. Len(seq) <= 1
  <2> SUFFICES ASSUME Len(seq) > 1 PROVE FALSE
    BY <1>1
  <2>1. 1 \in 1..Len(seq) /\ 2 \in 1..Len(seq)
    BY <1>1
  <2> QED BY <1>2, <2>1
<1>4. CASE Len(seq) = 0
  <2>1. seq = <<>> /\ ToSet(seq) = {}
    BY <1>4 DEF OnlyOf, ToSet
  <2> QED BY <2>1
<1>5. CASE Len(seq) = 1
  <2>1. seq = <<m>>
    BY <1>1, <1>5 DEF OnlyOf
  <2> QED BY <2>1
<1> QED BY <1>1, <1>3, <1>4, <1>5

\* A resolver that is asked for m returns m or nothing; it returns m if one of
\* its sources, all of them within the cap, has it.
LEMMA MatchingFacts ==
  ASSUME NEW m \in Manifests, NEW loc, loc.mode = "full160", loc.man = m,
         NEW answers \in Seq(Answers(Manifests)), NEW cap \in Nat
  PROVE  LET found == Matching(Deduplicate(Decoded(answers, cap)), loc) IN
         /\ OnlyOf(found, m)
         /\ Len(answers) <= cap /\ Document(m) \in ToSet(answers) => m \in ToSet(found)
<1> DEFINE decoded == Decoded(answers, cap)
           distinct == Deduplicate(decoded)
           S == {x \in ToSet(distinct) : Matches(x, loc)}
           found == Matching(distinct, loc)
<1>1. decoded \in Seq(Manifests)
  BY DecodedFacts
<1>2. Len(answers) <= cap /\ Document(m) \in ToSet(answers) => m \in ToSet(decoded)
  BY DecodedFacts
<1> HIDE DEF decoded
<1>4. distinct \in Seq(Manifests) /\ Distinct(distinct) /\ ToSet(distinct) = ToSet(decoded)
  BY <1>1, DeduplicateFacts
<1> HIDE DEF distinct
<1>5. \A x : Matches(x, loc) <=> x = m
  BY DEF Matches
<1>6. found = KeepIf(distinct, S)
  BY DEF Matching
<1>7. found \in Seq(Manifests) /\ ToSet(found) = ToSet(distinct) \cap S /\ Distinct(found)
  BY <1>4, <1>6, KeepIfFacts
<1> HIDE DEF found
<1> QED BY <1>2, <1>4, <1>5, <1>7 DEF OnlyOf, found, distinct, decoded

\* Resolvers that return m or nothing, composed.
LEMMA ComposeFacts ==
  ASSUME NEW m \in Manifests, NEW results \in Seq(Seq(Manifests)), NEW stop \in BOOLEAN,
         \A i \in DOMAIN results : OnlyOf(results[i], m)
  PROVE  /\ OnlyOf(Compose(results, stop), m)
         /\ (\E i \in DOMAIN results : m \in ToSet(results[i]))
            => m \in ToSet(Compose(results, stop))
<1> DEFINE found == {i \in DOMAIN results : results[i] # <<>>}
           first == CHOOSE i \in found : \A j \in found : i <= j
<1>1. Compose(results, stop) = IF stop /\ found # {} THEN results[first]
                               ELSE Deduplicate(FlattenSeq(results))
  BY DEF Compose
<1>2. CASE stop /\ found # {}
  <2>1. first \in found
    <3>1. found \subseteq Nat
      OBVIOUS
    <3> HIDE DEF found
    <3> QED BY <1>2, <3>1, LeastElement
  <2> HIDE DEF first
  <2>2. OnlyOf(results[first], m) /\ results[first] # <<>>
    BY <2>1
  <2>3. results[first] = <<m>>
    BY <2>2, OnlyOfFacts
  <2>4. m \in ToSet(results[first])
    BY <2>3 DEF ToSet
  <2> QED BY <1>1, <1>2, <2>2, <2>4
<1>3. CASE ~(stop /\ found # {})
  <2> DEFINE all == FlattenSeq(results)
  <2>1. all \in Seq(Manifests) /\ ToSet(all) = UNION {ToSet(results[i]) : i \in DOMAIN results}
    BY FlattenFacts
  <2> HIDE DEF all
  <2>3. /\ Deduplicate(all) \in Seq(Manifests) /\ Distinct(Deduplicate(all))
        /\ ToSet(Deduplicate(all)) = ToSet(all)
    BY <2>1, DeduplicateFacts
  <2>4. Compose(results, stop) = Deduplicate(all)
    BY <1>1, <1>3 DEF all
  <2> QED BY <2>1, <2>3, <2>4 DEF OnlyOf
<1> QED BY <1>2, <1>3

\* A function on 1..n is a sequence.
LEMMA IsSequence ==
  ASSUME NEW S, NEW n \in Nat, NEW f \in [1..n -> S]
  PROVE  f \in Seq(S) /\ Len(f) = n
  OBVIOUS

\* The answers to a request for m: as many per resolver as it has sources.
LEMMA AnswerListFacts ==
  ASSUME NEW m \in Manifests, NEW sources \in Seq(Nat), NEW answers \in AnswerLists(sources, m)
  PROVE  /\ answers \in Seq(Seq(Answers(Manifests)))
         /\ \A i \in DOMAIN answers : Len(answers[i]) \in ToSet(sources)
<1>1. CASE answers = <<>>
  BY <1>1
<1>2. CASE answers # <<>>
  <2> DEFINE A == Answers({m} \cup Strays)
             Q == UNION {{i} \X (1..sources[i]) : i \in DOMAIN sources}
  <2>1. PICK f \in [Q -> A] :
          answers = [i \in DOMAIN sources |-> [j \in 1..sources[i] |-> f[<<i, j>>]]]
    BY <1>2 DEF AnswerLists
  <2>2. A \subseteq Answers(Manifests)
    BY IndexedAssumption DEF Answers
  <2>3. DOMAIN sources = 1..Len(sources) /\ Len(sources) \in Nat
        /\ \A i \in DOMAIN sources : sources[i] \in Nat
    OBVIOUS
  <2>4. \A i \in DOMAIN sources : \A j \in 1..sources[i] : <<i, j>> \in Q
    OBVIOUS
  <2> HIDE DEF A, Q
  <2>5. ASSUME NEW i \in DOMAIN sources
        PROVE  answers[i] \in Seq(Answers(Manifests)) /\ Len(answers[i]) = sources[i]
    <3>1. answers[i] = [j \in 1..sources[i] |-> f[<<i, j>>]]
      BY <2>1
    <3>2. \A j \in 1..sources[i] : f[<<i, j>>] \in Answers(Manifests)
      BY <2>1, <2>2, <2>4
    <3>3. answers[i] \in [1..sources[i] -> Answers(Manifests)] /\ sources[i] \in Nat
      BY <2>3, <3>1, <3>2
    <3> QED BY <3>3, IsSequence
  <2>6. DOMAIN answers = 1..Len(sources)
    BY <2>1, <2>3
  <2>7. answers = [i \in 1..Len(sources) |-> answers[i]]
    BY <2>1, <2>3
  <2>8. answers \in Seq(Seq(Answers(Manifests)))
    BY <2>3, <2>5, <2>6, <2>7
  <2>9. \A i \in DOMAIN answers : Len(answers[i]) \in ToSet(sources)
    BY <2>3, <2>5, <2>6 DEF ToSet
  <2> QED BY <2>8, <2>9
<1> QED BY <1>1, <1>2

\* The scans of the resolvers.
LEMMA ScansFacts ==
  ASSUME limits.candidates \in Nat, NEW m \in Manifests,
         NEW answers \in Seq(Seq(Answers(Manifests)))
  PROVE  /\ Scans(answers, m) \in Seq(Seq(Manifests))
         /\ DOMAIN Scans(answers, m) = DOMAIN answers
         /\ \A i \in DOMAIN answers :
              /\ OnlyOf(Scans(answers, m)[i], m)
              /\ Len(answers[i]) <= limits.candidates /\ Document(m) \in ToSet(answers[i])
                 => m \in ToSet(Scans(answers, m)[i])
<1>1. Full(m).mode = "full160" /\ Full(m).man = m
  BY DEF Full
<1>2. ASSUME NEW i \in DOMAIN answers
      PROVE  /\ OnlyOf(Scans(answers, m)[i], m)
             /\ Len(answers[i]) <= limits.candidates /\ Document(m) \in ToSet(answers[i])
                => m \in ToSet(Scans(answers, m)[i])
  <2>1. answers[i] \in Seq(Answers(Manifests))
    OBVIOUS
  <2>2. Scans(answers, m)[i] =
          Matching(Deduplicate(Decoded(answers[i], limits.candidates)), Full(m))
    BY DEF Scans, Scan
  <2> QED BY <1>1, <2>1, <2>2, MatchingFacts
<1>3. DOMAIN Scans(answers, m) = DOMAIN answers
  BY DEF Scans
<1>4. \A i \in DOMAIN answers : Scans(answers, m)[i] \in Seq(Manifests)
  BY <1>2 DEF OnlyOf
<1>5. Len(answers) \in Nat /\ Scans(answers, m) \in [1..Len(answers) -> Seq(Manifests)]
  BY <1>4 DEF Scans
<1>6. Scans(answers, m) \in Seq(Seq(Manifests))
  BY <1>5, IsSequence
<1> QED BY <1>2, <1>3, <1>6

\* A keyed row resolves to the manifest it names, or to nothing.
LEMMA ResolveFullFacts ==
  ASSUME limits.candidates \in Nat, NEW m \in Manifests, NEW sources \in Seq(Nat),
         NEW answers \in AnswerLists(sources, m), NEW stop \in BOOLEAN
  PROVE  OnlyOf(ResolveFull(answers, m, stop), m)
<1>1. answers \in Seq(Seq(Answers(Manifests)))
  BY AnswerListFacts
<1>2. /\ Scans(answers, m) \in Seq(Seq(Manifests))
      /\ \A i \in DOMAIN Scans(answers, m) : OnlyOf(Scans(answers, m)[i], m)
  BY <1>1, ScansFacts
<1> QED BY <1>2, ComposeFacts DEF ResolveFull

\* A FULL160 locator resolves to the manifest it names or to nothing, and to the
\* manifest when a field or a source within the cap has it.
LEMMA FullLocatorFacts ==
  ASSUME limits.candidates \in Nat, locator.mode = "full160", locator.man \in Manifests,
         NEW answers \in AnswerLists(Backends.full160, locator.man),
         NEW fields \in Metadata(locator.man), NEW stop \in BOOLEAN
  PROVE  LET found == Compose(<<Embedded(fields, locator)>> \o Scans(answers, locator.man), stop)
         IN /\ OnlyOf(found, locator.man)
            /\ /\ Offers(<<fields>> \o answers, locator.man)
               /\ \A n \in Sources : n <= limits.candidates
               => locator.man \in ToSet(found)
<1> DEFINE m == locator.man
           e == Embedded(fields, locator)
           s == Scans(answers, m)
           results == <<e>> \o s
<1>1. Backends.full160 \in Seq(Nat) /\ MetadataFields \in Nat
  BY SourcesAssumption
<1>2. /\ answers \in Seq(Seq(Answers(Manifests)))
      /\ \A i \in DOMAIN answers : Len(answers[i]) \in Sources
  BY <1>1, AnswerListFacts DEF Sources
<1>3. fields \in Seq(Answers(Manifests)) /\ Len(fields) \in Nat
  <2>1. fields \in [1..MetadataFields -> Answers({m} \cup Strays)]
    BY DEF Metadata
  <2>2. Answers({m} \cup Strays) \subseteq Answers(Manifests)
    BY IndexedAssumption DEF Answers
  <2>3. fields \in [1..MetadataFields -> Answers(Manifests)]
    BY <2>1, <2>2
  <2> QED BY <1>1, <2>3, IsSequence
<1>4. OnlyOf(e, m) /\ (Document(m) \in ToSet(fields) => m \in ToSet(e))
  <2>1. e = Matching(Deduplicate(Decoded(fields, Len(fields))), locator)
    BY DEF Embedded
  <2> QED BY <1>3, <2>1, MatchingFacts
<1>5. /\ s \in Seq(Seq(Manifests)) /\ DOMAIN s = DOMAIN answers
      /\ \A i \in DOMAIN answers :
           /\ OnlyOf(s[i], m)
           /\ Len(answers[i]) <= limits.candidates /\ Document(m) \in ToSet(answers[i])
              => m \in ToSet(s[i])
  BY <1>2, ScansFacts
<1> HIDE DEF m, e, s
<1>6. e \in Seq(Manifests)
  BY <1>4 DEF OnlyOf
<1>7. /\ results \in Seq(Seq(Manifests)) /\ DOMAIN results = 1..(1 + Len(s))
      /\ results[1] = e /\ \A i \in 1..Len(s) : results[1 + i] = s[i]
      /\ Len(s) \in Nat /\ DOMAIN s = 1..Len(s)
  BY <1>5, <1>6
<1>8. \A i \in DOMAIN results : i = 1 \/ \E j \in 1..Len(s) : i = 1 + j
  <2> SUFFICES ASSUME NEW i \in 1..(1 + Len(s)), i # 1 PROVE \E j \in 1..Len(s) : i = 1 + j
    BY <1>7
  <2>1. i - 1 \in 1..Len(s) /\ i = 1 + (i - 1)
    BY <1>7
  <2> QED BY <2>1
<1> HIDE DEF results
<1>9. \A i \in DOMAIN results : OnlyOf(results[i], m)
  BY <1>4, <1>5, <1>7, <1>8
<1>10. /\ OnlyOf(Compose(results, stop), m)
       /\ (\E i \in DOMAIN results : m \in ToSet(results[i])) => m \in ToSet(Compose(results, stop))
  BY <1>7, <1>9, ComposeFacts DEF m
<1>11. ASSUME Offers(<<fields>> \o answers, m), \A n \in Sources : n <= limits.candidates
       PROVE  \E i \in DOMAIN results : m \in ToSet(results[i])
  <2> DEFINE asked == <<fields>> \o answers
  <2>1. PICK i \in DOMAIN asked : Document(m) \in ToSet(asked[i])
    BY <1>11 DEF Offers
  <2>2. /\ Len(answers) \in Nat /\ DOMAIN answers = 1..Len(answers)
        /\ DOMAIN asked = 1..(1 + Len(answers))
        /\ asked[1] = fields /\ \A j \in 1..Len(answers) : asked[1 + j] = answers[j]
    BY <1>2, <1>3
  <2>3. CASE i = 1
    <3>1. m \in ToSet(results[1]) /\ 1 \in DOMAIN results
      BY <1>4, <1>7, <2>1, <2>2, <2>3
    <3> QED BY <3>1
  <2>4. CASE i # 1
    <3>1. i - 1 \in 1..Len(answers) /\ i = 1 + (i - 1)
      BY <2>1, <2>2, <2>4
    <3>2. asked[i] = answers[i - 1]
      BY <2>2, <3>1
    <3>3. Len(answers[i - 1]) <= limits.candidates
      BY <1>2, <1>11, <2>2, <3>1
    <3>4. m \in ToSet(s[i - 1]) /\ i - 1 \in 1..Len(s)
      BY <1>5, <1>7, <2>1, <2>2, <3>1, <3>2, <3>3
    <3>5. results[i] = s[i - 1] /\ i \in DOMAIN results
      BY <1>7, <3>1, <3>4
    <3> QED BY <3>4, <3>5
  <2> QED BY <2>3, <2>4
<1> QED BY <1>10, <1>11 DEF results, e, s, m

(***************************************************************************)
(* The inductive invariant.                                                *)
(***************************************************************************)
\* The request is one that can be made, and nothing changes it.
Requested ==
  /\ locator \in Locators /\ limits \in Limits /\ bucket \in Seq(Rows)
  /\ locator.mode # "short64" => bucket = <<>>

Typed ==
  /\ stage \in {"resolve", "follow", "judge", "verify", "done"}
  /\ refs \in Seq(Rows) /\ cands \in Seq(Manifests) /\ Distinct(cands)

\* The reports are those of the first candidates.
Judged ==
  /\ stage \in {"resolve", "follow", "judge"} => reports = <<>>
  /\ stage = "verify" =>
       /\ cands # <<>> /\ Len(cands) <= limits.candidates
       /\ \E n \in 0..Len(cands) : n <= limits.fetches /\ reports = ReportsOf(n)

\* The verdict is on all candidates, or one that counts them.
Decided ==
  /\ verdict = Undecided <=> stage # "done"
  /\ stage = "done" =>
       \/ /\ cands = <<>>
          /\ verdict = IF resolution = "error" THEN "resolution_error"
                       ELSE "manifest_not_found"
       \/ /\ Len(cands) > limits.candidates \/ Len(cands) > limits.fetches
          /\ verdict = "resolution_candidate_flood"
       \/ /\ cands # <<>> /\ Len(cands) <= limits.candidates /\ Len(cands) <= limits.fetches
          /\ verdict = Classify(ReportsOf(Len(cands)))

\* The manifests of the inline rows.
Inlines(rows) == {r.man : r \in {x \in ToSet(rows) : x.kind = "inline"}}

\* A row adds no more than one candidate, and a complete lookup loses none of
\* those that match.
Looked ==
  /\ stage = "resolve" => cands = <<>> /\ complete
  /\ stage # "resolve" /\ Len(bucket) <= limits.candidates => complete
  /\ stage = "follow" =>
       /\ locator.mode = "short64"
       /\ Len(cands) + Len(refs) <= Len(bucket)
       /\ complete => Inlines(bucket) \subseteq ToSet(cands) \cup Inlines(refs)
  /\ locator.mode = "short64" /\ stage \in {"judge", "verify", "done"} =>
       /\ Len(cands) <= Len(bucket)
       /\ resolution = "found" => complete
       /\ complete /\ resolution # "error" =>
            \A m \in Inlines(bucket) : Matches(m, locator) => m \in ToSet(cands)

\* A FULL160 locator resolves to the manifest it names or to nothing.
Asked ==
  /\ locator.mode = "registry" => cands = <<>>
  /\ locator.mode = "full160" /\ stage # "resolve" =>
       /\ cands = <<>> \/ cands = <<locator.man>>
       /\ offered /\ (\A n \in Sources : n <= limits.candidates) => cands = <<locator.man>>

Inv == Requested /\ Typed /\ Judged /\ Decided /\ Looked /\ Asked

\* A request that nothing was done for.
LEMMA InitInv == Init => Inv
<1> SUFFICES ASSUME Init PROVE Inv
  OBVIOUS
<1>1. bucket \in Seq(Rows)
  <2>1. PICK n \in 0..MaxRows : bucket \in [1..n -> Rows]
    BY DEF Init, SeqOf
  <2> QED BY <2>1, MaxRowsAssumption, IsSequence
<1>2. Distinct(<<>>)
  BY DEF Distinct
<1>3. Undecided # "done"
  BY DEF Undecided
<1> QED BY <1>1, <1>2, <1>3 DEF Init, Inv, Requested, Typed, Judged, Decided, Looked, Asked

\* With the request and the candidates, the reports stay.
LEMMA ReportsStay ==
  ASSUME UNCHANGED <<locator, cands>>
  PROVE  \A n : ReportsOf(n)' = ReportsOf(n)
  BY DEF ReportsOf, Report, CandidateStatus, LocatorMismatch

\* CompositeResolver, asked for a FULL160 locator.
LEMMA ResolveFullInv == Inv /\ ResolveFullLocator => Inv'
<1> SUFFICES ASSUME Inv, ResolveFullLocator PROVE Inv'
  OBVIOUS
<1> USE DEF ResolveFullLocator
<1>1. PICK answers \in AnswerLists(Backends.full160, locator.man),
           fields \in Metadata(locator.man), stop \in BOOLEAN :
        /\ cands' = Compose(<<Embedded(fields, locator)>> \o Scans(answers, locator.man), stop)
        /\ offered' = Offers(<<fields>> \o answers, locator.man)
  OBVIOUS
<1>2. limits.candidates \in Nat /\ locator.mode = "full160" /\ locator.man \in Manifests
  BY LimitsAssumption, LocatorsAssumption DEF Inv, Requested
<1>3. /\ OnlyOf(cands', locator.man)
      /\ offered' /\ (\A n \in Sources : n <= limits.candidates) => locator.man \in ToSet(cands')
  BY <1>1, <1>2, FullLocatorFacts
<1>4. /\ cands' = <<>> \/ cands' = <<locator.man>>
      /\ locator.man \in ToSet(cands') => cands' = <<locator.man>>
  BY <1>2, <1>3, OnlyOfFacts
<1>5. UNCHANGED <<locator, limits, bucket, refs, complete, reports, verdict>> /\ stage' = "judge"
  BY DEF request
<1>6. Requested'
  BY <1>5 DEF Inv, Requested
<1>7. Typed'
  BY <1>3, <1>5 DEF Inv, Typed, OnlyOf
<1>8. Judged' /\ Decided'
  BY <1>5 DEF Inv, Judged, Decided
<1>9. Looked'
  BY <1>2, <1>5 DEF Inv, Looked
<1>10. Asked'
  BY <1>2, <1>3, <1>4, <1>5 DEF Asked
<1> QED BY <1>6, <1>7, <1>8, <1>9, <1>10 DEF Inv

\* Short64IndexResolver reads the bucket, or nothing can be resolved.
LEMMA LookupInv ==
  Inv /\ (ResolveUnsupported \/ LookupIndex \/ LookupFails) => Inv'
<1> SUFFICES ASSUME Inv, ResolveUnsupported \/ LookupIndex \/ LookupFails PROVE Inv'
  OBVIOUS
<1>1. /\ stage = "resolve" /\ cands = <<>> /\ complete
      /\ UNCHANGED <<locator, limits, bucket, cands, reports, verdict, offered, failed>>
  BY DEF Inv, Looked, ResolveUnsupported, LookupIndex, LookupFails, request
<1>2. limits.candidates \in Nat /\ Len(bucket) \in Nat
  BY LimitsAssumption DEF Inv, Requested
<1>3. Requested'
  BY <1>1 DEF Inv, Requested
<1>4. CASE ResolveUnsupported \/ LookupFails
  <2>1. stage' = "judge" /\ locator.mode # "full160" /\ complete' = complete /\ refs' = refs
    BY <1>4 DEF ResolveUnsupported, LookupFails
  <2>2. locator.mode = "short64" => resolution' = "error"
    BY <1>4 DEF ResolveUnsupported, LookupFails
  <2>3. Typed' /\ Judged' /\ Decided' /\ Asked'
    BY <1>1, <2>1 DEF Inv, Typed, Judged, Decided, Asked
  <2>4. Looked'
    BY <1>1, <1>2, <2>1, <2>2 DEF Inv, Looked
  <2> QED BY <1>3, <2>3, <2>4 DEF Inv
<1>5. CASE LookupIndex
  <2> USE DEF LookupIndex
  <2>1. MaxLookup \in Nat \ {0} /\ (Len(bucket) <= limits.candidates => Len(bucket) <= MaxLookup)
    BY <1>2 DEF MaxLookup
  <2>2. /\ complete' = (Len(bucket) <= MaxLookup)
        /\ refs' = IF complete' THEN bucket ELSE SubSeq(bucket, 1, MaxLookup)
        /\ locator.mode = "short64"
    BY <1>5
  <2>3. refs' \in Seq(Rows) /\ Len(refs') <= Len(bucket) /\ (refs' = <<>> => bucket = <<>>)
    <3>1. CASE complete'
      BY <1>2, <2>2, <3>1 DEF Inv, Requested
    <3>2. CASE ~complete'
      <4>0. ~(Len(bucket) <= MaxLookup) /\ refs' = SubSeq(bucket, 1, MaxLookup)
        BY <2>2, <3>2, Zenon
      <4>1. refs' = SubSeq(bucket, 1, MaxLookup) /\ Len(bucket) > MaxLookup
        <5> HIDE DEF LookupIndex
        <5> QED BY <1>2, <2>1, <4>0
      <4>2. refs' \in Seq(Rows) /\ Len(refs') = MaxLookup
        BY <2>1, <4>1 DEF Inv, Requested
      <4> QED BY <1>2, <2>1, <4>1, <4>2
    <3> QED BY <3>1, <3>2
  <2>4. \/ refs' = <<>> /\ resolution' = "not_found" /\ stage' = "judge"
        \/ refs' # <<>> /\ resolution' = resolution /\ stage' = "follow"
    BY <1>5
  <2>5. Typed' /\ Judged' /\ Decided' /\ Asked'
    BY <1>1, <2>2, <2>3, <2>4 DEF Inv, Typed, Judged, Decided, Asked
  <2>6. Len(cands) = 0 /\ ToSet(cands) = {}
    BY <1>1 DEF ToSet
  <2>7. Len(cands') + Len(refs') <= Len(bucket') /\ Len(cands') <= Len(bucket')
    BY <1>1, <1>2, <2>3, <2>6
  <2>8. bucket = <<>> => Inlines(bucket) = {}
    BY DEF Inlines, ToSet
  <2>9. complete' => Inlines(bucket') \subseteq ToSet(cands') \cup Inlines(refs')
    BY <1>1, <2>2
  <2>10. Looked'
    BY <1>1, <1>2, <2>1, <2>2, <2>3, <2>4, <2>7, <2>8, <2>9 DEF Looked
  <2> QED BY <1>3, <2>5, <2>10 DEF Inv
<1> QED BY <1>4, <1>5

\* One row of the bucket: none, or one more candidate.
LEMMA FollowInv == Inv /\ FollowReference => Inv'
<1> SUFFICES ASSUME Inv, FollowReference PROVE Inv'
  OBVIOUS
<1> DEFINE row == Head(refs)
<1>1. /\ stage = "follow" /\ refs # <<>> /\ refs' = Tail(refs)
      /\ UNCHANGED <<locator, limits, bucket, stage, complete, resolution, reports,
                     verdict, offered>>
  BY DEF FollowReference, request
<1>2. /\ limits.candidates \in Nat /\ Len(bucket) \in Nat
      /\ cands \in Seq(Manifests) /\ Distinct(cands) /\ refs \in Seq(Rows)
      /\ locator.mode = "short64" /\ Len(cands) + Len(refs) <= Len(bucket)
      /\ complete => Inlines(bucket) \subseteq ToSet(cands) \cup Inlines(refs)
  BY <1>1, LimitsAssumption DEF Inv, Requested, Typed, Looked
<1>3. /\ row \in Rows /\ Tail(refs) \in Seq(Rows) /\ Len(Tail(refs)) = Len(refs) - 1
      /\ Len(refs) \in Nat /\ Len(cands) \in Nat
      /\ \A r \in ToSet(refs) : r = row \/ r \in ToSet(Tail(refs))
  <2>1. /\ row \in Rows /\ Tail(refs) \in Seq(Rows) /\ Len(Tail(refs)) = Len(refs) - 1
        /\ Len(refs) \in Nat /\ Len(cands) \in Nat /\ DOMAIN refs = 1..Len(refs)
        /\ row = refs[1] /\ DOMAIN Tail(refs) = 1..(Len(refs) - 1)
        /\ \A i \in 1..(Len(refs) - 1) : Tail(refs)[i] = refs[i + 1]
    BY <1>1, <1>2
  <2>2. ASSUME NEW i \in 1..Len(refs), i # 1 PROVE refs[i] \in ToSet(Tail(refs))
    <3>1. i - 1 \in 1..(Len(refs) - 1) /\ (i - 1) + 1 = i
      BY <2>1, <2>2
    <3>2. Tail(refs)[i - 1] = refs[i]
      BY <2>1, <3>1
    <3> QED BY <2>1, <3>1, <3>2 DEF ToSet
  <2> QED BY <2>1, <2>2 DEF ToSet
<1>4. /\ row.kind \in {"inline", "keyed", "bad"}
      /\ row.kind # "bad" => row.man \in Manifests
  BY <1>3, IndexedAssumption DEF Rows, Inline, Keyed, BadRow
<1> HIDE DEF row
<1>5. /\ cands' \in Seq(Manifests) /\ Distinct(cands') /\ Len(cands') <= Len(cands) + 1
      /\ ToSet(cands) \subseteq ToSet(cands')
      /\ row.kind = "inline" => row.man \in ToSet(cands')
  <2>1. CASE row.kind = "bad"
    <3>1. cands' = cands
      BY <2>1 DEF FollowReference, row
    <3> QED BY <1>2, <1>3, <2>1, <3>1
  <2>2. CASE row.kind = "inline"
    <3>1. cands' = AddNew(cands, row.man) /\ row.man \in Manifests
      BY <1>4, <2>2 DEF FollowReference, row
    <3> QED BY <1>2, <3>1, AddNewFacts
  <2>3. CASE row.kind = "keyed"
    <3>1. PICK answers \in AnswerLists(Backends.short64, row.man), stop \in BOOLEAN :
            cands' = AddAllNew(cands, ResolveFull(answers, row.man, stop))
      BY <2>3 DEF FollowReference, row
    <3> DEFINE more == ResolveFull(answers, row.man, stop)
    <3>2. row.man \in Manifests /\ Backends.short64 \in Seq(Nat)
      BY <1>4, <2>3, SourcesAssumption
    <3>3. OnlyOf(more, row.man)
      BY <1>2, <3>2, ResolveFullFacts
    <3> HIDE DEF more
    <3>4. more \in Seq(Manifests) /\ ToSet(more) \subseteq {row.man}
      BY <3>3 DEF OnlyOf
    <3>5. cands' = AddAllNew(cands, more)
      BY <3>1 DEF more
    <3>6. /\ AddAllNew(cands, more) \in Seq(Manifests) /\ Distinct(AddAllNew(cands, more))
          /\ ToSet(AddAllNew(cands, more)) = ToSet(cands) \cup ToSet(more)
      BY <1>2, <3>4, MergedFacts
    <3>7. Len(AddAllNew(cands, more)) <= Len(cands) + 1
      BY <1>2, <3>2, <3>4, MergedOne
    <3> QED BY <2>3, <3>5, <3>6, <3>7
  <2> QED BY <1>4, <2>1, <2>2, <2>3
<1>6. Len(cands') + Len(refs') <= Len(bucket)
  <2>1. Len(cands') \in Nat /\ Len(refs') = Len(refs) - 1
    BY <1>1, <1>3, <1>5
  <2> QED BY <1>2, <1>3, <1>5, <2>1
<1>7. complete => Inlines(bucket) \subseteq ToSet(cands') \cup Inlines(refs')
  BY <1>1, <1>2, <1>3, <1>5 DEF Inlines
<1>8. Requested' /\ Typed' /\ Judged' /\ Decided' /\ Asked'
  BY <1>1, <1>2, <1>3, <1>5 DEF Inv, Requested, Typed, Judged, Decided, Asked
<1>9. Looked'
  BY <1>1, <1>2, <1>6, <1>7 DEF Inv, Looked
<1> QED BY <1>8, <1>9 DEF Inv

\* The candidates that do not match the locator are dropped.
LEMMA FinishInv == Inv /\ FinishLookup => Inv'
<1> SUFFICES ASSUME Inv, FinishLookup PROVE Inv'
  OBVIOUS
<1> DEFINE S == {m \in ToSet(cands) : Matches(m, locator)}
<1>1. /\ stage = "follow" /\ refs = <<>> /\ stage' = "judge" /\ cands' = KeepIf(cands, S)
      /\ UNCHANGED <<locator, limits, bucket, refs, complete, failed, reports, verdict, offered>>
  BY DEF FinishLookup, Matching, request
<1>2. /\ limits.candidates \in Nat /\ Len(bucket) \in Nat
      /\ cands \in Seq(Manifests) /\ Distinct(cands) /\ refs \in Seq(Rows)
      /\ locator.mode = "short64" /\ Len(cands) + Len(refs) <= Len(bucket)
      /\ complete => Inlines(bucket) \subseteq ToSet(cands) \cup Inlines(refs)
  BY <1>1, LimitsAssumption DEF Inv, Requested, Typed, Looked
<1>3. /\ cands' \in Seq(Manifests) /\ Distinct(cands') /\ Len(cands') <= Len(cands)
      /\ ToSet(cands') = ToSet(cands) \cap S
  BY <1>1, <1>2, KeepIfFacts
<1>4. Len(cands') <= Len(bucket)
  <2>1. Len(refs) = 0 /\ Len(cands) \in Nat /\ Len(cands') \in Nat
    BY <1>1, <1>2, <1>3
  <2> QED BY <1>2, <1>3, <2>1
<1>5. resolution' = "found" => complete
  BY DEF FinishLookup
<1>6. complete => \A m \in Inlines(bucket) : Matches(m, locator) => m \in ToSet(cands')
  <2>1. Inlines(refs) = {}
    BY <1>1 DEF Inlines, ToSet
  <2> QED BY <1>2, <1>3, <2>1
<1>7. Requested' /\ Typed' /\ Judged' /\ Decided' /\ Asked'
  BY <1>1, <1>2, <1>3 DEF Inv, Requested, Typed, Judged, Decided, Asked
<1>8. Looked'
  BY <1>1, <1>2, <1>4, <1>5, <1>6 DEF Inv, Looked
<1> QED BY <1>7, <1>8 DEF Inv

\* verify counts the candidates, reports them one by one and concludes.
LEMMA VerifyInv == Inv /\ (Judge \/ VerifyNext \/ Conclude) => Inv'
<1> SUFFICES ASSUME Inv, Judge \/ VerifyNext \/ Conclude PROVE Inv'
  OBVIOUS
<1>1. /\ UNCHANGED <<locator, limits, bucket, refs, complete, failed, cands, resolution, offered>>
      /\ stage \in {"judge", "verify"} /\ stage' \in {"verify", "done"}
  BY DEF Judge, VerifyNext, Conclude, request
<1>2. limits.candidates \in Nat /\ limits.fetches \in Nat /\ cands \in Seq(Manifests)
      /\ Len(cands) \in Nat
  BY LimitsAssumption DEF Inv, Requested, Typed
<1>3. Requested' /\ Typed' /\ Looked' /\ Asked'
  BY <1>1 DEF Inv, Requested, Typed, Looked, Asked
<1>4. \A n : ReportsOf(n)' = ReportsOf(n)
  BY <1>1, ReportsStay
<1>5. \A n \in Nat : Len(ReportsOf(n)) = n
  <2> SUFFICES ASSUME NEW n \in Nat PROVE Len(ReportsOf(n)) = n
    OBVIOUS
  <2>1. ReportsOf(n) \in [1..n -> {Report(cands[i]) : i \in 1..n}]
    BY DEF ReportsOf
  <2> QED BY <2>1, IsSequence
<1>6. verdict = Undecided /\ Undecided \notin {"resolution_error", "manifest_not_found",
                                              "resolution_candidate_flood"}
  BY <1>1 DEF Inv, Decided, Undecided
<1>7. CASE Judge
  <2>1. stage = "judge" /\ reports = <<>> /\ reports' = reports
    BY <1>7 DEF Inv, Judged, Judge
  <2>2. reports = ReportsOf(0)
    BY <2>1 DEF ReportsOf
  <2>3. CASE cands = <<>> /\ stage' = "done"
             /\ verdict' = IF resolution = "error" THEN "resolution_error" ELSE "manifest_not_found"
    BY <1>1, <1>3, <1>6, <2>1, <2>3 DEF Inv, Judged, Decided
  <2>4. CASE Len(cands) > limits.candidates /\ stage' = "done"
             /\ verdict' = "resolution_candidate_flood"
    BY <1>1, <1>3, <1>6, <2>1, <2>4 DEF Inv, Judged, Decided
  <2>5. CASE cands # <<>> /\ Len(cands) <= limits.candidates /\ stage' = "verify"
             /\ verdict' = verdict
    <3>1. 0 \in 0..Len(cands) /\ 0 <= limits.fetches
      BY <1>2
    <3>2. Judged'
      BY <1>1, <1>4, <2>1, <2>2, <2>5, <3>1 DEF Judged
    <3>3. Decided'
      BY <1>6, <2>5 DEF Decided
    <3> QED BY <1>3, <3>2, <3>3 DEF Inv
  <2> QED BY <1>7, <2>3, <2>4, <2>5 DEF Judge
<1>8. CASE VerifyNext
  <2>1. PICK n \in 0..Len(cands) : n <= limits.fetches /\ reports = ReportsOf(n)
    BY <1>8 DEF Inv, Judged, VerifyNext
  <2>2. n \in Nat /\ Len(reports) = n /\ n < Len(cands) /\ n < limits.fetches
    BY <1>2, <1>5, <1>8, <2>1 DEF VerifyNext
  <2>3. reports' = Append(reports, Report(cands[n + 1])) /\ stage' = "verify" /\ stage = "verify"
        /\ verdict' = verdict
    BY <1>8, <2>2 DEF VerifyNext
  <2>4. reports' = ReportsOf(n + 1)
    BY <2>1, <2>2, <2>3 DEF ReportsOf
  <2>5. n + 1 \in 0..Len(cands) /\ n + 1 <= limits.fetches
    BY <1>2, <2>2
  <2>6. Judged'
    BY <1>1, <1>4, <2>3, <2>4, <2>5 DEF Inv, Judged
  <2>7. Decided'
    BY <1>6, <2>3 DEF Decided
  <2> QED BY <1>3, <2>6, <2>7 DEF Inv
<1>9. CASE Conclude
  <2>1. PICK n \in 0..Len(cands) : n <= limits.fetches /\ reports = ReportsOf(n)
    BY <1>9 DEF Inv, Judged, Conclude
  <2>2. n \in Nat /\ Len(reports) = n /\ (n = Len(cands) \/ n = limits.fetches)
    BY <1>2, <1>5, <1>9, <2>1 DEF Conclude
  <2>3. /\ stage' = "done" /\ stage = "verify" /\ cands # <<>> /\ Len(cands) <= limits.candidates
        /\ verdict' = IF Len(cands) > limits.fetches THEN "resolution_candidate_flood"
                      ELSE Classify(reports)
    BY <1>9 DEF Inv, Judged, Conclude
  <2>4. Len(cands) <= limits.fetches => n = Len(cands)
    BY <1>2, <2>1, <2>2
  <2>5. Classify(ReportsOf(Len(cands))) # Undecided
    <3>1. locator \in Locators /\ Undecided = "none"
      BY DEF Inv, Requested, Undecided
    <3>2. BestFailure(ReportsOf(Len(cands))) # Undecided
      BY BestFailureFacts
    <3> QED BY <1>2, <2>3, <3>1, <3>2, ClassifyFacts
  <2>6. Decided'
    BY <1>1, <1>2, <1>4, <1>6, <2>1, <2>3, <2>4, <2>5 DEF Decided
  <2>7. Judged'
    BY <2>3 DEF Judged
  <2> QED BY <1>3, <2>6, <2>7 DEF Inv
<1> QED BY <1>7, <1>8, <1>9

\* The invariant holds in every run of verify.
THEOREM VerifierInvariant == Spec => []Inv
<1>1. Inv /\ [Next]_vars => Inv'
  <2> SUFFICES ASSUME Inv, [Next]_vars PROVE Inv'
    OBVIOUS
  <2>1. CASE Next
    BY <2>1, ResolveFullInv, LookupInv, FollowInv, FinishInv, VerifyInv DEF Next
  <2>2. CASE UNCHANGED vars
    <3>1. \A n : ReportsOf(n)' = ReportsOf(n)
      BY <2>2, ReportsStay DEF vars, request
    <3>2. Judged' /\ Decided'
      BY <2>2, <3>1 DEF Inv, Judged, Decided, vars, request
    <3>3. Requested' /\ Typed' /\ Looked' /\ Asked'
      BY <2>2 DEF Inv, Requested, Typed, Looked, Asked, vars, request
    <3> QED BY <3>2, <3>3 DEF Inv
  <2> QED BY <2>1, <2>2
<1> QED BY InitInv, <1>1, PTL DEF Spec

(***************************************************************************)
(* What the verdict is worth.                                              *)
(***************************************************************************)
\* The verdict on candidates that were all looked at.
LEMMA VerdictFacts ==
  ASSUME Inv, stage = "done", cands # <<>>, Len(cands) <= limits.candidates,
         Len(cands) <= limits.fetches
  PROVE  verdict =
           IF Good # {}
           THEN IF SameCoreIn(Good) THEN "verified"
                ELSE IF Origin("capture", "generation") /\ Origin("generation", "capture")
                THEN "conflicting_provenance" ELSE "ambiguous_multiple_valid"
           ELSE IF {m \in ToSet(cands) : Sound(m)} # {} THEN "signed_but_untrusted"
           ELSE BestFailure(ReportsOf(Len(cands)))
<1>1. locator \in Locators /\ cands \in Seq(Manifests) /\ Len(cands) \in Nat
      /\ limits.candidates \in Nat /\ limits.fetches \in Nat
  BY LimitsAssumption DEF Inv, Requested, Typed
<1>2. verdict = Classify(ReportsOf(Len(cands)))
  BY <1>1 DEF Inv, Decided
<1> QED BY <1>1, <1>2, ClassifyFacts

\* A verified verdict is on all candidates, and the acceptable ones agree.
LEMMA VerifiedFacts ==
  ASSUME Inv, verdict = "verified"
  PROVE  /\ stage = "done" /\ cands # <<>>
         /\ Len(cands) <= limits.candidates /\ Len(cands) <= limits.fetches
         /\ Good # {} /\ SameCoreIn(Good)
<1>1. /\ stage = "done" /\ cands # <<>>
      /\ Len(cands) <= limits.candidates /\ Len(cands) <= limits.fetches
  BY DEF Inv, Decided, Undecided
<1>2. BestFailure(ReportsOf(Len(cands))) # "verified"
  BY BestFailureFacts
<1>3. Good # {} /\ SameCoreIn(Good)
  BY <1>1, <1>2, VerdictFacts
<1> QED BY <1>1, <1>3

\* A verified verdict rests on an acceptable candidate, leaves none out, and has
\* no rival: every acceptable candidate has the same core.
THEOREM NoRivals == Spec => []VerifiedIsUnrivalled
<1>1. Inv => VerifiedIsUnrivalled
  <2> SUFFICES ASSUME Inv, verdict = "verified"
               PROVE  /\ Len(cands) <= limits.candidates /\ Len(cands) <= limits.fetches
                      /\ \E m \in ToSet(cands) :
                           /\ Acceptable(m)
                           /\ \A r \in ToSet(cands) : Acceptable(r) => r.core = m.core
    BY DEF VerifiedIsUnrivalled
  <2> QED BY VerifiedFacts DEF Good, SameCoreIn
<1> QED BY <1>1, VerifierInvariant, PTL

\* An acceptable rival in the bucket makes the resolution partial, if it was not
\* among the candidates.
THEOREM RivalsAreFlagged == Spec => []HiddenRivalIsFlagged
<1>1. Inv => HiddenRivalIsFlagged
  <2> SUFFICES ASSUME Inv, verdict = "verified", resolution = "found",
                      NEW m \in ToSet(cands), NEW r \in InBucket, Acceptable(m), Acceptable(r)
               PROVE  r.core = m.core
    BY DEF HiddenRivalIsFlagged
  <2>1. r \in Inlines(bucket)
    BY DEF InBucket, Inlines, ToSet
  <2>2. bucket # <<>>
    BY DEF InBucket
  <2>3. locator.mode = "short64" /\ stage = "done" /\ SameCoreIn(Good)
    BY <2>2, VerifiedFacts DEF Inv, Requested
  <2>4. r \in ToSet(cands)
    BY <2>1, <2>3 DEF Inv, Looked, Acceptable
  <2> QED BY <2>3, <2>4 DEF Good, SameCoreIn
<1> QED BY <1>1, VerifierInvariant, PTL

\* In a bucket within the limits, no junk turns the verdict for an acceptable
\* inline row into a failure.
THEOREM JunkIsHarmless == Spec => []JunkCannotHide
<1>1. Inv => JunkCannotHide
  <2> SUFFICES ASSUME Inv, verdict # Undecided, resolution # "error",
                      Len(bucket) <= limits.candidates, Len(bucket) <= limits.fetches,
                      NEW m \in InBucket, Acceptable(m)
               PROVE  verdict \in {"verified", "conflicting_provenance", "ambiguous_multiple_valid"}
    BY DEF JunkCannotHide
  <2>1. m \in Inlines(bucket)
    BY DEF InBucket, Inlines, ToSet
  <2>2. bucket # <<>>
    BY DEF InBucket
  <2>3. locator.mode = "short64" /\ stage = "done" /\ complete
    BY <2>2 DEF Inv, Requested, Decided, Looked
  <2>4. m \in ToSet(cands) /\ Len(cands) <= Len(bucket)
    BY <2>1, <2>3 DEF Inv, Looked, Acceptable
  <2>5. /\ Len(bucket) \in Nat /\ Len(cands) \in Nat
        /\ limits.candidates \in Nat /\ limits.fetches \in Nat
    BY LimitsAssumption DEF Inv, Requested, Typed
  <2>6. Len(cands) <= limits.candidates /\ Len(cands) <= limits.fetches
    BY <2>4, <2>5
  <2>7. cands # <<>> /\ Good # {}
    BY <2>4 DEF Good, ToSet
  <2> QED BY <2>3, <2>6, <2>7, VerdictFacts
<1> QED BY <1>1, VerifierInvariant, PTL

\* An acceptable manifest that one source or field within the cap offers for its
\* FULL160 locator is verified.
THEOREM OneGoodSource == Spec => []OneGoodSourceSuffices
<1>1. Inv => OneGoodSourceSuffices
  <2> SUFFICES ASSUME Inv, verdict # Undecided, locator.mode = "full160",
                      \A n \in Sources : n <= limits.candidates,
                      limits.candidates > 0, limits.fetches > 0,
                      offered, Acceptable(locator.man)
               PROVE  verdict = "verified"
    BY DEF OneGoodSourceSuffices
  <2>1. stage = "done" /\ cands = <<locator.man>>
    BY DEF Inv, Decided, Asked
  <2>2. ToSet(cands) = {locator.man} /\ Len(cands) = 1 /\ cands # <<>>
    BY <2>1 DEF ToSet
  <2>3. limits.candidates \in Nat /\ limits.fetches \in Nat
    BY LimitsAssumption DEF Inv, Requested
  <2>4. Len(cands) <= limits.candidates /\ Len(cands) <= limits.fetches
    BY <2>2, <2>3
  <2>5. Good # {} /\ SameCoreIn(Good)
    BY <2>2 DEF Good, SameCoreIn
  <2> QED BY <2>1, <2>2, <2>4, <2>5, VerdictFacts
<1> QED BY <1>1, VerifierInvariant, PTL

\* A list without duplicates is as long as its set is large.
LEMMA DistinctLength ==
  ASSUME NEW M, NEW seq \in Seq(M), Distinct(seq)
  PROVE  Cardinality(ToSet(seq)) = Len(seq)
<1>1. Len(seq) \in Nat /\ DOMAIN seq = 1..Len(seq)
  OBVIOUS
<1>2. seq \in Bijection(1..Len(seq), ToSet(seq))
  BY <1>1 DEF Bijection, Injection, Surjection, IsInjective, Distinct, ToSet
<1>3. ExistsBijection(1..Len(seq), ToSet(seq))
  BY <1>2 DEF ExistsBijection
<1> QED BY <1>1, <1>3, FS_CountingElements

\* The verdict is a function of the set of candidates.
THEOREM OrderIsIgnored == Spec => []VerdictIgnoresOrder
<1>1. Inv => VerdictIgnoresOrder
  <2> SUFFICES ASSUME Inv, verdict # Undecided PROVE verdict \in VerdictOfSet(ToSet(cands))
    BY DEF VerdictIgnoresOrder
  <2>1. stage = "done" /\ cands \in Seq(Manifests) /\ Distinct(cands) /\ locator \in Locators
    BY DEF Inv, Decided, Requested, Typed
  <2>2. Cardinality(ToSet(cands)) = Len(cands)
    BY <2>1, DistinctLength
  <2> DEFINE S == ToSet(cands)
             signed == {m \in S : Sound(m)}
             failures == {CandidateStatus(m) : m \in S}
             n == Len(cands)
             worst == {s \in failures : \A f \in failures :
                         \E i, j \in DOMAIN FailurePriority :
                           i <= j /\ FailurePriority[i] = s /\ FailurePriority[j] = f}
  <2>3. VerdictOfSet(S) =
          IF n > limits.candidates \/ n > limits.fetches THEN {"resolution_candidate_flood"}
          ELSE IF S = {} THEN {"manifest_not_found", "resolution_error"}
          ELSE IF Good # {}
          THEN IF SameCoreIn(Good) THEN {"verified"}
               ELSE IF Origin("capture", "generation") /\ Origin("generation", "capture")
               THEN {"conflicting_provenance"} ELSE {"ambiguous_multiple_valid"}
          ELSE IF signed # {} THEN {"signed_but_untrusted"} ELSE worst
    BY <2>2 DEF VerdictOfSet, Good, Sound, SameCoreIn, Origin
  <2>4. /\ n \in Nat /\ DOMAIN cands = 1..n /\ limits.candidates \in Nat /\ limits.fetches \in Nat
        /\ (cands = <<>> <=> n = 0) /\ (S = {} <=> n = 0)
    <3>1. n \in Nat /\ DOMAIN cands = 1..n /\ (cands = <<>> <=> n = 0)
      BY <2>1
    <3>2. limits.candidates \in Nat /\ limits.fetches \in Nat
      BY LimitsAssumption DEF Inv, Requested
    <3>3. S = {} <=> DOMAIN cands = {}
      BY DEF ToSet
    <3>4. 1..n = {} <=> n = 0
      BY <3>1
    <3> QED BY <3>1, <3>2, <3>3, <3>4
  <2>5. CASE cands = <<>>
    <3>1. verdict \in {"manifest_not_found", "resolution_error"}
      BY <2>1, <2>4, <2>5 DEF Inv, Decided
    <3>2. ~(n > limits.candidates \/ n > limits.fetches) /\ S = {}
      BY <2>4, <2>5
    <3> QED BY <2>3, <3>1, <3>2
  <2>6. CASE n > limits.candidates \/ n > limits.fetches
    <3>1. cands # <<>> /\ ~(n <= limits.candidates /\ n <= limits.fetches)
      BY <2>4, <2>6
    <3>2. verdict = "resolution_candidate_flood"
      BY <2>1, <3>1 DEF Inv, Decided
    <3> QED BY <2>3, <2>6, <3>2
  <2>7. CASE cands # <<>> /\ n <= limits.candidates /\ n <= limits.fetches
    <3>1. /\ S # {} /\ ~(n > limits.candidates \/ n > limits.fetches)
      BY <2>4, <2>7
    <3>2. verdict =
            IF Good # {}
            THEN IF SameCoreIn(Good) THEN "verified"
                 ELSE IF Origin("capture", "generation") /\ Origin("generation", "capture")
                 THEN "conflicting_provenance" ELSE "ambiguous_multiple_valid"
            ELSE IF signed # {} THEN "signed_but_untrusted"
            ELSE BestFailure(ReportsOf(n))
      BY <2>1, <2>7, VerdictFacts
    <3>3. ASSUME Good = {}, signed = {} PROVE BestFailure(ReportsOf(n)) \in worst
      <4> DEFINE reps == ReportsOf(n)
                 FP == {FailurePriority[j] : j \in DOMAIN FailurePriority}
      <4>1. DOMAIN reps = 1..n /\ \A i \in 1..n : reps[i].status = CandidateStatus(cands[i])
        BY DEF ReportsOf, Report
      <4>2. \A m \in S : CandidateStatus(m) \in FP
        <5>1. S \subseteq Manifests
          BY <2>1 DEF ToSet
        <5> QED BY <2>1, <3>3, <5>1, StatusFacts
      <4>3. failures = {reps[i].status : i \in DOMAIN reps}
        BY <2>4, <4>1 DEF ToSet
      <4>4. \A i \in DOMAIN reps : reps[i].status \in FP
        BY <2>4, <4>1, <4>2 DEF ToSet
      <4>5. DOMAIN reps # {} /\ reps # <<>>
        BY <2>4, <2>7, <4>1
      <4> HIDE DEF reps
      <4>6. /\ BestFailure(reps) \in {reps[i].status : i \in DOMAIN reps}
            /\ \A i \in DOMAIN reps : \E j, k \in DOMAIN FailurePriority :
                 j <= k /\ FailurePriority[j] = BestFailure(reps)
                        /\ FailurePriority[k] = reps[i].status
        BY <4>4, <4>5, BestFailureFacts
      <4> HIDE DEF failures
      <4>7. BestFailure(reps) \in worst
        BY <4>3, <4>6
      <4> QED BY <4>7 DEF reps
    <3> SUFFICES verdict \in VerdictOfSet(S)
      OBVIOUS
    <3> HIDE DEF signed, worst, S
    <3>4. CASE Good # {}
      BY <2>3, <3>1, <3>2, <3>4
    <3>5. CASE Good = {} /\ signed # {}
      BY <2>3, <3>1, <3>2, <3>5
    <3>6. CASE Good = {} /\ signed = {}
      <4>1. VerdictOfSet(S) = worst
        BY <2>3, <3>1, <3>6
      <4>2. verdict = BestFailure(ReportsOf(n))
        BY <3>2, <3>6
      <4> QED BY <3>3, <3>6, <4>1, <4>2
    <3> QED BY <3>4, <3>5, <3>6
  <2> QED BY <2>4, <2>5, <2>6, <2>7 DEF S
<1> QED BY <1>1, VerifierInvariant, PTL
=============================================================================
