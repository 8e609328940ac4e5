---------------------- MODULE WatermarkChannel_proofs ----------------------
(***************************************************************************)
(* Theorems about the rateless watermark.  The solver is exact, for every  *)
(* width and every sequence of rows.  The invariant: the rows taken so far *)
(* and the basis have the same solutions, the row in hand says under the   *)
(* basis what its equation says, and the basis is in reduced form.  A      *)
(* reduced basis has a solution for every choice of the variables that are *)
(* no pivots.  An extraction solves the equations that the tiles of the    *)
(* image are read as, and finds what these determine.                      *)
(***************************************************************************)
EXTENDS WatermarkChannel, FiniteSetTheorems, WellFoundedInduction, TLAPS

(***************************************************************************)
(* Sets of unknowns.                                                       *)
(***************************************************************************)
\* A set of unknowns is finite, and its parity a bit.
LEMMA UnknownsFinite ==
  /\ IsFiniteSet(Unknowns) /\ Cardinality(Unknowns) = Width
  /\ \A S \in SUBSET Unknowns :
       IsFiniteSet(S) /\ Cardinality(S) \in Nat /\ Parity(S) \in {0, 1}
<1>1. IsFiniteSet(Unknowns) /\ Cardinality(Unknowns) = Width
  BY WidthAssumption, FS_Interval DEF Unknowns
<1>2. ASSUME NEW S \in SUBSET Unknowns
      PROVE  IsFiniteSet(S) /\ Cardinality(S) \in Nat /\ Parity(S) \in {0, 1}
  <2>1. IsFiniteSet(S) /\ Cardinality(S) \in Nat
    BY <1>1, FS_Subset, FS_CardinalityType
  <2> DEFINE n == Cardinality(S)
  <2>2. n % 2 \in {0, 1}
    <3> n \in Nat
      BY <2>1
    <3> HIDE DEF n
    <3> QED OBVIOUS
  <2> QED BY <2>1, <2>2 DEF Parity
<1> QED BY <1>1, <1>2

\* The parity of disjoint sets taken together is the sum of their parities.
LEMMA ParityDisjoint ==
  ASSUME NEW A \in SUBSET Unknowns, NEW B \in SUBSET Unknowns, A \cap B = {}
  PROVE  Parity(A \cup B) = (Parity(A) + Parity(B)) % 2
<1>1. IsFiniteSet(A) /\ IsFiniteSet(B) /\ Cardinality(A) \in Nat /\ Cardinality(B) \in Nat
  BY UnknownsFinite
<1>2. Cardinality(A \cup B) = Cardinality(A) + Cardinality(B)
  BY <1>1, FS_Union, FS_EmptySet
<1> DEFINE a == Cardinality(A)  b == Cardinality(B)
<1>3. (a + b) % 2 = ((a % 2) + (b % 2)) % 2
  <2> a \in Nat /\ b \in Nat
    BY <1>1
  <2> HIDE DEF a, b
  <2> QED OBVIOUS
<1> QED BY <1>2, <1>3 DEF Parity

\* The parity of a symmetric difference is the sum of the parities as well.
LEMMA ParityXor ==
  ASSUME NEW A \in SUBSET Unknowns, NEW B \in SUBSET Unknowns
  PROVE  Parity(XorMask(A, B)) = (Parity(A) + Parity(B)) % 2
<1> DEFINE C == A \cap B
<1>1. A = (A \ B) \cup C /\ B = (B \ A) \cup C /\ XorMask(A, B) = (A \ B) \cup (B \ A)
  BY DEF XorMask
<1>2. /\ Parity(A) = (Parity(A \ B) + Parity(C)) % 2
      /\ Parity(B) = (Parity(B \ A) + Parity(C)) % 2
      /\ Parity(XorMask(A, B)) = (Parity(A \ B) + Parity(B \ A)) % 2
  <2>1. Parity((A \ B) \cup C) = (Parity(A \ B) + Parity(C)) % 2
    BY ParityDisjoint
  <2>2. Parity((B \ A) \cup C) = (Parity(B \ A) + Parity(C)) % 2
    BY ParityDisjoint
  <2>3. Parity((A \ B) \cup (B \ A)) = (Parity(A \ B) + Parity(B \ A)) % 2
    BY ParityDisjoint
  <2> QED BY <1>1, <2>1, <2>2, <2>3
<1>3. Parity(A \ B) \in {0, 1} /\ Parity(B \ A) \in {0, 1} /\ Parity(C) \in {0, 1}
  BY UnknownsFinite
<1> QED BY <1>2, <1>3

\* The parity of nothing, and of one unknown.
LEMMA ParitySmall ==
  Parity({}) = 0 /\ \A p : Parity({p}) = 1
BY FS_EmptySet, FS_Singleton DEF Parity

\* The order of the naturals is well-founded.
Below == {ss \in Nat \X Nat : ss[1] < ss[2]}
LEMMA BelowWellFounded == IsWellFoundedOn(Below, Nat)
  BY NatLessThanWellFounded, Zenon DEF OpToRel, Below

\* A non-empty set of naturals has a least element.
LEMMA LeastElement ==
  ASSUME NEW T, T \subseteq Nat, T # {}
  PROVE  \E n \in T : \A m \in T : n <= m
<1>1. PICK n \in T : \A m \in T : ~(<<m, n>> \in Below)
  BY WFMin, BelowWellFounded
<1>2. \A m \in T : ~(m < n)
  BY <1>1 DEF Below
<1> QED BY <1>2

\* A mask with a variable has a highest one.
LEMMA HighestExists ==
  ASSUME NEW S \in SUBSET Unknowns, S # {}
  PROVE  Highest(S) \in S /\ \A q \in S : q <= Highest(S)
<1> DEFINE T == {Width - 1 - p : p \in S}
<1>1. T \subseteq Nat
  BY WidthAssumption DEF Unknowns
<1>2. T # {}
  OBVIOUS
<1>3. PICK n \in T : \A m \in T : n <= m
  <2> HIDE DEF T
  <2> QED BY <1>1, <1>2, LeastElement
<1>4. PICK p \in S : n = Width - 1 - p
  OBVIOUS
<1>5. \A q \in S : q <= p
  <2> TAKE q \in S
  <2>1. n <= Width - 1 - q
    BY <1>3
  <2> QED BY <2>1, <1>4, WidthAssumption DEF Unknowns
<1> QED BY <1>5 DEF Highest

(***************************************************************************)
(* Rows.                                                                   *)
(***************************************************************************)
\* The sum of two rows is a row.
LEMMA XorRow ==
  ASSUME NEW a \in Rows, NEW b \in Rows
  PROVE  Xor(a, b) \in Rows
BY DEF Xor, Rows, XorMask

\* A row that holds can be added without changing what the other one says.
LEMMA HoldsXor ==
  ASSUME NEW a \in Rows, NEW b \in Rows, NEW K \in SUBSET Unknowns, Holds(b, K)
  PROVE  Holds(Xor(a, b), K) <=> Holds(a, K)
<1>1. Xor(a, b).mask \cap K = XorMask(a.mask \cap K, b.mask \cap K)
  BY DEF Xor, XorMask
<1>2. a.mask \cap K \in SUBSET Unknowns /\ b.mask \cap K \in SUBSET Unknowns
  BY DEF Rows
<1>3. Parity(Xor(a, b).mask \cap K) = (Parity(a.mask \cap K) + Parity(b.mask \cap K)) % 2
  BY <1>1, <1>2, ParityXor
<1>4. Parity(a.mask \cap K) \in {0, 1} /\ Parity(b.mask \cap K) \in {0, 1}
  BY <1>2, UnknownsFinite
<1>5. a.rhs \in {0, 1} /\ b.rhs \in {0, 1} /\ Xor(a, b).rhs = (a.rhs + b.rhs) % 2
  BY DEF Rows, Xor
<1> QED BY <1>3, <1>4, <1>5 DEF Holds

(***************************************************************************)
(* The invariant.                                                          *)
(***************************************************************************)
Satisfies(b, K) == \A p \in DOMAIN b : Holds(b[p], K)
Done == IF at = Width THEN seen ELSE seen - 1

SolverTypes ==
  /\ equations \in Seq(Rows) /\ seen \in 0..Len(equations)
  /\ row \in Rows /\ at \in -1..Width /\ inconsistent \in BOOLEAN
  /\ DOMAIN basis \in SUBSET Unknowns /\ \A p \in DOMAIN basis : basis[p] \in Rows
  /\ at < Width => ~inconsistent /\ seen >= 1

\* The rows taken have the solutions of the basis.
SameSolutions ==
  \A K \in SUBSET Unknowns :
    (\A i \in 1..Done : Holds(equations[i], K)) <=> ~inconsistent /\ Satisfies(basis, K)

\* The row in hand stands for its equation.
RowStands ==
  at < Width =>
    \A K \in SUBSET Unknowns :
      Satisfies(basis, K) => (Holds(row, K) <=> Holds(equations[seen], K))

SolverInv == SolverTypes /\ BasisReduced /\ SameSolutions /\ RowStands

\* The values of an empty solver.
LEMMA EmptyTypes ==
  /\ NoRow \in Rows /\ Width \in -1..Width /\ ~(Width < Width) /\ 0 \in 0..0
  /\ <<>> \in Seq(Rows) /\ Len(<<>>) = 0
  /\ \A eqs \in Seq(Rows) : 0 \in 0..Len(eqs)
  /\ DOMAIN <<>> = {} /\ {} \in SUBSET Unknowns
<1>1. NoRow \in Rows
  BY DEF NoRow, Rows
<1>2. Width \in -1..Width /\ ~(Width < Width) /\ 0 \in 0..0
  BY WidthAssumption
<1>3. <<>> \in Seq(Rows) /\ Len(<<>>) = 0 /\ DOMAIN <<>> = {}
  OBVIOUS
<1>4. \A eqs \in Seq(Rows) : 0 \in 0..Len(eqs)
  OBVIOUS
<1> QED BY <1>1, <1>2, <1>3, <1>4

\* An empty solver, at its start or called again.
LEMMA SolveInv ==
  ASSUME NEW eqs \in Seq(Rows), Solve(eqs)
  PROVE  SolverInv'
<1>1. SolverTypes'
  BY EmptyTypes DEF Solve, SolverTypes
<1>2. BasisReduced'
  BY WidthAssumption DEF Solve, BasisReduced
<1>3. SameSolutions' /\ RowStands'
  BY WidthAssumption DEF Solve, SameSolutions, RowStands, Satisfies, Done
<1> QED BY <1>1, <1>2, <1>3 DEF SolverInv

\* The solver starts empty.
LEMMA IdleInv == SolverIdle => SolverInv
<1> SUFFICES ASSUME SolverIdle PROVE SolverInv
  OBVIOUS
<1>1. SolverTypes
  BY EmptyTypes DEF SolverIdle, SolverTypes
<1>2. BasisReduced
  BY WidthAssumption DEF SolverIdle, BasisReduced
<1>3. SameSolutions /\ RowStands
  BY WidthAssumption DEF SolverIdle, SameSolutions, RowStands, Satisfies, Done
<1> QED BY <1>1, <1>2, <1>3 DEF SolverInv

\* A row is taken from the system.
LEMMA TakeInv ==
  ASSUME SolverInv, TakeEquation
  PROVE  SolverInv'
<1> USE DEF SolverInv, TakeEquation
<1>1. SolverTypes'
  BY WidthAssumption DEF SolverTypes
<1>2. BasisReduced'
  <2>1. \A p \in DOMAIN basis : ~(p > Width - 1)
    BY WidthAssumption DEF SolverTypes, Unknowns
  <2> QED BY <2>1 DEF BasisReduced
<1>3. Done' = Done
  BY WidthAssumption DEF Done, SolverTypes
<1>4. SameSolutions' /\ RowStands'
  BY <1>3, WidthAssumption DEF SameSolutions, RowStands, Satisfies
<1> QED BY <1>1, <1>2, <1>4

\* A pivot is taken out of the row in hand.
LEMMA ReduceInv ==
  ASSUME SolverInv, ReduceByPivot
  PROVE  SolverInv'
<1> USE DEF SolverInv, ReduceByPivot
<1>0. at \in 0..(Width - 1) /\ at < Width /\ at - 1 \in -1..Width /\ at - 1 < Width
  BY WidthAssumption DEF Unknowns
<1>1. Reduced \in Rows
  BY XorRow DEF Reduced, SolverTypes
<1>2. SolverTypes'
  BY <1>0, <1>1 DEF SolverTypes
<1>3. BasisReduced'
  <2>1. ASSUME NEW p \in DOMAIN basis, p > at - 1 PROVE p \notin Reduced.mask
    <3>0. p \in Int /\ (p = at \/ p > at)
      BY <1>0, <2>1 DEF SolverTypes, Unknowns
    <3>1. CASE at \in DOMAIN basis /\ at \in row.mask
      <4>1. Reduced.mask = XorMask(row.mask, basis[at].mask)
        BY <3>1 DEF Reduced, Xor
      <4>2. CASE p = at
        BY <3>1, <4>1, <4>2 DEF BasisReduced, XorMask
      <4>3. CASE p > at
        <5>1. p # at
          BY <4>3, <3>0, <1>0
        <5>2. p \notin row.mask /\ p \notin basis[at].mask
          BY <1>0, <3>1, <4>3, <5>1 DEF BasisReduced
        <5> QED BY <4>1, <5>2 DEF XorMask
      <4> QED BY <3>0, <4>2, <4>3
    <3>2. CASE ~(at \in DOMAIN basis /\ at \in row.mask)
      BY <1>0, <3>0, <3>2 DEF Reduced, BasisReduced
    <3> QED BY <3>1, <3>2
  <2> QED BY <1>0, <2>1 DEF BasisReduced
<1>4. Done' = Done
  BY <1>0, WidthAssumption DEF Done
<1>5. SameSolutions'
  BY <1>4 DEF SameSolutions, Satisfies
<1>6. RowStands'
  <2> SUFFICES ASSUME NEW K \in SUBSET Unknowns, Satisfies(basis, K)
               PROVE  Holds(Reduced, K) <=> Holds(equations[seen], K)
    BY <1>0 DEF RowStands, Satisfies
  <2>1. Holds(row, K) <=> Holds(equations[seen], K)
    BY <1>0 DEF RowStands
  <2>2. Holds(Reduced, K) <=> Holds(row, K)
    BY HoldsXor DEF Reduced, Satisfies, SolverTypes
  <2> QED BY <2>1, <2>2
<1> QED BY <1>2, <1>3, <1>5, <1>6

\* The rows taken are those before the one in hand, and that one.
LEMMA LastOfDone ==
  ASSUME SolverInv, at < Width, NEW K \in SUBSET Unknowns
  PROVE  (\A i \in 1..seen : Holds(equations[i], K))
           <=> Satisfies(basis, K) /\ Holds(row, K)
<1>1. /\ at # Width /\ ~inconsistent /\ seen \in Nat /\ seen >= 1
      /\ Done = seen - 1
  BY WidthAssumption DEF SolverInv, SolverTypes, Done
<1>2. (\A i \in 1..seen : Holds(equations[i], K))
        <=> (\A i \in 1..(seen - 1) : Holds(equations[i], K)) /\ Holds(equations[seen], K)
  <2>1. 1..seen = 1..(seen - 1) \cup {seen}
    BY <1>1
  <2> QED BY <2>1
<1>3. (\A i \in 1..(seen - 1) : Holds(equations[i], K)) <=> Satisfies(basis, K)
  BY <1>1 DEF SolverInv, SameSolutions
<1>4. Satisfies(basis, K) => (Holds(row, K) <=> Holds(equations[seen], K))
  BY DEF SolverInv, RowStands
<1> QED BY <1>2, <1>3, <1>4

\* Nothing is left of the row in hand.
LEMMA DropInv ==
  ASSUME SolverInv, DropRow
  PROVE  SolverInv'
<1>0. at = -1 /\ at < Width /\ at' = Width /\ ~(at' < Width) /\ Done' = seen
  BY WidthAssumption DEF DropRow, Done
<1>1. SolverTypes'
  <2>1. at' \in -1..Width
    BY <1>0, WidthAssumption
  <2>2. inconsistent' \in BOOLEAN
    BY DEF SolverInv, DropRow, SolverTypes
  <2> QED BY <1>0, <2>1, <2>2 DEF SolverInv, DropRow, SolverTypes
<1>2. BasisReduced' /\ RowStands'
  BY <1>0 DEF SolverInv, DropRow, BasisReduced, RowStands
<1>3. SameSolutions'
  <2> SUFFICES ASSUME NEW K \in SUBSET Unknowns
               PROVE  (\A i \in 1..seen : Holds(equations[i], K))
                        <=> ~inconsistent' /\ Satisfies(basis, K)
    BY <1>0 DEF SameSolutions, DropRow, Satisfies
  <2>1. Holds(row, K) <=> row.rhs = 0
    <3>1. row.mask \cap K = {}
      BY DEF DropRow
    <3> QED BY <3>1, ParitySmall DEF Holds
  <2>2. row.rhs \in {0, 1} /\ ~inconsistent
    BY <1>0 DEF SolverInv, SolverTypes, Rows
  <2>3. inconsistent' <=> row.rhs = 1
    BY <2>2 DEF DropRow
  <2> QED BY <1>0, <2>1, <2>2, <2>3, LastOfDone
<1> QED BY <1>1, <1>2, <1>3 DEF SolverInv

\* The row in hand joins the basis, and its pivot leaves the other rows.
LEMMA KeepInv ==
  ASSUME SolverInv, KeepRow
  PROVE  SolverInv'
<1> DEFINE pivot == Highest(row.mask)
<1>0. at = -1 /\ at < Width /\ at' = Width /\ ~(at' < Width) /\ Done' = seen
  BY WidthAssumption DEF KeepRow, Done
<1>1. /\ pivot \in row.mask /\ \A q \in row.mask : q <= pivot
      /\ row \in Rows /\ row.mask \in SUBSET Unknowns
  BY HighestExists DEF KeepRow, SolverInv, SolverTypes, Rows
<1> HIDE DEF pivot
<1>2. \A p \in DOMAIN basis : p \notin row.mask
  <2> TAKE p \in DOMAIN basis
  <2>1. p > -1
    BY DEF SolverInv, SolverTypes, Unknowns
  <2> QED BY <1>0, <2>1 DEF SolverInv, BasisReduced
<1>3. pivot \notin DOMAIN basis
  BY <1>1, <1>2
<1>4. /\ DOMAIN basis' = DOMAIN basis \cup {pivot} /\ basis'[pivot] = row
      /\ \A p \in DOMAIN basis :
           basis'[p] = IF pivot \in basis[p].mask THEN Xor(basis[p], row) ELSE basis[p]
  BY <1>3 DEF KeepRow, Inserted, pivot
<1>5. \A p \in DOMAIN basis : basis[p] \in Rows /\ basis'[p] \in Rows
  BY <1>1, <1>4, XorRow DEF SolverInv, SolverTypes
<1>6. SolverTypes'
  <2>1. DOMAIN basis' \in SUBSET Unknowns /\ \A p \in DOMAIN basis' : basis'[p] \in Rows
    BY <1>1, <1>4, <1>5 DEF SolverInv, SolverTypes
  <2> QED BY <1>0, <2>1, WidthAssumption DEF SolverInv, SolverTypes, KeepRow
<1>7. BasisReduced'
  <2>1. ASSUME NEW p \in DOMAIN basis
        PROVE  p \in basis'[p].mask /\ \A q \in basis'[p].mask : q <= p
    <3>1. p \in basis[p].mask /\ (\A q \in basis[p].mask : q <= p) /\ p \notin row.mask
      BY <1>2 DEF SolverInv, BasisReduced
    <3>2. CASE pivot \in basis[p].mask
      <4>1. basis'[p].mask = XorMask(basis[p].mask, row.mask) /\ pivot <= p
        BY <1>4, <3>1, <3>2 DEF Xor
      <4>2. ASSUME NEW q \in row.mask PROVE q <= p
        <5>1. q <= pivot /\ q \in Int /\ pivot \in Int /\ p \in Int
          BY <1>1 DEF SolverInv, SolverTypes, Unknowns
        <5> QED BY <4>1, <5>1
      <4> QED BY <3>1, <4>1, <4>2 DEF XorMask
    <3>3. CASE pivot \notin basis[p].mask
      BY <1>4, <3>1, <3>3
    <3> QED BY <3>2, <3>3
  <2>2. ASSUME NEW p \in DOMAIN basis, NEW q \in DOMAIN basis, p # q
        PROVE  p \notin basis'[q].mask
    <3>1. p \notin basis[q].mask /\ p \notin row.mask
      BY <1>2, <2>2 DEF SolverInv, BasisReduced
    <3> QED BY <1>4, <3>1 DEF Xor, XorMask
  <2>3. ASSUME NEW q \in DOMAIN basis PROVE pivot \notin basis'[q].mask
    BY <1>1, <1>4 DEF Xor, XorMask
  <2>4. \A p \in DOMAIN basis' : p \in basis'[p].mask /\ \A q \in basis'[p].mask : q <= p
    BY <1>1, <1>4, <2>1
  <2>5. \A p \in DOMAIN basis' : \A q \in DOMAIN basis' \ {p} : p \notin basis'[q].mask
    BY <1>2, <1>4, <2>2, <2>3
  <2> QED BY <1>0, <2>4, <2>5 DEF BasisReduced
<1>8. SameSolutions'
  <2> SUFFICES ASSUME NEW K \in SUBSET Unknowns
               PROVE  (\A i \in 1..seen : Holds(equations[i], K))
                        <=> ~inconsistent /\ Satisfies(basis', K)
    BY <1>0 DEF SameSolutions, KeepRow
  <2>1. Satisfies(basis', K) <=> Holds(row, K) /\ \A p \in DOMAIN basis : Holds(basis'[p], K)
    BY <1>4 DEF Satisfies
  <2>2. ASSUME Holds(row, K), NEW p \in DOMAIN basis
        PROVE  Holds(basis'[p], K) <=> Holds(basis[p], K)
    BY <1>1, <1>4, <1>5, <2>2, HoldsXor
  <2>3. ~inconsistent
    BY <1>0 DEF SolverInv, SolverTypes
  <2>4. Satisfies(basis', K) <=> Holds(row, K) /\ Satisfies(basis, K)
    BY <2>1, <2>2 DEF Satisfies
  <2> QED BY <1>0, <2>3, <2>4, LastOfDone
<1>9. RowStands'
  BY <1>0 DEF RowStands
<1> QED BY <1>6, <1>7, <1>8, <1>9 DEF SolverInv

\* Every run of the solver keeps the invariant.
LEMMA SolverInvariance == SolverSpec => []SolverInv
<1>1. SolverInv /\ [SolverStep \/ (equations' \in Seq(Rows) /\ Solve(equations'))]_solverVars
        => SolverInv'
  <2> SUFFICES ASSUME SolverInv,
                      [SolverStep \/ (equations' \in Seq(Rows) /\ Solve(equations'))]_solverVars
               PROVE  SolverInv'
    OBVIOUS
  <2>1. CASE TakeEquation
    BY <2>1, TakeInv
  <2>2. CASE ReduceByPivot
    BY <2>2, ReduceInv
  <2>3. CASE DropRow
    BY <2>3, DropInv
  <2>4. CASE KeepRow
    BY <2>4, KeepInv
  <2>5. CASE equations' \in Seq(Rows) /\ Solve(equations')
    BY <2>5, SolveInv
  <2>6. CASE UNCHANGED solverVars
    BY <2>6 DEF solverVars, SolverInv, SolverTypes, BasisReduced, SameSolutions, RowStands,
                Satisfies, Done
  <2> QED BY <2>1, <2>2, <2>3, <2>4, <2>5, <2>6 DEF SolverStep
<1> QED BY <1>1, IdleInv, PTL DEF SolverSpec

(***************************************************************************)
(* What the invariant says of a finished solver.                           *)
(***************************************************************************)
\* The key with the free variables of G, and the pivots they call for.
KeyWith(G) == G \cup {p \in DOMAIN basis : Parity(basis[p].mask \cap G) # basis[p].rhs}

\* Whatever the free variables are, the pivots can be chosen to solve the basis.
LEMMA FreeChoice ==
  ASSUME SolverInv, NEW G \in SUBSET (Unknowns \ DOMAIN basis)
  PROVE  KeyWith(G) \in SUBSET Unknowns /\ Satisfies(basis, KeyWith(G))
<1>1. KeyWith(G) \in SUBSET Unknowns
  BY DEF KeyWith, SolverInv, SolverTypes
<1>2. ASSUME NEW p \in DOMAIN basis PROVE Holds(basis[p], KeyWith(G))
  <2> DEFINE free == basis[p].mask \cap G
             own == {p} \cap KeyWith(G)
  <2>1. basis[p] \in Rows /\ basis[p].mask \in SUBSET Unknowns /\ basis[p].rhs \in {0, 1}
    BY DEF SolverInv, SolverTypes, Rows
  <2>2. p \in basis[p].mask /\ \A q \in DOMAIN basis : q \in basis[p].mask => q = p
    BY DEF SolverInv, BasisReduced
  <2>3. basis[p].mask \cap KeyWith(G) = own \cup free /\ own \cap free = {}
    BY <2>2 DEF KeyWith
  <2>4. Parity(own \cup free) = (Parity(own) + Parity(free)) % 2
    BY <1>1, <2>1, <2>3, ParityDisjoint
  <2>5. Parity(free) \in {0, 1}
    BY <2>1, UnknownsFinite
  <2>6. CASE Parity(free) = basis[p].rhs
    <3>1. own = {}
      BY <2>6 DEF KeyWith
    <3> QED BY <2>3, <2>4, <2>5, <2>6, <3>1, ParitySmall DEF Holds
  <2>7. CASE Parity(free) # basis[p].rhs
    <3>1. own = {p}
      BY <2>7 DEF KeyWith
    <3>2. Parity(own) = 1
      BY <3>1, ParitySmall
    <3>3. Parity(own \cup free) = basis[p].rhs
      <4> HIDE DEF own, free
      <4> QED BY <2>1, <2>4, <2>5, <2>7, <3>2
    <3> QED BY <2>3, <3>3 DEF Holds
  <2> QED BY <2>6, <2>7
<1> QED BY <1>1, <1>2 DEF Satisfies

\* The solution read off the right-hand sides is that of no free variables.
LEMMA SolutionIsKey ==
  ASSUME SolverInv
  PROVE  Solution = KeyWith({})
<1>1. \A p \in DOMAIN basis : basis[p].rhs \in {0, 1}
  BY DEF SolverInv, SolverTypes, Rows
<1>2. \A p \in DOMAIN basis : Parity(basis[p].mask \cap {}) = 0
  BY ParitySmall
<1> QED BY <1>1, <1>2 DEF Solution, KeyWith

\* The rank is full if every unknown is a pivot.
LEMMA FullRank ==
  ASSUME SolverInv
  PROVE  Rank = Width <=> DOMAIN basis = Unknowns
<1>1. DOMAIN basis \in SUBSET Unknowns
  BY DEF SolverInv, SolverTypes
<1> QED BY <1>1, UnknownsFinite, FS_Subset DEF Rank

\* A full basis has one solution.
LEMMA FullIsUnique ==
  ASSUME SolverInv, DOMAIN basis = Unknowns,
         NEW K \in SUBSET Unknowns, Satisfies(basis, K)
  PROVE  K = Solution
<1>1. ASSUME NEW p \in Unknowns PROVE p \in K <=> basis[p].rhs = 1
  <2>1. basis[p].mask = {p} /\ basis[p].rhs \in {0, 1}
    BY DEF SolverInv, SolverTypes, Rows, BasisReduced
  <2>2. Parity({p} \cap K) = basis[p].rhs
    BY <2>1 DEF Satisfies, Holds
  <2>3. CASE p \in K
    <3>1. {p} \cap K = {p}
      BY <2>3
    <3> QED BY <2>2, <2>3, <3>1, ParitySmall
  <2>4. CASE p \notin K
    <3>1. {p} \cap K = {}
      BY <2>4
    <3>2. basis[p].rhs = 0
      BY <2>2, <3>1, ParitySmall
    <3> QED BY <2>4, <3>2
  <2> QED BY <2>3, <2>4
<1> QED BY <1>1 DEF Solution

\* A finished solver that met no contradiction has the solutions of the system.
LEMMA FinishedSolves ==
  ASSUME SolverInv, Finished, ~inconsistent, NEW K \in SUBSET Unknowns
  PROVE  Solves(K) <=> Satisfies(basis, K)
<1>1. Done = Len(equations) /\ DOMAIN equations = 1..Len(equations)
  BY DEF SolverInv, SolverTypes, Finished, Done
<1> QED BY <1>1 DEF SolverInv, SameSolutions, Solves

\* The invariant makes a finished solver exact.
LEMMA InvExact == SolverInv => SolverIsExact
<1> SUFFICES ASSUME SolverInv, Finished
             PROVE  /\ inconsistent <=> \A key \in SUBSET Unknowns : ~Solves(key)
                    /\ Solved <=> \E key \in SUBSET Unknowns :
                         Solves(key) /\ \A other \in SUBSET Unknowns : Solves(other) => other = key
                    /\ Solved => Solves(Solution)
  BY DEF SolverIsExact
<1>1. CASE inconsistent
  <2>1. ASSUME NEW K \in SUBSET Unknowns PROVE ~Solves(K)
    <3>1. Done \in 0..Len(equations) /\ DOMAIN equations = 1..Len(equations)
      BY DEF SolverInv, SolverTypes, Finished, Done
    <3>2. ~\A i \in 1..Done : Holds(equations[i], K)
      BY <1>1 DEF SolverInv, SameSolutions
    <3> QED BY <3>1, <3>2 DEF Solves
  <2> QED BY <1>1, <2>1 DEF Solved
<1>2. CASE ~inconsistent
  <2>1. Solution \in SUBSET Unknowns /\ Solves(Solution)
    <3>1. KeyWith({}) \in SUBSET Unknowns /\ Satisfies(basis, KeyWith({}))
      BY FreeChoice
    <3> QED BY <1>2, <3>1, SolutionIsKey, FinishedSolves
  <2>2. Solved <=> DOMAIN basis = Unknowns
    BY <1>2, FullRank DEF Solved
  <2>3. CASE DOMAIN basis = Unknowns
    <3>1. \A other \in SUBSET Unknowns : Solves(other) => other = Solution
      BY <1>2, <2>3, FinishedSolves, FullIsUnique
    <3> QED BY <1>2, <2>1, <2>2, <2>3, <3>1
  <2>4. CASE DOMAIN basis # Unknowns
    <3>1. PICK f \in Unknowns : f \notin DOMAIN basis
      BY <2>4 DEF SolverInv, SolverTypes
    <3>2. /\ KeyWith({f}) \in SUBSET Unknowns /\ Satisfies(basis, KeyWith({f}))
          /\ f \in KeyWith({f}) /\ f \notin Solution
      BY <3>1, FreeChoice DEF KeyWith, Solution
    <3>3. Solves(KeyWith({f})) /\ KeyWith({f}) # Solution
      BY <1>2, <3>2, FinishedSolves
    <3> QED BY <1>2, <2>1, <2>2, <2>4, <3>2, <3>3
  <2> QED BY <2>3, <2>4
<1> QED BY <1>1, <1>2

\* The solver is exact: inconsistent, solved and the solution mean what they
\* say, for every width and every system of rows.
THEOREM AlwaysExact == SolverSpec => []SolverIsExact
BY SolverInvariance, InvExact, PTL

\* The basis is in reduced form after every step.
THEOREM AlwaysReduced == SolverSpec => []BasisReduced
<1>1. SolverInv => BasisReduced
  BY DEF SolverInv
<1> QED BY <1>1, SolverInvariance, PTL

(***************************************************************************)
(* Folds.  What a fold goes through stays in a set that its step does not  *)
(* leave; it is unrolled over the subsets of the domain.                   *)
(***************************************************************************)
\* What holds of 0, and of each number up to n when it holds of the one
\* before, holds up to n.
LEMMA UpTo ==
  ASSUME NEW n \in Nat, NEW S, 0 \in S, \A i \in 1..n : i - 1 \in S => i \in S
  PROVE  \A i \in 0..n : i \in S
<1> DEFINE T == {i \in 0..n : i \notin S}
<1>1. SUFFICES ASSUME T # {} PROVE FALSE
  OBVIOUS
<1>2. PICK i \in T : \A j \in T : i <= j
  <2>1. T \subseteq Nat /\ T # {}
    BY <1>1
  <2> HIDE DEF T
  <2> QED BY <2>1, LeastElement
<1>3. \A j \in T : ~(j < i)
  BY <1>2
<1>4. i \in 1..n /\ i - 1 \in 0..n /\ i - 1 < i
  BY <1>2
<1>5. i - 1 \in S
  BY <1>3, <1>4
<1> QED BY <1>2, <1>4, <1>5

(***************************************************************************)
(* The recursion behind FoldLeft: over the subsets of the domain, each one *)
(* without its last element.                                               *)
(***************************************************************************)
Iterates(g, V, b, F, m) ==
  /\ g \in [SUBSET (1..m) -> V]
  /\ \A s \in SUBSET (1..m) :
       g[s] = IF s = {} THEN b ELSE F[<<g[s \ {Max(s)}], Max(s)>>]

\* The maximum of a set that holds its bound.
LEMMA MaxIsLast ==
  ASSUME NEW m \in Nat, NEW s \in SUBSET (1..m), m \in s
  PROVE  Max(s) = m
<1>1. \A y \in s : m >= y /\ y \in Nat
  OBVIOUS
<1>2. \E x \in s : \A y \in s : x >= y
  BY <1>1
<1>3. Max(s) \in s /\ \A y \in s : Max(s) >= y
  BY <1>2 DEF Max
<1>4. Max(s) >= m /\ m >= Max(s) /\ Max(s) \in Nat
  BY <1>1, <1>3
<1> HIDE DEF Max
<1> QED BY <1>4

\* Such a recursion has a solution.
LEMMA Iteration ==
  ASSUME NEW V, NEW b \in V, NEW n \in Nat, NEW F \in [V \X (1..n) -> V]
  PROVE  \E g : Iterates(g, V, b, F, n)
<1> DEFINE T == {m \in 0..n : \E g : Iterates(g, V, b, F, m)}
<1>1. 0 \in T
  <2> DEFINE g == [s \in SUBSET (1..0) |-> b]
  <2>1. \A s \in SUBSET (1..0) : s = {}
    OBVIOUS
  <2>2. Iterates(g, V, b, F, 0)
    BY <2>1 DEF Iterates
  <2> QED BY <2>2
<1>2. ASSUME NEW k \in 1..n, k - 1 \in T PROVE k \in T
  <2>1. PICK f : Iterates(f, V, b, F, k - 1)
    BY <1>2
  <2> DEFINE g == [s \in SUBSET (1..k) |->
                     IF s \subseteq 1..(k - 1) THEN f[s] ELSE F[<<f[s \ {k}], k>>]]
  <2>2. \A s \in SUBSET (1..k) :
          \/ s \subseteq 1..(k - 1)
          \/ k \in s /\ s # {} /\ s \ {k} \in SUBSET (1..(k - 1)) /\ Max(s) = k
    BY MaxIsLast
  <2>3. g \in [SUBSET (1..k) -> V]
    BY <2>1, <2>2 DEF Iterates
  <2>4. ASSUME NEW s \in SUBSET (1..k)
        PROVE  g[s] = IF s = {} THEN b ELSE F[<<g[s \ {Max(s)}], Max(s)>>]
    <3>1. CASE s \subseteq 1..(k - 1)
      <4>1. g[s] = f[s] /\ s \in SUBSET (1..(k - 1))
        BY <3>1
      <4>2. s \ {Max(s)} \in SUBSET (1..(k - 1)) /\ s \ {Max(s)} \in SUBSET (1..k)
        BY <3>1
      <4>3. g[s \ {Max(s)}] = f[s \ {Max(s)}]
        BY <4>2
      <4> QED BY <2>1, <4>1, <4>3 DEF Iterates
    <3>2. CASE k \in s /\ s # {} /\ s \ {k} \in SUBSET (1..(k - 1)) /\ Max(s) = k
      <4>1. s \ {k} \in SUBSET (1..k) /\ ~(s \subseteq 1..(k - 1))
        BY <3>2
      <4>2. g[s \ {k}] = f[s \ {k}]
        BY <3>2, <4>1
      <4>3. g[s] = F[<<f[s \ {k}], k>>]
        BY <4>1
      <4> QED BY <3>2, <4>2, <4>3
    <3> QED BY <2>2, <3>1, <3>2
  <2> HIDE DEF g
  <2>5. Iterates(g, V, b, F, k)
    BY <2>3, <2>4 DEF Iterates
  <2> QED BY <2>5
<1>3. n \in T
  <2> HIDE DEF T
  <2>1. \A i \in 0..n : i \in T
    BY <1>1, <1>2, UpTo
  <2> QED BY <2>1
<1> QED BY <1>3

\* The prefixes of a domain, without their last elements.
LEMMA PrefixSets ==
  ASSUME NEW n \in Nat, NEW i \in 1..n
  PROVE  /\ 1..i \in SUBSET (1..n) /\ 1..i # {} /\ Max(1..i) = i
         /\ (1..i) \ {i} = 1..(i - 1)
<1>1. Max(1..i) = i
  BY MaxIsLast
<1> QED BY <1>1

\* A bounded non-empty set has a maximum.
LEMMA MaxOf ==
  ASSUME NEW n \in Nat, NEW s \in SUBSET (1..n), s # {}
  PROVE  Max(s) \in s
<1> DEFINE T == {m \in 0..n : \A t \in SUBSET (1..m) :
                                t # {} => \E x \in t : \A y \in t : x >= y}
<1>1. 0 \in T
  <2>1. \A t \in SUBSET (1..0) : t = {}
    OBVIOUS
  <2>2. \A t \in SUBSET (1..0) : t # {} => \E x \in t : \A y \in t : x >= y
    BY <2>1
  <2> QED BY <2>2
<1>2. ASSUME NEW m \in 1..n, m - 1 \in T PROVE m \in T
  <2> SUFFICES ASSUME NEW t \in SUBSET (1..m), t # {}
               PROVE  \E x \in t : \A y \in t : x >= y
    OBVIOUS
  <2>1. CASE m \in t
    BY <2>1
  <2>2. CASE m \notin t
    <3>1. t \in SUBSET (1..(m - 1))
      BY <2>2
    <3> QED BY <1>2, <3>1
  <2> QED BY <2>1, <2>2
<1>3. n \in T
  <2> HIDE DEF T
  <2>1. \A i \in 0..n : i \in T
    BY <1>1, <1>2, UpTo
  <2> QED BY <2>1
<1>4. \E x \in s : \A y \in s : x >= y
  BY <1>3
<1> QED BY <1>4 DEF Max

\* What a fold returns is in a set that holds the base and that a step from a
\* member of it leads back into.
LEMMA FoldStays ==
  ASSUME NEW V, NEW b \in V, NEW n \in Nat, NEW F \in [V \X (1..n) -> V], NEW fold,
         fold[{}] = b,
         \A s \in SUBSET (1..n) :
           s # {} /\ fold[s \ {Max(s)}] \in V => fold[s] = F[<<fold[s \ {Max(s)}], Max(s)>>]
  PROVE  fold[1..n] \in V
<1> DEFINE T == {i \in 0..n : fold[1..i] \in V}
<1>1. 0 \in T
  <2>1. 1..0 = {}
    OBVIOUS
  <2> QED BY <2>1
<1>2. ASSUME NEW i \in 1..n, i - 1 \in T PROVE i \in T
  <2>1. /\ 1..i \in SUBSET (1..n) /\ 1..i # {}
        /\ Max(1..i) = i /\ (1..i) \ {i} = 1..(i - 1)
    BY PrefixSets
  <2>2. fold[1..(i - 1)] \in V
    BY <1>2
  <2>3. fold[1..i] = F[<<fold[1..(i - 1)], i>>]
    BY <2>1, <2>2
  <2> QED BY <2>2, <2>3
<1> HIDE DEF T
<1>3. n \in T
  <2>1. \A i \in 0..n : i \in T
    BY <1>1, <1>2, UpTo
  <2> QED BY <2>1
<1> QED BY <1>3 DEF T

\* A sequence of bits spells a natural number.
LEMMA BitsToIntNat ==
  ASSUME NEW n \in Nat, NEW bits \in [1..n -> {0, 1}]
  PROVE  BitsToInt(bits) \in Nat
<1> DEFINE D == DOMAIN bits
           Step(v, x) == 2 * v + x
           Eq(g) == g = [s \in SUBSET D |->
                           IF s = {} THEN 0 ELSE Step(g[s \ {Max(s)}], bits[Max(s)])]
           fold == CHOOSE g : Eq(g)
           F == [p \in Nat \X (1..n) |-> Step(p[1], bits[p[2]])]
<1>0. D = 1..n /\ \A v \in Nat, i \in 1..n : Step(v, bits[i]) \in Nat
  OBVIOUS
<1>1. BitsToInt(bits) = fold[D]
  BY DEF BitsToInt, FoldLeft, MapThenFoldSet
<1> HIDE DEF Step, D
<1>2. F \in [Nat \X (1..n) -> Nat]
  BY <1>0
<1>3. \A s \in SUBSET (1..n) : s # {} => Max(s) \in 1..n /\ s \ {Max(s)} \in SUBSET (1..n)
  BY MaxOf
<1>4. \A v \in Nat, i \in 1..n : F[<<v, i>>] = Step(v, bits[i])
  OBVIOUS
<1> HIDE DEF F
<1>5. \E g : Eq(g)
  <2>1. PICK g : Iterates(g, Nat, 0, F, n)
    BY <1>2, Iteration
  <2>2. \A s \in SUBSET (1..n) : s # {} => g[s \ {Max(s)}] \in Nat
    BY <1>3, <2>1 DEF Iterates
  <2>3. g = [s \in SUBSET (1..n) |->
               IF s = {} THEN 0 ELSE Step(g[s \ {Max(s)}], bits[Max(s)])]
    BY <1>3, <1>4, <2>1, <2>2 DEF Iterates
  <2> QED BY <1>0, <2>3
<1>6. Eq(fold)
  <2> HIDE DEF Eq
  <2> QED BY <1>5
<1> HIDE DEF fold
<1>7. fold[{}] = 0
  BY <1>6
<1>8. ASSUME NEW s \in SUBSET (1..n), s # {}, fold[s \ {Max(s)}] \in Nat
      PROVE  fold[s] = F[<<fold[s \ {Max(s)}], Max(s)>>]
  <2>1. fold[s] = Step(fold[s \ {Max(s)}], bits[Max(s)])
    BY <1>0, <1>6, <1>8
  <2> QED BY <1>3, <1>4, <1>8, <2>1
<1> HIDE DEF Eq
<1>9. fold[1..n] \in Nat
  <2> DEFINE V == Nat
             b == 0
  <2>1. \A s \in SUBSET (1..n) :
          s # {} /\ fold[s \ {Max(s)}] \in V => fold[s] = F[<<fold[s \ {Max(s)}], Max(s)>>]
    BY <1>8
  <2>2. b \in V /\ F \in [V \X (1..n) -> V] /\ fold[{}] = b
    BY <1>2, <1>7
  <2> HIDE DEF V, b
  <2>3. fold[1..n] \in V
    BY <2>1, <2>2, FoldStays
  <2> QED BY <2>3 DEF V
<1> QED BY <1>0, <1>1, <1>9

(***************************************************************************)
(* Records.                                                                *)
(***************************************************************************)
\* A checksum is as long as its polynomial.
Registers == {r \in Seq({0, 1}) : Len(r) = CrcBits}

LEMMA ShiftStays == ASSUME NEW r \in Registers, NEW bit PROVE CrcShift(r, bit) \in Registers
<1> DEFINE shifted == Append(Tail(r), 0)
<1>1. CrcPoly \in Seq({0, 1}) /\ CrcPoly # <<>>
  BY FieldAssumption
<1>2. CrcBits \in Nat \ {0} /\ CrcPoly \in [1..CrcBits -> {0, 1}]
  BY <1>1 DEF CrcBits
<1>3. r \in Seq({0, 1}) /\ Len(r) = CrcBits
  BY DEF Registers
<1>4. Tail(r) \in Seq({0, 1}) /\ Len(Tail(r)) = CrcBits - 1
  BY <1>2, <1>3
<1>5. shifted \in Seq({0, 1}) /\ Len(shifted) = CrcBits
  BY <1>2, <1>4
<1> HIDE DEF shifted
<1>6. shifted \in [1..CrcBits -> {0, 1}]
  BY <1>5
<1>7. XorBits(shifted, CrcPoly) \in [1..CrcBits -> {0, 1}]
  <2>1. \A a, b \in {0, 1} : (a + b) % 2 \in {0, 1}
    OBVIOUS
  <2>2. \A i \in 1..CrcBits : shifted[i] \in {0, 1} /\ CrcPoly[i] \in {0, 1}
    BY <1>2, <1>6
  <2>3. \A i \in 1..CrcBits : (shifted[i] + CrcPoly[i]) % 2 \in {0, 1}
    BY <2>1, <2>2
  <2>4. XorBits(shifted, CrcPoly) = [i \in 1..CrcBits |-> (shifted[i] + CrcPoly[i]) % 2]
    BY <1>6 DEF XorBits
  <2> QED BY <2>3, <2>4
<1>8. XorBits(shifted, CrcPoly) \in Registers
  <2> DEFINE x == XorBits(shifted, CrcPoly)
  <2> HIDE DEF x
  <2>1. x \in [1..CrcBits -> {0, 1}]
    BY <1>7 DEF x
  <2>2. x \in Seq({0, 1}) /\ Len(x) = CrcBits
    BY <1>2, <2>1
  <2> QED BY <2>2 DEF Registers, x
<1>9. CrcShift(r, bit) \in {shifted, XorBits(shifted, CrcPoly)}
  BY DEF CrcShift, shifted
<1> QED BY <1>5, <1>8, <1>9 DEF Registers

LEMMA CrcStays ==
  ASSUME NEW n \in Nat, NEW bits, DOMAIN bits = 1..n
  PROVE  Crc(bits) \in Registers
<1> DEFINE D == DOMAIN bits
           V == Registers
           b == [i \in 1..CrcBits |-> 1]
           Eq(g) == g = [s \in SUBSET D |->
                           IF s = {} THEN b ELSE CrcShift(g[s \ {Max(s)}], bits[Max(s)])]
           fold == CHOOSE g : Eq(g)
           F == [p \in V \X (1..n) |-> CrcShift(p[1], bits[p[2]])]
<1>0. D = 1..n
  OBVIOUS
<1>1. b \in V
  <2>1. CrcBits \in Nat
    BY FieldAssumption DEF CrcBits
  <2>2. b \in Seq({0, 1}) /\ Len(b) = CrcBits
    BY <2>1
  <2> QED BY <2>2 DEF Registers
<1>2. Crc(bits) = fold[D]
  BY DEF Crc, FoldLeft, MapThenFoldSet
<1>3. \A v \in V, i \in 1..n : CrcShift(v, bits[i]) \in V
  BY ShiftStays
<1> HIDE DEF D, V, b
<1>4. F \in [V \X (1..n) -> V]
  BY <1>3
<1>5. \A s \in SUBSET (1..n) : s # {} => Max(s) \in 1..n /\ s \ {Max(s)} \in SUBSET (1..n)
  BY MaxOf
<1>6. \A v \in V, i \in 1..n : F[<<v, i>>] = CrcShift(v, bits[i])
  OBVIOUS
<1> HIDE DEF F
<1>7. \E g : Eq(g)
  <2>1. PICK g : Iterates(g, V, b, F, n)
    BY <1>1, <1>4, Iteration
  <2>2. \A s \in SUBSET (1..n) : s # {} => g[s \ {Max(s)}] \in V
    BY <1>5, <2>1 DEF Iterates
  <2>3. g = [s \in SUBSET (1..n) |->
               IF s = {} THEN b ELSE CrcShift(g[s \ {Max(s)}], bits[Max(s)])]
    BY <1>5, <1>6, <2>1, <2>2 DEF Iterates
  <2> QED BY <1>0, <2>3
<1>8. Eq(fold)
  <2> HIDE DEF Eq
  <2> QED BY <1>7
<1> HIDE DEF fold
<1>9. fold[{}] = b
  BY <1>8
<1>10. \A s \in SUBSET (1..n) :
         s # {} /\ fold[s \ {Max(s)}] \in V => fold[s] = F[<<fold[s \ {Max(s)}], Max(s)>>]
  <2> TAKE s \in SUBSET (1..n)
  <2> HAVE s # {} /\ fold[s \ {Max(s)}] \in V
  <2>1. fold[s] = CrcShift(fold[s \ {Max(s)}], bits[Max(s)])
    BY <1>0, <1>8
  <2> QED BY <1>5, <1>6, <2>1
<1> HIDE DEF Eq
<1>11. fold[1..n] \in V
  BY <1>1, <1>4, <1>9, <1>10, FoldStays
<1> QED BY <1>0, <1>2, <1>11 DEF V

\* The bits of a number, as many as asked for.
LEMMA IntToBitsLength ==
  ASSUME NEW value, NEW width \in Nat
  PROVE  /\ IntToBits(value, width) \in Seq(Range(IntToBits(value, width)))
         /\ Len(IntToBits(value, width)) = width
<1> DEFINE bit(i) == (value \div PowerOfTwo[width - i]) % 2
           bits == [i \in 1..width |-> bit(i)]
           R == Range(bits)
<1>1. IntToBits(value, width) = bits
  BY DEF IntToBits
<1> HIDE DEF bit
<1>2. bits \in [1..width -> R]
  BY DEF Range
<1> HIDE DEF bits, R
<1>3. bits \in Seq(R) /\ Len(bits) = width
  BY <1>2
<1> QED BY <1>1, <1>3 DEF R

\* Two sequences over a set are one.
LEMMA Joined ==
  ASSUME NEW W, NEW s \in Seq(W), NEW t \in Seq(W)
  PROVE  s \o t \in Seq(W) /\ Len(s \o t) = Len(s) + Len(t) /\ Len(s) \in Nat /\ Len(t) \in Nat
OBVIOUS

\* A record has room for the fields of its equation, and for the checksum.
LEMMA RecordShape ==
  /\ RecordLength \in Nat /\ Len(RecordPreamble) \in Nat /\ Len(RecordVersion) \in Nat
  /\ Len(RecordPreamble) + Len(RecordVersion) + IdBits + 1 <= RecordLength
<1> DEFINE id == IntToBits(0, IdBits)
           W == {0, 1} \cup Range(id)
           reserved == [i \in 1..ReservedBits |-> 0]
           prot == Protected(0, 0)
           crc == Crc(prot)
<1>1. RecordPreamble \in Seq({0, 1}) /\ RecordVersion \in Seq({0, 1})
      /\ IdBits \in Nat /\ ReservedBits \in Nat
  BY RatelessAssumption
<1>2. id \in Seq(Range(id)) /\ Len(id) = IdBits
  BY <1>1, IntToBitsLength
<1>3. reserved \in Seq({0, 1}) /\ Len(reserved) = ReservedBits
  BY <1>1
<1>4. prot = RecordVersion \o id \o <<0>> \o reserved
  BY DEF Protected
<1> HIDE DEF id, reserved, prot
<1>5. RecordPreamble \in Seq(W) /\ RecordVersion \in Seq(W) /\ id \in Seq(W)
      /\ reserved \in Seq(W) /\ <<0>> \in Seq(W) /\ Len(<<0>>) = 1
  BY <1>1, <1>2, <1>3
<1> HIDE DEF W
<1>6. /\ prot \in Seq(W)
      /\ Len(prot) = Len(RecordVersion) + IdBits + 1 + ReservedBits
  <2> DEFINE a == RecordVersion \o id
             z == <<0>>
             c == a \o z
  <2>1. a \in Seq(W) /\ Len(a) = Len(RecordVersion) + IdBits
    BY <1>2, <1>5, Joined
  <2>2. z \in Seq(W) /\ Len(z) = 1 /\ prot = c \o reserved
    BY <1>4, <1>5
  <2> HIDE DEF a, z
  <2>3. c \in Seq(W) /\ Len(c) = Len(RecordVersion) + IdBits + 1
    BY <2>1, <2>2, Joined
  <2> HIDE DEF c
  <2> QED BY <1>3, <1>5, <2>2, <2>3, Joined
<1>7. crc \in Seq({0, 1}) /\ Len(crc) \in Nat
  <2>1. DOMAIN prot = 1..Len(prot) /\ Len(prot) \in Nat
    BY <1>6
  <2>2. crc \in Registers
    <3> DEFINE n == Len(prot)
    <3>1. n \in Nat /\ DOMAIN prot = 1..n
      BY <2>1
    <3> HIDE DEF n
    <3> QED BY <3>1, CrcStays
  <2> HIDE DEF crc
  <2> QED BY <2>2 DEF Registers
<1>8. RecordLength = Len(RecordPreamble \o prot \o crc)
  BY DEF RecordLength, RecordOf, prot
<1> HIDE DEF crc
<1>9. RecordLength = Len(RecordPreamble) + Len(prot) + Len(crc)
  <2>1. crc \in Seq(W \cup {0, 1}) /\ prot \in Seq(W \cup {0, 1})
        /\ RecordPreamble \in Seq(W \cup {0, 1})
    BY <1>5, <1>6, <1>7
  <2> QED BY <1>8, <2>1
<1>10. Len(RecordPreamble) \in Nat /\ Len(RecordVersion) \in Nat
  BY <1>1
<1> QED BY <1>1, <1>6, <1>7, <1>9, <1>10

(***************************************************************************)
(* Readings.  A tile is read as nothing or as one equation.                *)
(***************************************************************************)
Readings == [id : 0..MaxEquationId, rhs : {0, 1}, doubts : Nat]

\* The bits outvoted of one bit are a number of copies.
LEMMA MinorityNat ==
  ASSUME NEW n \in Nat, NEW bits, NEW i
  PROVE  Minority(Votes(bits, i, n)) \in Nat
<1> DEFINE votes == Votes(bits, i, n)
           O == {c \in DOMAIN votes : votes[c] = 1}
           ones == Cardinality(O)
<1>1. DOMAIN votes = 1..n /\ Len(votes) = n
  BY DEF Votes
<1> HIDE DEF votes
<1>2. O \in SUBSET (1..n)
  BY <1>1
<1>3. Minority(votes) = IF 2 * ones <= Len(votes) THEN ones ELSE Len(votes) - ones
  BY DEF Minority
<1> HIDE DEF O
<1>4. ones \in Nat /\ ones <= n
  <2>1. IsFiniteSet(1..n) /\ Cardinality(1..n) = n
    BY FS_Interval
  <2>2. IsFiniteSet(O) /\ Cardinality(O) <= n
    BY <1>2, <2>1, FS_Subset
  <2> QED BY <2>2, FS_CardinalityType
<1> HIDE DEF ones
<1> QED BY <1>1, <1>3, <1>4 DEF votes

DoubtsOf(bits, n) ==
  FoldLeft(LAMBDA sum, i : sum + Minority(Votes(bits, i, n)), 0, [i \in 1..RecordLength |-> i])

\* The doubts of a record are a number of bits.
LEMMA DoubtsNat ==
  ASSUME NEW copies \in Nat, NEW bits
  PROVE  DoubtsOf(bits, copies) \in Nat
<1> DEFINE n == RecordLength
           seq == [i \in 1..n |-> i]
           D == DOMAIN seq
           V == Nat
           b == 0
           Step(v, x) == v + Minority(Votes(bits, x, copies))
           Eq(g) == g = [s \in SUBSET D |->
                           IF s = {} THEN b ELSE Step(g[s \ {Max(s)}], seq[Max(s)])]
           fold == CHOOSE g : Eq(g)
           F == [p \in V \X (1..n) |-> Step(p[1], seq[p[2]])]
<1>0. n \in Nat /\ D = 1..n /\ b \in V
  BY RecordShape
<1>1. DoubtsOf(bits, copies) = fold[D]
  BY DEF DoubtsOf, FoldLeft, MapThenFoldSet
<1>2. \A v \in V, i \in 1..n : Step(v, seq[i]) \in V
  <2> TAKE v \in V, i \in 1..n
  <2>1. Minority(Votes(bits, i, copies)) \in Nat
    BY MinorityNat
  <2> QED BY <2>1
<1> HIDE DEF Step, D, V, b, n, seq
<1>4. F \in [V \X (1..n) -> V]
  BY <1>2
<1>5. \A s \in SUBSET (1..n) : s # {} => Max(s) \in 1..n /\ s \ {Max(s)} \in SUBSET (1..n)
  BY <1>0, MaxOf
<1>6. \A v \in V, i \in 1..n : F[<<v, i>>] = Step(v, seq[i])
  OBVIOUS
<1> HIDE DEF F
<1>7. \E g : Eq(g)
  <2>1. PICK g : Iterates(g, V, b, F, n)
    BY <1>0, <1>4, Iteration
  <2>2. \A s \in SUBSET (1..n) : s # {} => g[s \ {Max(s)}] \in V
    BY <1>5, <2>1 DEF Iterates
  <2>3. g = [s \in SUBSET (1..n) |->
               IF s = {} THEN b ELSE Step(g[s \ {Max(s)}], seq[Max(s)])]
    BY <1>5, <1>6, <2>1, <2>2 DEF Iterates
  <2> QED BY <1>0, <2>3
<1>8. Eq(fold)
  <2> HIDE DEF Eq
  <2> QED BY <1>7
<1> HIDE DEF fold
<1>9. fold[{}] = b
  BY <1>8
<1>10. \A s \in SUBSET (1..n) :
         s # {} /\ fold[s \ {Max(s)}] \in V => fold[s] = F[<<fold[s \ {Max(s)}], Max(s)>>]
  <2> TAKE s \in SUBSET (1..n)
  <2> HAVE s # {} /\ fold[s \ {Max(s)}] \in V
  <2>1. fold[s] = Step(fold[s \ {Max(s)}], seq[Max(s)])
    BY <1>0, <1>8
  <2> QED BY <1>5, <1>6, <2>1
<1> HIDE DEF Eq
<1>11. fold[1..n] \in V
  BY <1>0, <1>4, <1>9, <1>10, FoldStays
<1> QED BY <1>0, <1>1, <1>11 DEF V

\* A tile is read as nothing or as one equation of the profile.
LEMMA ReadingIs ==
  ASSUME NEW n \in Nat, NEW bits
  PROVE  Reading(bits, n) \in {<<>>} \cup {<<r>> : r \in Readings}
<1> DEFINE L == RecordLength
           raw == [i \in 1..L |-> MajorityOf(Votes(bits, i, n))]
           record == Bits(raw)
           first == Len(RecordPreamble)
           last == L - CrcBits
           idFrom == first + Len(RecordVersion)
           idBits == SubSeq(record, idFrom + 1, idFrom + IdBits)
           id == BitsToInt(idBits)
           r == [id |-> id, rhs |-> record[idFrom + IdBits + 1], doubts |-> DoubtsOf(bits, n)]
<1>1. /\ L \in Nat /\ first \in Nat /\ Len(RecordVersion) \in Nat /\ IdBits \in Nat
      /\ first + Len(RecordVersion) + IdBits + 1 <= L
  BY RecordShape, RatelessAssumption
<1>2. record \in Seq({0, 1}) /\ Len(record) = L
  <2>1. \A votes : MajorityOf(votes) \in {0, 1}
    BY DEF MajorityOf
  <2>2. raw \in [1..L -> {0, 1}]
    BY <2>1
  <2> HIDE DEF raw, L
  <2>3. raw \in Seq({0, 1}) /\ Len(raw) = L
    BY <1>1, <2>2
  <2> QED BY <2>3, Joined DEF Bits
<1>3. Reading(bits, n) =
        IF /\ SubSeq(record, 1, first) = RecordPreamble
           /\ CrcMatches(SubSeq(record, first + 1, last), SubSeq(record, last + 1, L))
           /\ id <= MaxEquationId
        THEN <<r>> ELSE <<>>
  BY DEF Reading, DoubtsOf
<1>4. id \in Nat
  <2> HIDE DEF record, L, first
  <2>1. idBits \in Seq({0, 1})
    BY <1>1, <1>2
  <2> HIDE DEF idBits
  <2>2. Len(idBits) \in Nat /\ idBits \in [1..Len(idBits) -> {0, 1}]
    BY <2>1
  <2> QED BY <2>2, BitsToIntNat
<1>5. record[idFrom + IdBits + 1] \in {0, 1}
  <2> HIDE DEF record, L, first
  <2>1. idFrom + IdBits + 1 \in 1..L
    BY <1>1
  <2> QED BY <1>2, <2>1
<1>6. DoubtsOf(bits, n) \in Nat
  BY DoubtsNat
<1> HIDE DEF id, record, idFrom
<1>7. id <= MaxEquationId => r \in Readings
  BY <1>4, <1>5, <1>6, RatelessAssumption DEF Readings
<1> HIDE DEF r
<1> QED BY <1>3, <1>7

\* The recursion behind FlattenSeq, up to a place.
FlatUpTo(f, seqs, m) ==
  f = [i \in 1..m |-> IF i = 1 THEN seqs[i] ELSE f[i - 1] \o seqs[i]]

\* Sequences over a set are flattened into one.
LEMMA FlattenStays ==
  ASSUME NEW R, NEW n \in Nat, NEW seqs, seqs \in [1..n -> Seq(R)], Len(seqs) = n
  PROVE  FlattenSeq(seqs) \in Seq(R)
<1> DEFINE W == Seq(R)
           T == {m \in 0..n : \E f \in [1..m -> W] : FlatUpTo(f, seqs, m)}
<1>1. \A s, t \in W : s \o t \in W
  BY Joined
<1>2. \A i \in 1..n : seqs[i] \in W
  OBVIOUS
<1>3. CASE n = 0
  <2>1. seqs = <<>>
    BY <1>3
  <2>2. FlattenSeq(seqs) = seqs
    BY <1>3 DEF FlattenSeq
  <2>3. FlattenSeq(seqs) = <<>>
    BY <2>1, <2>2
  <2> QED BY <2>3
<1> HIDE DEF W
<1>4. 0 \in T
  <2> DEFINE f == [i \in 1..0 |-> IF i = 1 THEN seqs[i] ELSE <<>>]
  <2>1. f \in [1..0 -> W] /\ FlatUpTo(f, seqs, 0)
    BY DEF FlatUpTo
  <2> HIDE DEF f
  <2>2. \E g \in [1..0 -> W] : FlatUpTo(g, seqs, 0)
    BY <2>1
  <2>3. 0 \in 0..n
    OBVIOUS
  <2> QED BY <2>2, <2>3
<1>5. ASSUME NEW m \in 1..n, m - 1 \in T PROVE m \in T
  <2>1. PICK f \in [1..(m - 1) -> W] : FlatUpTo(f, seqs, m - 1)
    BY <1>5
  <2> DEFINE e == IF m = 1 THEN seqs[m] ELSE f[m - 1] \o seqs[m]
             g == [i \in 1..m |-> IF i = m THEN e ELSE f[i]]
  <2>2. e \in W
    BY <1>1, <1>2
  <2> HIDE DEF e
  <2>3. g \in [1..m -> W]
    BY <2>2
  <2>4. \A i \in 1..m : g[i] = IF i = 1 THEN seqs[i] ELSE g[i - 1] \o seqs[i]
    <3> TAKE i \in 1..m
    <3>1. CASE i = m
      <4>1. m # 1 => g[m - 1] = f[m - 1]
        OBVIOUS
      <4>2. g[m] = e
        OBVIOUS
      <4> HIDE DEF g
      <4> QED BY <3>1, <4>1, <4>2 DEF e
    <3>2. CASE i # m
      <4>1. i \in 1..(m - 1) /\ g[i] = f[i] /\ (i # 1 => g[i - 1] = f[i - 1])
        BY <3>2
      <4>2. f[i] = IF i = 1 THEN seqs[i] ELSE f[i - 1] \o seqs[i]
        BY <2>1, <4>1 DEF FlatUpTo
      <4> HIDE DEF g
      <4> QED BY <4>1, <4>2
    <3> QED BY <3>1, <3>2
  <2> HIDE DEF g
  <2>5. FlatUpTo(g, seqs, m)
    BY <2>3, <2>4 DEF FlatUpTo
  <2> QED BY <2>3, <2>5
<1>6. n \in T
  <2> HIDE DEF T
  <2>1. \A i \in 0..n : i \in T
    BY <1>4, <1>5, UpTo
  <2> QED BY <2>1
<1>7. CASE n # 0
  <2> DEFINE f == CHOOSE f : FlatUpTo(f, seqs, n)
             S == {i \in 0..n : i # 0 => f[i] \in W}
  <2>1. FlatUpTo(f, seqs, n)
    BY <1>6
  <2>2. FlattenSeq(seqs) = f[n]
    BY <1>7 DEF FlattenSeq, FlatUpTo
  <2> HIDE DEF f
  <2>3. 0 \in S
    OBVIOUS
  <2>4. ASSUME NEW i \in 1..n, i - 1 \in S PROVE i \in S
    <3>1. f[i] = IF i = 1 THEN seqs[i] ELSE f[i - 1] \o seqs[i]
      BY <2>1 DEF FlatUpTo
    <3> QED BY <1>1, <1>2, <2>4, <3>1
  <2>5. n \in S
    <3> HIDE DEF S
    <3>1. \A i \in 0..n : i \in S
      BY <2>3, <2>4, UpTo
    <3> QED BY <3>1
  <2> QED BY <1>7, <2>2, <2>5 DEF W
<1> QED BY <1>3, <1>7

\* The tiles of an image are read as a sequence of equations.
LEMMA ReadTilesAre ==
  ASSUME NEW n \in Nat, NEW m \in Nat, NEW tiles, Len(tiles) = m
  PROVE  ReadTiles(tiles, n) \in Seq(Readings)
<1> DEFINE part(t) == IF t - 1 <= MaxEquationId THEN Reading(tiles[t], n) ELSE <<>>
           seqs == [t \in 1..m |-> part(t)]
<1>1. ReadTiles(tiles, n) = FlattenSeq(seqs)
  BY DEF ReadTiles
<1>2. \A r \in Readings : <<r>> \in Seq(Readings)
  OBVIOUS
<1>3. \A t \in 1..m : part(t) \in Seq(Readings)
  <2> TAKE t \in 1..m
  <2> DEFINE some == Reading(tiles[t], n)
  <2>1. some \in {<<>>} \cup {<<r>> : r \in Readings}
    BY ReadingIs
  <2> HIDE DEF some
  <2>2. some = <<>> \/ \E r \in Readings : some = <<r>>
    BY <2>1
  <2>3. <<>> \in Seq(Readings)
    OBVIOUS
  <2>4. some \in Seq(Readings)
    BY <1>2, <2>2, <2>3, Zenon
  <2> QED BY <2>3, <2>4 DEF some
<1> HIDE DEF part
<1>4. seqs \in [1..m -> Seq(Readings)] /\ Len(seqs) = m
  BY <1>3
<1> HIDE DEF seqs
<1>5. FlattenSeq(seqs) \in Seq(Readings)
  BY <1>4, FlattenStays
<1> QED BY <1>1, <1>5

(***************************************************************************)
(* Equations.  Of the readings of an id one prevails, and the ids are put  *)
(* in order.                                                               *)
(***************************************************************************)
RowOf(r) == [mask |-> MaskOf(r.id), rhs |-> r.rhs]

\* The row of a reading.
LEMMA RowOfRow == ASSUME NEW r \in Readings PROVE RowOf(r) \in Rows
  BY RatelessAssumption DEF RowOf, Readings, Rows

\* Of the readings of an id one prevails, the first of the surest.
LEMMA OnePrevails ==
  ASSUME NEW readings \in Seq(Readings), NEW i \in DOMAIN readings
  PROVE  \E j \in DOMAIN readings : readings[j].id = readings[i].id /\ Prevails(readings, j)
<1> DEFINE n == Len(readings)
           Same == {j \in 1..n : readings[j].id = readings[i].id}
           Doubts == {readings[j].doubts : j \in Same}
<1>1. /\ n \in Nat /\ DOMAIN readings = 1..n /\ i \in Same
      /\ \A j \in 1..n : readings[j] \in Readings
  OBVIOUS
<1>2. \A j \in 1..n : readings[j].doubts \in Nat
  BY <1>1 DEF Readings
<1>3. PICK d \in Doubts : \A e \in Doubts : d <= e
  <2>1. Doubts \subseteq Nat /\ Doubts # {}
    BY <1>1, <1>2
  <2> HIDE DEF Doubts
  <2> QED BY <2>1, LeastElement
<1> DEFINE Surest == {j \in Same : readings[j].doubts = d}
<1>4. PICK j \in Surest : \A k \in Surest : j <= k
  <2>1. Surest \subseteq Nat /\ Surest # {}
    BY <1>1, <1>3
  <2> HIDE DEF Surest
  <2> QED BY <2>1, LeastElement
<1>5. j \in 1..n /\ readings[j].id = readings[i].id /\ readings[j].doubts = d
  BY <1>4
<1>6. ASSUME NEW k \in 1..n, readings[k].id = readings[j].id
      PROVE  IF k < j THEN readings[j].doubts < readings[k].doubts
             ELSE readings[j].doubts <= readings[k].doubts
  <2>1. k \in Same /\ d <= readings[k].doubts
    BY <1>3, <1>5, <1>6
  <2>2. k < j => readings[k].doubts # d
    BY <1>1, <1>4, <2>1
  <2> QED BY <1>2, <1>5, <2>1, <2>2
<1> QED BY <1>1, <1>5, <1>6 DEF Prevails

\* The readings that prevail have different ids.
LEMMA OneOfAnId ==
  ASSUME NEW readings \in Seq(Readings), NEW i \in DOMAIN readings, NEW j \in DOMAIN readings,
         Prevails(readings, i), Prevails(readings, j), readings[i].id = readings[j].id
  PROVE  i = j
<1>1. /\ i \in Nat /\ j \in Nat
      /\ readings[i] \in Readings /\ readings[j] \in Readings
  OBVIOUS
<1>0. readings[i].doubts \in Nat /\ readings[j].doubts \in Nat
  BY <1>1 DEF Readings
<1>2. ~(i < j) /\ ~(j < i)
  BY <1>0, <1>1 DEF Prevails
<1> QED BY <1>1, <1>2

\* The place of an element among those of a set, by their values.
PlaceIn(K, v, i) == Cardinality({j \in K : v[j] <= v[i]})

\* Elements of different values fill the places from 1 to their number.
LEMMA PlacesFilled ==
  ASSUME NEW K, IsFiniteSet(K), NEW v \in [K -> Nat],
         \A i, j \in K : v[i] = v[j] => i = j
  PROVE  /\ \A i \in K : PlaceIn(K, v, i) \in 1..Cardinality(K)
         /\ \A i, j \in K : PlaceIn(K, v, i) = PlaceIn(K, v, j) => i = j
         /\ \A k \in 1..Cardinality(K) : \E i \in K : PlaceIn(K, v, i) = k
<1> DEFINE N == Cardinality(K)
           UpToIt(i) == {j \in K : v[j] <= v[i]}
           place == [i \in K |-> PlaceIn(K, v, i)]
<1>1. N \in Nat
  BY FS_CardinalityType
<1>2. \A i \in K : UpToIt(i) \in SUBSET K /\ i \in UpToIt(i) /\ PlaceIn(K, v, i) = Cardinality(UpToIt(i))
  BY DEF PlaceIn
<1>3. \A i \in K : PlaceIn(K, v, i) \in 1..N
  <2> TAKE i \in K
  <2>1. IsFiniteSet(UpToIt(i)) /\ Cardinality(UpToIt(i)) <= N
    BY <1>2, FS_Subset
  <2>2. Cardinality(UpToIt(i)) \in Nat
    BY <2>1, FS_CardinalityType
  <2>3. Cardinality(UpToIt(i)) # 0
    BY <1>2, <2>1, FS_EmptySet
  <2> QED BY <1>1, <1>2, <2>1, <2>2, <2>3
<1>4. ASSUME NEW i \in K, NEW j \in K, v[i] < v[j]
      PROVE  PlaceIn(K, v, i) # PlaceIn(K, v, j)
  <2>1. v[i] \in Nat /\ v[j] \in Nat
    OBVIOUS
  <2>2. \A k \in K : v[k] \in Nat
    OBVIOUS
  <2>3. UpToIt(i) \in SUBSET UpToIt(j)
    BY <1>4, <2>1, <2>2
  <2>4. j \notin UpToIt(i) /\ j \in UpToIt(j)
    BY <1>4, <2>1
  <2>5. IsFiniteSet(UpToIt(j))
    BY <1>2, FS_Subset
  <2> HIDE DEF UpToIt
  <2>6. Cardinality(UpToIt(j)) # Cardinality(UpToIt(i))
    BY <2>3, <2>4, <2>5, FS_Subset
  <2> QED BY <1>2, <2>6
<1>5. \A i, j \in K : PlaceIn(K, v, i) = PlaceIn(K, v, j) => i = j
  <2> TAKE i, j \in K
  <2>1. v[i] \in Nat /\ v[j] \in Nat
    OBVIOUS
  <2>2. v[i] < v[j] \/ v[j] < v[i] \/ v[i] = v[j]
    BY <2>1
  <2> QED BY <1>4, <2>2
<1>6. place \in Injection(K, 1..N)
  BY <1>3, <1>5 DEF Injection, IsInjective
<1>7. IsFiniteSet(1..N) /\ Cardinality(1..N) = N
  BY <1>1, FS_Interval
<1>8. place \in Surjection(K, 1..N)
  <2> HIDE DEF place, N
  <2>1. Cardinality(K) = Cardinality(1..N)
    BY <1>7 DEF N
  <2> QED BY <1>6, <1>7, <2>1, FS_Injection
<1>9. \A k \in 1..N : \E i \in K : place[i] = k
  <2> HIDE DEF place, N
  <2> QED BY <1>8 DEF Surjection
<1> QED BY <1>3, <1>5, <1>9

\* The readings that prevail, and a choice of the one at a place.
Kept(readings) == {i \in DOMAIN readings : Prevails(readings, i)}
KeptAt(readings, k) ==
  CHOOSE i \in Kept(readings) :
    Cardinality({j \in Kept(readings) : readings[j].id <= readings[i].id}) = k

\* The equations are the rows of the readings that prevail, each once.
LEMMA EquationsAre ==
  ASSUME NEW readings \in Seq(Readings)
  PROVE  /\ EquationsOf(readings) \in Seq(Rows)
         /\ \A k \in DOMAIN EquationsOf(readings) :
              \E i \in Kept(readings) : EquationsOf(readings)[k] = RowOf(readings[i])
         /\ \A i \in Kept(readings) :
              \E k \in DOMAIN EquationsOf(readings) : EquationsOf(readings)[k] = RowOf(readings[i])
<1> DEFINE K == Kept(readings)
           n == Cardinality(K)
           ids == [i \in K |-> readings[i].id]
           At(k) == KeptAt(readings, k)
           eqs == [k \in 1..n |-> RowOf(readings[At(k)])]
<1>1. EquationsOf(readings) = eqs
  BY DEF EquationsOf, RowOf, Kept, KeptAt
<1>2. /\ DOMAIN readings = 1..Len(readings) /\ Len(readings) \in Nat
      /\ \A i \in DOMAIN readings : readings[i] \in Readings
  OBVIOUS
<1>3. K \subseteq DOMAIN readings /\ \A i \in K : Prevails(readings, i)
  BY DEF Kept
<1>4. IsFiniteSet(K) /\ n \in Nat
  <2>1. IsFiniteSet(1..Len(readings))
    BY <1>2, FS_Interval
  <2>2. K \in SUBSET (1..Len(readings))
    BY <1>2, <1>3
  <2> HIDE DEF K
  <2>3. IsFiniteSet(K)
    BY <2>1, <2>2, FS_Subset
  <2> QED BY <2>3, FS_CardinalityType DEF n
<1>5. ids \in [K -> Nat]
  <2>1. \A i \in K : readings[i].id \in Nat
    BY <1>2, <1>3, RatelessAssumption DEF Readings
  <2> HIDE DEF K
  <2> QED BY <2>1
<1>6. \A i, j \in K : ids[i] = ids[j] => i = j
  BY <1>3, OneOfAnId
<1>7. \A i \in K : PlaceIn(K, ids, i) = Cardinality({j \in K : readings[j].id <= readings[i].id})
  <2> TAKE i \in K
  <2>1. {j \in K : readings[j].id <= readings[i].id} = {j \in K : ids[j] <= ids[i]}
    <3> HIDE DEF K
    <3> QED OBVIOUS
  <2> QED BY <2>1 DEF PlaceIn
<1>8. /\ \A i \in K : PlaceIn(K, ids, i) \in 1..n
      /\ \A i, j \in K : PlaceIn(K, ids, i) = PlaceIn(K, ids, j) => i = j
      /\ \A k \in 1..n : \E i \in K : PlaceIn(K, ids, i) = k
  <2> HIDE DEF K, ids
  <2> QED BY <1>4, <1>5, <1>6, PlacesFilled
<1>9. \A k \in 1..n : At(k) \in K /\ PlaceIn(K, ids, At(k)) = k
  <2> TAKE k \in 1..n
  <2>1. \E i \in K : Cardinality({j \in K : readings[j].id <= readings[i].id}) = k
    <3> HIDE DEF K, ids
    <3> QED BY <1>7, <1>8
  <2>2. /\ At(k) \in K
        /\ Cardinality({j \in K : readings[j].id <= readings[At(k)].id}) = k
    BY <2>1 DEF KeptAt
  <2> HIDE DEF K, ids, At
  <2> QED BY <1>7, <2>2
<1> HIDE DEF K, ids, At
<1>10. eqs \in Seq(Rows) /\ DOMAIN eqs = 1..n
  <2>1. \A k \in 1..n : RowOf(readings[At(k)]) \in Rows
    BY <1>2, <1>3, <1>9, RowOfRow
  <2> HIDE DEF n
  <2>2. eqs \in [1..n -> Rows]
    BY <2>1
  <2> QED BY <1>4, <2>2
<1>11. \A k \in 1..n : At(k) \in K /\ eqs[k] = RowOf(readings[At(k)])
  BY <1>9
<1>12. ASSUME NEW i \in K
       PROVE  \E k \in 1..n : eqs[k] = RowOf(readings[i])
  <2> DEFINE k == PlaceIn(K, ids, i)
  <2>1. k \in 1..n
    BY <1>8
  <2>2. At(k) = i
    BY <1>8, <1>9, <2>1
  <2> QED BY <1>11, <2>1, <2>2
<1> QED BY <1>1, <1>10, <1>11, <1>12 DEF K

(***************************************************************************)
(* The invariant of the channel.  A rateless extraction works on the       *)
(* equations of the image as it is, and what it found is what the solver   *)
(* said of them, as long as the image does not change.                     *)
(***************************************************************************)
RatelessLocators == {l \in Locators : l.mode = "FULL160_RATELESS"}
Outcome ==
  IF Solved THEN Extracted(Locator("FULL160_RATELESS", PointerOf(Solution))) ELSE NoWatermark

TilesInv ==
  /\ image = [t \in 1..NumTiles |-> image[t]]
  /\ sent = <<>> \/ \E l \in RatelessLocators : sent = <<l>>
  /\ solving => found = <<>>
  /\ solving \/ found # <<>> => equations = EquationsOf(ReadTiles(image, profile.repetitions))
  /\ found # <<>> => Finished /\ found = <<Outcome>>

ChannelInv ==
  /\ profile \in Profiles /\ SolverInv
  /\ ~Rateless => ~solving
  /\ Rateless => TilesInv

\* A step of the channel that leaves the solver alone keeps its invariant.
LEMMA SolverStays ==
  ASSUME SolverInv, UNCHANGED solverVars
  PROVE  SolverInv'
BY DEF solverVars, SolverInv, SolverTypes, BasisReduced, SameSolutions, RowStands, Satisfies, Done

\* So does a step of the solver, and the equations stay.
LEMMA StepInv ==
  ASSUME SolverInv, SolverStep
  PROVE  SolverInv' /\ equations' = equations
<1>1. CASE TakeEquation
  BY <1>1, TakeInv DEF TakeEquation
<1>2. CASE ReduceByPivot
  BY <1>2, ReduceInv DEF ReduceByPivot
<1>3. CASE DropRow
  BY <1>3, DropInv DEF DropRow
<1>4. CASE KeepRow
  BY <1>4, KeepInv DEF KeepRow
<1> QED BY <1>1, <1>2, <1>3, <1>4 DEF SolverStep

\* The equations of an image are rows.
LEMMA ImageEquations ==
  ASSUME profile \in Profiles, image = [t \in 1..NumTiles |-> image[t]]
  PROVE  /\ ReadTiles(image, profile.repetitions) \in Seq(Readings)
         /\ EquationsOf(ReadTiles(image, profile.repetitions)) \in Seq(Rows)
<1>1. Len(image) = NumTiles
  BY SizesAssumption
<1>2. profile.repetitions \in Nat
  BY ProfileAssumption DEF LegalStrength
<1>3. ReadTiles(image, profile.repetitions) \in Seq(Readings)
  BY <1>1, <1>2, SizesAssumption, ReadTilesAre
<1> QED BY <1>3, EquationsAre

\* The channel starts with a blank image and an empty solver.
LEMMA ChannelStarts == Init => ChannelInv
<1> SUFFICES ASSUME Init PROVE ChannelInv
  OBVIOUS
<1>1. SolverInv
  BY IdleInv DEF Init
<1>2. Rateless => image = [t \in 1..NumTiles |-> image[t]]
  BY DEF Init, Blank, Rateless
<1> QED BY <1>1, <1>2 DEF Init, ChannelInv, TilesInv

\* An image that changes takes what was found with it.
LEMMA ImageChanges ==
  ASSUME ChannelInv, Rateless, ~solving,
         image' = [t \in 1..NumTiles |-> image'[t]],
         sent' = sent \/ \E l \in RatelessLocators : sent' = <<l>>,
         found' = <<>>, UNCHANGED <<profile, solving, solverVars>>
  PROVE  ChannelInv'
<1>1. SolverInv'
  BY SolverStays DEF ChannelInv
<1>2. TilesInv'
  BY DEF ChannelInv, TilesInv
<1> QED BY <1>1, <1>2 DEF ChannelInv, Rateless

\* A step of a frame profile.
LEMMA FrameSteps ==
  ASSUME ChannelInv, ~Rateless, UNCHANGED <<profile, solving, solverVars>>
  PROVE  ChannelInv'
<1>1. SolverInv'
  BY SolverStays DEF ChannelInv
<1> QED BY <1>1 DEF ChannelInv, Rateless

\* Damaged tiles are as many as before.
LEMMA TileDamageInv ==
  ASSUME ChannelInv, TileDamage
  PROVE  ChannelInv'
<1>1. PICK img : Damaged(img) /\ img = [t \in 1..NumTiles |-> img[t]]
  <2>1. PICK t \in DOMAIN image :
           \/ \E b \in Flips : Damaged([image EXCEPT ![t][b] = 1 - @])
           \/ Damaged([image EXCEPT ![t] = Blank(profile)[t]])
           \/ \E u \in DOMAIN image : Damaged([image EXCEPT ![t] = image[u]])
           \/ \E l \in {x \in Locators : x.mode = "FULL160_RATELESS"}, b \in Flips \cup {0} :
                LET other == EmbedTiles(Blank(profile), KeyOf(l.pointer), profile.repetitions)[t]
                IN  Damaged([image EXCEPT
                      ![t] = IF b = 0 THEN other ELSE [other EXCEPT ![b] = 1 - @]])
    BY DEF TileDamage
  <2>2. PICK tile : Damaged([image EXCEPT ![t] = tile])
    <3>1. \A b : [image EXCEPT ![t][b] = 1 - @] = [image EXCEPT ![t] = [image[t] EXCEPT ![b] = 1 - @]]
      OBVIOUS
    <3> QED BY <2>1, <3>1, Zenon
  <2> DEFINE img == [image EXCEPT ![t] = tile]
  <2>3. image = [u \in 1..NumTiles |-> image[u]]
    BY DEF ChannelInv, TilesInv, TileDamage
  <2>4. img = [u \in 1..NumTiles |-> img[u]]
    BY <2>3
  <2> HIDE DEF img
  <2> QED BY <2>2, <2>4 DEF img
<1>2. image' = [t \in 1..NumTiles |-> image'[t]]
  BY <1>1 DEF Damaged
<1> QED BY <1>1, <1>2, ImageChanges DEF TileDamage, Damaged

\* The tiles of an embedding are as many as before.
LEMMA EmbedRatelessInv ==
  ASSUME ChannelInv, EmbedRateless
  PROVE  ChannelInv'
<1>1. PICK l \in RatelessLocators :
         Embedded(l, EmbedTiles(image, KeyOf(l.pointer), profile.repetitions))
  BY DEF EmbedRateless, RatelessLocators
<1>2. DOMAIN image = 1..NumTiles
  BY DEF EmbedRateless, ChannelInv, TilesInv
<1>3. image' = [t \in 1..NumTiles |-> image'[t]]
  BY <1>1, <1>2 DEF Embedded, EmbedTiles
<1>4. sent' = <<l>> /\ found' = <<>> /\ UNCHANGED <<profile, solving, solverVars>>
  BY <1>1 DEF Embedded
<1> QED BY <1>3, <1>4, ImageChanges DEF EmbedRateless

\* An extraction hands the equations of the image to the solver.
LEMMA ExtractTilesInv ==
  ASSUME ChannelInv, ExtractTiles
  PROVE  ChannelInv'
<1> DEFINE eqs == EquationsOf(ReadTiles(image, profile.repetitions))
<1>1. profile \in Profiles /\ image = [t \in 1..NumTiles |-> image[t]]
  BY DEF ExtractTiles, ChannelInv, TilesInv
<1>2. eqs \in Seq(Rows)
  BY <1>1, ImageEquations
<1>3. Solve(eqs)
  BY DEF ExtractTiles
<1> HIDE DEF eqs
<1>4. SolverInv' /\ equations' = eqs
  BY <1>2, <1>3, SolveInv DEF Solve
<1>5. UNCHANGED <<profile, image, sent, found>> /\ found = <<>> /\ Rateless
  BY DEF ExtractTiles
<1>6. TilesInv'
  BY <1>4, <1>5 DEF ChannelInv, TilesInv, eqs
<1> QED BY <1>4, <1>5, <1>6 DEF ChannelInv, Rateless

\* The solver works on them,
LEMMA EliminateInv ==
  ASSUME ChannelInv, Eliminate
  PROVE  ChannelInv'
<1>1. SolverInv' /\ equations' = equations
  BY StepInv DEF ChannelInv, Eliminate
<1>2. UNCHANGED <<profile, image, sent, solving, found>> /\ solving /\ Rateless
  BY DEF Eliminate, ChannelInv
<1>3. TilesInv'
  BY <1>1, <1>2 DEF ChannelInv, TilesInv
<1> QED BY <1>1, <1>2, <1>3 DEF ChannelInv, Rateless

\* and what it says of them is the outcome.
LEMMA FinishInv ==
  ASSUME ChannelInv, FinishExtraction
  PROVE  ChannelInv'
<1>1. /\ UNCHANGED <<profile, image, sent, solverVars>> /\ solving /\ Rateless /\ ~solving'
      /\ Finished /\ found' = <<Outcome>>
  BY DEF FinishExtraction, ChannelInv, Outcome
<1>2. SolverInv'
  BY <1>1, SolverStays DEF ChannelInv
<1>3. Outcome' = Outcome /\ Finished' = Finished /\ equations' = equations
  BY <1>1 DEF solverVars, Outcome, Solved, Solution, Rank, Finished
<1>4. TilesInv'
  BY <1>1, <1>3 DEF ChannelInv, TilesInv
<1> QED BY <1>1, <1>2, <1>4 DEF ChannelInv, Rateless

\* Every behaviour of the channel keeps the invariant.
LEMMA ChannelInvariance == Spec => []ChannelInv
<1>1. ChannelInv /\ [Next]_vars => ChannelInv'
  <2> SUFFICES ASSUME ChannelInv, [Next]_vars PROVE ChannelInv'
    OBVIOUS
  <2>1. CASE EmbedFrame
    <3>1. ~Rateless /\ UNCHANGED <<profile, solving, solverVars>>
      BY <2>1 DEF EmbedFrame, Embedded
    <3> QED BY <3>1, FrameSteps
  <2>2. CASE EmbedRateless
    BY <2>2, EmbedRatelessInv
  <2>3. CASE Noise
    <3>1. ~Rateless /\ UNCHANGED <<profile, solving, solverVars>>
      BY <2>3 DEF Noise, Damaged
    <3> QED BY <3>1, FrameSteps
  <2>4. CASE Shift
    <3>1. ~Rateless /\ UNCHANGED <<profile, solving, solverVars>>
      BY <2>4 DEF Shift, Damaged, Rateless
    <3> QED BY <3>1, FrameSteps
  <2>5. CASE Crop
    <3>1. ~Rateless /\ UNCHANGED <<profile, solving, solverVars>>
      BY <2>5 DEF Crop, Damaged, Rateless
    <3> QED BY <3>1, FrameSteps
  <2>6. CASE TileDamage
    BY <2>6, TileDamageInv
  <2>7. CASE ExtractFrame
    <3>1. ~Rateless /\ UNCHANGED <<profile, solving, solverVars>>
      BY <2>7 DEF ExtractFrame
    <3> QED BY <3>1, FrameSteps
  <2>8. CASE ExtractTiles
    BY <2>8, ExtractTilesInv
  <2>9. CASE Eliminate
    BY <2>9, EliminateInv
  <2>10. CASE FinishExtraction
    BY <2>10, FinishInv
  <2>11. CASE UNCHANGED vars
    <3>1. UNCHANGED <<profile, image, sent, solving, found, solverVars>>
      BY <2>11 DEF vars
    <3>2. SolverInv'
      BY <3>1, SolverStays DEF ChannelInv
    <3>3. Outcome' = Outcome /\ Finished' = Finished /\ equations' = equations
      BY <3>1 DEF solverVars, Outcome, Solved, Solution, Rank, Finished
    <3>4. Rateless => TilesInv'
      BY <3>1, <3>3 DEF ChannelInv, TilesInv
    <3> QED BY <3>1, <3>2, <3>4 DEF ChannelInv, Rateless
  <2> QED BY <2>1, <2>2, <2>3, <2>4, <2>5, <2>6, <2>7, <2>8, <2>9, <2>10, <2>11 DEF Next
<1> QED BY <1>1, ChannelStarts, PTL DEF Spec

\* In the channel too, the solver is exact on whatever the tiles give it,
THEOREM AlwaysExactInChannel == Spec => []SolverIsExact
<1>1. ChannelInv => SolverIsExact
  BY InvExact DEF ChannelInv
<1> QED BY <1>1, ChannelInvariance, PTL

\* and its basis is in reduced form after every step.
THEOREM AlwaysReducedInChannel == Spec => []BasisReduced
<1>1. ChannelInv => BasisReduced
  BY DEF ChannelInv, SolverInv
<1> QED BY <1>1, ChannelInvariance, PTL

(***************************************************************************)
(* What a rateless extraction finds.  The equations that prevail say of a  *)
(* key what the embedded one says, so the solver's answer is about it.     *)
(***************************************************************************)
\* A key and its pointer stand for one another.
LEMMA KeyAndPointer ==
  ASSUME NEW pointer \in Seq({0, 1}), Len(pointer) = Width
  PROVE  KeyOf(pointer) \in SUBSET Unknowns /\ PointerOf(KeyOf(pointer)) = pointer
<1>1. /\ Width \in Nat /\ DOMAIN pointer = 1..Width
      /\ \A i \in 1..Width : pointer[i] \in {0, 1}
      /\ pointer = [i \in 1..Width |-> pointer[i]]
  BY WidthAssumption
<1>2. \A i \in 1..Width : Width - i \in KeyOf(pointer) <=> pointer[i] = 1
  BY <1>1 DEF KeyOf
<1>3. \A k \in KeyOf(pointer) : k \in Unknowns
  BY <1>1 DEF KeyOf, Unknowns
<1>4. \A i \in 1..Width : pointer[i] = IF Width - i \in KeyOf(pointer) THEN 1 ELSE 0
  BY <1>1, <1>2
<1>5. PointerOf(KeyOf(pointer)) = [i \in 1..Width |-> pointer[i]]
  BY <1>4 DEF PointerOf
<1> QED BY <1>1, <1>3, <1>5

\* A rateless locator's pointer has a bit for each unknown.
LEMMA RatelessPointer ==
  ASSUME NEW l \in RatelessLocators
  PROVE  /\ l.pointer \in Seq({0, 1}) /\ Len(l.pointer) = Width
         /\ l = Locator("FULL160_RATELESS", l.pointer)
<1>1. Width = FullBits
  BY RatelessAssumption DEF LegalEquationProfile
<1>2. /\ l = Locator(l.mode, l.pointer) /\ l.mode = "FULL160_RATELESS"
      /\ l.pointer \in Seq({0, 1}) /\ LegalPayload(Payload(1, 1, l))
  BY LocatorsAssumption DEF RatelessLocators
<1>3. Len(l.pointer) = FullBits
  BY <1>2 DEF LegalPayload, Payload, PointerBits
<1> QED BY <1>1, <1>2, <1>3

\* A reading says what a key says, a key solves what another one does.
GenuineFor(r, key) == r.rhs = RhsFor(r.id, key)
Agree(readings, other, key) ==
  \A i \in DOMAIN readings : RhsFor(readings[i].id, other) = RhsFor(readings[i].id, key)

\* The row of a reading holds for the keys that the reading is genuine for.
LEMMA RowHolds == \A r, key : Holds(RowOf(r), key) <=> GenuineFor(r, key)
BY DEF Holds, RowOf, GenuineFor, RhsFor

\* If the readings that prevail are genuine, the keys that solve their
\* equations are those that agree with the genuine key.
LEMMA SolvesWhatAgrees ==
  ASSUME NEW readings \in Seq(Readings), equations = EquationsOf(readings), NEW key, NEW other,
         \A i \in Kept(readings) : GenuineFor(readings[i], key)
  PROVE  Solves(other) <=> Agree(readings, other, key)
<1>1. ASSUME Solves(other), NEW i \in DOMAIN readings
      PROVE  RhsFor(readings[i].id, other) = RhsFor(readings[i].id, key)
  <2>1. PICK j \in DOMAIN readings : readings[j].id = readings[i].id /\ Prevails(readings, j)
    BY OnePrevails
  <2>2. j \in Kept(readings)
    BY <2>1 DEF Kept
  <2>3. PICK k \in DOMAIN equations : equations[k] = RowOf(readings[j])
    BY <2>2, EquationsAre
  <2>4. GenuineFor(readings[j], other) /\ GenuineFor(readings[j], key)
    BY <1>1, <2>2, <2>3, RowHolds DEF Solves
  <2> QED BY <2>1, <2>4 DEF GenuineFor
<1>2. ASSUME Agree(readings, other, key), NEW k \in DOMAIN equations
      PROVE  Holds(equations[k], other)
  <2>1. PICK i \in Kept(readings) : equations[k] = RowOf(readings[i])
    BY EquationsAre
  <2>2. i \in DOMAIN readings /\ GenuineFor(readings[i], key)
    BY DEF Kept
  <2>3. GenuineFor(readings[i], other)
    BY <1>2, <2>2 DEF Agree, GenuineFor
  <2> QED BY <2>1, <2>3, RowHolds
<1> QED BY <1>1, <1>2 DEF Solves, Agree

\* A reading that prevails is genuine, if a reading that is not has more doubts
\* than a genuine one of its id.
LEMMA KeptAreGenuine ==
  ASSUME NEW readings \in Seq(Readings), NEW key,
         \A i \in DOMAIN readings : ~GenuineFor(readings[i], key) =>
           \E j \in DOMAIN readings :
             /\ readings[j].id = readings[i].id /\ GenuineFor(readings[j], key)
             /\ readings[j].doubts < readings[i].doubts
  PROVE  \A i \in Kept(readings) : GenuineFor(readings[i], key)
<1> SUFFICES ASSUME NEW i \in Kept(readings), ~GenuineFor(readings[i], key) PROVE FALSE
  OBVIOUS
<1>1. i \in DOMAIN readings /\ Prevails(readings, i)
  BY DEF Kept
<1>2. PICK j \in DOMAIN readings :
        readings[j].id = readings[i].id /\ readings[j].doubts < readings[i].doubts
  BY <1>1
<1>3. readings[i] \in Readings /\ readings[j] \in Readings
  BY <1>1
<1>4. readings[i].doubts \in Nat /\ readings[j].doubts \in Nat
  BY <1>3 DEF Readings
<1> QED BY <1>1, <1>2, <1>4 DEF Prevails

\* What the solver says if the key embedded solves the equations: that it is
\* the key, if no other one solves them, and nothing otherwise.
LEMMA OutcomeIs ==
  ASSUME SolverInv, Finished, NEW key \in SUBSET Unknowns, Solves(key)
  PROVE  /\ Solved <=> \A other \in SUBSET Unknowns : Solves(other) => other = key
         /\ Solved => Solution = key
<1>1. /\ Solved <=> \E one \in SUBSET Unknowns :
            Solves(one) /\ \A other \in SUBSET Unknowns : Solves(other) => other = one
      /\ Solved => Solves(Solution)
  BY InvExact DEF SolverIsExact
<1>2. Solution \in SUBSET Unknowns
  BY DEF Solution, SolverInv, SolverTypes
<1> QED BY <1>1, <1>2

\* The invariant makes the tiles that are intact suffice.
LEMMA InvIntact == ChannelInv => IntactTilesSuffice
<1> DEFINE readings == ReadTiles(image, Repetitions)
           key == KeyOf(sent[1].pointer)
           Backed(i) ==
             ~GenuineFor(readings[i], key) =>
               \E j \in DOMAIN readings :
                 /\ readings[j].id = readings[i].id /\ GenuineFor(readings[j], key)
                 /\ readings[j].doubts < readings[i].doubts
           determined == \A other \in SUBSET Unknowns : Agree(readings, other, key) => other = key
<1> SUFFICES ASSUME ChannelInv, Rateless, sent # <<>>, found # <<>>,
                    \A i \in DOMAIN readings : Backed(i)
             PROVE  found = <<IF determined THEN Extracted(sent[1]) ELSE NoWatermark>>
  BY DEF IntactTilesSuffice, GenuineFor, Agree
<1>1. /\ profile \in Profiles /\ image = [t \in 1..NumTiles |-> image[t]]
      /\ equations = EquationsOf(readings)
      /\ SolverInv /\ Finished /\ found = <<Outcome>>
  BY DEF ChannelInv, TilesInv, Repetitions
<1>2. PICK l \in RatelessLocators : sent = <<l>>
  BY DEF ChannelInv, TilesInv
<1>3. /\ sent[1] = l /\ key \in SUBSET Unknowns
      /\ Extracted(Locator("FULL160_RATELESS", PointerOf(key))) = Extracted(l)
  BY <1>2, RatelessPointer, KeyAndPointer
<1>4. readings \in Seq(Readings)
  BY <1>1, ImageEquations DEF Repetitions
<1> HIDE DEF readings, key
<1>5. \A i \in Kept(readings) : GenuineFor(readings[i], key)
  BY <1>4, KeptAreGenuine
<1>6. \A other : Solves(other) <=> Agree(readings, other, key)
  BY <1>1, <1>4, <1>5, SolvesWhatAgrees
<1>7. Solves(key)
  BY <1>6 DEF Agree
<1>8. (Solved <=> determined) /\ (Solved => Solution = key)
  BY <1>1, <1>3, <1>6, <1>7, OutcomeIs
<1> HIDE DEF determined
<1> QED BY <1>1, <1>3, <1>8 DEF Outcome

\* A rateless watermark survives whatever happens to its tiles, as long as a
\* foreign reading is in more doubt than a genuine one of the same equation: the
\* locator that was embedded is found if the equations left determine the key,
\* and none if they do not, for every image, key width and choice of masks.
THEOREM AlwaysIntactTilesSuffice == Spec => []IntactTilesSuffice
BY ChannelInvariance, InvIntact, PTL

(***************************************************************************)
(* Frames.  Powers of two, and the numbers that bits spell.                *)
(***************************************************************************)
PowersTo(f, n) ==
  f \in [0..n -> Nat] /\ \A k \in 0..n : f[k] = IF k = 0 THEN 1 ELSE 2 * f[k - 1]

\* The powers up to a number, and no other ones.
LEMMA PowersExist == \A n \in Nat : \E f : PowersTo(f, n)
<1> TAKE n \in Nat
<1> DEFINE T == {k \in 0..n : \E f : PowersTo(f, k)}
<1>1. 0 \in T
  <2>1. PowersTo([k \in 0..0 |-> 1], 0)
    BY DEF PowersTo
  <2> QED BY <2>1
<1>2. ASSUME NEW k \in 1..n, k - 1 \in T PROVE k \in T
  <2>1. PICK f : PowersTo(f, k - 1)
    BY <1>2
  <2> DEFINE g == [i \in 0..k |-> IF i = k THEN 2 * f[k - 1] ELSE f[i]]
  <2>2. PowersTo(g, k)
    BY <2>1 DEF PowersTo
  <2> QED BY <2>2
<1>3. n \in T
  <2> HIDE DEF T
  <2>1. \A i \in 0..n : i \in T
    BY <1>1, <1>2, UpTo
  <2> QED BY <2>1
<1> QED BY <1>3

LEMMA PowersAgree ==
  ASSUME NEW m \in Nat, NEW n \in 0..m, NEW f, NEW g, PowersTo(f, m), PowersTo(g, n)
  PROVE  f[n] = g[n]
<1> DEFINE T == {k \in 0..n : f[k] = g[k]}
<1>1. 0 \in T
  BY DEF PowersTo
<1>2. ASSUME NEW k \in 1..n, k - 1 \in T PROVE k \in T
  <2>1. k \in 0..m /\ k \in 0..n /\ k # 0 /\ f[k - 1] = g[k - 1]
    BY <1>2
  <2> QED BY <2>1 DEF PowersTo
<1>3. n \in T
  <2> HIDE DEF T
  <2>1. \A i \in 0..n : i \in T
    BY <1>1, <1>2, UpTo
  <2> QED BY <2>1
<1> QED BY <1>3

\* The laws of powers of two.
LEMMA PowerFacts ==
  /\ PowerOfTwo[0] = 1
  /\ \A n \in Nat : PowerOfTwo[n] \in Nat \ {0} /\ PowerOfTwo[n + 1] = 2 * PowerOfTwo[n]
<1> DEFINE some(n) == CHOOSE f : PowersTo(f, n)
           g == [n \in Nat |-> some(n)[n]]
           Eq(p) == p = [n \in Nat |-> IF n = 0 THEN 1 ELSE 2 * p[n - 1]]
<1>1. \A n \in Nat : PowersTo(some(n), n)
  BY PowersExist
<1> HIDE DEF some
<1>2. \A n \in Nat : g[n] = some(n)[n] /\ g[n] \in Nat
  BY <1>1 DEF PowersTo
<1>3. ASSUME NEW n \in Nat
      PROVE  g[n] = IF n = 0 THEN 1 ELSE 2 * g[n - 1]
  <2>1. CASE n = 0
    <3>1. some(0)[0] = 1
      BY <1>1 DEF PowersTo
    <3> QED BY <1>2, <2>1, <3>1
  <2>2. CASE n # 0
    <3>1. n - 1 \in Nat /\ n - 1 \in 0..n /\ n \in 0..n
      BY <2>2
    <3>2. some(n)[n - 1] = some(n - 1)[n - 1]
      BY <1>1, <3>1, PowersAgree
    <3>3. some(n)[n] = 2 * some(n)[n - 1]
      BY <1>1, <2>2, <3>1 DEF PowersTo
    <3> QED BY <1>2, <2>2, <3>1, <3>2, <3>3
  <2> QED BY <2>1, <2>2
<1>4. Eq(g)
  <2>1. g = [n \in Nat |-> g[n]]
    OBVIOUS
  <2> HIDE DEF g
  <2> QED BY <1>3, <2>1
<1>5. Eq(PowerOfTwo)
  <2>1. PowerOfTwo = CHOOSE p : Eq(p)
    BY DEF PowerOfTwo
  <2> HIDE DEF Eq, g
  <2> QED BY <1>4, <2>1
<1>6. ASSUME NEW n \in Nat PROVE PowerOfTwo[n] \in Nat \ {0}
  <2> DEFINE T == {k \in 0..n : PowerOfTwo[k] \in Nat \ {0}}
  <2>1. 0 \in T
    BY <1>5
  <2>2. ASSUME NEW k \in 1..n, k - 1 \in T PROVE k \in T
    <3>1. PowerOfTwo[k] = 2 * PowerOfTwo[k - 1]
      BY <1>5
    <3> QED BY <2>2, <3>1
  <2> HIDE DEF T, Eq
  <2>3. \A i \in 0..n : i \in T
    BY <2>1, <2>2, UpTo
  <2>4. n \in T
    BY <2>3
  <2> QED BY <2>4 DEF T
<1> QED BY <1>5, <1>6

\* Quotient and remainder, and what is left of a quotient when the divisor
\* doubles.
LEMMA DivisionIs ==
  ASSUME NEW x \in Int, NEW d \in Nat \ {0}, NEW q \in Int, NEW r \in 0..(d - 1), x = d * q + r
  PROVE  x \div d = q /\ x % d = r
OBVIOUS

LEMMA Division ==
  ASSUME NEW x \in Int, NEW d \in Nat \ {0}
  PROVE  x \div d \in Int /\ x % d \in 0..(d - 1) /\ x = d * (x \div d) + (x % d)
OBVIOUS

LEMMA Halved ==
  ASSUME NEW x \in Nat, NEW p \in Nat \ {0}
  PROVE  x \div p = 2 * (x \div (2 * p)) + ((x \div p) % 2)
<1> DEFINE a == x \div p
           b == a \div 2
           r == a % 2
           s == x % p
<1>1. a \in Int /\ s \in 0..(p - 1) /\ x = p * a + s
  BY Division
<1> HIDE DEF a, s
<1>2. b \in Int /\ r \in {0, 1} /\ a = 2 * b + r
  BY <1>1
<1> HIDE DEF b, r
<1>3. p * (2 * b + r) = (2 * p) * b + p * r
  BY <1>1, <1>2
<1> DEFINE e == 2 * p
           t == p * r + s
<1>4. e \in Nat \ {0} /\ t \in 0..(e - 1) /\ x = e * b + t
  BY <1>1, <1>2, <1>3
<1> HIDE DEF e, t
<1>5. x \div e = b
  BY <1>2, <1>4, DivisionIs
<1> QED BY <1>2, <1>5 DEF e, a, r

\* A number is spelled bit after bit.
LEMMA BitsSteps ==
  ASSUME NEW n \in Nat, NEW bits \in [1..n -> {0, 1}]
  PROVE  \E f \in [0..n -> Nat] :
           /\ f[0] = 0 /\ \A k \in 1..n : f[k] = 2 * f[k - 1] + bits[k]
           /\ BitsToInt(bits) = f[n]
<1> DEFINE V == Nat
           D == DOMAIN bits
           Step(v, x) == 2 * v + x
           Eq(g) == g = [s \in SUBSET D |->
                           IF s = {} THEN 0 ELSE Step(g[s \ {Max(s)}], bits[Max(s)])]
           fold == CHOOSE g : Eq(g)
           F == [p \in V \X (1..n) |-> Step(p[1], bits[p[2]])]
<1>0. D = 1..n /\ 0 \in V /\ \A v \in V, i \in 1..n : Step(v, bits[i]) \in V
  OBVIOUS
<1>1. BitsToInt(bits) = fold[D]
  BY DEF BitsToInt, FoldLeft, MapThenFoldSet
<1> HIDE DEF Step, D, V
<1>2. F \in [V \X (1..n) -> V]
  BY <1>0
<1>3. \A s \in SUBSET (1..n) : s # {} => Max(s) \in 1..n /\ s \ {Max(s)} \in SUBSET (1..n)
  BY MaxOf
<1>4. \A v \in V, i \in 1..n : F[<<v, i>>] = Step(v, bits[i])
  OBVIOUS
<1> HIDE DEF F
<1>5. \E g : Eq(g) /\ g \in [SUBSET (1..n) -> V]
  <2>1. PICK g : Iterates(g, V, 0, F, n)
    BY <1>0, <1>2, Iteration
  <2>2. \A s \in SUBSET (1..n) : s # {} => g[s \ {Max(s)}] \in V
    BY <1>3, <2>1 DEF Iterates
  <2>3. g = [s \in SUBSET (1..n) |->
               IF s = {} THEN 0 ELSE Step(g[s \ {Max(s)}], bits[Max(s)])]
    BY <1>3, <1>4, <2>1, <2>2 DEF Iterates
  <2> QED BY <1>0, <2>1, <2>3 DEF Iterates
<1>6. Eq(fold)
  <2> HIDE DEF Eq
  <2> QED BY <1>5
<1>7. fold[{}] = 0 /\ \A k \in 1..n : fold[1..k] = Step(fold[1..(k - 1)], bits[k])
  <2>1. fold[{}] = 0
    BY <1>6
  <2>2. ASSUME NEW k \in 1..n PROVE fold[1..k] = Step(fold[1..(k - 1)], bits[k])
    <3>1. /\ 1..k \in SUBSET (1..n) /\ 1..k # {}
          /\ Max(1..k) = k /\ (1..k) \ {k} = 1..(k - 1)
      BY PrefixSets
    <3> QED BY <1>0, <1>6, <3>1
  <2> QED BY <2>1, <2>2
<1> HIDE DEF fold, Eq
<1> DEFINE f == [k \in 0..n |-> fold[1..k]]
           T == {k \in 0..n : f[k] \in V}
<1>8. f[0] = 0 /\ \A k \in 1..n : f[k] = Step(f[k - 1], bits[k])
  <2>1. 1..0 = {}
    OBVIOUS
  <2> QED BY <1>7, <2>1
<1>9. f[n] = fold[1..n]
  OBVIOUS
<1>10. f = [k \in 0..n |-> f[k]]
  OBVIOUS
<1> HIDE DEF f
<1>11. 0 \in T /\ \A k \in 1..n : k - 1 \in T => k \in T
  BY <1>0, <1>8
<1>12. \A k \in 0..n : k \in T
  <2> HIDE DEF T
  <2> QED BY <1>11, UpTo
<1>13. f \in [0..n -> V]
  BY <1>10, <1>12
<1> QED BY <1>0, <1>1, <1>8, <1>9, <1>13 DEF Step, V

\* A field of a width has bits, and spells the number that was written if it is
\* wide enough.
LEMMA FieldBits ==
  ASSUME NEW value \in Nat, NEW width \in Nat
  PROVE  IntToBits(value, width) \in [1..width -> {0, 1}]
<1>1. \A i \in 1..width : (value \div PowerOfTwo[width - i]) % 2 \in {0, 1}
  <2> TAKE i \in 1..width
  <2> DEFINE p == PowerOfTwo[width - i]
             q == value \div p
  <2>1. p \in Nat \ {0}
    BY PowerFacts
  <2> HIDE DEF p
  <2>2. q \in Int
    BY <2>1, Division
  <2> HIDE DEF q
  <2>3. q % 2 \in {0, 1}
    BY <2>2
  <2> QED BY <2>3 DEF p, q
<1> QED BY <1>1 DEF IntToBits

LEMMA FieldSpells ==
  ASSUME NEW width \in Nat, NEW value \in Nat, value < PowerOfTwo[width]
  PROVE  BitsToInt(IntToBits(value, width)) = value
<1> DEFINE bits == IntToBits(value, width)
           Rest(k) == value \div PowerOfTwo[width - k]
<1>1. \A k \in 1..width : bits[k] = Rest(k) % 2
  BY DEF IntToBits
<1>2. bits \in [1..width -> {0, 1}]
  BY FieldBits
<1> HIDE DEF bits
<1>3. PICK f \in [0..width -> Nat] :
        /\ f[0] = 0 /\ \A k \in 1..width : f[k] = 2 * f[k - 1] + bits[k]
        /\ BitsToInt(bits) = f[width]
  BY <1>2, BitsSteps
<1> DEFINE T == {k \in 0..width : f[k] = Rest(k)}
<1>4. 0 \in T
  <2> DEFINE p == PowerOfTwo[width]
  <2>1. p \in Nat \ {0} /\ value < p
    BY PowerFacts
  <2> HIDE DEF p
  <2>3. value \div p = 0
    BY <2>1
  <2>4. width - 0 = width
    OBVIOUS
  <2> QED BY <1>3, <2>3, <2>4 DEF p
<1>5. ASSUME NEW k \in 1..width, k - 1 \in T PROVE k \in T
  <2> DEFINE p == PowerOfTwo[width - k]
             q == PowerOfTwo[width - (k - 1)]
  <2>1. p \in Nat \ {0} /\ q = 2 * p
    <3>1. width - k \in Nat /\ width - (k - 1) = (width - k) + 1
      OBVIOUS
    <3> QED BY <3>1, PowerFacts
  <2>2. f[k - 1] = value \div q /\ f[k] = 2 * f[k - 1] + ((value \div p) % 2)
    BY <1>1, <1>3, <1>5
  <2> HIDE DEF p, q
  <2>3. value \div p = 2 * (value \div q) + ((value \div p) % 2)
    BY <2>1, Halved
  <2>4. f[k] = value \div p
    BY <2>2, <2>3
  <2> QED BY <2>4 DEF p
<1>6. width \in T
  <2> HIDE DEF T
  <2>1. \A k \in 0..width : k \in T
    BY <1>4, <1>5, UpTo
  <2> QED BY <2>1
<1>7. Rest(width) = value
  <2>1. width - width = 0 /\ PowerOfTwo[0] = 1
    BY PowerFacts
  <2> QED BY <2>1
<1> QED BY <1>3, <1>6, <1>7 DEF bits

\* The last two bits say what is left over from four.
LEMMA LastTwoBits ==
  ASSUME NEW n \in Nat, n >= 2, NEW bits \in [1..n -> {0, 1}]
  PROVE  BitsToInt(bits) % 4 = 2 * bits[n - 1] + bits[n]
<1>1. PICK f \in [0..n -> Nat] :
        /\ f[0] = 0 /\ \A k \in 1..n : f[k] = 2 * f[k - 1] + bits[k]
        /\ BitsToInt(bits) = f[n]
  BY BitsSteps
<1>2. n \in 1..n /\ n - 1 \in 1..n /\ n - 2 \in 0..n /\ (n - 1) - 1 = n - 2
  OBVIOUS
<1>3. f[n] = 2 * f[n - 1] + bits[n] /\ f[n - 1] = 2 * f[n - 2] + bits[n - 1]
  BY <1>1, <1>2
<1>4. f[n - 2] \in Nat /\ bits[n] \in {0, 1} /\ bits[n - 1] \in {0, 1}
  BY <1>2
<1>5. f[n] = 4 * f[n - 2] + (2 * bits[n - 1] + bits[n]) /\ 2 * bits[n - 1] + bits[n] \in 0..3
  BY <1>3, <1>4
<1>6. f[n] % 4 = 2 * bits[n - 1] + bits[n]
  BY <1>4, <1>5
<1> QED BY <1>1, <1>6

(***************************************************************************)
(* Votes and coefficients.                                                 *)
(***************************************************************************)
\* A majority is for a bit if less than half of the votes are against it.
LEMMA MajorityIs ==
  ASSUME NEW n \in Nat, NEW votes \in [1..n -> {0, 1}], NEW b \in {0, 1},
         NEW wrong, IsFiniteSet(wrong), 2 * Cardinality(wrong) < n,
         \A i \in 1..n : votes[i] # b => i \in wrong
  PROVE  MajorityOf(votes) = b
<1> DEFINE Ones == {i \in 1..n : votes[i] = 1}
           Zeros == {i \in 1..n : votes[i] = 0}
<1>1. IsFiniteSet(1..n) /\ Cardinality(1..n) = n
  BY FS_Interval
<1>2. Ones \in SUBSET (1..n) /\ Zeros = (1..n) \ Ones /\ Ones \cap (1..n) = Ones
  OBVIOUS
<1>3. IsFiniteSet(Ones) /\ IsFiniteSet(Zeros)
  BY <1>1, <1>2, FS_Subset, FS_Difference
<1>4. Cardinality(Zeros) = n - Cardinality(Ones)
  <2>1. (1..n) \cap Ones = Ones
    OBVIOUS
  <2> HIDE DEF Ones, Zeros
  <2>2. Cardinality(Zeros) = n - Cardinality((1..n) \cap Ones)
    BY <1>1, <1>2, FS_Difference
  <2> QED BY <2>1, <2>2
<1>6. Cardinality(Ones) \in Nat /\ Cardinality(Zeros) \in Nat /\ Cardinality(wrong) \in Nat
  BY <1>3, FS_CardinalityType
<1>7. MajorityOf(votes) = IF 2 * Cardinality(Ones) > n THEN 1 ELSE 0
  <2>1. Len(votes) = n /\ DOMAIN votes = 1..n
    OBVIOUS
  <2> QED BY <2>1 DEF MajorityOf
<1>8. CASE b = 1
  <2>1. Zeros \in SUBSET wrong
    BY <1>8
  <2> HIDE DEF Ones, Zeros
  <2>2. Cardinality(Zeros) <= Cardinality(wrong)
    BY <2>1, FS_Subset
  <2> QED BY <1>4, <1>6, <1>7, <1>8, <2>2
<1>9. CASE b = 0
  <2>1. Ones \in SUBSET wrong
    BY <1>9
  <2> HIDE DEF Ones, Zeros
  <2>2. Cardinality(Ones) <= Cardinality(wrong)
    BY <2>1, FS_Subset
  <2> QED BY <1>6, <1>7, <1>9, <2>2
<1> QED BY <1>8, <1>9

\* A coefficient reads as a bit, and still does when it has drifted by less than
\* half a step.
ReadsAs(p, x, b) == x \in Int /\ \A y \in Int : 2 * Abs(y - x) < p.delta => ReadBit(p, y) = b

\* What is within half a step of a multiple is rounded to it.
LEMMA RoundedIs ==
  ASSUME NEW d \in Nat \ {0}, NEW k \in Int, NEW y \in Int, 2 * Abs(y - d * k) < d
  PROVE  Rounded(y, d) = k
<1> DEFINE x == d * k
           e == y - x
           r == 2 * e + d
           D == 2 * d
<1>1. x \in Int /\ D \in Nat \ {0}
  OBVIOUS
<1>2. D * k = 2 * x
  OBVIOUS
<1> HIDE DEF x
<1>3. e \in Int /\ 2 * Abs(e) < d
  BY <1>1 DEF x
<1>4. r \in 1..(D - 1)
  BY <1>3 DEF Abs
<1>5. 2 * y + d = D * k + r
  BY <1>1, <1>2
<1> HIDE DEF r, D, e
<1>6. r \in 0..(D - 1) /\ r # 0
  BY <1>1, <1>4
<1>7. 2 * y + d \in Int
  OBVIOUS
<1>8. (2 * y + d) \div D = k /\ (2 * y + d) % D = r
  BY <1>1, <1>5, <1>6, <1>7, DivisionIs
<1> QED BY <1>6, <1>8 DEF Rounded, D

\* A coefficient that is written reads as the bit.
LEMMA WrittenReads ==
  ASSUME NEW p \in Profiles, p.kind # "rateless", NEW v \in Int, NEW b \in {0, 1}
  PROVE  ReadsAs(p, WriteBit(p, v, b), b)
<1>1. p.kind \in {"lsb", "qim"} /\ p.delta \in Nat \ {0} /\ (p.kind = "lsb" => p.delta = 1)
  BY ProfileAssumption DEF LegalStrength
<1>2. CASE p.kind = "lsb"
  <2> DEFINE x == 2 * (v \div 2) + b
  <2>1. x \in Int /\ x % 2 = b
    OBVIOUS
  <2>2. WriteBit(p, v, b) = x /\ \A y : ReadBit(p, y) = y % 2
    BY <1>2 DEF WriteBit, ReadBit
  <2> HIDE DEF x
  <2>3. \A y \in Int : 2 * Abs(y - x) < 1 => y = x
    BY <2>1 DEF Abs
  <2> QED BY <1>1, <1>2, <2>1, <2>2, <2>3 DEF ReadsAs
<1>3. CASE p.kind = "qim"
  <2> DEFINE d == p.delta
             q == Rounded(v, d)
             up == Abs(v - (q + 1) * d)
             down == Abs(v - (q - 1) * d)
             k == IF q % 2 = b THEN q
                  ELSE IF up < down \/ (up = down /\ v >= 0) THEN q + 1 ELSE q - 1
  <2>1. q \in Int
    BY <1>1 DEF Rounded
  <2>2. WriteBit(p, v, b) = d * k /\ \A y : ReadBit(p, y) = Rounded(y, d) % 2
    BY <1>3 DEF WriteBit, ReadBit, Quantized
  <2> HIDE DEF q, up, down
  <2>3. k \in Int /\ k % 2 = b
    BY <2>1
  <2> HIDE DEF k
  <2>4. d * k \in Int
    BY <1>1, <2>3
  <2>5. \A y \in Int : 2 * Abs(y - d * k) < d => Rounded(y, d) = k
    BY <1>1, <2>3, RoundedIs
  <2> QED BY <2>2, <2>3, <2>4, <2>5 DEF ReadsAs
<1> QED BY <1>1, <1>2, <1>3

(***************************************************************************)
(* Sequences, and where their parts are.                                   *)
(***************************************************************************)
LEMMA JoinedAt ==
  ASSUME NEW W, NEW s \in Seq(W), NEW t \in Seq(W), NEW m, NEW n, Len(s) = m, Len(t) = n
  PROVE  /\ s \o t \in Seq(W) /\ Len(s \o t) = m + n /\ m \in Nat /\ n \in Nat
         /\ \A i \in 1..m : (s \o t)[i] = s[i]
         /\ \A i \in 1..n : (s \o t)[m + i] = t[i]
OBVIOUS

\* A part of a sequence is what it is element by element.
LEMMA PartIs ==
  ASSUME NEW W, NEW s \in Seq(W), NEW t \in Seq(W), NEW a \in Nat, a + Len(t) <= Len(s),
         \A i \in 1..Len(t) : s[a + i] = t[i]
  PROVE  SubSeq(s, a + 1, a + Len(t)) = t
<1>1. /\ SubSeq(s, a + 1, a + Len(t)) \in Seq(W)
      /\ Len(SubSeq(s, a + 1, a + Len(t))) = Len(t)
      /\ \A i \in 1..Len(t) : SubSeq(s, a + 1, a + Len(t))[i] = s[a + i]
  OBVIOUS
<1> QED BY <1>1

LEMMA PartAt ==
  ASSUME NEW W, NEW s \in Seq(W), NEW a \in Nat, NEW n \in Nat, a + n <= Len(s)
  PROVE  /\ SubSeq(s, a + 1, a + n) \in Seq(W) /\ Len(SubSeq(s, a + 1, a + n)) = n
         /\ \A i \in 1..n : SubSeq(s, a + 1, a + n)[i] = s[a + i]
OBVIOUS

\* The beginning of a sequence, if there is one.
LEMMA Cropped ==
  ASSUME NEW W, NEW s \in Seq(W), NEW m \in Int, m <= Len(s)
  PROVE  /\ SubSeq(s, 1, m) \in Seq(W)
         /\ Len(SubSeq(s, 1, m)) = IF m < 0 THEN 0 ELSE m
         /\ \A i \in 1..m : SubSeq(s, 1, m)[i] = s[i]
OBVIOUS

\* A function on 1..n is a sequence of n elements, and Bits keeps it.
LEMMA ListIs ==
  ASSUME NEW W, NEW n \in Nat, NEW s \in [1..n -> W]
  PROVE  s \in Seq(W) /\ Len(s) = n /\ Bits(s) = s
<1>1. s \in Seq(W) /\ Len(s) = n
  OBVIOUS
<1>2. \A t \in Seq(W) : t \o <<>> = t
  OBVIOUS
<1> QED BY <1>1, <1>2 DEF Bits

(***************************************************************************)
(* What a frame is made of.                                                *)
(***************************************************************************)
PayloadOf(l) == Payload(1, 1, l)
FrameOf(l) == FrameBits(PayloadOf(l))
CarrierOf(l, n) == EncodePayload(PayloadOf(l), n)
ProtectedLength(l) == HeaderBits + PointerBits(l.mode)

\* The widths of the fields.
LEMMA Widths ==
  /\ VersionBits \in Nat /\ AlgBits \in Nat /\ FlagBits \in Nat /\ FlagBits >= 2
  /\ HeaderBits \in Nat /\ HeaderBits = VersionBits + AlgBits + FlagBits
  /\ LengthBits \in Nat /\ CrcBits \in Nat /\ Preamble \in Seq({0, 1}) /\ CrcPoly \in Seq({0, 1})
  /\ \A mode : PointerBits(mode) \in Nat
BY FieldAssumption DEF HeaderBits, CrcBits, PointerBits

\* A locator's pointer is of its mode, and the mode has a flag.
LEMMA LocatorShape ==
  ASSUME NEW l \in Locators
  PROVE  /\ l = Locator(l.mode, l.pointer)
         /\ l.pointer \in Seq({0, 1}) /\ Len(l.pointer) = PointerBits(l.mode)
         /\ FlagOf(l.mode) \in 0..3 /\ Modes[FlagOf(l.mode) + 1] = l.mode
         /\ ProtectedLength(l) + CrcBits < PowerOfTwo[LengthBits]
         /\ l.mode \in ToSet(Modes)
<1>1. /\ l = Locator(l.mode, l.pointer) /\ l.pointer \in Seq({0, 1})
      /\ l.mode \in ToSet(Modes) /\ Len(l.pointer) = PointerBits(l.mode)
  BY LocatorsAssumption DEF LegalPayload, Payload
<1>2. \E f \in 0..3 : Modes[f + 1] = l.mode
  <2>1. PICK i \in DOMAIN Modes : Modes[i] = l.mode
    BY <1>1 DEF ToSet
  <2>2. i \in 1..4
    BY DEF Modes
  <2>3. i - 1 \in 0..3 /\ (i - 1) + 1 = i
    BY <2>2
  <2> QED BY <2>1, <2>3
<1>3. FlagOf(l.mode) \in 0..3 /\ Modes[FlagOf(l.mode) + 1] = l.mode
  BY <1>2 DEF FlagOf
<1> QED BY <1>1, <1>3, LengthAssumption DEF ProtectedLength

\* The bits under the checksum: header and pointer.
LEMMA ProtectedIs ==
  ASSUME NEW l \in Locators
  PROVE  LET bits == BitsWithoutCrc(PayloadOf(l))
         IN  /\ bits \in [1..ProtectedLength(l) -> {0, 1}] /\ ProtectedLength(l) \in Nat
             /\ \A i \in 1..FlagBits :
                  bits[VersionBits + AlgBits + i] = IntToBits(FlagOf(l.mode), FlagBits)[i]
             /\ \A i \in 1..PointerBits(l.mode) : bits[HeaderBits + i] = l.pointer[i]
<1> DEFINE W == {0, 1}
           v == IntToBits(1, VersionBits)
           a == IntToBits(1, AlgBits)
           f == IntToBits(FlagOf(l.mode), FlagBits)
           va == v \o a
           vaf == va \o f
           bits == vaf \o l.pointer
<1>1. /\ v \in Seq(W) /\ Len(v) = VersionBits /\ a \in Seq(W) /\ Len(a) = AlgBits
      /\ f \in Seq(W) /\ Len(f) = FlagBits
  <2>1. v \in [1..VersionBits -> W] /\ a \in [1..AlgBits -> W]
    BY Widths, FieldBits
  <2>2. f \in [1..FlagBits -> W]
    <3>1. FlagOf(l.mode) \in Nat
      BY LocatorShape
    <3> QED BY <3>1, Widths, FieldBits
  <2> HIDE DEF v, a, f, W
  <2> QED BY <2>1, <2>2, Widths, ListIs
<1>2. BitsWithoutCrc(PayloadOf(l)) = bits
  BY DEF BitsWithoutCrc, PayloadOf, Payload
<1>3. l.pointer \in Seq(W) /\ Len(l.pointer) = PointerBits(l.mode)
  BY LocatorShape
<1> HIDE DEF v, a, f, W
<1> DEFINE k == VersionBits + AlgBits
<1>4. va \in Seq(W) /\ Len(va) = k
  BY <1>1, JoinedAt
<1> HIDE DEF va, k
<1>5. vaf \in Seq(W) /\ Len(vaf) = k + FlagBits /\ \A i \in 1..FlagBits : vaf[k + i] = f[i]
  BY <1>1, <1>4, JoinedAt
<1>0. k + FlagBits = HeaderBits
  BY Widths DEF k
<1> HIDE DEF vaf
<1> DEFINE P == PointerBits(l.mode)
<1> HIDE DEF P
<1>6. /\ bits \in Seq(W) /\ Len(bits) = HeaderBits + P
      /\ \A i \in 1..HeaderBits : bits[i] = vaf[i]
      /\ \A i \in 1..P : bits[HeaderBits + i] = l.pointer[i]
  <2>1. l.pointer \in Seq(W) /\ Len(l.pointer) = P /\ Len(vaf) = HeaderBits
    BY <1>0, <1>3, <1>5 DEF P
  <2> QED BY <1>5, <2>1, JoinedAt
<1> HIDE DEF bits
<1>7. \A i \in 1..FlagBits : bits[VersionBits + AlgBits + i] = f[i]
  <2> TAKE i \in 1..FlagBits
  <2>1. VersionBits + AlgBits + i \in 1..HeaderBits
    BY Widths
  <2> QED BY <1>5, <1>6, <2>1 DEF k
<1>8. ProtectedLength(l) \in Nat
  BY Widths DEF ProtectedLength
<1>9. bits \in [1..ProtectedLength(l) -> W]
  BY <1>6, <1>8 DEF ProtectedLength, P
<1> QED BY <1>2, <1>6, <1>7, <1>8, <1>9 DEF f, W, P

\* The payload: these bits and their checksum.
LEMMA PayloadIs ==
  ASSUME NEW l \in Locators
  PROVE  LET bits == BitsWithoutCrc(PayloadOf(l))
             all == PayloadBits(PayloadOf(l))
         IN  /\ all \in Seq({0, 1}) /\ Len(all) = ProtectedLength(l) + CrcBits
             /\ Crc(bits) \in Seq({0, 1}) /\ Len(Crc(bits)) = CrcBits
             /\ \A i \in 1..ProtectedLength(l) : all[i] = bits[i]
             /\ \A i \in 1..CrcBits : all[ProtectedLength(l) + i] = Crc(bits)[i]
<1> DEFINE W == {0, 1}
           n == ProtectedLength(l)
           bits == BitsWithoutCrc(PayloadOf(l))
           crc == Crc(bits)
           all == bits \o crc
<1>1. bits \in [1..n -> W] /\ n \in Nat
  BY ProtectedIs
<1>2. PayloadBits(PayloadOf(l)) = all
  BY DEF PayloadBits
<1> HIDE DEF n, bits
<1>3. crc \in Registers
  <2>1. DOMAIN bits = 1..n
    BY <1>1
  <2> QED BY <1>1, <2>1, CrcStays
<1>4. crc \in Seq(W) /\ Len(crc) = CrcBits
  BY <1>3 DEF Registers
<1> HIDE DEF crc, W
<1>5. bits \in Seq(W) /\ Len(bits) = n
  BY <1>1, ListIs
<1>6. /\ all \in Seq(W) /\ Len(all) = n + CrcBits
      /\ \A i \in 1..n : all[i] = bits[i]
      /\ \A j \in 1..CrcBits : all[n + j] = crc[j]
  BY <1>4, <1>5, JoinedAt
<1> HIDE DEF all
<1> QED BY <1>2, <1>4, <1>6 DEF crc, bits, n, W

\* The frame: preamble, length and payload.
LEMMA FrameIs ==
  ASSUME NEW l \in Locators
  PROVE  LET all == PayloadBits(PayloadOf(l))
             front == Len(Preamble) + LengthBits
         IN  /\ FrameOf(l) \in Seq({0, 1})
             /\ Len(FrameOf(l)) = front + Len(all) /\ Len(all) \in Nat /\ Len(Preamble) \in Nat
             /\ \A i \in 1..Len(Preamble) : FrameOf(l)[i] = Preamble[i]
             /\ \A i \in 1..LengthBits :
                  FrameOf(l)[Len(Preamble) + i] = IntToBits(Len(all), LengthBits)[i]
             /\ \A i \in 1..Len(all) : FrameOf(l)[front + i] = all[i]
<1> DEFINE W == {0, 1}
           all == PayloadBits(PayloadOf(l))
           pre == Preamble
           len == IntToBits(Len(all), LengthBits)
           head == pre \o len
           frame == head \o all
<1>1. FrameOf(l) = frame
  BY DEF FrameOf, FrameBits
<1>2. all \in Seq(W) /\ pre \in Seq(W) /\ Len(all) \in Nat /\ Len(pre) \in Nat
  BY PayloadIs, Widths
<1> HIDE DEF all
<1>3. len \in Seq(W) /\ Len(len) = LengthBits
  <2>1. len \in [1..LengthBits -> W]
    BY <1>2, Widths, FieldBits
  <2> HIDE DEF len, W
  <2> QED BY <2>1, Widths, ListIs
<1> HIDE DEF len, W, pre
<1>4. /\ head \in Seq(W) /\ Len(head) = Len(pre) + LengthBits
      /\ \A i \in 1..Len(pre) : head[i] = pre[i]
  BY <1>2, <1>3, JoinedAt
<1>5. \A i \in 1..LengthBits : head[Len(pre) + i] = len[i]
  BY <1>2, <1>3, JoinedAt
<1> HIDE DEF head
<1>6. /\ frame \in Seq(W) /\ Len(frame) = Len(pre) + LengthBits + Len(all)
      /\ \A i \in 1..Len(head) : frame[i] = head[i]
  BY <1>2, <1>4, JoinedAt
<1>7. \A i \in 1..Len(all) : frame[Len(head) + i] = all[i]
  BY <1>2, <1>4, JoinedAt
<1> HIDE DEF frame
<1>8. \A i \in 1..Len(pre) : frame[i] = pre[i]
  <2> TAKE i \in 1..Len(pre)
  <2>1. i \in 1..Len(head)
    BY <1>2, <1>4, Widths
  <2> QED BY <1>4, <1>6, <2>1
<1>9. \A i \in 1..LengthBits : frame[Len(pre) + i] = len[i]
  <2> TAKE i \in 1..LengthBits
  <2>1. Len(pre) + i \in 1..Len(head)
    BY <1>2, <1>4, Widths
  <2> QED BY <1>5, <1>6, <2>1
<1> QED BY <1>1, <1>2, <1>4, <1>6, <1>7, <1>8, <1>9 DEF all, len, W, pre

\* A bit's group of carrier bits: those after BeforeOf and up to LastOf.
BeforeOf(g, n) == (g - 1) * n
LastOf(g, n) == g * n
GroupAt(g, n) == (BeforeOf(g, n) + 1)..LastOf(g, n)

\* The carrier: each bit of the frame, repeated.
LEMMA CarrierIs ==
  ASSUME NEW l \in Locators, NEW n \in Nat, n >= 1
  PROVE  /\ CarrierOf(l, n) \in Seq({0, 1}) /\ Len(CarrierOf(l, n)) = LastOf(Len(FrameOf(l)), n)
         /\ \A g \in 1..Len(FrameOf(l)), j \in 1..n :
              /\ BeforeOf(g, n) + j \in 1..Len(CarrierOf(l, n))
              /\ CarrierOf(l, n)[BeforeOf(g, n) + j] = FrameOf(l)[g]
<1> DEFINE W == {0, 1}
           frame == FrameOf(l)
           m == Len(frame)
           bits == [i \in 1..(m * n) |-> frame[((i - 1) \div n) + 1]]
<1>1. frame \in Seq(W) /\ m \in Nat
  <2>1. frame \in Seq(W)
    BY FrameIs
  <2> HIDE DEF frame
  <2> QED BY <2>1
<1>2. CarrierOf(l, n) = Bits(bits)
  BY DEF CarrierOf, EncodePayload, Repeated, FrameOf
<1> HIDE DEF frame, W
<1>3. \A i \in 1..m : frame[i] \in W
  BY <1>1
<1> HIDE DEF m
<1>4. m * n \in Nat
  BY <1>1
<1>5. \A g \in 1..m, j \in 1..n :
        (g - 1) * n + j \in 1..(m * n) /\ (((g - 1) * n + j) - 1) \div n = g - 1
  <2> TAKE g \in 1..m, j \in 1..n
  <2> DEFINE x == (g - 1) * n + j
  <2>1. g - 1 \in Nat /\ m - g \in Nat /\ g - 1 \in Int /\ j - 1 \in 0..(n - 1)
    BY <1>1
  <2>2. (g - 1) * n \in Nat /\ (m - g) * n \in Nat /\ (g - 1) * n = n * (g - 1)
    BY <2>1
  <2>3. m * n = (g - 1) * n + n + (m - g) * n
    BY <1>1, <2>1
  <2>4. x \in 1..(m * n) /\ x - 1 \in Int /\ x - 1 = n * (g - 1) + (j - 1)
    BY <1>4, <2>1, <2>2, <2>3
  <2> DEFINE y == x - 1
             q == g - 1
             r == j - 1
  <2>5. y \in Int /\ n \in Nat \ {0} /\ q \in Int /\ r \in 0..(n - 1) /\ y = n * q + r
    BY <2>1, <2>4
  <2> HIDE DEF y, q, r
  <2>6. y \div n = q
    BY <2>5, DivisionIs
  <2> QED BY <2>4, <2>6 DEF y, q
<1>6. \A i \in 1..(m * n) : ((i - 1) \div n) + 1 \in 1..m
  <2> TAKE i \in 1..(m * n)
  <2> DEFINE y == i - 1
             q == y \div n
             r == y % n
  <2>0. y \in Int /\ n \in Nat \ {0}
    BY <1>4
  <2> HIDE DEF y
  <2>1. q \in Int /\ r \in 0..(n - 1) /\ i - 1 = n * q + r
    BY <2>0, Division DEF y
  <2> HIDE DEF q, r
  <2>2. q >= 0
    BY <1>4, <2>1
  <2>3. q < m
    <3>1. SUFFICES ASSUME q >= m PROVE FALSE
      BY <1>1, <2>1
    <3>2. n * q >= n * m /\ n * m = m * n
      BY <1>1, <2>1, <3>1
    <3> QED BY <1>4, <2>1, <3>2
  <2> QED BY <1>1, <2>1, <2>2, <2>3 DEF q, y
<1>7. bits \in [1..(m * n) -> W]
  BY <1>3, <1>6
<1>8. \A g \in 1..m, j \in 1..n : bits[(g - 1) * n + j] = frame[g]
  <2> TAKE g \in 1..m, j \in 1..n
  <2> DEFINE x == (g - 1) * n + j
  <2>1. x \in 1..(m * n) /\ (x - 1) \div n = g - 1
    BY <1>5
  <2> HIDE DEF x
  <2>2. bits[x] = frame[(g - 1) + 1] /\ (g - 1) + 1 = g
    BY <1>1, <2>1
  <2> QED BY <2>2 DEF x
<1> HIDE DEF bits
<1> DEFINE k == m * n
<1>9. bits \in Seq(W) /\ Len(bits) = m * n /\ Bits(bits) = bits
  <2>1. k \in Nat /\ bits \in [1..k -> W]
    BY <1>4, <1>7
  <2> HIDE DEF k
  <2>2. bits \in Seq(W) /\ Len(bits) = k /\ Bits(bits) = bits
    BY <2>1, ListIs
  <2> QED BY <2>2 DEF k
<1> HIDE DEF k
<1> QED BY <1>2, <1>5, <1>8, <1>9 DEF m, frame, W, BeforeOf, LastOf

(***************************************************************************)
(* The invariant of the frame profiles.  The clean image carries the frame *)
(* of the locator sent, as far as it has not been cut off; each of its     *)
(* coefficients reads as the carrier's bit.                                *)
(***************************************************************************)
Lists(p) == [1..p.spread -> Int]

FrameTypes ==
  /\ image \in Seq(Lists(profile)) /\ clean \in Seq(Lists(profile))
  /\ Len(image) = Len(clean) /\ start \in Nat

Carries(l) ==
  \A i \in 1..Len(CarrierOf(l, profile.repetitions)) : start + i <= Len(clean) =>
    \A c \in 1..profile.spread :
      ReadsAs(profile, clean[start + i][c], CarrierOf(l, profile.repetitions)[i])

SentIsCarried == sent # <<>> => \E l \in Locators : sent = <<l>> /\ Carries(l)

FoundIsRead ==
  found # <<>> => found = <<DecodePayload(ReadBits(profile, image), profile.repetitions)>>

FrameInv ==
  /\ profile \in Profiles
  /\ ~Rateless => FrameTypes /\ SentIsCarried /\ FoundIsRead

\* Repetitions and spread are positive.
LEMMA ProfileFacts ==
  ASSUME NEW p \in Profiles
  PROVE  /\ p.repetitions \in Nat /\ p.repetitions >= 1 /\ p.spread \in Nat /\ p.spread >= 1
         /\ p.delta \in Nat \ {0} /\ (p.kind = "lsb" => p.spread = 1)
BY ProfileAssumption DEF LegalStrength, LegalSpread

\* The image starts as lists of coefficients.
LEMMA FrameStarts == Init => FrameInv
<1> SUFFICES ASSUME Init, ~Rateless PROVE FrameInv
  BY DEF Init, FrameInv
<1>1. profile \in Profiles /\ profile.spread \in Nat
  BY ProfileFacts DEF Init
<1> DEFINE S == Lists(profile)
           img == [i \in 1..Capacity |-> [c \in 1..profile.spread |-> (i + c) % 5]]
<1>2. image = img /\ clean = img
  BY DEF Init, Blank, Rateless
<1>3. \A i \in 1..Capacity : img[i] \in S
  BY <1>1, SizesAssumption DEF Lists
<1>4. img = [i \in 1..Capacity |-> img[i]]
  OBVIOUS
<1> HIDE DEF S, img
<1>5. img \in [1..Capacity -> S]
  BY <1>3, <1>4
<1>6. img \in Seq(S)
  BY <1>5, SizesAssumption
<1> QED BY <1>1, <1>2, <1>6
     DEF FrameInv, FrameTypes, SentIsCarried, FoundIsRead, Init, S

\* Embedding writes the carrier into the image.
LEMMA EmbedFrameInv ==
  ASSUME FrameInv, EmbedFrame
  PROVE  FrameInv'
<1> DEFINE p == profile
           S == Lists(p)
           n == Len(image)
<1>1. PICK l \in Locators :
        LET bits == CarrierOf(l, p.repetitions)
        IN  /\ Len(bits) <= n
            /\ Embedded(l, [i \in DOMAIN image |->
                 IF i <= Len(bits) THEN Spread(p, image[i], bits[i]) ELSE image[i]])
  BY DEF EmbedFrame, CarrierOf, PayloadOf
<1> DEFINE bits == CarrierOf(l, p.repetitions)
           img == [i \in DOMAIN image |->
                     IF i <= Len(bits) THEN Spread(p, image[i], bits[i]) ELSE image[i]]
<1>2. /\ ~Rateless /\ p \in Profiles /\ image \in Seq(S) /\ p.kind # "rateless"
      /\ p.repetitions \in Nat /\ p.repetitions >= 1
  BY ProfileFacts DEF FrameInv, FrameTypes, EmbedFrame, Rateless
<1>3. /\ profile' = profile /\ image' = img /\ clean' = img /\ start' = 0 /\ sent' = <<l>>
      /\ found' = <<>> /\ Len(bits) <= n
  BY <1>1 DEF Embedded
<1>4. bits \in Seq({0, 1}) /\ \A i \in 1..Len(bits) : bits[i] \in {0, 1}
  <2>1. bits \in Seq({0, 1})
    BY <1>2, CarrierIs
  <2> HIDE DEF bits
  <2> QED BY <2>1
<1>5. DOMAIN image = 1..n /\ n \in Nat /\ \A i \in 1..n : image[i] \in S
  BY <1>2
<1> HIDE DEF bits, n
<1>6. \A i \in 1..Len(bits), c \in 1..p.spread : ReadsAs(p, img[i][c], bits[i])
  <2> TAKE i \in 1..Len(bits), c \in 1..p.spread
  <2>1. i \in 1..n /\ bits[i] \in {0, 1} /\ image[i] \in S
    BY <1>3, <1>4, <1>5
  <2>2. image[i][c] \in Int /\ DOMAIN image[i] = 1..p.spread
    BY <2>1 DEF Lists
  <2>3. img[i][c] = WriteBit(p, image[i][c], bits[i])
    BY <1>5, <2>1, <2>2 DEF Spread
  <2>4. ReadsAs(p, WriteBit(p, image[i][c], bits[i]), bits[i])
    BY <1>2, <2>1, <2>2, WrittenReads
  <2> HIDE DEF img, p
  <2> QED BY <2>3, <2>4
<1>7. \A i \in 1..n : img[i] \in S
  <2> TAKE i \in 1..n
  <2>1. CASE i <= Len(bits)
    <3>1. i \in 1..Len(bits)
      BY <1>4, <1>5, <2>1
    <3>2. \A c \in 1..p.spread : img[i][c] \in Int
      BY <1>6, <3>1 DEF ReadsAs
    <3>3. img[i] = [c \in 1..p.spread |-> img[i][c]]
      <4>1. image[i] \in S
        BY <1>5
      <4>2. DOMAIN image[i] = 1..p.spread
        BY <4>1 DEF Lists
      <4>3. img[i] = Spread(p, image[i], bits[i])
        BY <1>5, <2>1
      <4> HIDE DEF img, S, p
      <4> QED BY <4>2, <4>3 DEF Spread
    <3> HIDE DEF img
    <3> QED BY <3>2, <3>3 DEF Lists
  <2>2. CASE ~(i <= Len(bits))
    BY <1>5, <2>2
  <2> QED BY <2>1, <2>2
<1>8. img \in Seq(S)
  <2>1. img = [i \in 1..n |-> img[i]]
    BY <1>5
  <2> HIDE DEF img, S
  <2>2. img \in [1..n -> S]
    BY <1>7, <2>1
  <2> QED BY <1>5, <2>2
<1> HIDE DEF img
<1>9. FrameTypes'
  BY <1>3, <1>8 DEF FrameTypes
<1>10. Carries(l)'
  <2>1. \A i \in 1..Len(bits) : 0 + i = i
    BY <1>4
  <2> QED BY <1>3, <1>6, <2>1 DEF Carries, bits
<1> QED BY <1>2, <1>3, <1>9, <1>10 DEF FrameInv, SentIsCarried, FoundIsRead, Rateless

\* Noise drifts a coefficient.
LEMMA NoiseInv ==
  ASSUME FrameInv, Noise
  PROVE  FrameInv'
<1> DEFINE S == Lists(profile)
<1>1. PICK i \in DOMAIN image \cap Spots, c \in 1..profile.spread, d \in {1, profile.delta} :
        Damaged([image EXCEPT ![i][c] = @ + d])
  BY DEF Noise
<1> DEFINE img == [image EXCEPT ![i][c] = @ + d]
<1>2. ~Rateless /\ profile \in Profiles /\ image \in Seq(S) /\ profile.delta \in Nat
  BY ProfileFacts DEF FrameInv, FrameTypes, Noise
<1>3. /\ image' = img /\ found' = <<>>
      /\ UNCHANGED <<profile, clean, start, sent>>
  BY <1>1 DEF Damaged, Noise
<1>4. i \in 1..Len(image) /\ image[i] \in S /\ d \in Int
  BY <1>2
<1>5. [image[i] EXCEPT ![c] = @ + d] \in S
  BY <1>4 DEF Lists
<1>6. img = [image EXCEPT ![i] = [image[i] EXCEPT ![c] = @ + d]]
  OBVIOUS
<1> HIDE DEF img, S
<1>7. img \in Seq(S) /\ Len(img) = Len(image)
  BY <1>2, <1>4, <1>5, <1>6
<1>8. FrameTypes' /\ SentIsCarried' /\ FoundIsRead'
  BY <1>2, <1>3, <1>7
     DEF FrameInv, FrameTypes, SentIsCarried, FoundIsRead, Carries, S
<1> QED BY <1>2, <1>3, <1>8 DEF FrameInv, Rateless

\* A shift moves image and clean image alike.
LEMMA ShiftInv ==
  ASSUME FrameInv, Shift
  PROVE  FrameInv'
<1> DEFINE S == Lists(profile)
<1>1. PICK n \in 1..(2 * profile.repetitions), value \in {0, 1} :
        LET rows == [i \in 1..n |-> <<value>>]
        IN  Damaged(rows \o image) /\ clean' = rows \o clean /\ start' = start + n
  BY DEF Shift
<1> DEFINE rows == [i \in 1..n |-> <<value>>]
<1>2. /\ ~Rateless /\ profile \in Profiles /\ profile.spread = 1 /\ profile.repetitions \in Nat
      /\ image \in Seq(S) /\ clean \in Seq(S) /\ Len(image) = Len(clean) /\ start \in Nat
      /\ SentIsCarried
  BY ProfileFacts DEF FrameInv, FrameTypes, Shift, Rateless
<1>3. /\ image' = rows \o image /\ clean' = rows \o clean /\ start' = start + n
      /\ found' = <<>> /\ UNCHANGED <<profile, sent>>
  BY <1>1 DEF Damaged
<1>4. n \in Nat
  BY <1>2
<1>5. rows \in Seq(S) /\ Len(rows) = n
  <2>1. <<value>> \in S
    BY <1>2 DEF Lists
  <2> HIDE DEF S
  <2> QED BY <1>4, <2>1
<1> HIDE DEF rows, S
<1>6. /\ rows \o image \in Seq(S) /\ rows \o clean \in Seq(S)
      /\ Len(rows \o image) = n + Len(image) /\ Len(rows \o clean) = n + Len(clean)
      /\ \A i \in 1..Len(clean) : (rows \o clean)[n + i] = clean[i]
  BY <1>2, <1>5, JoinedAt
<1>7. FrameTypes'
  BY <1>2, <1>3, <1>4, <1>6 DEF FrameTypes, S
<1>8. ASSUME NEW l \in Locators, Carries(l) PROVE Carries(l)'
  <2> DEFINE bits == CarrierOf(l, profile.repetitions)
  <2>1. ASSUME NEW i \in 1..Len(bits), start' + i <= Len(clean'), NEW c \in 1..profile.spread
        PROVE  ReadsAs(profile, clean'[start' + i][c], bits[i])
    <3>1. Len(bits) \in Nat
      <4>1. bits \in Seq({0, 1})
        BY <1>2, ProfileFacts, CarrierIs
      <4> HIDE DEF bits
      <4> QED BY <4>1
    <3>2. start + i \in 1..Len(clean) /\ start' + i = n + (start + i)
      BY <1>2, <1>3, <1>4, <1>6, <2>1, <3>1
    <3>3. clean'[start' + i] = clean[start + i] /\ start + i <= Len(clean)
      BY <1>2, <1>3, <1>6, <3>2
    <3> QED BY <1>8, <2>1, <3>3 DEF Carries
  <2> QED BY <1>3, <2>1 DEF Carries
<1>9. SentIsCarried' /\ FoundIsRead'
  BY <1>2, <1>3, <1>8 DEF SentIsCarried, FoundIsRead
<1> QED BY <1>2, <1>3, <1>7, <1>9 DEF FrameInv, Rateless

\* A crop takes the same end off both.
LEMMA CropInv ==
  ASSUME FrameInv, Crop
  PROVE  FrameInv'
<1> DEFINE S == Lists(profile)
<1>1. PICK n \in {1, Len(image) \div 2} :
        /\ Damaged(SubSeq(image, 1, Len(image) - n))
        /\ clean' = SubSeq(clean, 1, Len(clean) - n)
        /\ UNCHANGED start
  BY DEF Crop
<1>2. /\ ~Rateless /\ profile \in Profiles
      /\ image \in Seq(S) /\ clean \in Seq(S) /\ Len(image) = Len(clean) /\ start \in Nat
      /\ SentIsCarried
  BY DEF FrameInv, FrameTypes, Crop, Rateless
<1> DEFINE m == Len(image) - n
<1>3. /\ image' = SubSeq(image, 1, m) /\ clean' = SubSeq(clean, 1, m)
      /\ found' = <<>> /\ UNCHANGED <<profile, sent, start>>
  BY <1>1, <1>2 DEF Damaged
<1>4. m \in Int /\ m <= Len(image) /\ m <= Len(clean)
  <2>1. Len(image) \in Nat /\ Len(image) = Len(clean)
    BY <1>2
  <2> QED BY <2>1
<1> HIDE DEF m, S
<1>5. /\ SubSeq(image, 1, m) \in Seq(S) /\ SubSeq(clean, 1, m) \in Seq(S)
      /\ Len(SubSeq(image, 1, m)) = IF m < 0 THEN 0 ELSE m
      /\ Len(SubSeq(clean, 1, m)) = IF m < 0 THEN 0 ELSE m
      /\ \A i \in 1..m : SubSeq(clean, 1, m)[i] = clean[i]
  BY <1>2, <1>4, Cropped
<1>6. FrameTypes'
  BY <1>2, <1>3, <1>5 DEF FrameTypes, S
<1>7. ASSUME NEW l \in Locators, Carries(l) PROVE Carries(l)'
  <2> DEFINE bits == CarrierOf(l, profile.repetitions)
  <2>1. ASSUME NEW i \in 1..Len(bits), start + i <= Len(clean'), NEW c \in 1..profile.spread
        PROVE  ReadsAs(profile, clean'[start + i][c], bits[i])
    <3>1. Len(bits) \in Nat
      <4>1. bits \in Seq({0, 1})
        BY <1>2, ProfileFacts, CarrierIs
      <4> HIDE DEF bits
      <4> QED BY <4>1
    <3>2. start + i \in 1..m /\ start + i <= Len(clean)
      <4>1. Len(clean) \in Nat
        BY <1>2
      <4> QED BY <1>2, <1>3, <1>4, <1>5, <2>1, <3>1, <4>1
    <3>3. clean'[start + i] = clean[start + i]
      BY <1>3, <1>5, <3>2
    <3> QED BY <1>7, <2>1, <3>2, <3>3 DEF Carries
  <2> QED BY <1>3, <2>1 DEF Carries
<1>8. SentIsCarried' /\ FoundIsRead'
  BY <1>2, <1>3, <1>7 DEF SentIsCarried, FoundIsRead
<1> QED BY <1>2, <1>3, <1>6, <1>8 DEF FrameInv, Rateless

\* Every behaviour of the channel keeps it.
LEMMA FrameInvariance == Spec => []FrameInv
<1>1. FrameInv /\ ChannelInv /\ [Next]_vars => FrameInv'
  <2> SUFFICES ASSUME FrameInv, ChannelInv, [Next]_vars PROVE FrameInv'
    OBVIOUS
  <2>1. ASSUME Rateless, profile' = profile PROVE FrameInv'
    BY <2>1 DEF FrameInv, Rateless
  <2>2. CASE EmbedRateless \/ TileDamage \/ ExtractTiles
    BY <2>1, <2>2 DEF EmbedRateless, Embedded, TileDamage, Damaged, ExtractTiles
  <2>3. CASE Eliminate \/ FinishExtraction
    BY <2>1, <2>3 DEF Eliminate, FinishExtraction, ChannelInv
  <2>4. CASE UNCHANGED vars
    BY <2>4 DEF vars, FrameInv, FrameTypes, SentIsCarried, FoundIsRead, Carries, Rateless
  <2>5. CASE ExtractFrame
    <3>1. /\ found' = <<DecodePayload(ReadBits(profile, image), profile.repetitions)>>
          /\ UNCHANGED <<profile, image, clean, start, sent>>
      BY <2>5 DEF ExtractFrame
    <3> QED BY <3>1 DEF FrameInv, FrameTypes, SentIsCarried, FoundIsRead, Carries, Rateless
  <2>6. CASE EmbedFrame \/ Noise \/ Shift \/ Crop
    BY <2>6, EmbedFrameInv, NoiseInv, ShiftInv, CropInv
  <2> QED BY <2>2, <2>3, <2>4, <2>5, <2>6 DEF Next
<1> QED BY <1>1, FrameStarts, ChannelInvariance, PTL DEF Spec

(***************************************************************************)
(* Reading.  A bit of the frame is read right unless half of its carrier   *)
(* bits are lost, and a carrier bit unless half of its coefficients are.   *)
(***************************************************************************)
Drifted(p, list, ref) == {c \in DOMAIN list : 2 * Abs(list[c] - ref[c]) >= p.delta}
LostIn(p, img, i) == 2 * Cardinality(Drifted(p, img[i], clean[i])) >= p.spread

\* The coefficients of a bit vote for it if less than half have drifted.
LEMMA VotedIs ==
  ASSUME NEW p \in Profiles, NEW list \in Lists(p), NEW ref \in Lists(p), NEW b \in {0, 1},
         \A c \in 1..p.spread : ReadsAs(p, ref[c], b),
         2 * Cardinality(Drifted(p, list, ref)) < p.spread
  PROVE  Voted(p, list) = b
<1> DEFINE votes == [c \in DOMAIN list |-> ReadBit(p, list[c])]
           n == p.spread
           wrong == Drifted(p, list, ref)
<1>1. n \in Nat /\ p.delta \in Nat \ {0}
  BY ProfileFacts
<1>2. DOMAIN list = 1..n /\ \A c \in 1..n : list[c] \in Int /\ ref[c] \in Int
  BY DEF Lists
<1>3. \A y \in Int : ReadBit(p, y) \in {0, 1}
  BY <1>1 DEF ReadBit, Rounded
<1>4. wrong \in SUBSET (1..n) /\ IsFiniteSet(wrong)
  <2>1. wrong \in SUBSET (1..n)
    BY <1>2 DEF Drifted
  <2>2. IsFiniteSet(1..n)
    BY <1>1, FS_Interval
  <2> HIDE DEF wrong
  <2> QED BY <2>1, <2>2, FS_Subset
<1>5. \A c \in 1..n : votes[c] # b => c \in wrong
  <2> TAKE c \in 1..n
  <2> HAVE votes[c] # b
  <2>1. list[c] \in Int /\ ref[c] \in Int /\ votes[c] = ReadBit(p, list[c])
    BY <1>2
  <2>2. ~(2 * Abs(list[c] - ref[c]) < p.delta)
    BY <2>1 DEF ReadsAs
  <2>3. 2 * Abs(list[c] - ref[c]) >= p.delta
    BY <1>1, <2>1, <2>2 DEF Abs
  <2> QED BY <1>2, <2>3 DEF Drifted
<1>6. votes \in [1..n -> {0, 1}]
  BY <1>2, <1>3
<1>7. Voted(p, list) = MajorityOf(votes)
  BY DEF Voted
<1>8. 2 * Cardinality(wrong) < n
  OBVIOUS
<1> HIDE DEF votes, wrong, n
<1> QED BY <1>1, <1>4, <1>5, <1>6, <1>7, <1>8, MajorityIs

\* An image is read as bits, one by one,
LEMMA ReadBitsAre ==
  ASSUME NEW p \in Profiles, NEW img \in Seq(Lists(p))
  PROVE  /\ ReadBits(p, img) \in Seq({0, 1}) /\ Len(ReadBits(p, img)) = Len(img)
         /\ \A i \in 1..Len(img) : ReadBits(p, img)[i] = Voted(p, img[i])
<1> DEFINE n == Len(img)
           W == {0, 1}
           bits == [i \in DOMAIN img |-> Voted(p, img[i])]
<1>1. n \in Nat /\ DOMAIN img = 1..n
  OBVIOUS
<1>2. \A i \in 1..n : Voted(p, img[i]) \in W
  BY DEF Voted, MajorityOf
<1>3. bits \in [1..n -> W] /\ \A i \in 1..n : bits[i] = Voted(p, img[i])
  BY <1>1, <1>2
<1>4. ReadBits(p, img) = Bits(bits)
  BY DEF ReadBits
<1> HIDE DEF bits, n, W
<1>5. bits \in Seq(W) /\ Len(bits) = n /\ Bits(bits) = bits
  BY <1>1, <1>3, ListIs
<1> QED BY <1>3, <1>4, <1>5 DEF W, n

\* and these as groups.
LEMMA UnrepeatedIs ==
  ASSUME NEW bits \in Seq({0, 1}), NEW n \in Nat, n >= 1
  PROVE  /\ Unrepeated(bits, n) \in Seq({0, 1})
         /\ \A g \in Nat \ {0} : LastOf(g, n) <= Len(bits) =>
              /\ g <= Len(Unrepeated(bits, n))
              /\ Unrepeated(bits, n)[g]
                   = MajorityOf(SubSeq(bits, BeforeOf(g, n) + 1, LastOf(g, n)))
<1> DEFINE m == Len(bits) \div n
           W == {0, 1}
           some(g) == MajorityOf(SubSeq(bits, (g - 1) * n + 1, g * n))
           groups == [g \in 1..m |-> some(g)]
<1>1. Len(bits) \in Nat /\ n \in Nat \ {0}
  OBVIOUS
<1> DEFINE r == Len(bits) % n
<1>2. m \in Int /\ r \in 0..(n - 1) /\ Len(bits) = n * m + r
  BY <1>1, Division
<1> HIDE DEF m, r
<1>3. m \in Nat
  <2>1. SUFFICES ASSUME m < 0 PROVE FALSE
    BY <1>2
  <2>2. n * m <= n * (-1)
    BY <1>1, <1>2, <2>1
  <2> QED BY <1>1, <1>2, <2>2
<1>4. \A g \in 1..m : some(g) \in W
  BY DEF MajorityOf
<1>5. Unrepeated(bits, n) = Bits(groups)
  BY DEF Unrepeated, m
<1> HIDE DEF some
<1>6. groups \in [1..m -> W] /\ \A g \in 1..m : groups[g] = some(g)
  BY <1>4
<1> HIDE DEF groups, W
<1>7. groups \in Seq(W) /\ Len(groups) = m /\ Bits(groups) = groups
  BY <1>3, <1>6, ListIs
<1>8. ASSUME NEW g \in Nat \ {0}, g * n <= Len(bits) PROVE g \in 1..m
  <2>1. SUFFICES ASSUME g >= m + 1 PROVE FALSE
    BY <1>3
  <2>2. g * n >= (m + 1) * n /\ (m + 1) * n = n * m + n
    BY <1>1, <1>3, <2>1
  <2> QED BY <1>1, <1>2, <1>3, <1>8, <2>2
<1>9. \A g \in Nat \ {0} : g * n <= Len(bits) => g <= m /\ groups[g] = some(g)
  <2> TAKE g \in Nat \ {0}
  <2> HAVE g * n <= Len(bits)
  <2>1. g \in 1..m
    BY <1>8
  <2> QED BY <1>3, <1>6, <2>1
<1> QED BY <1>5, <1>7, <1>9 DEF W, some, BeforeOf, LastOf

\* The group of a bit of a frame at its place, in numbers.
GroupFacts(place, m, n, g) ==
  /\ place + g \in Nat \ {0}
  /\ BeforeOf(g, n) \in Nat /\ LastOf(place, n) \in Nat
  /\ BeforeOf(place + g, n) = LastOf(place, n) + BeforeOf(g, n)
  /\ LastOf(place + g, n) = BeforeOf(place + g, n) + n
  /\ LastOf(place + m, n) \in Nat /\ LastOf(place + g, n) <= LastOf(place + m, n)

LEMMA GroupIsThere ==
  ASSUME NEW n \in Nat \ {0}, NEW place \in Nat, NEW m \in Nat, NEW g \in 1..m
  PROVE  GroupFacts(place, m, n, g)
<1> DEFINE k == (g - 1) * n
           q == place * n
           e == (m - g) * n
<1>1. k \in Nat /\ q \in Nat /\ e \in Nat
  OBVIOUS
<1>2. /\ (place + g) * n = q + k + n /\ ((place + g) - 1) * n = q + k
      /\ (place + m) * n = q + k + n + e
  OBVIOUS
<1>3. BeforeOf(g, n) = k /\ LastOf(place, n) = q
  BY DEF BeforeOf, LastOf
<1>4. /\ LastOf(place + g, n) = q + k + n /\ BeforeOf(place + g, n) = q + k
      /\ LastOf(place + m, n) = q + k + n + e
  BY <1>2 DEF BeforeOf, LastOf
<1> HIDE DEF k, q, e
<1> QED BY <1>1, <1>3, <1>4 DEF GroupFacts

\* A group is decoded right if less than half of it is wrong.
LEMMA GroupIs ==
  ASSUME NEW bits \in Seq({0, 1}), NEW n \in Nat, NEW a \in Nat, a + n <= Len(bits),
         NEW b \in {0, 1}, NEW wrong, IsFiniteSet(wrong), 2 * Cardinality(wrong) < n,
         \A i \in (a + 1)..(a + n) : bits[i] # b => i \in wrong
  PROVE  MajorityOf(SubSeq(bits, a + 1, a + n)) = b
<1> DEFINE votes == SubSeq(bits, a + 1, a + n)
           W == {0, 1}
<1>1. /\ votes \in Seq(W) /\ Len(votes) = n
      /\ \A j \in 1..n : votes[j] = bits[a + j]
  <2>1. bits \in Seq(W)
    OBVIOUS
  <2> HIDE DEF W
  <2> QED BY <2>1, PartAt
<1> DEFINE J == {j \in 1..n : a + j \in wrong}
           shift == [j \in J |-> a + j]
<1>2. shift \in Injection(J, wrong)
  BY DEF Injection, IsInjective
<1> HIDE DEF shift
<1>3. IsFiniteSet(J) /\ Cardinality(J) <= Cardinality(wrong)
  <2> HIDE DEF J
  <2> QED BY <1>2, FS_Injection
<1>4. Cardinality(J) \in Nat /\ Cardinality(wrong) \in Nat
  BY <1>3, FS_CardinalityType
<1>5. 2 * Cardinality(J) < n
  BY <1>3, <1>4
<1>6. \A j \in 1..n : votes[j] # b => j \in J
  <2> TAKE j \in 1..n
  <2>1. a + j \in (a + 1)..(a + n)
    OBVIOUS
  <2> QED BY <1>1, <2>1
<1> HIDE DEF votes, J
<1>7. votes \in [1..n -> {0, 1}]
  BY <1>1 DEF W
<1>8. MajorityOf(votes) = b
  BY <1>3, <1>5, <1>6, <1>7, MajorityIs
<1> QED BY <1>8 DEF votes

\* The place of a frame that is in step with the repetitions.
LEMMA FrameAtIs ==
  ASSUME FrameInv, ~Rateless, start % Repetitions = 0
  PROVE  FrameAt \in Nat /\ start = LastOf(FrameAt, Repetitions)
<1> DEFINE n == Repetitions
           s == start
           q == s \div n
           r == s % n
<1>1. n \in Nat \ {0} /\ s \in Nat /\ s \in Int
  BY ProfileFacts DEF FrameInv, FrameTypes, Repetitions
<1>2. FrameAt = q /\ r = 0
  BY DEF FrameAt
<1> HIDE DEF n, s
<1>3. q \in Int /\ r \in 0..(n - 1) /\ s = n * q + r
  BY <1>1, Division
<1> HIDE DEF q, r
<1>4. q \in Nat
  <2>1. SUFFICES ASSUME q < 0 PROVE FALSE
    BY <1>3
  <2>2. n * q <= n * (-1)
    BY <1>1, <1>3, <2>1
  <2> QED BY <1>1, <1>2, <1>3, <2>2
<1>5. s = q * n
  BY <1>1, <1>2, <1>3, <1>4
<1> QED BY <1>2, <1>4, <1>5 DEF s, n, LastOf

\* The group of the frame's bit g is after position a, as far as the image goes;
\* lost bits of a group.
InGroup(g, n, a) == n = profile.repetitions /\ a = start + BeforeOf(g, n)
LostOf(img, a, n) == {i \in (a + 1)..(a + n) : LostIn(profile, img, i)}

\* A bit of the frame whose group is in the image is read from the group as it
\* was written, unless it is lost.
LEMMA GroupReads ==
  ASSUME FrameInv, ~Rateless, NEW l \in Locators, Carries(l),
         NEW img \in Seq(Lists(profile)), Len(img) = Len(clean),
         NEW n \in Nat \ {0}, NEW g \in 1..Len(FrameOf(l)), NEW a \in Nat, InGroup(g, n, a),
         BeforeOf(g, n) \in Nat, a + n <= Len(img), 2 * Cardinality(LostOf(img, a, n)) < n
  PROVE  MajorityOf(SubSeq(ReadBits(profile, img), a + 1, a + n)) = FrameOf(l)[g]
<1> DEFINE bits == ReadBits(profile, img)
           frame == FrameOf(l)
           b == frame[g]
           carrier == CarrierOf(l, n)
           e == BeforeOf(g, n)
           lost == LostOf(img, a, n)
<1>1. profile \in Profiles /\ start \in Nat /\ clean \in Seq(Lists(profile))
  BY DEF FrameInv, FrameTypes
<1>2. b \in {0, 1}
  <2>1. frame \in Seq({0, 1}) /\ g \in 1..Len(frame)
    BY FrameIs
  <2> HIDE DEF frame
  <2> QED BY <2>1
<1>3. /\ bits \in Seq({0, 1}) /\ Len(bits) = Len(img)
      /\ \A i \in 1..Len(img) : bits[i] = Voted(profile, img[i])
  BY <1>1, ReadBitsAre
<1>4. Len(img) \in Nat
  OBVIOUS
<1>5. \A j \in 1..n : e + j \in 1..Len(carrier) /\ carrier[e + j] = b
  <2>1. n \in Nat /\ n >= 1
    OBVIOUS
  <2> QED BY <2>1, CarrierIs
<1>0. e \in Nat
  OBVIOUS
<1> HIDE DEF bits, b, carrier, frame, e, lost
<1>6. ASSUME NEW i \in (a + 1)..(a + n), i \notin lost PROVE bits[i] = b
  <2> DEFINE j == i - a
             k == e + j
  <2>1. j \in 1..n
    OBVIOUS
  <2>2. k \in 1..Len(carrier) /\ carrier[k] = b
    BY <1>5, <2>1
  <2>3. i = start + k /\ i \in 1..Len(img)
    <3>1. i \in 1..Len(img)
      BY <1>4
    <3>2. a = start + e
      BY DEF InGroup, e
    <3> QED BY <1>0, <1>1, <3>1, <3>2
  <2> HIDE DEF k
  <2>4. \A c \in 1..profile.spread : ReadsAs(profile, clean[i][c], b)
    <3>1. start + k <= Len(clean)
      BY <1>4, <2>3
    <3>2. carrier = CarrierOf(l, profile.repetitions)
      BY DEF InGroup, carrier
    <3> QED BY <2>2, <2>3, <3>1, <3>2 DEF Carries
  <2>5. img[i] \in Lists(profile) /\ clean[i] \in Lists(profile)
    BY <1>1, <2>3
  <2>6. 2 * Cardinality(Drifted(profile, img[i], clean[i])) < profile.spread
    <3> DEFINE D == Drifted(profile, img[i], clean[i])
               s == profile.spread
    <3>1. ~(2 * Cardinality(D) >= s)
      BY <1>6 DEF LostIn, LostOf, lost
    <3>2. D \in SUBSET (1..s) /\ s \in Nat
      BY <1>1, <2>5, ProfileFacts DEF Drifted, Lists
    <3> HIDE DEF D, s
    <3>3. IsFiniteSet(1..s)
      BY <3>2, FS_Interval
    <3>4. IsFiniteSet(D)
      BY <3>2, <3>3, FS_Subset
    <3>5. Cardinality(D) \in Nat
      BY <3>4, FS_CardinalityType
    <3>6. 2 * Cardinality(D) < s
      BY <3>1, <3>2, <3>5
    <3> QED BY <3>6 DEF D, s
  <2>7. Voted(profile, img[i]) = b
    BY <1>1, <1>2, <2>4, <2>5, <2>6, VotedIs
  <2> QED BY <1>3, <2>3, <2>7
<1>7. IsFiniteSet(lost)
  <2>1. lost \in SUBSET ((a + 1)..(a + n))
    BY DEF lost, LostOf
  <2>2. IsFiniteSet((a + 1)..(a + n))
    BY FS_Interval
  <2> QED BY <2>1, <2>2, FS_Subset
<1>8. MajorityOf(SubSeq(bits, a + 1, a + n)) = b
  <2>1. \A i \in (a + 1)..(a + n) : bits[i] # b => i \in lost
    BY <1>6
  <2>2. a + n <= Len(bits) /\ n \in Nat
    BY <1>3
  <2>3. 2 * Cardinality(lost) < n
    BY DEF lost
  <2> QED BY <1>2, <1>3, <1>7, <2>1, <2>2, <2>3, GroupIs
<1> QED BY <1>8 DEF bits, b, frame

\* The frame in an image, at its place: a bit of it that is not lost is read as
\* it was written.
LEMMA FrameReads ==
  ASSUME FrameInv, ~Rateless, NEW l \in Locators, Carries(l),
         NEW img \in Seq(Lists(profile)), Len(img) = Len(clean), start % Repetitions = 0,
         LastOf(FrameAt + Len(FrameOf(l)), Repetitions) <= Len(img),
         NEW g \in 1..Len(FrameOf(l)),
         2 * Cardinality({i \in GroupAt(FrameAt + g, Repetitions) : LostIn(profile, img, i)})
           < Repetitions
  PROVE  /\ FrameAt + g <= Len(Unrepeated(ReadBits(profile, img), Repetitions))
         /\ Unrepeated(ReadBits(profile, img), Repetitions)[FrameAt + g] = FrameOf(l)[g]
<1> DEFINE n == Repetitions
           m == Len(FrameOf(l))
           place == FrameAt
           h == place + g
           bits == ReadBits(profile, img)
           a == BeforeOf(h, n)
           e == BeforeOf(g, n)
           z == LastOf(h, n)
           y == LastOf(place + m, n)
           p == LastOf(place, n)
           lost == {i \in GroupAt(h, n) : LostIn(profile, img, i)}
<1>1. n \in Nat \ {0} /\ n = profile.repetitions /\ profile \in Profiles
  BY ProfileFacts DEF FrameInv, FrameTypes, Repetitions
<1>2. m \in Nat
  <2> DEFINE frame == FrameOf(l)
  <2>1. frame \in Seq({0, 1})
    BY FrameIs
  <2> HIDE DEF frame
  <2>2. Len(frame) \in Nat
    BY <2>1
  <2> QED BY <2>2 DEF frame
<1>3. place \in Nat /\ start = p
  BY FrameAtIs
<1>4. 2 * Cardinality(lost) < n /\ lost = {i \in (a + 1)..z : LostIn(profile, img, i)}
  BY DEF GroupAt
<1>5. y <= Len(img) /\ g \in 1..m
  OBVIOUS
<1>6. bits \in Seq({0, 1}) /\ Len(bits) = Len(img)
  BY <1>1, ReadBitsAre
<1> HIDE DEF place, n, m, bits
<1>7. /\ h \in Nat \ {0} /\ e \in Nat /\ a = p + e /\ p \in Nat /\ z = a + n
      /\ y \in Nat /\ z <= y
  <2>1. n \in Nat \ {0} /\ place \in Nat /\ g \in 1..m
    BY <1>1, <1>3, <1>5
  <2>2. GroupFacts(place, m, n, g)
    BY <1>2, <2>1, GroupIsThere
  <2> QED BY <2>2, Zenon DEF GroupFacts
<1> HIDE DEF h, a, e, z, y, lost, p
<1>8. a \in Nat
  BY <1>7
<1>9. Len(img) \in Nat
  OBVIOUS
<1>10. a + n <= Len(img) /\ z <= Len(bits) /\ n >= 1 /\ n \in Nat
  BY <1>1, <1>5, <1>6, <1>7, <1>8, <1>9
<1>11. MajorityOf(SubSeq(bits, a + 1, a + n)) = FrameOf(l)[g]
  <2>1. InGroup(g, n, a) /\ BeforeOf(g, n) \in Nat
    BY <1>1, <1>3, <1>7 DEF InGroup, e
  <2>2. LostOf(img, a, n) = lost
    BY <1>4, <1>7 DEF LostOf
  <2>3. 2 * Cardinality(LostOf(img, a, n)) < n
    BY <1>4, <2>2
  <2>4. n \in Nat \ {0}
    BY <1>1
  <2> QED BY <1>8, <1>10, <2>1, <2>3, <2>4, GroupReads DEF bits
<1>12. h <= Len(Unrepeated(bits, n)) /\ Unrepeated(bits, n)[h] = FrameOf(l)[g]
  <2>2. /\ h <= Len(Unrepeated(bits, n))
        /\ Unrepeated(bits, n)[h] = MajorityOf(SubSeq(bits, a + 1, z))
    BY <1>6, <1>7, <1>10, UnrepeatedIs DEF a, z
  <2> QED BY <1>7, <1>11, <2>2
<1> QED BY <1>12 DEF bits, h, n, place

(***************************************************************************)
(* Decoding.                                                               *)
(***************************************************************************)
\* The last two flag bits are the mode's, whatever the other bits of the header.
LEMMA FlagsSay ==
  ASSUME NEW l \in Locators, NEW seg \in Seq({0, 1}), Len(seg) >= HeaderBits,
         seg[HeaderBits - 1] = BitsWithoutCrc(PayloadOf(l))[HeaderBits - 1],
         seg[HeaderBits] = BitsWithoutCrc(PayloadOf(l))[HeaderBits]
  PROVE  Modes[(BitsToInt(SubSeq(seg, VersionBits + AlgBits + 1, HeaderBits)) % 4) + 1] = l.mode
<1> DEFINE n == FlagBits
           k == VersionBits + AlgBits
           W == {0, 1}
           part == SubSeq(seg, k + 1, k + n)
           flag == FlagOf(l.mode)
           field == IntToBits(flag, n)
           bits == BitsWithoutCrc(PayloadOf(l))
           H == HeaderBits
<1>1. k \in Nat /\ n \in Nat /\ n >= 2 /\ H = k + n
  BY Widths
<1>2. \A i \in 1..n : bits[k + i] = field[i]
  BY ProtectedIs
<1>3. flag \in 0..3 /\ flag \in Nat /\ Modes[flag + 1] = l.mode
  BY LocatorShape
<1>4. Len(seg) >= H /\ seg[H - 1] = bits[H - 1] /\ seg[H] = bits[H] /\ seg \in Seq(W)
  OBVIOUS
<1> HIDE DEF k, n, flag, bits, H, W
<1>5. part \in Seq(W) /\ Len(part) = n /\ \A i \in 1..n : part[i] = seg[k + i]
  <2>1. k + n <= Len(seg)
    BY <1>1, <1>4
  <2> QED BY <1>1, <1>4, <2>1, PartAt
<1>6. field \in [1..n -> {0, 1}]
  BY <1>1, <1>3, FieldBits
<1>7. BitsToInt(field) = flag
  <2> DEFINE q == PowerOfTwo[n - 2]
  <2>1. q \in Nat \ {0} /\ PowerOfTwo[n] = 4 * q
    <3>1. n - 2 \in Nat /\ (n - 2) + 1 = n - 1 /\ n - 1 \in Nat /\ (n - 1) + 1 = n
      BY <1>1
    <3>2. PowerOfTwo[n] = 2 * PowerOfTwo[n - 1] /\ PowerOfTwo[n - 1] = 2 * q /\ q \in Nat \ {0}
      BY <3>1, PowerFacts
    <3> HIDE DEF q
    <3> QED BY <3>2
  <2> HIDE DEF q
  <2>2. flag < PowerOfTwo[n]
    BY <1>3, <2>1
  <2> QED BY <1>1, <1>3, <2>2, FieldSpells DEF field
<1> HIDE DEF field, part
<1>8. BitsToInt(field) % 4 = 2 * field[n - 1] + field[n]
  BY <1>1, <1>6, LastTwoBits
<1>9. BitsToInt(part) % 4 = 2 * part[n - 1] + part[n]
  <2>1. part \in [1..n -> {0, 1}]
    BY <1>5 DEF W
  <2> QED BY <1>1, <2>1, LastTwoBits
<1>10. part[n - 1] = field[n - 1] /\ part[n] = field[n]
  <2>1. n - 1 \in 1..n /\ n \in 1..n /\ k + (n - 1) = H - 1 /\ k + n = H
    BY <1>1
  <2> QED BY <1>2, <1>4, <1>5, <2>1
<1>11. BitsToInt(part) % 4 = flag
  <2>1. flag % 4 = flag
    BY <1>3
  <2> QED BY <1>7, <1>8, <1>9, <1>10, <2>1
<1>12. part = SubSeq(seg, VersionBits + AlgBits + 1, HeaderBits)
  BY <1>1 DEF part, k, H
<1> QED BY <1>3, <1>11, <1>12

\* What a payload with these flags is decoded to.
DecodedAs(l, seg) ==
  IF Len(seg) < ProtectedLength(l) + CrcBits THEN NoWatermark
  ELSE IF CrcMatches(SubSeq(seg, 1, ProtectedLength(l)),
                     SubSeq(seg, ProtectedLength(l) + 1, ProtectedLength(l) + CrcBits))
       THEN Extracted(Locator(l.mode, SubSeq(seg, HeaderBits + 1, ProtectedLength(l))))
       ELSE CrcFailed

LEMMA PayloadDecodes ==
  ASSUME NEW l \in Locators, NEW seg \in Seq({0, 1}),
         Len(seg) >= HeaderBits =>
           /\ seg[HeaderBits - 1] = BitsWithoutCrc(PayloadOf(l))[HeaderBits - 1]
           /\ seg[HeaderBits] = BitsWithoutCrc(PayloadOf(l))[HeaderBits]
  PROVE  DecodeBits(seg) = DecodedAs(l, seg)
<1> DEFINE mode == Modes[(BitsToInt(SubSeq(seg, VersionBits + AlgBits + 1, HeaderBits)) % 4) + 1]
<1>1. HeaderBits \in Nat /\ CrcBits \in Nat /\ PointerBits(l.mode) \in Nat /\ Len(seg) \in Nat
  BY Widths
<1>2. CASE Len(seg) < HeaderBits
  <2>1. Len(seg) < ProtectedLength(l) + CrcBits
    BY <1>1, <1>2 DEF ProtectedLength
  <2> QED BY <1>2, <2>1 DEF DecodeBits, DecodedAs
<1>3. CASE ~(Len(seg) < HeaderBits)
  <2>1. Len(seg) >= HeaderBits
    BY <1>1, <1>3
  <2>2. mode = l.mode
    BY <2>1, FlagsSay
  <2>3. DecodeBits(seg) =
          LET end == HeaderBits + PointerBits(mode)
          IN  IF Len(seg) < end + CrcBits THEN NoWatermark
              ELSE IF CrcMatches(SubSeq(seg, 1, end), SubSeq(seg, end + 1, end + CrcBits))
                   THEN Extracted(Locator(mode, SubSeq(seg, HeaderBits + 1, end)))
                   ELSE CrcFailed
    BY <1>3 DEF DecodeBits
  <2> HIDE DEF mode
  <2> QED BY <2>2, <2>3 DEF DecodedAs, ProtectedLength
<1> QED BY <1>2, <1>3

\* The first preamble decides.
DecodedAt(bits, front) ==
  LET first == front + Len(Preamble) + LengthBits
      length == BitsToInt(SubSeq(bits, first - LengthBits + 1, first))
  IN  IF Len(bits) < first \/ Len(bits) < first + length THEN NoWatermark
      ELSE DecodeBits(SubSeq(bits, first + 1, first + length))

LEMMA FirstDecides ==
  ASSUME NEW bits, NEW front \in PreambleOffsets(bits),
         \A o \in PreambleOffsets(bits) : front <= o
  PROVE  DecodeFrame(bits) = DecodedAt(bits, front)
<1> DEFINE O == PreambleOffsets(bits)
           least == CHOOSE o \in O : \A q \in O : o <= q
<1>1. O \subseteq Int
  BY DEF PreambleOffsets
<1>2. front \in O /\ \A q \in O : front <= q
  OBVIOUS
<1> HIDE DEF O
<1>3. least = front
  <2>1. least \in O /\ \A q \in O : least <= q
    BY <1>2
  <2>2. least <= front /\ front <= least /\ least \in Int /\ front \in Int
    BY <1>1, <1>2, <2>1
  <2> HIDE DEF least
  <2> QED BY <2>2
<1>4. O # {}
  BY <1>2
<1>5. DecodeFrame(bits) = IF O = {} THEN NoWatermark ELSE DecodedAt(bits, least)
  BY DEF DecodeFrame, DecodedAt, O
<1> HIDE DEF least
<1> QED BY <1>3, <1>4, <1>5

\* A payload that is read as it was written is the locator.
LEMMA PayloadReads ==
  ASSUME NEW l \in Locators
  PROVE  DecodeBits(PayloadBits(PayloadOf(l))) = Extracted(l)
<1> DEFINE W == {0, 1}
           n == ProtectedLength(l)
           bits == BitsWithoutCrc(PayloadOf(l))
           crc == Crc(bits)
           all == PayloadBits(PayloadOf(l))
           H == HeaderBits
           m == PointerBits(l.mode)
           pointer == l.pointer
           F == FlagBits
<1>1. /\ all \in Seq(W) /\ Len(all) = n + CrcBits /\ crc \in Seq(W) /\ Len(crc) = CrcBits
      /\ \A i \in 1..n : all[i] = bits[i]
      /\ \A i \in 1..CrcBits : all[n + i] = crc[i]
  BY PayloadIs
<1>2. bits \in [1..n -> W] /\ \A i \in 1..m : bits[H + i] = pointer[i]
  BY ProtectedIs
<1>3. pointer \in Seq(W) /\ Len(pointer) = m /\ Locator(l.mode, pointer) = l
  BY LocatorShape
<1>4. m \in Nat /\ CrcBits \in Nat /\ H \in Nat /\ H >= 2
  BY Widths
<1>5. n = H + m
  BY DEF ProtectedLength
<1> HIDE DEF W, bits, crc, all, H, m, pointer, n
<1>6. n \in Nat
  BY <1>4, <1>5
<1>7. bits \in Seq(W) /\ Len(bits) = n
  BY <1>2, <1>6, ListIs
<1>8. H - 1 \in 1..n /\ H \in 1..n
  BY <1>4, <1>5
<1>9. DecodeBits(all) = DecodedAs(l, all)
  <2>1. all[H - 1] = bits[H - 1] /\ all[H] = bits[H] /\ all \in Seq({0, 1})
    BY <1>1, <1>8 DEF W
  <2> QED BY <2>1, PayloadDecodes DEF H, bits
<1>10. SubSeq(all, 1, n) = bits
  <2> DEFINE z == 0
  <2>1. z \in Nat /\ z + Len(bits) <= Len(all) /\ \A i \in 1..Len(bits) : all[z + i] = bits[i]
    BY <1>1, <1>4, <1>6, <1>7
  <2> HIDE DEF z
  <2>2. SubSeq(all, z + 1, z + Len(bits)) = bits
    BY <1>1, <1>7, <2>1, PartIs
  <2>3. z + 1 = 1 /\ z + Len(bits) = n
    BY <1>6, <1>7 DEF z
  <2> QED BY <2>2, <2>3
<1>11. SubSeq(all, n + 1, n + CrcBits) = crc
  <2>1. n + Len(crc) <= Len(all) /\ \A i \in 1..Len(crc) : all[n + i] = crc[i]
    BY <1>1, <1>4, <1>6
  <2>2. SubSeq(all, n + 1, n + Len(crc)) = crc
    BY <1>1, <1>6, <2>1, PartIs
  <2> QED BY <1>1, <2>2
<1>12. SubSeq(all, H + 1, n) = pointer
  <2>1. H + Len(pointer) <= Len(all)
    BY <1>1, <1>3, <1>4, <1>5
  <2>2. \A i \in 1..Len(pointer) : all[H + i] = pointer[i]
    <3> TAKE i \in 1..Len(pointer)
    <3>1. i \in 1..m /\ H + i \in 1..n
      BY <1>3, <1>4, <1>5
    <3> QED BY <1>1, <1>2, <3>1
  <2>3. SubSeq(all, H + 1, H + Len(pointer)) = pointer
    BY <1>1, <1>3, <1>4, <2>1, <2>2, PartIs
  <2> QED BY <1>3, <1>5, <2>3
<1>13. ~(Len(all) < n + CrcBits)
  BY <1>1, <1>4, <1>6
<1>14. DecodedAs(l, all) = Extracted(Locator(l.mode, pointer))
  BY <1>10, <1>11, <1>12, <1>13 DEF DecodedAs, CrcMatches, n, H, crc
<1> QED BY <1>3, <1>9, <1>14 DEF all

\* The frame's fields, in a sequence that has it after a.
HasFrame(l, got, a) ==
  /\ got \in Seq({0, 1}) /\ a \in Nat /\ a + Len(FrameOf(l)) <= Len(got)
  /\ \A g \in 1..Len(FrameOf(l)) : got[a + g] = FrameOf(l)[g]

\* A frame that is read as it was written is the locator, if its preamble is the
\* first and within reach of the scan.
LEMMA FrameDecodes ==
  ASSUME NEW l \in Locators, NEW got, NEW a, HasFrame(l, got, a), a <= MaxScan,
         \A o \in PreambleOffsets(got) : a <= o
  PROVE  DecodeFrame(got) = Extracted(l)
<1> DEFINE W == {0, 1}
           pre == Preamble
           frame == FrameOf(l)
           all == PayloadBits(PayloadOf(l))
           field == IntToBits(Len(all), LengthBits)
           p == Len(pre)
           k == LengthBits
           n == Len(all)
<1>1. /\ pre \in Seq(W) /\ p \in Nat /\ k \in Nat /\ n \in Nat /\ MaxScan \in Nat
      /\ Len(frame) = p + k + n
  BY FieldAssumption, FrameIs, Widths
<1>2. /\ \A i \in 1..p : frame[i] = pre[i]
      /\ \A i \in 1..k : frame[p + i] = field[i]
      /\ \A i \in 1..n : frame[p + k + i] = all[i]
  BY FrameIs
<1>3. all \in Seq(W) /\ n < PowerOfTwo[k]
  BY PayloadIs, LocatorShape
<1>4. field \in Seq(W) /\ Len(field) = k
  <2>1. field \in [1..k -> W]
    BY <1>1, FieldBits
  <2> HIDE DEF field, W, n, k
  <2> QED BY <1>1, <2>1, ListIs
<1>5. BitsToInt(field) = n
  BY <1>1, <1>3, FieldSpells
<1>6. /\ got \in Seq(W) /\ a \in Nat /\ a + Len(frame) <= Len(got)
      /\ \A g \in 1..Len(frame) : got[a + g] = frame[g]
  BY DEF HasFrame
<1>7. DecodeBits(all) = Extracted(l)
  BY PayloadReads
<1> HIDE DEF W, pre, frame, all, field, p, k, n
<1>8. Len(got) \in Nat
  BY <1>6
<1>9. SubSeq(got, a + 1, a + p) = pre
  <2>1. a + Len(pre) <= Len(got)
    BY <1>1, <1>6, <1>8 DEF p
  <2>2. \A i \in 1..Len(pre) : got[a + i] = pre[i]
    <3> TAKE i \in 1..Len(pre)
    <3>1. i \in 1..p /\ i \in 1..Len(frame)
      BY <1>1 DEF p
    <3> QED BY <1>2, <1>6, <3>1
  <2> QED BY <1>1, <1>6, <2>1, <2>2, PartIs DEF p
<1> DEFINE b == a + p
<1>10. b \in Nat
  BY <1>1, <1>6
<1>11. SubSeq(got, b + 1, b + k) = field
  <2>1. b + Len(field) <= Len(got)
    BY <1>1, <1>4, <1>6, <1>8
  <2>2. \A i \in 1..Len(field) : got[b + i] = field[i]
    <3> TAKE i \in 1..Len(field)
    <3>1. i \in 1..k /\ p + i \in 1..Len(frame) /\ b + i = a + (p + i)
      BY <1>1, <1>4, <1>6
    <3> QED BY <1>2, <1>6, <3>1
  <2> HIDE DEF b
  <2>3. SubSeq(got, b + 1, b + Len(field)) = field
    BY <1>4, <1>6, <1>10, <2>1, <2>2, PartIs
  <2> QED BY <1>4, <2>3
<1> DEFINE c == a + p + k
<1>12. c \in Nat /\ c + n <= Len(got)
  BY <1>1, <1>6, <1>8
<1>13. SubSeq(got, c + 1, c + n) = all
  <2>1. c + Len(all) <= Len(got)
    BY <1>12 DEF n
  <2>2. \A i \in 1..Len(all) : got[c + i] = all[i]
    <3> TAKE i \in 1..Len(all)
    <3>1. i \in 1..n /\ p + k + i \in 1..Len(frame) /\ c + i = a + (p + k + i)
      BY <1>1, <1>6 DEF n
    <3> QED BY <1>2, <1>6, <3>1
  <2> HIDE DEF c
  <2>3. SubSeq(got, c + 1, c + Len(all)) = all
    BY <1>3, <1>6, <1>12, <2>1, <2>2, PartIs
  <2> QED BY <2>3 DEF n
<1>14. a \in PreambleOffsets(got)
  <2>1. a \in 0..Len(got) /\ a + p <= Len(got)
    BY <1>1, <1>6, <1>8
  <2> QED BY <1>9, <2>1 DEF PreambleOffsets, pre, p
<1>15. DecodedAt(got, a) = DecodeBits(all)
  <2>1. c = a + Len(Preamble) + LengthBits
    BY DEF c, p, pre, k
  <2>2. c - LengthBits + 1 = b + 1 /\ b + k = c
    BY <1>1, <1>6 DEF k
  <2>3. BitsToInt(SubSeq(got, c - LengthBits + 1, c)) = n
    BY <1>5, <1>11, <2>2
  <2>4. ~(Len(got) < c) /\ ~(Len(got) < c + n)
    BY <1>1, <1>8, <1>12
  <2> HIDE DEF c
  <2> QED BY <1>13, <2>1, <2>3, <2>4 DEF DecodedAt
<1>16. DecodeFrame(got) = DecodedAt(got, a)
  BY <1>14, FirstDecides
<1> QED BY <1>7, <1>15, <1>16

\* Two bits of a payload, or its checksum, that are wrong are not another payload
\* with its own checksum.
LEMMA ProtectedIsTheSame ==
  ASSUME NEW l \in Locators, NEW word \in [1..ProtectedLength(l) -> {0, 1}],
         NEW A, A = {i \in 1..ProtectedLength(l) : word[i] # BitsWithoutCrc(PayloadOf(l))[i]},
         NEW B, B = {i \in 1..CrcBits : Crc(word)[i] # Crc(BitsWithoutCrc(PayloadOf(l)))[i]},
         Cardinality(A) + Cardinality(B) <= 2
  PROVE  word = BitsWithoutCrc(PayloadOf(l))
<1> DEFINE n == ProtectedLength(l)
           W == {0, 1}
           bits == BitsWithoutCrc(PayloadOf(l))
<1>1. bits \in [1..n -> W] /\ n \in Nat /\ word \in [1..n -> W]
  BY ProtectedIs
<1>2. n = HeaderBits + PointerBits(l.mode) /\ l.mode \in ToSet(Modes)
  BY LocatorShape DEF ProtectedLength
<1>3. A = BitsApart(word, bits)
  BY <1>1 DEF BitsApart
<1>4. B = BitsApart(Crc(word), Crc(bits))
  <2>1. Crc(word) \in Registers
    <3>1. DOMAIN word = 1..n
      BY <1>1
    <3> HIDE DEF n
    <3> QED BY <1>1, <3>1, CrcStays
  <2>2. DOMAIN Crc(word) = 1..CrcBits
    <3>1. Len(Crc(word)) = CrcBits /\ Crc(word) \in Seq(W)
      BY <2>1 DEF Registers
    <3> QED BY <3>1
  <2> QED BY <2>2 DEF BitsApart
<1>5. Cardinality(A) \in Nat /\ Cardinality(B) \in Nat
  <2>1. A \in SUBSET (1..n) /\ B \in SUBSET (1..CrcBits) /\ CrcBits \in Nat
    BY Widths
  <2>2. IsFiniteSet(1..n) /\ IsFiniteSet(1..CrcBits)
    <3> HIDE DEF n
    <3> QED BY <1>1, <2>1, FS_Interval
  <2> HIDE DEF n
  <2> QED BY <2>1, <2>2, FS_Subset, FS_CardinalityType
<1> HIDE DEF n, bits
<1>6. word # bits /\ Cardinality(A) <= 2 => Cardinality(A) + Cardinality(B) > 2
  BY <1>1, <1>2, <1>3, <1>4, DistanceAssumption DEF W
<1>7. Cardinality(A) <= 2 /\ ~(Cardinality(A) + Cardinality(B) > 2)
  BY <1>5
<1> QED BY <1>6, <1>7 DEF bits

\* A payload with two wrong bits or less, and the right mode, is the locator or
\* none.
WrongIn(l, seg) ==
  {i \in 1..(ProtectedLength(l) + CrcBits) : seg[i] # PayloadBits(PayloadOf(l))[i]}

LEMMA PayloadIsNoOther ==
  ASSUME NEW l \in Locators, NEW seg \in Seq({0, 1}),
         Len(seg) >= HeaderBits =>
           /\ seg[HeaderBits - 1] = BitsWithoutCrc(PayloadOf(l))[HeaderBits - 1]
           /\ seg[HeaderBits] = BitsWithoutCrc(PayloadOf(l))[HeaderBits],
         Len(seg) >= ProtectedLength(l) + CrcBits => Cardinality(WrongIn(l, seg)) <= 2
  PROVE  DecodeBits(seg).locator \in {<<>>, <<l>>}
<1> DEFINE W == {0, 1}
           n == ProtectedLength(l)
           bits == BitsWithoutCrc(PayloadOf(l))
           crc == Crc(bits)
           all == PayloadBits(PayloadOf(l))
           H == HeaderBits
           m == PointerBits(l.mode)
           C == CrcBits
           word == SubSeq(seg, 1, n)
           check == SubSeq(seg, n + 1, n + C)
           rest == SubSeq(seg, H + 1, n)
<1>1. DecodeBits(seg) = DecodedAs(l, seg)
  BY PayloadDecodes
<1>2. NoWatermark.locator = <<>> /\ CrcFailed.locator = <<>>
  BY DEF NoWatermark, CrcFailed
<1>3. \A p : Extracted(Locator(l.mode, p)).locator = <<Locator(l.mode, p)>>
  BY DEF Extracted
<1>4. SUFFICES ASSUME ~(Len(seg) < n + C), CrcMatches(word, check)
               PROVE  Locator(l.mode, rest) = l
  BY <1>1, <1>2, <1>3, Zenon DEF DecodedAs
<1>5. bits \in [1..n -> W] /\ \A i \in 1..m : bits[H + i] = l.pointer[i]
  BY ProtectedIs
<1>6. /\ \A i \in 1..n : all[i] = bits[i]
      /\ \A i \in 1..C : all[n + i] = crc[i]
  BY PayloadIs
<1>7. l.pointer \in Seq(W) /\ Len(l.pointer) = m /\ Locator(l.mode, l.pointer) = l
  BY LocatorShape
<1>8. m \in Nat /\ C \in Nat /\ H \in Nat /\ n = H + m /\ seg \in Seq(W)
  BY Widths DEF ProtectedLength
<1>9. Crc(word) = check
  BY <1>4 DEF CrcMatches
<1>10. WrongIn(l, seg) = {i \in 1..(n + C) : seg[i] # all[i]}
  BY DEF WrongIn
<1>11. Len(seg) >= n + C /\ Cardinality(WrongIn(l, seg)) <= 2
  <2>1. Len(seg) \in Nat /\ n \in Nat
    BY <1>8
  <2>2. Len(seg) >= n + C => Cardinality(WrongIn(l, seg)) <= 2
    OBVIOUS
  <2>3. ~(Len(seg) < n + C)
    BY <1>4
  <2> HIDE DEF n, C
  <2> QED BY <1>8, <2>1, <2>2, <2>3
<1> DEFINE A == {i \in 1..n : word[i] # bits[i]}
           B == {i \in 1..C : Crc(word)[i] # crc[i]}
           D == WrongIn(l, seg)
           BN == {i \in (n + 1)..(n + C) : i - n \in B}
<1> HIDE DEF W, m, H, C, n, bits, crc, all
<1>12. n \in Nat /\ Len(seg) \in Nat
  BY <1>8
<1>13. word \in Seq(W) /\ Len(word) = n /\ \A i \in 1..n : word[i] = seg[i]
  <2>1. n \in Int /\ n <= Len(seg)
    BY <1>8, <1>11, <1>12
  <2> QED BY <1>8, <1>12, <2>1, Cropped
<1>14. \A i \in 1..C : check[i] = seg[n + i]
  BY <1>8, <1>11, <1>12, PartAt
<1> HIDE DEF word, check
<1>15. A \cup BN \in SUBSET D /\ A \cap BN = {}
  <2>1. \A i \in 1..n : i \in 1..(n + C)
    BY <1>8, <1>12
  <2>2. A \in SUBSET D
    BY <1>6, <1>10, <1>13, <2>1
  <2>3. ASSUME NEW i \in BN PROVE i \in D
    <3> DEFINE j == i - n
    <3>1. j \in 1..C /\ i = n + j /\ i \in 1..(n + C) /\ j \in B
      BY <1>8, <1>12
    <3> HIDE DEF j
    <3>2. seg[i] # all[i]
      BY <1>6, <1>9, <1>14, <3>1
    <3> HIDE DEF BN, D
    <3> QED BY <1>10, <3>1, <3>2 DEF D
  <2>4. A \cap BN = {}
    BY <1>12
  <2> HIDE DEF A, BN, D
  <2> QED BY <2>2, <2>3, <2>4
<1>16. IsFiniteSet(D) /\ IsFiniteSet(B)
  <2>1. IsFiniteSet(1..(n + C)) /\ IsFiniteSet(1..C)
    BY <1>8, <1>12, FS_Interval
  <2>2. D \in SUBSET (1..(n + C)) /\ B \in SUBSET (1..C)
    BY <1>10
  <2> HIDE DEF D, B
  <2> QED BY <2>1, <2>2, FS_Subset
<1>17. Cardinality(B) <= Cardinality(BN)
  <2> DEFINE shift == [i \in B |-> n + i]
  <2>0. \A i \in B : i \in Nat /\ n + i \in BN
    <3> TAKE i \in B
    <3>1. i \in 1..C /\ n + i \in (n + 1)..(n + C) /\ (n + i) - n = i
      BY <1>8, <1>12
    <3> QED BY <3>1
  <2>1. shift \in Injection(B, BN)
    <3> HIDE DEF B, BN
    <3> QED BY <1>12, <2>0 DEF Injection, IsInjective
  <2>2. IsFiniteSet(BN)
    <3>1. BN \in SUBSET D
      BY <1>15
    <3> HIDE DEF BN, D
    <3> QED BY <1>16, <3>1, FS_Subset
  <2> HIDE DEF shift, B, BN
  <2> QED BY <2>1, <2>2, FS_Injection
<1> HIDE DEF A, B, BN, D
<1>18. IsFiniteSet(A) /\ IsFiniteSet(BN)
  <2>1. A \in SUBSET D /\ BN \in SUBSET D
    BY <1>15
  <2> QED BY <1>16, <2>1, FS_Subset
<1>19. Cardinality(A) + Cardinality(B) <= 2
  <2>1. Cardinality(A \cup BN) = Cardinality(A) + Cardinality(BN) - Cardinality(A \cap BN)
    BY <1>18, FS_Union
  <2>2. Cardinality(A \cap BN) = 0
    BY <1>15, FS_EmptySet
  <2>3. Cardinality(A \cup BN) <= Cardinality(D)
    BY <1>15, <1>16, FS_Subset
  <2>4. /\ Cardinality(A) \in Nat /\ Cardinality(B) \in Nat
        /\ Cardinality(BN) \in Nat /\ Cardinality(D) \in Nat
    BY <1>16, <1>18, FS_CardinalityType
  <2>5. Cardinality(D) <= 2
    BY <1>11 DEF D
  <2> QED BY <1>17, <2>1, <2>2, <2>3, <2>4, <2>5
<1>20. word = bits
  <2>1. word \in [1..ProtectedLength(l) -> {0, 1}]
    BY <1>12, <1>13 DEF W, n
  <2> QED BY <1>19, <2>1, ProtectedIsTheSame DEF A, B, n, C, crc, bits
<1>21. rest = l.pointer
  <2>1. H + Len(l.pointer) <= Len(seg)
    BY <1>7, <1>8, <1>11, <1>12
  <2>2. \A i \in 1..Len(l.pointer) : seg[H + i] = l.pointer[i]
    <3> TAKE i \in 1..Len(l.pointer)
    <3>1. i \in 1..m /\ H + i \in 1..n
      BY <1>7, <1>8
    <3> QED BY <1>5, <1>13, <1>20, <3>1
  <2>3. SubSeq(seg, H + 1, H + Len(l.pointer)) = l.pointer
    BY <1>7, <1>8, <2>1, <2>2, PartIs
  <2> QED BY <1>7, <1>8, <2>3
<1> QED BY <1>7, <1>21

\* The same of a frame: its length field may be wrong as well.
LEMMA FrameIsNoOther ==
  ASSUME NEW l \in Locators, NEW got \in Seq({0, 1}), NEW a \in PreambleOffsets(got),
         \A o \in PreambleOffsets(got) : a <= o,
         NEW wrong, IsFiniteSet(wrong),
         \A g \in 1..Len(FrameOf(l)) : got[a + g] # FrameOf(l)[g] => a + g \in wrong,
         NEW c \in Nat, a + Len(Preamble) + LengthBits = c,
         wrong \cap (((c + HeaderBits) - 1)..(c + HeaderBits)) = {},
         Cardinality({g \in wrong : g > c}) <= 2
  PROVE  DecodeFrame(got).locator \in {<<>>, <<l>>}
<1> DEFINE W == {0, 1}
           p == Len(Preamble)
           k == LengthBits
           first == a + p + k
           frame == FrameOf(l)
           all == PayloadBits(PayloadOf(l))
           bits == BitsWithoutCrc(PayloadOf(l))
           n == ProtectedLength(l)
           C == CrcBits
           H == HeaderBits
           length == BitsToInt(SubSeq(got, first - k + 1, first))
           seg == SubSeq(got, first + 1, first + length)
           late == {g \in wrong : g > first}
<1>1. p \in Nat /\ k \in Nat /\ C \in Nat /\ H \in Nat /\ H >= 2 /\ got \in Seq(W) /\ a \in Nat
  BY Widths DEF PreambleOffsets
<1>2. H <= n /\ n \in Nat
  BY Widths DEF ProtectedLength
<1>3. /\ Len(frame) = p + k + Len(all) /\ \A i \in 1..Len(all) : frame[p + k + i] = all[i]
  BY FrameIs
<1>4. /\ Len(all) = n + C /\ \A i \in 1..n : all[i] = bits[i]
  BY PayloadIs
<1>5. /\ \A g \in 1..Len(frame) : got[a + g] # frame[g] => a + g \in wrong
      /\ wrong \cap (((first + H) - 1)..(first + H)) = {}
      /\ Cardinality(late) <= 2
  OBVIOUS
<1>6. DecodeFrame(got) = DecodedAt(got, a)
  BY FirstDecides
<1>7. NoWatermark.locator = <<>>
  BY DEF NoWatermark
<1>8. DecodedAt(got, a) = IF Len(got) < first \/ Len(got) < first + length THEN NoWatermark
                          ELSE DecodeBits(seg)
  BY DEF DecodedAt
<1> HIDE DEF W, p, k, frame, all, bits, n, C, H, late, length
<1>9. first \in Nat /\ Len(got) \in Nat
  BY <1>1
<1>10. SUFFICES ASSUME ~(Len(got) < first), ~(Len(got) < first + length)
                PROVE  DecodeBits(seg).locator \in {<<>>, <<l>>}
  <2> HIDE DEF first, seg
  <2> QED BY <1>6, <1>7, <1>8
<1>11. length \in Nat
  <2> DEFINE b == a + p
             field == SubSeq(got, b + 1, b + k)
  <2>0. b \in Nat /\ b + k <= Len(got)
    BY <1>1, <1>9, <1>10
  <2>1. first - k + 1 = b + 1 /\ first = b + k
    BY <1>1
  <2> HIDE DEF b, first
  <2>2. field \in Seq(W) /\ Len(field) = k
    <3>1. k \in Nat /\ got \in Seq(W)
      BY <1>1
    <3> QED BY <2>0, <3>1, PartAt
  <2>3. length = BitsToInt(field)
    BY <2>1 DEF length
  <2> HIDE DEF field
  <2>4. field \in [1..k -> {0, 1}]
    BY <2>2 DEF W
  <2> QED BY <1>1, <2>3, <2>4, BitsToIntNat
<1>12. \A i \in 1..(n + C) : got[first + i] # all[i] => first + i \in late
  <2> TAKE i \in 1..(n + C)
  <2> HAVE got[first + i] # all[i]
  <2>1. i \in 1..Len(all)
    BY <1>4
  <2>2. p + k + i \in 1..Len(frame) /\ first + i = a + (p + k + i) /\ first + i > first
    BY <1>1, <1>2, <1>3, <1>4
  <2> HIDE DEF first
  <2>3. first + i \in wrong
    BY <1>3, <1>5, <2>1, <2>2
  <2> QED BY <2>2, <2>3 DEF late
<1> HIDE DEF first
<1>13. seg \in Seq(W) /\ Len(seg) = length /\ \A i \in 1..length : seg[i] = got[first + i]
  <2>1. first + length <= Len(got)
    BY <1>9, <1>10, <1>11
  <2> QED BY <1>1, <1>9, <1>11, <2>1, PartAt
<1> HIDE DEF seg
<1>14. ASSUME length >= H PROVE seg[H - 1] = bits[H - 1] /\ seg[H] = bits[H]
  <2>1. ASSUME NEW i \in {H - 1, H} PROVE seg[i] = bits[i]
    <3>1. i \in 1..length /\ i \in 1..n /\ i \in 1..(n + C)
      BY <1>1, <1>2, <1>11, <1>14
    <3>2. first + i \in ((first + H) - 1)..(first + H)
      BY <1>1, <1>9
    <3>3. first + i \notin wrong
      BY <1>5, <3>2
    <3>4. got[first + i] = all[i]
      BY <1>12, <3>1, <3>3 DEF late
    <3> QED BY <1>4, <1>13, <3>1, <3>4
  <2> QED BY <2>1
<1>15. ASSUME length >= n + C PROVE Cardinality(WrongIn(l, seg)) <= 2
  <2> DEFINE D == WrongIn(l, seg)
             shift == [i \in D |-> first + i]
  <2>1. \A i \in D : i \in Nat /\ first + i \in late
    <3> TAKE i \in D
    <3>1. i \in 1..(n + C) /\ seg[i] # all[i]
      BY DEF WrongIn, n, C, all
    <3>2. i \in 1..length
      BY <1>1, <1>2, <1>11, <1>15, <3>1
    <3> HIDE DEF D
    <3> QED BY <1>12, <1>13, <3>1, <3>2
  <2> HIDE DEF D
  <2>2. shift \in Injection(D, late)
    BY <1>9, <2>1 DEF Injection, IsInjective
  <2>3. IsFiniteSet(late)
    <3>1. late \in SUBSET wrong
      BY DEF late
    <3> QED BY <3>1, FS_Subset
  <2> HIDE DEF shift
  <2>4. IsFiniteSet(D) /\ Cardinality(D) <= Cardinality(late)
    BY <2>2, <2>3, FS_Injection
  <2>5. Cardinality(D) \in Nat /\ Cardinality(late) \in Nat
    BY <2>3, <2>4, FS_CardinalityType
  <2> QED BY <1>5, <2>4, <2>5 DEF D
<1>16. seg \in Seq({0, 1})
  BY <1>13 DEF W
<1>17. Len(seg) >= HeaderBits =>
         /\ seg[HeaderBits - 1] = BitsWithoutCrc(PayloadOf(l))[HeaderBits - 1]
         /\ seg[HeaderBits] = BitsWithoutCrc(PayloadOf(l))[HeaderBits]
  BY <1>13, <1>14 DEF H, bits
<1>18. Len(seg) >= ProtectedLength(l) + CrcBits => Cardinality(WrongIn(l, seg)) <= 2
  BY <1>13, <1>15 DEF n, C
<1> QED BY <1>16, <1>17, <1>18, PayloadIsNoOther

(***************************************************************************)
(* What the frame profiles promise.                                        *)
(***************************************************************************)
\* The frame in reach, as the invariant has it.
LEMMA FrameInReach ==
  ASSUME FrameInv, FrameOut, InReach
  PROVE  \E l \in Locators :
           /\ sent = <<l>> /\ Carries(l) /\ FrameEnd = FrameAt + Len(FrameOf(l))
           /\ FrameAt \in Nat /\ FrameAt <= MaxScan /\ start % Repetitions = 0
           /\ LastOf(FrameAt + Len(FrameOf(l)), Repetitions) <= Len(image)
           /\ found = <<DecodeFrame(Decoded(image))>>
<1>1. ~Rateless /\ sent # <<>> /\ found # <<>> /\ FrameTypes /\ SentIsCarried /\ FoundIsRead
  BY DEF FrameOut, FrameInv
<1>2. PICK l \in Locators : sent = <<l>> /\ Carries(l)
  BY <1>1 DEF SentIsCarried
<1>3. FrameEnd = FrameAt + Len(FrameOf(l))
  BY <1>2 DEF FrameEnd, FrameOf, PayloadOf
<1>4. found = <<DecodeFrame(Decoded(image))>>
  BY <1>1 DEF FoundIsRead, DecodePayload, Decoded, Repetitions
<1>5. /\ start % Repetitions = 0 /\ FrameAt <= MaxScan
      /\ LastOf(FrameEnd, Repetitions) <= Len(image)
  BY DEF InReach, LastOf
<1>6. FrameAt \in Nat
  BY <1>1, <1>5, FrameAtIs
<1> QED BY <1>2, <1>3, <1>4, <1>5, <1>6

\* An image of the channel is decoded to bits.
LEMMA DecodedBits ==
  ASSUME FrameInv, ~Rateless, NEW img \in {image, clean}
  PROVE  /\ Decoded(img) \in Seq({0, 1}) /\ img \in Seq(Lists(profile)) /\ Len(img) = Len(clean)
         /\ Repetitions \in Nat \ {0} /\ profile \in Profiles
<1>1. /\ img \in Seq(Lists(profile)) /\ Len(img) = Len(clean) /\ profile \in Profiles
      /\ Repetitions \in Nat \ {0}
  BY ProfileFacts DEF FrameInv, FrameTypes, Repetitions
<1> DEFINE bits == ReadBits(profile, img)
<1>2. bits \in Seq({0, 1})
  BY <1>1, ReadBitsAre
<1> HIDE DEF bits
<1>3. Unrepeated(bits, Repetitions) \in Seq({0, 1})
  BY <1>1, <1>2, UnrepeatedIs
<1> QED BY <1>1, <1>3 DEF Decoded, bits

\* A bit that is not lost is decoded as it was written.
LEMMA DecodedAsWritten ==
  ASSUME FrameInv, ~Rateless, NEW l \in Locators, Carries(l), NEW img \in {image, clean},
         start % Repetitions = 0,
         LastOf(FrameAt + Len(FrameOf(l)), Repetitions) <= Len(image),
         NEW g \in 1..Len(FrameOf(l)),
         ~(2 * Cardinality({i \in GroupAt(FrameAt + g, Repetitions) : LostIn(profile, img, i)})
             >= Repetitions)
  PROVE  FrameAt + g <= Len(Decoded(img)) /\ Decoded(img)[FrameAt + g] = FrameOf(l)[g]
<1> DEFINE n == Repetitions
           place == FrameAt
           m == Len(FrameOf(l))
           G == GroupAt(place + g, n)
           lost == {i \in G : LostIn(profile, img, i)}
<1>1. n \in Nat \ {0} /\ img \in Seq(Lists(profile)) /\ Len(img) = Len(clean)
  BY DecodedBits
<1>2. Len(image) = Len(clean)
  BY DEF FrameInv, FrameTypes
<1>3. place \in Nat /\ m \in Nat
  <2> DEFINE frame == FrameOf(l)
  <2>1. frame \in Seq({0, 1})
    BY FrameIs
  <2> HIDE DEF frame
  <2>2. Len(frame) \in Nat
    BY <2>1
  <2>3. place \in Nat
    BY FrameAtIs
  <2> QED BY <2>2, <2>3 DEF frame
<1>4. IsFiniteSet(G)
  <2> HIDE DEF n, place, m
  <2>1. GroupFacts(place, m, n, g)
    <3>1. g \in 1..m
      BY DEF m
    <3> QED BY <1>1, <1>3, <3>1, GroupIsThere
  <2> DEFINE a == BeforeOf(place + g, n)
             z == LastOf(place + g, n)
  <2>2. a \in Int /\ z \in Int
    BY <1>1, <2>1 DEF GroupFacts
  <2>3. G = (a + 1)..z
    BY DEF GroupAt
  <2> HIDE DEF a, z, G
  <2>4. a + 1 \in Int
    BY <2>2
  <2> QED BY <2>2, <2>3, <2>4, FS_Interval
<1>5. Cardinality(lost) \in Nat
  <2>1. lost \in SUBSET G
    OBVIOUS
  <2> HIDE DEF lost, G
  <2>2. IsFiniteSet(lost)
    BY <1>4, <2>1, FS_Subset
  <2> QED BY <2>2, FS_CardinalityType
<1>6. ~(2 * Cardinality(lost) >= n)
  OBVIOUS
<1>7. 2 * Cardinality(lost) < n
  <2> HIDE DEF lost, n
  <2> QED BY <1>1, <1>5, <1>6
<1> QED BY <1>1, <1>2, <1>7, FrameReads DEF Decoded

\* The preamble of the frame is the first that is found.
NoEarlierPreamble == \A o \in PreambleOffsets(Decoded(image)) : FrameAt <= o

LEMMA FrameIsRepaired ==
  ASSUME FrameInv, NoEarlierPreamble
  PROVE  RepairsWithinBudget
<1> SUFFICES ASSUME FrameOut, InReach, \A g \in 1..FrameEnd : ~BitLost(g)
             PROVE  found = <<Extracted(sent[1])>>
  BY DEF RepairsWithinBudget
<1>1. PICK l \in Locators :
        /\ sent = <<l>> /\ Carries(l) /\ FrameEnd = FrameAt + Len(FrameOf(l))
        /\ FrameAt \in Nat /\ FrameAt <= MaxScan /\ start % Repetitions = 0
        /\ LastOf(FrameAt + Len(FrameOf(l)), Repetitions) <= Len(image)
        /\ found = <<DecodeFrame(Decoded(image))>>
  BY FrameInReach
<1> DEFINE got == Decoded(image)
           frame == FrameOf(l)
<1>2. ~Rateless
  BY DEF FrameOut
<1>3. got \in Seq({0, 1})
  BY <1>2, DecodedBits
<1>4. frame \in Seq({0, 1}) /\ Len(frame) \in Nat /\ Len(frame) >= 1
  <2>1. frame \in Seq({0, 1}) /\ Len(frame) = Len(Preamble) + LengthBits + Len(PayloadBits(PayloadOf(l)))
        /\ Len(Preamble) \in Nat /\ Len(PayloadBits(PayloadOf(l))) \in Nat
    BY FrameIs
  <2>2. LengthBits \in Nat /\ LengthBits >= 1
    BY FieldAssumption
  <2> HIDE DEF frame
  <2> QED BY <2>1, <2>2
<1>5. \A g \in 1..Len(frame) : FrameAt + g <= Len(got) /\ got[FrameAt + g] = frame[g]
  <2> TAKE g \in 1..Len(frame)
  <2>1. FrameAt + g \in 1..FrameEnd
    <3>1. FrameAt \in Nat /\ FrameEnd = FrameAt + Len(frame)
      BY <1>1
    <3> HIDE DEF frame
    <3> QED BY <1>4, <3>1
  <2>2. ~BitLost(FrameAt + g)
    BY <2>1
  <2>3. \A i : CarrierLost(i) <=> LostIn(profile, image, i)
    BY DEF CarrierLost, LostIn, Drifted
  <2>4. ~(2 * Cardinality({i \in GroupAt(FrameAt + g, Repetitions) :
                             LostIn(profile, image, i)}) >= Repetitions)
    BY <2>2, <2>3 DEF BitLost, GroupAt, BeforeOf, LastOf
  <2> QED BY <1>1, <1>2, <2>4, DecodedAsWritten
<1> HIDE DEF got, frame
<1>6. HasFrame(l, got, FrameAt)
  <2>1. Len(frame) \in 1..Len(frame)
    BY <1>4
  <2>2. FrameAt + Len(frame) <= Len(got)
    BY <1>5, <2>1
  <2> QED BY <1>1, <1>3, <1>5, <2>2 DEF HasFrame, frame
<1>7. DecodeFrame(got) = Extracted(l)
  BY <1>1, <1>6, FrameDecodes DEF NoEarlierPreamble, got
<1> QED BY <1>1, <1>7 DEF got

\* In the image as it was embedded, moved alike, nothing is lost.
LEMMA CleanReads ==
  ASSUME FrameInv, ~Rateless, NEW l \in Locators, Carries(l), start % Repetitions = 0,
         LastOf(FrameAt + Len(FrameOf(l)), Repetitions) <= Len(image),
         NEW g \in 1..Len(FrameOf(l))
  PROVE  Decoded(clean)[FrameAt + g] = FrameOf(l)[g]
<1> DEFINE n == Repetitions
           place == FrameAt
           m == Len(FrameOf(l))
           lost == {i \in GroupAt(place + g, n) : LostIn(profile, clean, i)}
<1>1. n \in Nat \ {0} /\ profile \in Profiles /\ clean \in Seq(Lists(profile))
  BY DecodedBits
<1>2. Len(image) = Len(clean)
  BY DEF FrameInv, FrameTypes
<1>3. place \in Nat /\ m \in Nat
  <2> DEFINE frame == FrameOf(l)
  <2>1. frame \in Seq({0, 1})
    BY FrameIs
  <2> HIDE DEF frame
  <2>2. Len(frame) \in Nat
    BY <2>1
  <2>3. place \in Nat
    BY FrameAtIs
  <2> QED BY <2>2, <2>3 DEF frame
<1>4. GroupAt(place + g, n) \subseteq 1..Len(clean)
  <2>1. LastOf(place + m, n) <= Len(clean) /\ g \in 1..m
    BY <1>2
  <2> HIDE DEF n, place, m
  <2>2. GroupFacts(place, m, n, g)
    BY <1>1, <1>3, <2>1, GroupIsThere
  <2> DEFINE a == BeforeOf(place + g, n)
             z == LastOf(place + g, n)
             y == LastOf(place + m, n)
             p == LastOf(place, n)
             e == BeforeOf(g, n)
  <2>3. /\ a = p + e /\ p \in Nat /\ e \in Nat /\ y \in Nat /\ z <= y /\ z = a + n
        /\ y <= Len(clean)
    BY <2>1, <2>2, Zenon DEF GroupFacts
  <2>4. GroupAt(place + g, n) = (a + 1)..z
    BY DEF GroupAt
  <2> HIDE DEF a, z, y, p, e
  <2>5. a \in Nat
    BY <2>3
  <2>6. Len(clean) \in Nat
    BY <1>1
  <2> QED BY <1>1, <2>3, <2>4, <2>5, <2>6
<1>5. \A i \in 1..Len(clean) : ~LostIn(profile, clean, i)
  <2> TAKE i \in 1..Len(clean)
  <2> DEFINE s == profile.spread
             D == Drifted(profile, clean[i], clean[i])
  <2>1. s \in Nat /\ s >= 1 /\ profile.delta \in Nat \ {0}
    BY <1>1, ProfileFacts
  <2>2. clean[i] \in [1..s -> Int]
    BY <1>1 DEF Lists
  <2>3. \A c \in 1..s : clean[i][c] - clean[i][c] = 0
    <3>1. \A c \in 1..s : clean[i][c] \in Int
      BY <2>2
    <3> QED BY <3>1
  <2>4. 2 * Abs(0) = 0
    BY DEF Abs
  <2>5. D = {}
    BY <2>1, <2>2, <2>3, <2>4 DEF Drifted
  <2>6. Cardinality(D) = 0
    BY <2>5, FS_EmptySet
  <2> HIDE DEF s, D
  <2>7. ~(2 * Cardinality(D) >= s)
    BY <2>1, <2>6
  <2> QED BY <2>7 DEF LostIn, D, s
<1>6. lost = {}
  BY <1>4, <1>5
<1>7. Cardinality(lost) = 0
  BY <1>6, FS_EmptySet
<1>8. ~(2 * Cardinality(lost) >= n)
  <2> HIDE DEF lost, n
  <2> QED BY <1>1, <1>7
<1> QED BY <1>8, DecodedAsWritten

LEMMA AnotherIsNoticed ==
  ASSUME FrameInv
  PROVE  NeverAnotherLocator
<1> DEFINE got == Decoded(image)
           want == Decoded(clean)
           wrong == {g \in 1..FrameEnd : got[g] # want[g]}
           payloadAt == FrameAt + Len(Preamble) + LengthBits
           flagsAt == payloadAt + HeaderBits
           O == PreambleOffsets(got)
<1>0. SUFFICES ASSUME FrameOut, InReach,
                      wrong \cap ((flagsAt - 1)..flagsAt) = {},
                      Cardinality({g \in wrong : g > payloadAt}) <= 2,
                      FrameAt \in O, \A o \in O : FrameAt <= o
               PROVE  found[1].locator \in {<<>>, sent}
  BY DEF NeverAnotherLocator
<1>1. PICK l \in Locators :
        /\ sent = <<l>> /\ Carries(l) /\ FrameEnd = FrameAt + Len(FrameOf(l))
        /\ FrameAt \in Nat /\ FrameAt <= MaxScan /\ start % Repetitions = 0
        /\ LastOf(FrameAt + Len(FrameOf(l)), Repetitions) <= Len(image)
        /\ found = <<DecodeFrame(Decoded(image))>>
  BY <1>0, FrameInReach
<1>2. ~Rateless
  BY <1>0 DEF FrameOut
<1>3. got \in Seq({0, 1})
  BY <1>2, DecodedBits
<1> DEFINE m == Len(FrameOf(l))
<1>4. m \in Nat
  <2> DEFINE frame == FrameOf(l)
  <2>1. frame \in Seq({0, 1})
    BY FrameIs
  <2> HIDE DEF frame
  <2>2. Len(frame) \in Nat
    BY <2>1
  <2> QED BY <2>2 DEF frame
<1>5. \A g \in 1..m : want[FrameAt + g] = FrameOf(l)[g]
  BY <1>1, <1>2, CleanReads
<1>6. FrameEnd \in Nat /\ \A g \in 1..m : FrameAt + g \in 1..FrameEnd
  <2>1. FrameAt \in Nat /\ FrameEnd = FrameAt + m
    BY <1>1
  <2> HIDE DEF m
  <2> QED BY <1>4, <2>1
<1>7. IsFiniteSet(wrong)
  <2>1. wrong \in SUBSET (1..FrameEnd)
    OBVIOUS
  <2>2. IsFiniteSet(1..FrameEnd)
    BY <1>6, FS_Interval
  <2> HIDE DEF wrong
  <2> QED BY <2>1, <2>2, FS_Subset
<1>8. \A g \in 1..m : got[FrameAt + g] # FrameOf(l)[g] => FrameAt + g \in wrong
  <2> HIDE DEF m, got, want
  <2> QED BY <1>5, <1>6
<1>9. payloadAt \in Nat
  BY <1>1, Widths
<1>10. DecodeFrame(got).locator \in {<<>>, <<l>>}
  <2>1. FrameAt + Len(Preamble) + LengthBits = payloadAt
    OBVIOUS
  <2>2. /\ wrong \cap (((payloadAt + HeaderBits) - 1)..(payloadAt + HeaderBits)) = {}
        /\ Cardinality({g \in wrong : g > payloadAt}) <= 2
    <3> HIDE DEF wrong, payloadAt
    <3> QED BY <1>0
  <2>3. FrameAt \in PreambleOffsets(got) /\ \A o \in PreambleOffsets(got) : FrameAt <= o
    BY <1>0
  <2>4. \A g \in 1..Len(FrameOf(l)) :
          got[FrameAt + g] # FrameOf(l)[g] => FrameAt + g \in wrong
    BY <1>8
  <2> HIDE DEF payloadAt, wrong, got
  <2> QED BY <1>3, <1>7, <1>9, <2>1, <2>2, <2>3, <2>4, FrameIsNoOther
<1>11. found[1] = DecodeFrame(got)
  BY <1>1
<1> HIDE DEF got
<1> QED BY <1>1, <1>10, <1>11

\* Damage that loses no bit of a frame is repaired, wherever the frame has been
\* moved within reach of the scan, as long as no row put above it looks like a
\* preamble: for every width of the fields, polynomial, preamble, strength and
\* image.
THEOREM AlwaysRepairs == Spec => [](NoEarlierPreamble => RepairsWithinBudget)
<1>1. FrameInv => (NoEarlierPreamble => RepairsWithinBudget)
  BY FrameIsRepaired
<1> QED BY <1>1, FrameInvariance, PTL

\* Nothing else is asked of an image that has not been moved.
THEOREM AlwaysRepairsInPlace == Spec => [](start = 0 => RepairsWithinBudget)
<1>1. FrameInv /\ start = 0 => RepairsWithinBudget
  <2> SUFFICES ASSUME FrameInv, start = 0 PROVE RepairsWithinBudget
    OBVIOUS
  <2>1. CASE Rateless
    BY <2>1 DEF RepairsWithinBudget, FrameOut
  <2>2. CASE ~Rateless
    <3> DEFINE n == Repetitions
    <3>1. n \in Nat \ {0}
      BY <2>2, DecodedBits
    <3> HIDE DEF n
    <3>2. 0 \div n = 0
      BY <3>1
    <3>3. FrameAt = 0
      BY <3>2 DEF FrameAt, n
    <3>4. NoEarlierPreamble
      BY <3>3 DEF NoEarlierPreamble, PreambleOffsets
    <3> QED BY <3>4, FrameIsRepaired
  <2> QED BY <2>1, <2>2
<1> QED BY <1>1, FrameInvariance, PTL

\* Damage beyond repair is noticed: two wrong bits of a payload, the mode flags
\* apart, are no other locator, for every polynomial that tells payloads of up to
\* two bits' difference apart.
THEOREM AlwaysNeverAnotherLocator == Spec => []NeverAnotherLocator
<1>1. FrameInv => NeverAnotherLocator
  BY AnotherIsNoticed
<1> QED BY <1>1, FrameInvariance, PTL
=============================================================================
