----------------------------- MODULE Gf2Solver -----------------------------
(***************************************************************************)
(* The incremental solver of oprow/rateless/gf2.py: Gauss-Jordan           *)
(* elimination over GF(2), one row at a time, one pivot at a time.  A row  *)
(* is the set of its variables and a right-hand side, a key the set of the *)
(* variables that are 1.                                                   *)
(***************************************************************************)
EXTENDS Integers, Sequences, FiniteSets

CONSTANT Width        \* number of unknown bits (160 in the code)

ASSUME WidthAssumption == Width \in Nat \ {0}

VARIABLES
  equations,          \* the rows to solve, in their order
  seen,               \* how many of them have been taken
  row,                \* the row in hand
  at,                 \* next pivot to reduce it by; Width if there is none in hand
  basis,              \* pivot -> row
  redundant,          \* rows that reduced to nothing
  inconsistent        \* a row reduced to 0 = 1
solverVars == <<equations, seen, row, at, basis, redundant, inconsistent>>

Unknowns == 0..(Width - 1)
Rows == [mask : SUBSET Unknowns, rhs : {0, 1}]
NoRow == [mask |-> {}, rhs |-> 0]

\* parity_int, of the bits of a set.
Parity(S) == Cardinality(S) % 2
XorMask(S, T) == (S \ T) \cup (T \ S)
Xor(a, b) == [mask |-> XorMask(a.mask, b.mask), rhs |-> (a.rhs + b.rhs) % 2]

\* bit_length() - 1
Highest(mask) == CHOOSE p \in mask : \A q \in mask : q <= p

\* The equation of a row, <mask, K> = rhs.
Holds(r, key) == Parity(r.mask \cap key) = r.rhs

SolverIdle ==
  /\ equations = <<>> /\ seen = 0 /\ row = NoRow /\ at = Width
  /\ basis = <<>> /\ redundant = 0 /\ inconsistent = FALSE

\* solve_gf2 is called.
Solve(eqs) ==
  /\ equations' = eqs /\ seen' = 0 /\ row' = NoRow /\ at' = Width
  /\ basis' = <<>> /\ redundant' = 0 /\ inconsistent' = FALSE

Finished == at = Width /\ (inconsistent \/ seen = Len(equations))

TakeEquation ==
  /\ at = Width /\ ~inconsistent /\ seen < Len(equations)
  /\ seen' = seen + 1 /\ row' = equations[seen + 1] /\ at' = Width - 1
  /\ UNCHANGED <<equations, basis, redundant, inconsistent>>

\* Mutant of Reduced: the first variable that is no pivot ends the reduction.
ReducedToFree ==
  IF at \in DOMAIN basis /\ at \in row.mask /\ at = Highest(row.mask)
  THEN Xor(row, basis[at]) ELSE row

\* The row in hand without the pivot at hand.
Reduced == IF at \in DOMAIN basis /\ at \in row.mask THEN Xor(row, basis[at]) ELSE row

\* The pivots, from high to low.
ReduceByPivot ==
  /\ at \in Unknowns
  /\ row' = Reduced
  /\ at' = at - 1
  /\ UNCHANGED <<equations, seen, basis, redundant, inconsistent>>

\* Nothing is left of the row: it says 0 = 0, or 0 = 1 and the solver returns.
DropRow ==
  /\ at = -1 /\ row.mask = {}
  /\ IF row.rhs = 1 THEN inconsistent' = TRUE /\ UNCHANGED redundant
     ELSE redundant' = redundant + 1 /\ UNCHANGED inconsistent
  /\ at' = Width
  /\ UNCHANGED <<equations, seen, row, basis>>

\* Mutant of Inserted: the new pivot stays in the older rows.
InsertedOnly(pivot) ==
  [p \in DOMAIN basis \cup {pivot} |-> IF p = pivot THEN row ELSE basis[p]]

\* The basis with the row in hand, whose pivot is taken out of the others.
Inserted(pivot) ==
  [p \in DOMAIN basis \cup {pivot} |->
     IF p = pivot THEN row
     ELSE IF pivot \in basis[p].mask THEN Xor(basis[p], row) ELSE basis[p]]

KeepRow ==
  /\ at = -1 /\ row.mask # {}
  /\ basis' = Inserted(Highest(row.mask))
  /\ at' = Width
  /\ UNCHANGED <<equations, seen, row, redundant, inconsistent>>

SolverStep == TakeEquation \/ ReduceByPivot \/ DropRow \/ KeepRow

\* The solver by itself, called again and again.
SolverSpec ==
  SolverIdle /\ [][SolverStep \/ (equations' \in Seq(Rows) /\ Solve(equations'))]_solverVars

\* GF2SolveResult.
Rank == Cardinality(DOMAIN basis)
Solved == Finished /\ ~inconsistent /\ Rank = Width
Solution == {p \in DOMAIN basis : basis[p].rhs = 1}

(***************************************************************************)
(* Properties.                                                             *)
(***************************************************************************)
Solves(key) == \A i \in DOMAIN equations : Holds(equations[i], key)

\* What the solver says of the system is so, whatever the order of the rows
\* and however they depend on one another: it is called inconsistent exactly
\* if no key solves it, and solved exactly if one key alone does, and then that
\* is the solution read off the right-hand sides (gf2.py:258-264).
SolverIsExact ==
  Finished =>
    /\ inconsistent <=> \A key \in SUBSET Unknowns : ~Solves(key)
    /\ Solved <=> \E key \in SUBSET Unknowns :
                    Solves(key) /\ \A other \in SUBSET Unknowns : Solves(other) => other = key
    /\ Solved => Solves(Solution)

\* The basis is in reduced form all the time (gf2.py:207-209): a row's pivot is
\* its highest variable, and no other row has it.  A row in hand has lost the
\* pivots it was reduced by, and the later ones did not bring them back.
BasisReduced ==
  /\ \A p \in DOMAIN basis :
       /\ p \in basis[p].mask /\ \A q \in basis[p].mask : q <= p
       /\ \A q \in DOMAIN basis \ {p} : p \notin basis[q].mask
  /\ at < Width => \A p \in DOMAIN basis : p > at => p \notin row.mask
=============================================================================
