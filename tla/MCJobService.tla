---------------------------- MODULE MCJobService ----------------------------
(***************************************************************************)
(* JobService for TLC.  The threads that serve verify and report requests  *)
(* are interchangeable: no action and no property singles one out.         *)
(***************************************************************************)
EXTENDS JobService, TLC

Symmetry == Permutations(Verifiers)
=============================================================================
