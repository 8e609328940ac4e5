--------------------------- MODULE MCManifestStore --------------------------
(***************************************************************************)
(* ManifestStore for TLC.  Store objects and manifests are interchangeable.*)
(***************************************************************************)
EXTENDS ManifestStore, TLC

Symmetry == Permutations(Handles) \cup Permutations(Manifests)
=============================================================================
