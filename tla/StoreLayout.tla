---------------------------- MODULE StoreLayout -----------------------------
(***************************************************************************)
(* A manifest store's root directory and what the backends of              *)
(* openwater_mk/storage.py make of it: LocalFileStore over oprow's FileCAS *)
(* (one file per manifest, no index), FakeArweaveStore (manifests/ and     *)
(* index.json) and FakeIPFSStore (blocks/ and index.json).  Identifiers    *)
(* are hashes of the bytes, so <<kind, m>> stands for the file and for the *)
(* index entry under which a backend of that kind keeps manifest m.        *)
(***************************************************************************)
EXTENDS TextFile

Kinds == {"local", "fake-arweave", "fake-ipfs"}

Entries(Manifests) == Kinds \X Manifests

Roots(Manifests) ==
  [index : FileOf(SUBSET Entries(Manifests)),  \* index.json
   dirs  : SUBSET {"manifests", "blocks"},     \* subdirectories made
   blobs : SUBSET Entries(Manifests),          \* manifest files, whole
   torn  : SUBSET Entries(Manifests)]          \* manifest files, truncated

EmptyRoot == [index |-> Absent, dirs |-> {}, blobs |-> {}, torn |-> {}]

\* Mutant of DirsOf: the plain store gets a subdirectory of its own.
DirsOfAll(kind) == CASE kind = "fake-arweave" -> {"manifests"}
                     [] kind = "fake-ipfs"    -> {"blocks"}
                     [] OTHER                 -> {"objects"}

DirsOf(kind) == CASE kind = "fake-arweave" -> {"manifests"}
                  [] kind = "fake-ipfs"    -> {"blocks"}
                  [] OTHER                 -> {}

HasIndex(kind) == kind # "local"

\* Building a store object makes its directories and loads the index once.
Opened(root, kind) == [root EXCEPT !.dirs = @ \cup DirsOf(kind)]

Opens(root, kind) == HasIndex(kind) /\ Exists(root.index) => Parses(root.index)

LoadedIndex(root, kind) ==
  IF HasIndex(kind) /\ Exists(root.index) THEN root.index.val ELSE {}

\* put_bytes, file by file.
BlobOpened(root, kind, m) ==
  [root EXCEPT !.blobs = @ \ {<<kind, m>>}, !.torn = @ \cup {<<kind, m>>}]

\* Mutant of BlobWritten: the bytes never reach the file.
BlobNotFlushed(root, kind, m) == root

BlobWritten(root, kind, m) ==
  [root EXCEPT !.blobs = @ \cup {<<kind, m>>}, !.torn = @ \ {<<kind, m>>}]

\* get_bytes through an object that loaded idx, as a caller that decodes the
\* bytes sees it: a truncated file is no manifest.
Finds(root, kind, idx, m) ==
  /\ HasIndex(kind) => <<kind, m>> \in idx
  /\ <<kind, m>> \in root.blobs

Detected(root) ==
  IF Exists(root.index) /\ "manifests" \in root.dirs THEN "fake-arweave"
  ELSE IF Exists(root.index) /\ "blocks" \in root.dirs THEN "fake-ipfs"
  ELSE "local"

\* A reader that detects the backend, opens it and looks m up.
FreshFinds(root, m) ==
  LET kind == Detected(root) IN
  /\ Opens(root, kind)
  /\ Finds(root, kind, LoadedIndex(root, kind), m)
=============================================================================
