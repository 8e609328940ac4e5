---------------------------- MODULE SparseMerkle ----------------------------
(***************************************************************************)
(* The sparse Merkle map of oprow/authmap/sparse_merkle.py: a tree with    *)
(* one leaf per key, of which only the subtrees that hold something are    *)
(* stored, and proofs that a key has a value, or none, under a root.       *)
(*                                                                         *)
(* A key is its path, the decisions 0..Depth-1 from the root down; a node  *)
(* index is a prefix of a path.  Hashes are terms: two terms are equal     *)
(* only if what was hashed is.  Recursions climb from the leaves, so they  *)
(* count the height, Depth - level.                                        *)
(***************************************************************************)
EXTENDS Integers

CONSTANT Depth

ASSUME DepthAssumption == Depth \in Nat

Bit == {0, 1}
PathsTo(level) == [0..(level - 1) -> Bit]
Keys == PathsTo(Depth)

KeyBit(key, level) == key[level]
PrefixOf(key, level) == [i \in 0..(level - 1) |-> key[i]]
Child(prefix, level, b) == [i \in 0..level |-> IF i = level THEN b ELSE prefix[i]]

EmptyLeaf == <<"empty leaf">>
\* Mutant of LeafHash: the leaf commits to its key alone.
LeafHashOfKey(key, value) == <<"leaf", key>>

LeafHash(key, value) == <<"leaf", key, value>>
NodeHash(left, right) == <<"node", left, right>>

\* default_hash_for_level(Depth - h)
DefaultHash[h \in Nat] ==
  IF h = 0 THEN EmptyLeaf ELSE NodeHash(DefaultHash[h - 1], DefaultHash[h - 1])

\* The stored hash of a prefix, or the default one.
NodeAt(stored, h, prefix) ==
  IF prefix \in DOMAIN stored THEN stored[prefix] ELSE DefaultHash[h]

\* One level of _ensure_built: the parents, at height h, of the
\* stored children, without those that hash to the default.
ParentLevel(children, h) ==
  LET level == Depth - h
      parents == {PrefixOf(c, level) : c \in DOMAIN children}
      Hash(p) == NodeHash(NodeAt(children, h - 1, Child(p, level, 0)),
                          NodeAt(children, h - 1, Child(p, level, 1)))
  IN  [p \in {q \in parents : Hash(q) # DefaultHash[h]} |-> Hash(p)]

LeafLevel(entries) == [key \in DOMAIN entries |-> LeafHash(key, entries[key])]

\* _nodes_by_level, for entries that map some of the keys to values.
Nodes(entries) ==
  LET at[h \in Nat] ==
        IF h = 0 THEN LeafLevel(entries) ELSE ParentLevel(at[h - 1], h)
  IN  at

RootHash(entries) == NodeAt(Nodes(entries)[Depth], Depth, PrefixOf(<<>>, 0))

(***************************************************************************)
(* Proofs.  siblings[level] is the sibling of the child under level.       *)
(***************************************************************************)
Absent == <<"absent">>
Present(value) == <<"present", value>>
Entry(entries, key) ==
  IF key \in DOMAIN entries THEN Present(entries[key]) ELSE Absent

Proof(key, siblings, exists) == [key |-> key, siblings |-> siblings, exists |-> exists]

Sibling(nodes, key, level) ==
  NodeAt(nodes[Depth - (level + 1)], Depth - (level + 1),
         Child(PrefixOf(key, level), level, 1 - KeyBit(key, level)))

\* SparseMerkleMap.open
Open(entries, key) ==
  LET nodes == Nodes(entries)
  IN  [key |-> key, value |-> Entry(entries, key), root |-> RootHash(entries),
       proof |-> Proof(key, [level \in 0..(Depth - 1) |-> Sibling(nodes, key, level)],
                       key \in DOMAIN entries)]

LeafOf(key, value) == IF value = Absent THEN EmptyLeaf ELSE LeafHash(key, value[2])

\* The hash walk of compute_root: one step, and the node it has at height h.
Climb(key, siblings, h, node) ==
  LET sibling == siblings[Depth - h]
  IN  IF KeyBit(key, Depth - h) = 0 THEN NodeHash(node, sibling) ELSE NodeHash(sibling, node)

Walk(key, siblings, leaf) ==
  LET node[h \in Nat] == IF h = 0 THEN leaf ELSE Climb(key, siblings, h, node[h - 1])
  IN  node

\* compute_root raises when the flag does not go with the value.
ProofVerifies(proof, root, value) ==
  /\ proof.exists <=> value # Absent
  /\ Walk(proof.key, proof.siblings, LeafOf(proof.key, value))[Depth] = root

\* Mutant of OpeningVerifies: the proof may be about another key.
OpeningOfAnyKey(opening) == ProofVerifies(opening.proof, opening.root, opening.value)

\* AuthenticatedMapOpening.verify
OpeningVerifies(opening) ==
  /\ opening.proof.key = opening.key
  /\ ProofVerifies(opening.proof, opening.root, opening.value)
=============================================================================
