------------------------ MODULE MCProvenanceVerifier ------------------------
(***************************************************************************)
(* Instances of ProvenanceVerifier for TLC: a handful of manifests that    *)
(* differ in what the verifier tells apart.                                *)
(***************************************************************************)
EXTENDS ProvenanceVerifier

Core(id, claims, essence) == [id |-> id, claims |-> claims, essence |-> essence]

Photo  == Core("photo", {"capture"}, "match")
Render == Core("render", {"generation"}, "match")
Retouch == Core("retouch", {"capture", "edit"}, "match")
Old    == Core("old", {"capture"}, "mismatch")
Odd    == Core("odd", {"capture"}, "unsupported")
Broken == Core("broken", {"capture"}, "error")

KnownKey == KeyRecord("known", "Ed25519", "k1")
StrangerKey == KeyRecord("stranger", "ES256", "k2")
OddKey == KeyRecord("known2", "RSA", "k3")
FarKey == KeyRecord("unreachable", "Ed25519", "k4")
\* Another key under an id that is taken, and one that is not offered.
SecondKey == KeyRecord("known", "Ed25519", "k5")
LostKey == KeyRecord("lost", "Ed25519", "k6")
SomeKeys == <<KnownKey, StrangerKey, SecondKey, OddKey, FarKey>>

Creator == [key |-> KnownKey, role |-> "creator"]
Stranger == [key |-> StrangerKey, role |-> "creator"]
Notary == [key |-> FarKey, role |-> "notary"]

\* A known key in a role of no weight beside a stranger in a good role.
Split == {Stranger, [key |-> KnownKey, role |-> "viewer"]}

Manifest(core, signers, short) == CreateSignedManifest(core, signers, 1, short)

\* Records that do not verify over Photo: moved from another core, with the role,
\* the time or the key id changed, and by keys that are no use.
Signed(key, role, core) == SignCore(key, role, 1, core)
NoSignatures ==
  { Signed(KnownKey, "creator", Render),
    [Signed(KnownKey, "viewer", Photo) EXCEPT !.role = "creator"],
    [Signed(KnownKey, "creator", Photo) EXCEPT !.at = 2],
    [Signed(StrangerKey, "creator", Photo) EXCEPT !.kid = "known"],
    [Signed(StrangerKey, "creator", Photo) EXCEPT !.kid = "known", !.alg = "Ed25519"],
    Signed(SecondKey, "creator", Photo), Signed(OddKey, "creator", Photo),
    Signed(LostKey, "creator", Photo) }

\* Under one short id: two manifests of one core, a rival, one that no policy
\* accepts, and failures of different priority; under another: one more.
Collected ==
  { Manifest(Photo, {Creator}, "s1"), Manifest(Photo, {Creator, Stranger}, "s1"),
    Manifest(Render, {Creator}, "s1"), Manifest(Retouch, Split, "s1"),
    Manifest(Old, {Creator}, "s1"), Manifest(Odd, {Creator}, "s1"),
    Manifest(Photo, {Creator, Notary}, "s1"),
    Manifest(Render, {Creator, Stranger}, "s2") }

\* Beside them, outcomes that a FULL160 locator alone can show.
Assorted == Collected \cup
  { Manifest(Retouch, {Creator}, "s1"), Manifest(Photo, {Stranger}, "s1"),
    Manifest(Broken, {Creator}, "s1"),
    SignedManifest(Photo, NoSignatures, "s1") }

\* What a source answers with instead: a manifest under the same short id, and
\* one under another.
SomeStrays == {Manifest(Render, {Creator}, "s1"), Manifest(Render, {Creator, Stranger}, "s2")}

SomeLocators == {Short("s1"), Registry} \cup {Full(m) : m \in Assorted}
ShortLocators == {Short("s1"), Registry}

\* Fewer candidates than rows or sources, fewer fetches than candidates, none.
SomeLimits == { [candidates |-> 1, fetches |-> 2], [candidates |-> 3, fetches |-> 3],
                [candidates |-> 3, fetches |-> 2], [candidates |-> 2, fetches |-> 1],
                [candidates |-> 2, fetches |-> 0] }
TightLimits == { [candidates |-> 1, fetches |-> 2], [candidates |-> 3, fetches |-> 3],
                 [candidates |-> 3, fetches |-> 2] }

\* For FULL160 two resolvers, one of them with two sources; behind the SHORT64
\* resolver one source, since what several answer for a key is the same manifest.
TwoResolvers == [full160 |-> <<2, 1>>, short64 |-> <<1>>]
=============================================================================
