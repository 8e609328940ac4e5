# Models of the OpenWater proof of concept

TLA+ modules, TLC configurations and TLAPS proofs for the repository in
`src/`: the `oprow` library (content provenance: signed manifests, watermarks
that carry a locator of the manifest, resolution of the locator, verification)
and the `openwater_mk` application (signing pipeline, file-backed manifest
stores, a mock Cardano ledger and a web service) built on it.

The modules follow the code handler by handler. Data is abstract: a run of
`sign_and_embed`, a request or a manifest is a model value or a small record
that stands for everything it produces. Control is not: every file access, early
return, error path and the order between them is a step.

## 1. Inventory

| Component (source) | State | Operations | Status |
|---|---|---|---|
| Anchor directory, mock ledger (`openwater_mk/cardano.py`, `pipeline.py:480-541`) | `anchor/ledger.json`, `anchor_record.json`, `receipt.json`, `metadata.json` | `MockCardanoBackend()`, `submit`, `publish_anchor`, `verify_anchor_dir` | `AnchorDir` |
| Manifest stores (`openwater_mk/storage.py`, `oprow/resolution/cas.py`) | a root directory: manifest files, `index.json`; a copy of the index in every store object | open, `put_bytes`, `get_bytes`, `detect_backend` | `StoreLayout`, `ManifestStore` |
| Signing pipeline (`openwater_mk/pipeline.py:279-477`) | `watermarked.png`, `manifests/`, `manifest_key.txt`, `storage_uri.txt`, `key.json` | `sign_and_embed`, `verify` | `SignVerify` |
| Web service (`openwater_mk/web/server.py`, `jobs.py`) | a directory per job, `profile.txt`, `verify_report.json`; the event loop, a pool of threads | sign-embed, verify, report.json, report.html, POST and GET anchor | `JobService` |
| SHORT64 file index (`oprow/short64/index.py`, `models.py`) | a snapshot file, a temporary file | constructor, `add_reference`, `lookup` | `Short64Index` |
| Resolution (`oprow/resolution`) | none between requests | embedded, CAS, HTTP, local, composite and SHORT64 resolvers | `Resolution` |
| Signatures and keys (`oprow/manifest/signatures.py`, `keys.py`) | a registry of public keys | `add_public_key`, `sign_core`, `create_signed_manifest`, `verify_signature_record` | `Signatures` |
| Verification (`oprow/verification`, `oprow/manifest/verification.py`) | none between requests | `verify`, `verify_candidate`, `classify_reports`, trust evaluation | `ProvenanceVerifier` |
| Sparse Merkle map (`oprow/authmap/sparse_merkle.py`) | entries, cached nodes and root | root, open, verify an opening | `SparseMerkle` |
| HDC routing, privacy policies and planner (`oprow/hdc`, `oprow/privacy`) | none | derive route keys, effective precisions, plan, covers | `HvRouting` |
| HV indexes and their resolvers (`oprow/authmap/short64_hv.py`, `hdc/index.py`, `oprow/resolution/*hv*`) | buckets, a cached tree, a cached root record | add, add for policies, root record, open, lookup, resolve | `RouteService` |
| Trust backends, ASI Chain (`oprow/trust`, `oprow/asi_chain`) | anchors by record hash, deployed terms, receipts | `publish_anchor`, `publish_anchor_all`, `verify_anchor` | `TrustBackends` |
| GF(2) solver (`oprow/rateless/gf2.py`) | a basis while solving | `solve_gf2` | `Gf2Solver` |
| Rateless records and tiles (`oprow/rateless`) | the tiles of an image | embed, extract | `RatelessTiles` |
| Payload, checksum, frame, repetition code (`oprow/watermark`) | none | encode, decode | `WatermarkFrame` |
| Carriers (`image_lsb.py`, `image_qim.py`, `watermark_robust.py`, `image_alpha.py`) | an image | embed, extract | `WatermarkChannel` |
| Essence (`oprow/essence`), canonical encoding and codec, C2PA (`oprow/c2pa`), benchmarks, CLI, pixel transforms, HDC encoders | none, or in-memory tables | computations | not modelled (section 7) |

How they interact: the web service calls the pipeline, which calls the library
(sign, embed, extract, `ProvenanceVerifier.verify`) and the stores. The
library's own indexes, key registries and trust backends are objects in memory
of one process. Nothing else connects requests of the service: **the only shared
state is the files of a job's directory**, and nothing in the code locks one.
`Path.write_text` and `Path.write_bytes` truncate and then write, so a reader, or a process that
finds the file after a crash, may see it empty. Only `FileShort64Index`
replaces its file by a rename.

What is hard here:

- interleavings: two POSTs to `/jobs/{id}/anchor` on pool threads; a verify or
  an anchor while `sign_and_embed` is writing; two store objects on one root;
  two processes on one index file;
- crashes between two files of one result, or inside one file;
- state read and used later: a store object's copy of the index, the job's
  profile, a report kept for ever, the anchor files read again after the verdict;
- limits: truncated lookups, candidate and fetch caps, with sources and index
  rows that are not trusted;
- order: the verdict must not depend on which candidate came first, nor the
  solution of a system on the order of its equations;
- caches: the authenticated index rebuilds its tree only when it is asked, and
  a receipt or a pinned root may be of an earlier one;
- partial failure: an anchor that fans out to several backends, one of which
  fails or times out after the deploy;
- boundaries: quantization at half a step, a length or a mode flag that decides
  where the checksum is read.

What makes each component correct: an anchor that was reported published
verifies, and the ledger only grows (anchor); a manifest whose put returned is
found, an index never names what is not there (stores); what a finished run left
verifies, and a positive verdict is never a mix of two runs (pipeline); a kept
report is right, and only complete jobs are anchored (web service); the index is
never torn and loses no row (index); one good source is enough (resolution);
a verified verdict has no rival among the candidates, rests on a signature made
over this very manifest, and does not depend on the order of the candidates
(verification); what is indexed under a policy is found under the policy it is
asked by, an opening says what the tree holds, and a tree that is out of date is
never served (route index); an acknowledged anchor stays verifiable (trust);
damage within the code's budget is repaired and damage beyond it is noticed
(watermark).

Every hazard of the code, with its line and the properties about it, is listed
under `hazards` in `PROJECT.json`.

## 2. Modules

`TextFile` - a file as the code uses it: absent, truncated (`Empty`), complete
(`Whole(v)`), or `Garbled`, when two writers wrote at offset zero and the
longer text's tail survives. `Landing(f, v, tails)` is what writing `v` to a
file opened earlier leaves. All file-based modules use it.

`AppendOnlyLedger` - the abstract specification of the mock ledger: a log that
grows by one transaction at a time, at increasing slots.

`AnchorDir` - POST and GET of one job's anchor directory. One action per file
access; the labels of `pc` are the places between them. `ProbeLedger`,
`CreateLedger` and `WriteEmptyLedger` are `MockCardanoBackend.__post_init__`,
which POST *and* GET run. `LoadForSubmit` is `_load`, the slot and the append in
memory; `OpenLedger`, `SaveLedger` are `_save`; `WriteAnchorRecord`,
`WriteReceipt`, `WriteMetadata` the rest of `publish_anchor`.
`ReadAnchorRecord` to `VerifyAgainstTip` are `verify_anchor_dir`, and `ShowFile`
the three reads of `get_anchor` after the verdict. A request stands for its
random transaction hash, and a record for its hash and its metadata payload,
which both commit to every field of it (hashes are taken as injective).
`logged` is a history variable, the last ledger text that parsed; `Log` is
`AppendOnlyLedger` with `log <- logged`.

`StoreLayout` - a store's root directory and what each backend makes of it, as
operators: shared by `ManifestStore` and `SignVerify`.

`ManifestStore` - several store objects on one root. `Open` is `store_from_spec`
(loads the index once), `PutBytes`, `WriteBlob`, `OpenIndex`, `WriteIndex` the
steps of `put_bytes`; `Close` and `Crash` end an object between calls or inside
one. History variables: `used` (backends the root was opened with), `acked`
(puts that returned), `overlap` (two objects existed at once).
`MCManifestStore` adds the symmetry of objects and of manifests for TLC.

`SignVerify` - `sign_and_embed`, one action per output (two steps each: open and
write), and `verify`, one action per read. `VerdictsFor` says what extraction,
resolution, signature, essence and trust come to: no locator under another
profile; not found; no valid signature when the key is another run's; a
`content_mismatch` for `dct_qim`, whose carrier changes the pixels that the
manifest commits to (or no locator, if the carrier is lost); otherwise verified.

`JobService` - composes `SignVerify` and `AnchorDir` (both with INSTANCE) and
adds the endpoints: `NewJob` to `WriteProfile` are `sign_embed_endpoint`, with
the await of the upload between the first two; `Request`, `LookupReport`,
`VerifySelf`, `SaveReport`, `ReadReport` are verify and the reports;
`SendAnchor`, `AnchorNotFound` and `AnchorStep` the anchor endpoints. While the
handler signs it holds the event loop (`LoopFree`): nothing new is started, and
what already has a thread goes on. A thread is needed to be served
(`PoolSize`). `Crash` is a restart of the server.

`Short64Index` - `FileShort64Index`. `ReadMemory`, `OpenTmp`, `WriteTmp`,
`Replace` are `add_reference`. Open files are tracked by `fd`: a writer goes on
writing to the file it opened, whatever another's rename made of its name.

`Resolution` - operators for the resolvers: the loop over sources with its cap
(`Decoded`, `Scan`), `Deduplicate`, `Compose`, `Matches`, and `Embedded`, the
resolver that reads the two metadata fields of the artifact and has no cap. What
the code filters is `KeepIf`, a fold, and not `SelectSeq`, whose definition is a
recursion that a proof cannot unfold.

`Signatures` - the key registry (`AddPublicKey` keeps the first record of a key
id, since the code refuses another), `SignCore` over the core and the protected
header, `VerifySignature`. A signature is the term *(key, message)*; records can
be made by anyone, with any fields.

`ProvenanceVerifier` - one run of `verify`: resolve (index lookup, reference by
reference, or the composite for a FULL160 locator), judge the number of
candidates, verify them one at a time, classify. A manifest is
`[core, sigs, short]` where `core` has the claims and what the essence check
would say, and `sigs` are signature records as `Signatures` makes and checks
them. The bucket is any sequence of distinct rows, and sources and metadata
fields answer with the manifest asked for, with another (`Strays`), with nothing
or with a fault. `MCProvenanceVerifier` has the manifests and keys for TLC:
genuine records, and records moved from another manifest, relabelled, or made
with a key that is not registered, registered second or of an unknown algorithm.

`SparseMerkle` - the tree, as functions over prefixes of paths: `Nodes` is what
`_ensure_built` stores, `NodeAt` takes the default hash of the level where
nothing is stored, `Walk` recomputes a root from a leaf and its siblings. Hashes
are terms.

`HvRouting` - precisions and policies: `RouteKeys` is `derive_route_tokens`,
`EffectivePrecisions` and `PrecisionsFor` are what an indexer publishes for,
`Select`, `Warned`, `CoverDraws` and `QueryPlan` the planner's steps. A route key
is the tuple the code hashes, and the hypervector is given.

`TrustBackends` - the memory backend, the ASI backend over its mock or its
command-line client, and the publisher over both. `PublishFirst` and
`PublishAll` are `publish_anchor` and `publish_anchor_all`; an outcome `failed`
or `late` is a command that failed before, or timed out after, the deploy.
`Restart` empties what only memory holds. `VerifyAnchor` follows the code's two
ways to confirm a receipt: the client's (`DeployConfirmed`) and the term in the
receipt itself (`TermConfirms`).

`RouteService` - composes the three above. `AddManifest` and `AddForPolicies`
fill the buckets of both indexes and drop the cached tree; `EnsureBuilt` is the
lazy build that a root record or a lookup starts; `Publish` anchors the root
record in use. Lookups do not change anything, so they are operators
(`ResolvePlain`, `ResolveAuthenticated`, `PlanFor`) which the invariants evaluate
in every state, for every request, policy, order of queries and limit. `added`
is a history variable.

`Gf2Solver` - `solve_gf2`, one row and one pivot at a time. A row is the set of
its variables and a right-hand side.

`WatermarkFrame` - bits, checksum, payload, frame and repetition code, with the
widths of the fields as constants. `RatelessTiles` - the records of the tiles,
their repetition and vote, and what becomes of duplicate equations; it extends
both modules before it. `WatermarkChannel` - a locator embedded, damaged (drift
of coefficients, rows added or cut off, tiles flipped, wiped, copied or foreign)
and extracted, over one of four profiles; for the rateless one the extraction is
the solver's steps. The carrier is a sequence of coefficients, or of tiles of
bits. `clean` and `start` are history: the image as embedded, and where its
frame went. `MCWatermarkChannel` has the instance.

`AnchorDir_proofs`, `SignVerify_proofs`, `JobService_proofs`, `ManifestStore_proofs`,
`Short64Index_proofs`, `ProvenanceVerifier_proofs`, `RouteService_proofs` (with the
lemmas about `SparseMerkle`), `WatermarkChannel_proofs` (with those about
`Gf2Solver`, `RatelessTiles` and `WatermarkFrame`) - theorems (section 5).

## 3. Runs

| Run | Question | Result |
|---|---|---|
| `AnchorDir_serial` | three POSTs in turn, a client that keeps reading, a crash anywhere | every finished POST leaves a directory that verifies, also on top of a half-written one; the ledger refines `AppendOnlyLedger`; unless the server crashed, a client in the end sees a positive verdict |
| `AnchorDir_concurrent` | two POSTs and a GET at once | slots ascend and no transaction is doubled; a GET never creates the ledger; a readable ledger keeps at least one of the successful POSTs |
| `AnchorDir_lost` | is the ledger append-only with two POSTs at once? | violated: finding 1 |
| `ManifestStore` | two objects, all three backends on one root, a death | acknowledged manifests are found (for one backend, and without overlap if it is indexed); no index dangles |
| `SignVerify` | two runs into one directory, a verifier between any two files, a death | a finished run verifies; a first run commits with `key.json`; a positive verdict is of one run |
| `JobService` | a job, two report threads, an anchor and a GET on a pool of two, a crash | a kept report of an `alpha_lsb` job says verified; only complete jobs reach the ledger |
| `JobService_profile` | is a kept report made with the job's profile? | violated: finding 2 |
| `Short64Index` | two processes, in turn or at once, two deaths | snapshots stay in order always; without overlap they are readable, keep acknowledged rows and never lose one |
| `Verifier` | every bucket of up to three rows for a SHORT64 locator, every combination of answers of two metadata fields and three sources in two resolvers for a FULL160 one | no candidate rivals a verified one, whose signature is genuine; the verdict is a function of the candidate set; a rival cut off by the lookup leaves the resolution partial; junk rows cannot hide a good one; an acceptable manifest that some source offers is verified; a verdict is reached |
| `Verifier_partial` | does a rival cut off by the lookup keep the verdict from being verified? | violated: finding 3 |
| `RouteService` | indexing with and without policies, lazy builds, anchors that fail, time out and are tried again, restarts; every lookup in every state | a lookup returns exactly what was indexed for what it asks, or says it was cut off; the authenticated index answers like the plain one; a plan without warnings keeps to its anonymity set and limit; no opening speaks for another candidate set; an answer under an anchored root is of that root; a receipt is for one record; an acknowledged anchor stays verifiable |
| `WatermarkChannel` | four carriers, three embeddings or damages | damage within the budget of quantizer, spread and repetition is repaired; two wrong payload bits never give another locator; intact tiles that determine the key give it, however many others are lost or foreign; the solver is exact and its basis reduced at every step |

Every property of a passing run has a mutant in `PROJECT.json`: a plausible bug
in one mapped definition that makes TLC report the property violated in that
same run.

### Bounds, and why they are enough

- `AnchorDir`: a lost update needs two POSTs, and a crash with a repair a third
  (`Requests`). One getter is enough, since getters never write what another
  reads. `MaxTime = 1` lets the clock stand still or move between submits.
- `ManifestStore`, `Short64Index`: two writers are what a lost update takes. Two
  manifests are one to keep and one to put; three rows let a row sort before,
  between and after the others. One death of a store object suffices for a torn
  file; two of an index process let one die on the left-overs of another.
- `SignVerify`: two runs are one to overwrite and one that overwrites. There is
  one verifier because verifiers share nothing.
- `JobService`: one job (jobs share nothing), one backend with an index (the
  longer put), two report threads on a pool of two threads, one POST and one GET,
  one crash.
- `ProvenanceVerifier`: three rows exceed each limit that the limits of the run
  set (1 candidate means 2 rows looked up). The eight manifests of the index have
  every outcome of `verify_candidate` and of the classification that a SHORT64
  locator can meet; the others and the forged signatures are reached by FULL160
  locators. Behind a SHORT64 lookup there is one source, since what several
  answer for a manifest key is the same manifest.
- `RouteService`: two bands of two bits and short ids of two bits let manifests
  share a short id and a band, a band only, or neither; one is indexed under two
  namespaces; one is neither inline nor at the backing resolver. Two adds and two
  builds make a root that is out of date and one that repeats the entries under a
  later record; two publications are a failure and its retry. Depth 5 has a leaf
  for each of the instance's route keys, so that no two collide, as with hashes.
- `WatermarkChannel`: fields of one to four bits. The checksum is
  x^4 + x + 1, which finds two wrong bits within fifteen, as CRC-16-CCITT does
  within 32,767; three changes are an embedding and two damages, or a second
  embedding over the first and one damage. Four masks over four unknowns
  determine the key, any three do not, and two of six tiles repeat an equation.
  `Spots` and `Flips` name a position of every field.

`CHECK_DEADLOCK FALSE` stands where the modelled call returns and nothing
follows (`ProvenanceVerifier`), where there is no client to go on after the
POSTs (`AnchorDir_lost`), or where the bound on changes leaves an extracted
image (`WatermarkChannel`).

### Fairness

`AnchorDir`: weak fairness of each handler (a thread of the pool, waiting for
nobody, goes on until it returns) and of the client's next request, which is an
assumption about the client. `AnchorBecomesVisible` uses both; with one POST at
a time and no crash nothing else is needed. `ProvenanceVerifier`: weak fairness
of the next step, since `verify` is one thread over finite lists. Other modules
are checked for safety only. `AnchorDir_lost` takes the same fairness, so that
its counterexample is a run in which the handlers do finish.

## 4. Findings

1. **Concurrent anchors lose a transaction** (`cardano.py:239`, run
   `AnchorDir_lost`). Both POSTs load the ledger, both append, the later save
   wins; both answer 200. `pipeline.py:495` calls the ledger append-only.
   `AnchorDir_concurrent` and its proof say what is left: slots ascend, no
   transaction is doubled, and not everything is lost.
2. **A report with the wrong profile is kept** (`server.py:147`, run
   `JobService_profile`). `profile.txt` is written last and the default is taken
   without it, so a report made before, or after a death in between, uses
   `alpha_lsb` for a `dct_qim` job. The fallback is documented for legacy jobs
   only.
3. **A truncated lookup can be verified** (`orchestrator.py:130`, run
   `Verifier_partial`). `PARTIAL` is set and never read; duplicates and junk in
   the returned rows keep the candidate count within the limit while a rival
   stays behind the cut.

### Other observations

Differences that the models reproduce and that no run is about:

- `hdc/index.py:262-272` counts the hits of a manifest before it looks at the
  namespace, the authenticated index filters first. `MirrorsPlainIndex` shows
  that this makes no difference without cover queries.
- `asi_chain/backend.py:141` hands the client a deploy id only for transaction
  ids that start with `mock-deploy:`; receipts name `mock-tx:` ids
  (`client.py:177`). The client therefore never confirms one, and the term in the
  receipt does.
- An `add_manifest` that adds nothing still makes a new root record with a new
  `created_at`: the receipt of the old record does not verify for it, although
  the root is the same (`ReceiptNamesOneRecord`).
- A lookup that is cut off and whose rows give no candidate is NOT_FOUND, not
  PARTIAL (`AnswerIsExact` has that case). Without cover queries this takes more
  manifests indexed for what is asked than a lookup may return. With them it does
  not: what the cover keys bring in is ranked with the rest and may leave the
  manifest that is asked for behind the cut.
- P0 with a `fallback_precision` that nobody published finds nothing, and the
  plain resolver without a planner uses the epoch `global`.
- The comment at `watermark_robust.py:214` says that the checksum catches any
  flipped bit. A flipped mode flag moves the place where the checksum is read
  (`payload.py:237`), so that only its width limits the odds of a match:
  `NeverAnotherLocator` leaves these flips out. The first preamble found decides,
  and neither the payload's nor the record's version is compared.
- Of two readings of one equation with equally many outvoted bits the first wins
  (`equations.py:210`). One wrong record makes a redundant rateless system
  inconsistent, and a system without redundancy yields a wrong key.
- The comment at `cardano.py:448` takes a block height for the length of the
  ledger; heights are slots (`cardano.py:247`).

## 5. Proofs

TLAPS proves, for all values of the constants that satisfy the named
assumptions:

| Theorem | States | Argument |
|---|---|---|
| `AnchorDir_proofs!TypeCorrect` | `[]TypeOK` | with `HoldsTx`: a POST past its load holds a non-empty copy, so that `Submitted` has a value |
| `AnchorDir_proofs!LedgerMonotonic` | `[]SlotsMonotonic` | `Slots`, below |
| `AnchorDir_proofs!ReadersNeverCreate` | `[]GetNeverCreates` | `LedgerFirst`: a record exists only when the ledger does, the ledger is never removed, and a GET reads a record before it builds the backend |
| `AnchorDir_proofs!SomebodySurvives` | `[](crashes = 0 => LossIsPartial)` | `Lineage`, below |
| `AnchorDir_proofs!SerialLedgerIsALog`, `SerialAnchorVerifies` | `LedgerIsAppendOnly` (a refinement), `FinishedAnchorVerifies`, if `Threads <= 1` | `SerialInv`, below |
| `SignVerify_proofs!TypeCorrect`, `ReturnedRunVerifies`, `VerdictIsOneRun`, `KeyCommitsFirstRun` | `[]TypeOK`, `[]DoneRunVerifies`, `[]VerifiedIsOneRun`, `[]FirstRunCommits` | `Inv`, below |
| `JobService_proofs!TypeCorrect`, `KeptReportsAreRight`, `OnlyCompleteJobsAnchored` | `[]TypeOK`, `[]AlphaReportsVerified`, `[]AnchoredJobComplete` | `Inv`, "Job service" below |
| `ManifestStore_proofs!TypeCorrect`, `IndexSafe` | `[]TypeOK`, `[]IndexNeverDangles` | `IInv`: the property speaks of the copies in memory as well as of the file, and an object in the middle of a put holds a manifest; files of manifests are never removed |
| `ManifestStore_proofs!AcknowledgedIsReadable` | `[]AckedReadable` | `Kept`, below |
| `Short64Index_proofs!TypeCorrect`, `SnapshotInOrder` | `[]TypeOK`, `[]RowsAscend` | `OrderInv`: snapshot, temporary file and every memory ascend |
| `Short64Index_proofs!SoloReadable`, `SoloAckedKept`, `SoloRowsGrow` | `[]IndexReadable`, `[]AckedKept`, `RowsOnlyGrow` | `SoloInv`, below |
| `ProvenanceVerifier_proofs!NoRivals`, `RivalsAreFlagged`, `JunkIsHarmless`, `OneGoodSource`, `OrderIsIgnored` | `[]VerifiedIsUnrivalled`, `[]HiddenRivalIsFlagged`, `[]JunkCannotHide`, `[]OneGoodSourceSuffices`, `[]VerdictIgnoresOrder` | `Inv` (`VerifierInvariant`), below |
| `RouteService_proofs!HonestOpeningVerifies`, `VerifiedIsHeld` | an honest opening verifies; what verifies is what the map holds | `HonestWalk` and `WalkBinds`, by induction over the height of the tree |
| `RouteService_proofs!AlwaysServedIsCurrent` | `[]ServedIsCurrent` | `IInv`: what is cached is one of the trees built, and the one of the present buckets |
| `RouteService_proofs!AlwaysOpeningsBind`, `AlwaysPinnedAnswerIsAnchored` | `[]OpeningsBind`, `[]PinnedAnswerIsAnchored` | `VerifiedIsHeld`; two maps of one root hold the same (`RootBinds`) |
| `RouteService_proofs!AlwaysAckedStaysVerifiable` | `[]AckedStaysVerifiable` | `AckInv`: the receipt of an acknowledged anchor is kept and, on a real chain, its term is deployed; neither is ever taken away |
| `RouteService_proofs!AlwaysReceiptNamesOneRecord` | `[]ReceiptNamesOneRecord` | the object that a receipt names commits to the number of the record |
| `RouteService_proofs!AlwaysMirrorsPlainIndex`, `AlwaysUnwarnedPlanHides` | `[]MirrorsPlainIndex`, `[]UnwarnedPlanHides` | `BucketsInvariance`, below |
| `RouteService_proofs!AlwaysAnswerIsExact` | `[]AnswerIsExact` | `BucketsInvariance` and `AddedInv`, below |
| `WatermarkChannel_proofs!AlwaysExact`, `AlwaysReduced` | `[]SolverIsExact`, `[]BasisReduced` of the solver by itself (`SolverSpec`) | `SolverInv`, below |
| `WatermarkChannel_proofs!AlwaysExactInChannel`, `AlwaysReducedInChannel` | the same in the channel | `ChannelInv`, below |
| `WatermarkChannel_proofs!AlwaysIntactTilesSuffice` | `[]IntactTilesSuffice` | `ChannelInv`, `EquationsAre`, `SolvesWhatAgrees`, below |
| `WatermarkChannel_proofs!AlwaysRepairs`, `AlwaysRepairsInPlace` | `[]RepairsWithinBudget`, if no preamble is found before the frame's (`NoEarlierPreamble`), or for an image that has not been moved | `FrameInv`, `FrameReads`, `FrameDecodes`, below |
| `WatermarkChannel_proofs!AlwaysNeverAnotherLocator` | `[]NeverAnotherLocator` | `FrameInv`, `FrameIsNoOther`, below |

### Anchor directory

`SlotsMonotonic` is not inductive: two POSTs may load the same text and save
over one another, so a bad copy in some thread's memory would reach the file two
steps later. `Slots` says of the file *and* of every copy that it ascends and
that every transaction in it belongs to a POST that is past its load
(`Settled`). The second half is what makes an append fresh: the POST that
appends is still at its load, so it is in no copy. No step takes a POST back
before its load (`NoWayBack`), and neither does a crash.

`LossIsPartial` speaks of the moment when all handlers are done. `Lineage`
speaks of every moment: whoever wrote the text that can be read is in it and is
past its save, from where, without a crash, a POST only goes on to its end; and
a text without transactions was written by a POST that has yet to submit. After
a crash the property is false, as a POST that dies after its save has not
succeeded. The theorem therefore has `crashes = 0`, and the run that checks
the property has no crash.

With at most one thread nothing is lost. `Serial` says that one POST is active
(`OnePost`); that its copy extends the ledger as it was, and that `logged`, the
log of the abstract specification, is what the file holds except while that POST
rewrites it (`LedgerIsLog`); and which of the three other files already are this
POST's (`FilesFollow`). A POST that dies leaves files of its own over those of
an earlier one; the next POST writes all four again, so what it finds does not
matter. Every step then appends one transaction with a later slot or stutters,
which is `Log!Next`. That more than one thread does lose transactions is
finding 1: the hypothesis is needed.

### Stores, pipeline and file index

`Kept` (stores) has a part for each condition of `AckedReadable`. Whatever
overlaps, the directories and the index on disk are those of the backends in use
(`ByUsed`), which is what makes `detect_backend` find the one there is. Without
a death, every acknowledged manifest has its file, or an object is just writing
the same manifest again (`Written`). Without overlap, one object is open at a time
(`Alone`), its copy of the index has every entry acknowledged so far, and so has
`index.json` except while that object rewrites it (`Indexed`). Each conjunct is
needed by the step that writes the index back.

`Inv` (pipeline) follows one run and all verifiers. `Made`: every file and
every manifest is of a run that was started, and a directory or an index is
there only if some run's backend makes it. `Progress`: file by file, what the
run in progress has written is still there, since runs into one directory follow
each other. `Reading`: what a verifier holds is of started runs. `KeyIsLast`
and `Committed`: while there was only one run, `key.json` can be read only after
that run has returned, so that a verifier that has the key sees a directory that does not
change any more. `VerifiedIsOneRun` needs in addition that files of manifests
stay once their run is past them, and that a verdict is reached only through
`Reading`.

The three `Solo` theorems hold while no two processes had the index open at the
same time, which the history variable `overlap` records; no bound on the
processes or on deaths is assumed. `Solo` says that at most one process is up
(`Alone`); that the file parses or is absent (`Readable`) and has every
acknowledged row (`Kept`); and where the one process is: what it is about to
write extends the snapshot (`Keeps`), and before the rename the temporary file
is just that (`Writing`). The snapshot only changes by the rename, so a death
at any other step changes nothing a reader can see.

### Job service

The composition is proved from its components: `JobService_proofs` instantiates
`SignVerify_proofs` and `AnchorDir_proofs` and uses their invariants through
lemmas that say what a step of the component, or a step of something else, does
to them (`SignKeepsInv`, `VerifyKeepsInv`, `OthersKeepInv`, `DeathKeepsInv`;
`TypedNext`, `TypedElsewhere`, `KidsStep`, `KidsElsewhere`). The lemmas `Same...` say that
the component's definitions are the same through either instance.

What the composition adds is how values travel between the two. A report is
kept after its verdict (`ServingOK`, `ReportOK`). A verdict on a job signed with
`alpha_lsb` is "verified" (`VerdictsRight`): verify looks for `alpha_lsb` or for what
`profile.txt` says, which is the job's profile whenever it parses
(`ProfileOK`), and the pipeline's `FirstRunCommits` rules the other verdicts out.
An operator key gets into a record only from `key.json`, into a copy of the
ledger only from a record or the ledger, and into the ledger only from a copy
(`KidsFrom`), and `key.json` parses only once the run has returned (`KeyIsLast`), so
until then there is no transaction at all (`KeysFollow`). The guards of the event
loop and of the pool (`LoopFree`, `CanServe`) are not used: the argument rests on
the order in which the files are written.

### Verification

`Inv` relates the stage of `verify` to what it has in hand. `Judged`: the
reports made so far are, one by one, what `verify_candidate` says of the
candidates taken so far. `Decided`: a verdict is there exactly at the end, and
is the flood, the empty answer, or the classification of the reports.
`Looked`: for a SHORT64 locator, every inline row that the lookup returned is a
candidate if it matches, and the resolution says `found` only if the lookup was
complete. `Asked`: a FULL160 locator resolves to the manifest it names or to
nothing, and to the manifest if a source within the limit offered it.

The five properties then need facts about the classification (`ClassifyFacts`,
`VerdictFacts`): a report has a trusted valid signature exactly if its candidate
is `Acceptable`, and a genuine one exactly if it is `Sound`; `verified` is
answered exactly if there are such candidates and they have one core; the
failure that is answered does not depend on the order of the reports. A
signature that was moved, relabelled or made with another key cannot pass for a
genuine one because the message signed names the core and the header, for any
set of registered keys.

### Route index

Buckets are filled by a fold over route keys inside a fold over policies.
`BucketsInvariance` says that at any time the buckets are those of keys in use,
and that each is finite, holds references of its key's namespace only and one
per manifest (`TableOK`). Lookups count hits with folds again: `TallyIs` gives the
tally in closed form, the number of queried keys whose bucket has the reference,
and with it that filtering by namespace and short id may come before the count
or after it (`FilterCommutes`), which is the difference between the two indexes.
`AlwaysUnwarnedPlanHides` needs what the planner sees to be what the buckets
hold: the estimate it adds up key by key is the number of different manifests
(`EstimateIs`).

`AlwaysAnswerIsExact` relates an answer to what was indexed, which the buckets do
not say by themselves: `AddedInv` says with the history `added` that every
reference is of an item that was published under its key, and that every
published item is known to its buckets (`AddedInvariance`). With it the manifests
that are owed are those that enough of the request's own keys hold (`HeldIs`,
`OwedIs`). A query is these keys with covers among them, in any order, so it
counts at least as many (`ShuffleCount`, `CoverCount`), and just as many if there
are none; `MatchedIs` and `LookupMatches` say so of the tally, and `RankedFacts` that
a lookup which is cut off had more to return than it may.

The three theorems have the hypothesis `PathsApart`: distinct route keys that the
indexer or a client can ask for have distinct paths. The tree could not hold
two keys of one path, and a path is a hash in the code.

`Normalized` policies, deduplicated precisions and clamped covers are the
lemmas that connect what an indexer publishes with what a client asks for
(`NormalizedTwice`, `EffectiveFacts`, `PublishedFacts`, `PlanFacts`).

The proof changed what `AnswerIsExact` says, three times. Cover keys may crowd
the manifest that is asked for out of a lookup that is cut off (section 4). A
precision may list a band twice, and then the band counts twice. And an index
keeps the reference that came first: a manifest that was first added without its
document stays without it when it is added again with it
(`authmap/short64_hv.py:298`), so `FOUND` may leave it out unless the backing
resolver has it. The property says what is sure to be fetched (`Sure`) and what
may be (`Possible`); in the instance, manifest 1 has its document in one
namespace and not in the other, and a cover query may meet either first.

### Solver and tiles

`SolverInv` has three parts beside the types. The rows taken so far have the
solutions of the basis, and none if the solver found the system inconsistent
(`SameSolutions`); for whatever solves the basis, the row in hand says what its
equation says (`RowStands`); the basis is reduced (`BasisReduced`). That a solved
system has one solution needs the reduced form: with fewer pivots than unknowns
a free variable can be chosen either way (`FreeChoice`), and with all of them
the right-hand sides are the solution. `AlwaysExact` and `AlwaysReduced` are about
`SolverSpec`, the solver called again and again with any rows.

In `WatermarkChannel` its steps are the steps of an extraction, and the rows come
from tiles. Whatever bits the tiles have, a reading is an equation with a legal
id, a bit and a number of doubts (`ReadingIs`), so the solver gets rows
(`ImageEquations`). `ChannelInv` ties the extraction to the image: as long as the
image does not change, the equations in the solver are those of its readings,
and what was found is what the finished solver said of them (`Outcome`).

`IntactTilesSuffice` then takes three steps. Of the readings of an id exactly one
prevails (`OnePrevails`, `OneOfAnId`), and the equations are the rows of those,
each once, in the order of the ids (`EquationsAre`; `PlacesFilled` says that ranks by
different values fill the places from 1 on). If every foreign reading is in more
doubt than a genuine one of its id, those that prevail are genuine
(`KeptAreGenuine`). Hence the keys that solve the equations are those that agree with
the embedded key on every reading (`SolvesWhatAgrees`), and `SolverIsExact` says
which answer the solver gives. Nothing is assumed of the damage, the masks or the
number of tiles.

### Frames

`FrameInv` is an invariant of embedding and damage: the clean image carries the
frame of the locator that was sent, as far as it is not cut off, and what was
found is what decoding the image gives. To carry a bit is to be read as it with
up to half a step of drift (`ReadsAs`): the quantizer writes a multiple of the
step with the bit's parity, and what is within half a step is rounded back to it
(`RoundedIs`, `WrittenReads`). Embedding establishes this whatever an earlier
embedding left, drift does not touch the clean image, and rows put above or cut
off move both images alike.

A bit of the frame that is not lost is then decoded as it was written
(`FrameReads`): most coefficients of a carrier bit read as it (`VotedIs`), and most
of its repetitions do (`GroupReads`), both by `MajorityIs`. With every bit right and
no earlier preamble, the length and flag fields spell what was written
(`FieldSpells`), the segment is the payload, its checksum is the one computed, and
the result is the locator (`FrameDecodes`).

Beyond the budget, `FrameIsNoOther` reasons about what may be wrong. If the length
field is, the segment has another end; but mode and pointer are read at fixed
places from its start, and the mode's flags are right. So the protected bits and
the checksum are compared at the places where they were written, with at most
two bits wrong among them, and by `DistanceAssumption` they are then the same
(`ProtectedIsTheSame`) or the checksum fails. A segment too short for its mode is
no watermark.

Fields are written with powers of two, of which the provers know nothing. They
are a recursive function, `PowerOfTwo`, whose equations are proved with its
existence (`PowerFacts`).

### Induction and folds

Induction over the height of the tree is done with a least counterexample
(`LeastElement`, `Induction` in `RouteService_proofs`), because recursive
functions have to be shown to exist before their equations can be used. A fold
is unrolled the same way, into the sequence of its intermediate results
(`Iterates`, `Iteration`): the induction is then over a set of numbers, which needs no
operator as a parameter. What the code filters, deduplicates and counts is thus
proved for sequences of any length. What remains out of reach is induction with
an operator as its parameter, and with it a general statement about recursion
over data.

### Hypotheses and assumptions

Hypotheses of theorems: `Threads <= 1` (the two serial theorems); `crashes = 0`
(`SomebodySurvives`); `PathOf` gives every route key a path of `Depth` bits
(`AlwaysOpeningsBind`, `AlwaysPinnedAnswerIsAnchored`); `PathsApart`
(`AlwaysMirrorsPlainIndex`, `AlwaysUnwarnedPlanHides`, `AlwaysAnswerIsExact`);
the publisher has an ASI backend (`AlwaysAckedStaysVerifiable`; the memory backend
alone forgets with its process); and no preamble is found before the frame's
(`AlwaysRepairs`: rows put above an image may look like one for some preambles
and contents, and the first preamble decides), for which `AlwaysRepairsInPlace` has
`start = 0` instead. The instances satisfy each of them; that of `WatermarkChannel`
the last one wherever a moved frame is within the scan's reach and no bit of it is lost.

Assumptions on constants, which TLC evaluates in the runs of their modules:

- bounds are numbers: `ThreadsAssumption`, `BoundsAssumption`, `CrashAssumption`
  and the two `CrashesAssumption`, `MaxRowsAssumption`, `LimitsAssumption`,
  `DepthAssumption`, `WidthAssumption`;
- a job has one run, because every POST of an image makes a fresh job id
  (`OneRunAssumption`), and POSTs and GETs are different handlers
  (`ProcsAssumption`); kinds, backends and profiles are the code's
  (`KindsAssumption`, `BackendsAssumption`, `ProfilesAssumption`); rows are
  numbered by their order (`RowsAssumption`);
- sources are counted per resolver (`SourcesAssumption`), manifests have one of
  four essence outcomes and signature records as the code builds them
  (`ManifestsAssumption`), locators one of three modes (`LocatorsAssumption`),
  the registry is offered a list of keys (`OfferedKeysAssumption`);
- manifest keys of equal manifests have equal short ids, and policies are legal and
  listed (`ItemsAssumption`); the profile is legal (`ProfileAssumption`) and its
  ladder of precisions a non-empty list (`LadderAssumption`);
- the fields of a watermark have widths, and polynomial, preambles and record
  version are bits (`FieldAssumption`, `RatelessAssumption`, which also says
  that a mask has the profile's weight and that there is an unknown for each bit of a
  full pointer); strengths are legal, with a step of one where a bit is a pixel's lowest, and
  locators have pointers of their mode (`ProfileAssumption`, `LocatorsAssumption`);
  capacity and number of tiles are numbers (`SizesAssumption`);
- a payload's length fits the length field, or else `int_to_bits` raises
  (`LengthAssumption`); no two payloads of a mode are, with their checksums, at most
  two bits apart (`DistanceAssumption`: CRC-16-CCITT has this distance up to 32,767
  bits, and a payload has at most 200; TLC computes it for the instance's
  polynomial).

### Only model-checked

Liveness (`AnchorBecomesVisible`, `VerdictReached`) is out of the prover's reach.
Every safety property of a passing run is the statement of a theorem.

## 6. Assumptions of the models

- Hashes are terms: injective on what is modelled, short ids apart, which
  collide as the instance says. Random transaction hashes and job identifiers are
  fresh. A signature is a term of its key and message and verifies for nothing
  else.
- Opening for writing truncates at once; a write of a whole text is one step. A
  reader can thus see the empty file and not a part of the text; for the readers
  here, which parse JSON or decode CBOR or PNG, a part fails as the empty file
  does. The exceptions are `manifest_key.txt`, `storage_uri.txt` and
  `profile.txt`, where a torn file reads as an empty string: this is modelled.
- A rename is atomic. A crash keeps what was written before it (no loss of the
  page cache).
- In `JobService` a job has one run of `sign_and_embed`, as in the code, where
  every POST makes a new job.
- `Short64Index` holds one bucket, and a row is identified by its manifest key
  and document, so rows are numbers in that order.
- Statuses and verdicts are the strings of the code: the sets that name them list the statuses the code has.

## 7. Not modelled

- Pixel transforms (DCT, colour space, the order of blocks), and essence hashing:
  numerical computations. A carrier is a sequence of coefficients, and the outcome
  of the essence check is an input (`VerdictsFor`, `core.essence`).
- HDC encoders and vectors: the hypervector of an artifact is an input.
- Canonical encoding and the manifest codec: a document is a manifest or a fault.
  Of signatures: key generation and encodings, certificate chains, the metadata
  of a record, and the randomness of ECDSA.
- Sparse Merkle `delete`, which no index calls.
- The ASI HTTP client, whose publication raises; key status, trust bundles and
  namespaces (`trust/models.py`): tables without interaction; the privacy relay,
  which passes queries on.
- The embedded resolver in front of a SHORT64 lookup.
- `BlockfrostCardanoBackend`, `RealArweaveStore`, `RealIPFSStore`: remote
  services, or stubs that raise.
- C2PA adapter, benchmarks, command line, HTML, middleware that bounds uploads:
  no state of their own.
- Read-only endpoints (`list_jobs`, `get_job`, files) and `verify_uploaded`,
  which works in a directory of its own per upload.
- `run_poc`, `run_demo`, `embed_only`, `inspect_artifact`: sequences of the
  modelled calls in one process.

## 8. Plan

Built, in this order: anchor directory, stores, pipeline and web service, file
index, verification; then the sparse Merkle map, routing and trust backends with
their composition `RouteService`, the solver, the watermark layers, and
signatures.

What is left:

1. An authenticated resolver behind a composite that goes on after a proof
   failure.
2. A job directory that is signed again while it is anchored, which only the
   pipeline's own callers can do.
3. Trust bundles: the status of a key over time, and namespaces.
